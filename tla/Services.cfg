\* Fourteen components side by side: see MCServices for what each constant is of.
SPECIFICATION ServicesSpec
CONSTANTS
    Executors = {x1, x2}
    MaxRequests = 4
    MaxKilled = 2
    LastTarget = 2
    MaxRetries = 2
    MaxCloseouts = 2
    Agents = {a1, a2}
    Files = {f1, f2}
    ClaimTimeout = 1
    MaxTime = 3
    Nobody = Nobody
    CodeFiles = {g1}
    Texts = {v1, v2}
    Absent = Absent
    Broken = Broken
    MaxCodeRuns = 3
    Indexers = {n1, n2}
    DocFiles = {d1, d2}
    Blank = {d2}
    MaxPerRun = 1
    MaxEdition = 2
    MaxIndexRuns = 2
    Ingesters = {i1, i2}
    MaxHealth = 2
    MaxScan = 1
    MaxSignature = 1
    MaxEvents = 3
    MaxFaults = 1
    Correlations = {c1}
    MaxDepth = 2
    MaxDispatches = 6
    MaxStops = 1
    Packs = {"p1", "p2"}
    PackTools = {"t1", "t2", "t3"}
    ToolsOf <- MCToolsOf
    HighRisk = {"p2"}
    HotReload = HotReload
    NoOne = NoOne
    MaxAttempts = 2
    LockoutDuration = 4
    TicksPerSecond = 2
    MaxClock = 9
    MaxKills = 2
    Repairs = {s1, s2}
    HealCooldown = 2
    MaxHealClock = 5
    MaxSessions = 2
    MaxCreates = 4
    Workers = {w1, w2}
    Tasks = {t1, t2}
    Urgent = {t1}
    Nothing = Nothing
    Routers = {r1, r2}
    Limit = 2
    MaxTokens = 2
    MaxCalls = 3
    MaxStarts = 2
    MaxUnseen = 1
    MaxDay = 1
    PlanLength = 3
INVARIANTS
    ServicesTypeOK
    AuditAccounted
    ForksBounded
    FailuresVisible
    ClaimsExclusive
    HealthAtLeastOnce
    RecordedIsIndexed
    PassedByIsIndexed
    ScansAtMostOnce
    NestingBounded
    LevelsAccounted
    InstalledFound
    EarlyTriesAccounted
    EveryShellIsOwned
    ShellsBounded
    GrantsBounded
    DayWithinLimit
    LimitPerStart
    CompletedIsClosed
    CompleteMeansAll
PROPERTIES
    CloseoutEnds
    HealthCaughtUp
    OwnersKept
    CooldownHeld
CHECK_DEADLOCK FALSE
