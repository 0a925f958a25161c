---------------------------- MODULE BridgeProofs ----------------------------
(***************************************************************************)
(* Proofs about services of the MCP bridge: the shells of its sessions,    *)
(* the lockout of the PIN, the tool packs it installs and the daily limit  *)
(* of tokens that its router keeps.                                        *)
(***************************************************************************)
EXTENDS ShellSessions, PinLockout, PackMarketplace, TokenBudget, TLAPS, FiniteSetTheorems

----------------------------------------------------------------------------
(* Shell sessions (ai/shell_service.py).                                    *)

\* Why a running shell is never lost: an id is given out once.
ShellInv ==
    /\ ShellTypeOK
    /\ EveryShellIsOwned
    /\ ShellsBounded
    /\ \A s \in Sessions : s > creates => shell[s] = "none"

LEMMA FiniteSessions ==
    ASSUME NEW S \in SUBSET Sessions
    PROVE  IsFiniteSet(S) /\ Cardinality(S) \in Nat
  <1>1. IsFiniteSet(Sessions)
    BY FS_Interval, MaxSessionsAssumption DEF Sessions
  <1>2. QED
    BY <1>1, FS_Subset, FS_CardinalityType

(* A limit holds of fewer shells.                                           *)
LEMMA FewerShells ==
    ASSUME ShellsBounded, With("running")' \subseteq With("running")
    PROVE  ShellsBounded'
  <1>1. With("running") \in SUBSET Sessions /\ With("running")' \in SUBSET Sessions
    BY DEF With
  <1>2. Cardinality(With("running")') <= Cardinality(With("running"))
    BY <1>1, FiniteSessions, FS_Subset
  <1>3. Cardinality(With("running")') \in Nat /\ Cardinality(With("running")) \in Nat
    BY <1>1, FiniteSessions
  <1>4. QED
    BY <1>2, <1>3, MaxSessionsAssumption DEF ShellsBounded

LEMMA ShellStep ==
    ASSUME ShellInv, [ShellNext]_shellVars
    PROVE  ShellInv'
  <1>1. ShellTypeOK /\ EveryShellIsOwned /\ ShellsBounded
    BY DEF ShellInv
  <1>2. creates \in 0..MaxCreates /\ MaxCreates \in Nat
        /\ \A s \in Sessions : s \in Nat /\ (s > creates => shell[s] = "none")
    BY MaxSessionsAssumption DEF ShellInv, ShellTypeOK, Sessions
  <1>3. Reaped \in [Sessions -> {"none", "running", "stopping", "zombie", "gone"}]
        /\ \A s \in Sessions : /\ Reaped[s] = "running" <=> shell[s] = "running"
                               /\ Reaped[s] = "none" <=> shell[s] = "none"
    BY <1>1 DEF Reaped, ShellTypeOK
  <1>4. CASE CreateSession
    <2>1. PICK n \in Sessions : n = creates + 1 /\ creates' = n
      BY <1>2, <1>4 DEF CreateSession, Sessions
    <2>2. /\ status' = [status EXCEPT ![n] = "active"]
          /\ pids' = pids \cup {n}
          /\ shell' = [Reaped EXCEPT ![n] = "running"]
          /\ savedIds' \subseteq Sessions
      BY <1>1, <1>4, <2>1 DEF CreateSession, Save, ShellTypeOK
    <2>3. ShellTypeOK'
      BY <1>1, <1>2, <1>3, <2>1, <2>2 DEF ShellTypeOK, Sessions
    <2>4. EveryShellIsOwned'
      BY <1>1, <1>3, <2>2 DEF EveryShellIsOwned, With, ShellTypeOK
    <2>5. ShellsBounded'
      <3>1. With("running")' = With("running") \cup {n}
        BY <1>3, <2>2 DEF With
      <3>2. With("running") \subseteq Known /\ Known \in SUBSET Sessions
        BY <1>1 DEF EveryShellIsOwned, With, Known
      <3>3. Cardinality(With("running")) <= Cardinality(Known)
            /\ IsFiniteSet(With("running"))
            /\ Cardinality(With("running")) \in Nat /\ Cardinality(Known) \in Nat
        BY <3>2, FiniteSessions, FS_Subset
      <3>4. Cardinality(With("running")') <= Cardinality(With("running")) + 1
            /\ Cardinality(With("running")') \in Nat
        <4>1. Cardinality(With("running") \cup {n})
                = IF n \in With("running") THEN Cardinality(With("running"))
                  ELSE Cardinality(With("running")) + 1
          BY <3>3, FS_AddElement
        <4>2. QED
          BY <3>1, <3>3, <4>1
      <3>5. Cardinality(Known) < MaxSessions
        BY <1>4 DEF CreateSession, HasRoom
      <3>6. QED
        BY <3>3, <3>4, <3>5, MaxSessionsAssumption DEF ShellsBounded
    <2>6. \A s \in Sessions : s > creates' => shell'[s] = "none"
      BY <1>2, <1>3, <2>1, <2>2
    <2>7. QED
      BY <2>3, <2>4, <2>5, <2>6 DEF ShellInv
  <1>5. CASE CreateFails
    <2>1. PICK n \in Sessions : n = creates + 1 /\ creates' = n
      BY <1>2, <1>5 DEF CreateFails, Sessions
    <2>2. /\ status' = [status EXCEPT ![n] = "error"] /\ pids' = pids
          /\ shell' = Reaped /\ savedIds' \subseteq Sessions
      BY <1>1, <1>5, <2>1 DEF CreateFails, Save, ShellTypeOK
    <2>3. ShellTypeOK'
      BY <1>1, <1>2, <1>3, <2>1, <2>2 DEF ShellTypeOK, Sessions
    <2>4. shell[n] = "none"
      BY <1>2, <2>1
    <2>5. EveryShellIsOwned' /\ With("running")' \subseteq With("running")
      BY <1>1, <1>3, <2>2, <2>4 DEF EveryShellIsOwned, With, ShellTypeOK
    <2>6. \A s \in Sessions : s > creates' => shell'[s] = "none"
      BY <1>2, <1>3, <2>1, <2>2
    <2>7. QED
      BY <1>1, <2>3, <2>5, <2>6, FewerShells DEF ShellInv
  <1>6. ASSUME creates' \in {creates, creates + 1}, creates' \in 0..MaxCreates,
               savedIds' \subseteq Sessions, pids' \subseteq pids,
               status' \in [Sessions -> {"none", "active", "disconnected", "error"}],
               shell' \in [Sessions -> {"none", "running", "stopping", "zombie", "gone"}],
               \A s \in Sessions : /\ shell'[s] = "none" <=> shell[s] = "none"
                                   /\ shell'[s] = "running" =>
                                        /\ shell[s] = "running"
                                        /\ status[s] = "active" /\ s \in pids =>
                                               status'[s] = "active" /\ s \in pids'
        PROVE  ShellInv'
    <2>1. ShellTypeOK'
      BY <1>1, <1>6 DEF ShellTypeOK
    <2>2. With("running")' \subseteq With("running") /\ EveryShellIsOwned'
      BY <1>1, <1>6 DEF With, EveryShellIsOwned
    <2>3. \A s \in Sessions : s > creates' => shell'[s] = "none"
      BY <1>2, <1>6
    <2>4. QED
      BY <1>1, <2>1, <2>2, <2>3, FewerShells DEF ShellInv
  <1>7. \A s \in Sessions : /\ LiveStatus(s) \in {"none", "active", "disconnected", "error"}
                            /\ shell[s] = "running" => LiveStatus(s) = status[s]
    BY <1>1 DEF LiveStatus, Alive, ShellTypeOK
  <1>8. CASE CreateRefused
    BY <1>1, <1>2, <1>6, <1>8 DEF CreateRefused, ShellTypeOK
  <1>9. CASE ListSessions
    BY <1>1, <1>2, <1>6, <1>7, <1>9 DEF ListSessions, Save, ShellTypeOK
  <1>10. ASSUME NEW s \in Sessions, GetSession(s)
         PROVE  ShellInv'
    BY <1>1, <1>2, <1>6, <1>7, <1>10 DEF GetSession, Save, ShellTypeOK
  <1>11. ASSUME NEW s \in Sessions, ExecuteCommand(s)
         PROVE  ShellInv'
    BY <1>1, <1>2, <1>3, <1>6, <1>11 DEF ExecuteCommand, Save, ShellTypeOK
  <1>12. ASSUME NEW s \in Sessions, TerminateSession(s)
         PROVE  ShellInv'
    <2>1. /\ status' = [status EXCEPT ![s] = "disconnected"]
          /\ pids' = pids \ {s} /\ creates' = creates /\ savedIds' \subseteq Sessions
          /\ shell' = IF s \in pids /\ status[s] = "active" /\ shell[s] = "running"
                      THEN [shell EXCEPT ![s] = "stopping"] ELSE shell
      BY <1>1, <1>12 DEF TerminateSession, Save, ShellTypeOK
    <2>2. shell'[s] # "running"
      BY <1>1, <2>1 DEF EveryShellIsOwned, With, ShellTypeOK
    <2>3. shell' \in [Sessions -> {"none", "running", "stopping", "zombie", "gone"}]
          /\ \A q \in Sessions : q # s => shell'[q] = shell[q]
          /\ (shell'[s] = "none" <=> shell[s] = "none")
      BY <1>1, <2>1 DEF ShellTypeOK
    <2>4. QED
      BY <1>1, <1>2, <1>6, <2>1, <2>2, <2>3 DEF ShellTypeOK
  <1>13. ASSUME NEW s \in Sessions, ShellExits(s)
         PROVE  ShellInv'
    BY <1>1, <1>2, <1>6, <1>13 DEF ShellExits, ShellTypeOK
  <1>14. CASE BridgeRestarts
    <2>1. \A s \in Sessions :
            /\ shell'[s] # "running"
            /\ shell'[s] = "none" <=> shell[s] = "none"
            /\ shell'[s] \in {"none", "stopping", "zombie", "gone"}
      BY <1>1, <1>14 DEF BridgeRestarts, ShellTypeOK
    <2>2. /\ status' \in [Sessions -> {"none", "active", "disconnected", "error"}]
          /\ pids' = {} /\ UNCHANGED <<savedIds, creates>>
          /\ shell' \in [Sessions -> {"none", "running", "stopping", "zombie", "gone"}]
      BY <1>14, <2>1 DEF BridgeRestarts
    <2>3. QED
      BY <1>1, <1>2, <1>6, <2>1, <2>2 DEF ShellTypeOK
  <1>15. CASE UNCHANGED shellVars
    BY <1>1, <1>2, <1>6, <1>15 DEF shellVars, ShellTypeOK
  <1>16. QED
    BY <1>4, <1>5, <1>8, <1>9, <1>10, <1>11, <1>12, <1>13, <1>14, <1>15 DEF ShellNext

(* For any limit and any number of calls: no running shell is orphaned, and *)
(* no more of them run than the limit.                                      *)
THEOREM ShellsAreOwned == ShellSpec => [](ShellTypeOK /\ EveryShellIsOwned /\ ShellsBounded)
  <1>1. ShellInit => ShellInv
    <2> SUFFICES ASSUME ShellInit PROVE ShellInv
      OBVIOUS
    <2>1. ShellTypeOK
      BY MaxSessionsAssumption DEF ShellInit, ShellTypeOK
    <2>2. With("running") = {}
      BY DEF ShellInit, With
    <2>3. Cardinality({}) = 0
      BY FS_EmptySet
    <2>4. EveryShellIsOwned
      BY <2>2 DEF EveryShellIsOwned
    <2>5. ShellsBounded
      BY <2>2, <2>3, MaxSessionsAssumption DEF ShellsBounded
    <2>6. \A s \in Sessions : shell[s] = "none"
      BY DEF ShellInit
    <2>7. QED
      BY <2>1, <2>4, <2>5, <2>6 DEF ShellInv
  <1>2. ShellInv /\ [ShellNext]_shellVars => ShellInv'
    BY ShellStep
  <1>3. ShellInv => ShellTypeOK /\ EveryShellIsOwned /\ ShellsBounded
    BY DEF ShellInv
  <1>4. QED
    BY <1>1, <1>2, <1>3, PTL DEF ShellSpec

----------------------------------------------------------------------------
(* The lockout of the PIN (ai/settings_service.py).                         *)

\* Wrong PINs compared that no write has recorded, and a lockout not written.
Unrecorded == wrong - (IF attempts < MaxAttempts THEN attempts ELSE MaxAttempts)
Unlocked == attempts >= MaxAttempts /\ lockedUntil + TicksPerSecond <= lastWrong + LockoutDuration

\* Each PIN compared early, now or when it comes, was paid for by a kill.
PinInv ==
    /\ PinTypeOK
    /\ pin # "set" => wrong = 0 /\ attempts = 0
    /\ Unrecorded >= 0
    /\ early + Unrecorded + (IF Unlocked THEN 1 ELSE 0) <= kills

(* The stored end of a lockout is less than a second early.                 *)
LEMMA LessThanASecond ==
    ASSUME NEW t \in Nat
    PROVE  WholeSeconds(t) \in Nat /\ WholeSeconds(t) + TicksPerSecond > t
  <1>1. TicksPerSecond \in Nat /\ TicksPerSecond > 0
    BY PinAssumption
  <1>2. t % TicksPerSecond \in Nat /\ t % TicksPerSecond < TicksPerSecond
    BY <1>1
  <1>3. t % TicksPerSecond <= t
    BY <1>1
  <1>4. QED
    BY <1>1, <1>2, <1>3 DEF WholeSeconds

LEMMA PinStep ==
    ASSUME PinInv, [PinNext]_pinVars
    PROVE  PinInv'
  <1>1. /\ attempts \in 0..(MaxAttempts + 1) /\ wrong \in 0..MaxAttempts
        /\ lockedUntil \in Nat /\ now \in Nat /\ lastWrong \in Nat
        /\ early \in Nat /\ kills \in Nat /\ pin \in {"unset", "half", "set"}
    BY DEF PinInv, PinTypeOK
  <1>2. MaxAttempts \in Nat /\ MaxAttempts > 0 /\ TicksPerSecond \in Nat
        /\ TicksPerSecond > 0 /\ LockoutDuration \in Nat
    BY PinAssumption
  <1>3. ASSUME WrongCompared
        PROVE  /\ pin = "set" /\ lockedUntil <= now
               /\ wrong' = (IF wrong < MaxAttempts THEN wrong + 1 ELSE wrong)
               /\ lastWrong' = now
               /\ early' = early + (IF MustWait THEN 1 ELSE 0)
               /\ early' \in {early, early + 1}
    BY <1>1, <1>3 DEF WrongCompared, Compared, IsLocked, MustWait
  <1>4. ASSUME WrongCompared, Unlocked' => kills' = kills + 1,
               attempts' \in {attempts, OneMore}, attempts' = attempts => kills' = kills + 1,
               kills' \in {kills, kills + 1}, pin' = pin
        PROVE  /\ pin' # "set" => wrong' = 0 /\ attempts' = 0
               /\ Unrecorded' >= 0
               /\ early' + Unrecorded' + (IF Unlocked' THEN 1 ELSE 0) <= kills'
    <2>1. /\ Unrecorded >= 0
          /\ early + Unrecorded + (IF Unlocked THEN 1 ELSE 0) <= kills
      BY DEF PinInv
    <2>2. MustWait => wrong = MaxAttempts /\ (attempts >= MaxAttempts => Unlocked)
      BY <1>1, <1>2, <1>3, <1>4 DEF MustWait, Unlocked
    <2>3. /\ Unrecorded' >= 0
          /\ (IF MustWait THEN 1 ELSE 0) + Unrecorded' + (IF Unlocked' THEN 1 ELSE 0)
               <= Unrecorded + (IF Unlocked THEN 1 ELSE 0) + (kills' - kills)
      <3>1. CASE attempts' = attempts
        BY <1>1, <1>2, <1>3, <1>4, <2>1, <2>2, <3>1 DEF Unrecorded, Unlocked
      <3>2. CASE attempts' = OneMore
        BY <1>1, <1>2, <1>3, <1>4, <2>1, <2>2, <3>2 DEF Unrecorded, Unlocked, OneMore
      <3>3. QED
        BY <1>4, <3>1, <3>2
    <2>4. /\ Unrecorded \in Int /\ Unrecorded' \in Int /\ kills' \in Nat
          /\ early' \in Nat
      BY <1>1, <1>2, <1>3, <1>4 DEF Unrecorded, OneMore
    <2>5. pin' = "set" /\ Unrecorded' >= 0
      BY <1>3, <1>4, <2>3
    <2>6. early' = early + (IF MustWait THEN 1 ELSE 0)
      BY <1>3, <1>4
    <2>7. PICK m \in {0, 1}, u \in {0, 1}, v \in {0, 1} :
            /\ m = (IF MustWait THEN 1 ELSE 0)
            /\ u = (IF Unlocked THEN 1 ELSE 0)
            /\ v = (IF Unlocked' THEN 1 ELSE 0)
      OBVIOUS
    <2>8. early + Unrecorded + u <= kills /\ early' = early + m
          /\ m + Unrecorded' + v <= Unrecorded + u + (kills' - kills)
          /\ m \in Int /\ u \in Int /\ v \in Int
      BY <2>1, <2>3, <2>6, <2>7
    <2>9. early' + Unrecorded' + (IF Unlocked' THEN 1 ELSE 0) <= kills'
      <3>1. PICK e \in Int, f \in Int, r \in Int, q \in Int, k \in Int, l \in Int :
              /\ e = early /\ f = early' /\ r = Unrecorded /\ q = Unrecorded'
              /\ k = kills /\ l = kills'
        BY <1>1, <2>4
      <3>2. e + r + u <= k /\ f = e + m /\ m + q + v <= r + u + (l - k)
            /\ m \in Int /\ u \in Int /\ v \in Int
        BY <2>8, <3>1
      <3>3. f + q + v <= l
        BY <3>2
      <3>4. QED
        BY <2>7, <3>1, <3>3
    <2>10. QED
      BY <2>5, <2>9
  <1>5. CASE WrongPin
    <2>1. WholeSeconds(now + LockoutDuration) \in Nat
          /\ WholeSeconds(now + LockoutDuration) + TicksPerSecond > now + LockoutDuration
      BY <1>1, <1>2, LessThanASecond
    <2>2. WrongCompared /\ attempts' = OneMore /\ pin' = pin /\ kills' = kills
          /\ lockedUntil' = (IF attempts' >= MaxAttempts
                             THEN WholeSeconds(now + LockoutDuration) ELSE lockedUntil)
      BY <1>5 DEF WrongPin, LimitReached
    <2>3. ~Unlocked'
      BY <1>1, <1>2, <1>3, <2>1, <2>2 DEF Unlocked
    <2>4. PinTypeOK'
      <3>1. lockedUntil' \in Nat
        BY <1>1, <2>1, <2>2
      <3>2. attempts' \in 0..(MaxAttempts + 1) /\ wrong' \in 0..MaxAttempts
        BY <1>1, <1>2, <1>3, <2>2 DEF OneMore
      <3>3. early' \in Nat /\ lastWrong' \in Nat /\ kills' \in Nat /\ now' \in Nat
        BY <1>1, <1>3, <1>5, <2>2 DEF WrongPin
      <3>4. QED
        BY <1>1, <2>2, <3>1, <3>2, <3>3 DEF PinTypeOK
    <2>5. attempts' # attempts \/ attempts = MaxAttempts + 1
      BY <1>1, <1>2, <2>2 DEF OneMore
    <2>6. QED
      BY <1>1, <1>2, <1>3, <2>1, <2>2, <2>3, <2>4, <2>5 DEF PinInv, Unrecorded, Unlocked, OneMore, MustWait
  <1>6. CASE WrongPinKilled
    <2>1. WrongCompared /\ kills' = kills + 1 /\ attempts' \in {attempts, OneMore}
          /\ pin' = pin /\ lockedUntil' = lockedUntil
      BY <1>6 DEF WrongPinKilled, Kill
    <2>2. PinTypeOK'
      <3>1. attempts' \in 0..(MaxAttempts + 1) /\ wrong' \in 0..MaxAttempts
        BY <1>1, <1>2, <1>3, <2>1 DEF OneMore
      <3>2. early' \in Nat /\ lastWrong' \in Nat /\ kills' \in Nat /\ now' \in Nat
        BY <1>1, <1>3, <1>6, <2>1 DEF WrongPinKilled
      <3>3. QED
        BY <1>1, <2>1, <3>1, <3>2 DEF PinTypeOK
    <2>3. QED
      BY <1>4, <2>1, <2>2 DEF PinInv
  <1>7. CASE SetupPin
    BY <1>1, <1>2, <1>7 DEF SetupPin, PinInv, PinTypeOK, Unrecorded, Unlocked
  <1>8. CASE SetupKilled
    BY <1>1, <1>2, <1>8 DEF SetupKilled, Kill, PinInv, PinTypeOK, Unrecorded, Unlocked
  <1>9. CASE RightPin
    BY <1>1, <1>2, <1>9 DEF RightPin, Compared, PinInv, PinTypeOK, Unrecorded, Unlocked
  <1>10. CASE PinTick
    BY <1>1, <1>10 DEF PinTick, PinInv, PinTypeOK, Unrecorded, Unlocked
  <1>11. CASE UNCHANGED pinVars
    BY <1>11 DEF pinVars, PinInv, PinTypeOK, Unrecorded, Unlocked
  <1>12. QED
    BY <1>5, <1>6, <1>7, <1>8, <1>9, <1>10, <1>11 DEF PinNext

(* For any limit, any duration and any number of kills: no more PINs are    *)
(* compared inside a lockout than the bridge was killed.                    *)
THEOREM LockoutHolds == PinSpec => [](PinTypeOK /\ EarlyTriesAccounted)
  <1>1. PinInit => PinInv
    BY PinAssumption DEF PinInit, PinInv, PinTypeOK, Unrecorded, Unlocked
  <1>2. PinInv /\ [PinNext]_pinVars => PinInv'
    BY PinStep
  <1>3. PinInv => PinTypeOK /\ EarlyTriesAccounted
    BY PinAssumption DEF PinInv, PinTypeOK, EarlyTriesAccounted, Unrecorded
  <1>4. QED
    BY <1>1, <1>2, <1>3, PTL DEF PinSpec

----------------------------------------------------------------------------
(* Tool packs (ai/mcp_bridge/marketplace).                                  *)

\* Why an owner is kept: in a loaded registry the allowlist and the sources
\* of the tools agree, so a tool with an entry is never free to take.
PacksInv ==
    /\ PacksTypeOK
    /\ InstalledFound
    /\ ~uneven => \A t \in PackTools :
                     /\ source[t] \in Packs => listed[t] = source[t]
                     /\ loaded /\ listed[t] # NoOne => source[t] # NoOne

LEMMA PacksTypes ==
    ASSUME PacksTypeOK, [PacksNext]_packVars
    PROVE  PacksTypeOK'
  <1> DEFINE States == {"none", "staged", "validated", "installed", "disabled", "removed"}
  <1>1. /\ packState \in [Packs -> States]
        /\ dirs \in [Packs -> SUBSET {"staging", "installed"}]
        /\ source \in [PackTools -> Packs \cup {HotReload, NoOne}]
        /\ listed \in [PackTools -> Packs \cup {NoOne}]
        /\ asked \subseteq HighRisk
        /\ loaded \in BOOLEAN /\ uneven \in BOOLEAN
    BY DEF PacksTypeOK
  <1>2. \A p \in Packs, st \in States : [packState EXCEPT ![p] = st] \in [Packs -> States]
    BY <1>1
  <1>3. \A p \in Packs : /\ Registered(p) \in [PackTools -> Packs \cup {HotReload, NoOne}]
                         /\ ListedFor(p) \in [PackTools -> Packs \cup {NoOne}]
                         /\ Moved(p) \in [Packs -> SUBSET {"staging", "installed"}]
    BY <1>1 DEF Registered, ListedFor, Moved
  <1> HIDE DEF States
  <1>4. ASSUME packState' \in [Packs -> States],
               dirs' \in [Packs -> SUBSET {"staging", "installed"}],
               source' \in [PackTools -> Packs \cup {HotReload, NoOne}],
               listed' \in [PackTools -> Packs \cup {NoOne}],
               asked' \subseteq HighRisk, loaded' \in BOOLEAN, uneven' \in BOOLEAN
        PROVE  PacksTypeOK'
    BY <1>4 DEF PacksTypeOK, States
  <1>5. {"staged", "validated", "installed", "disabled", "removed"} \subseteq States
    BY DEF States
  <1>6. ASSUME NEW p \in Packs, StagePack(p)
        PROVE  PacksTypeOK'
    <2>1. dirs' \in [Packs -> SUBSET {"staging", "installed"}]
      BY <1>1, <1>6 DEF StagePack
    <2>2. packState' \in [Packs -> States]
      BY <1>2, <1>5, <1>6 DEF StagePack, Become
    <2>3. QED
      BY <1>1, <1>4, <1>6, <2>1, <2>2 DEF StagePack
  <1>7. ASSUME NEW p \in Packs, ValidatePack(p)
        PROVE  PacksTypeOK'
    BY <1>1, <1>2, <1>4, <1>5, <1>7 DEF ValidatePack, Become
  <1>8. ASSUME NEW p \in Packs, RequestApproval(p)
        PROVE  PacksTypeOK'
    BY <1>1, <1>4, <1>8 DEF RequestApproval
  <1>9. ASSUME NEW p \in Packs, InstallPack(p)
        PROVE  PacksTypeOK'
    BY <1>1, <1>2, <1>3, <1>4, <1>5, <1>9 DEF InstallPack, Installing, Become
  <1>10. ASSUME NEW p \in Packs, InstallFails(p)
         PROVE  PacksTypeOK'
    BY <1>1, <1>3, <1>4, <1>10 DEF InstallFails
  <1>11. ASSUME NEW p \in Packs, InstallKilled(p)
         PROVE  PacksTypeOK'
    BY <1>1, <1>3, <1>4, <1>11 DEF InstallKilled, Installing, Stopped
  <1>12. ASSUME NEW p \in Packs, RemovePack(p)
         PROVE  PacksTypeOK'
    BY <1>1, <1>2, <1>4, <1>5, <1>12 DEF RemovePack, Become
  <1>13. ASSUME NEW p \in Packs, DisablePack(p)
         PROVE  PacksTypeOK'
    BY <1>1, <1>2, <1>4, <1>5, <1>13 DEF DisablePack, Become
  <1>14. CASE ReloadAllowlist
    BY <1>1, <1>4, <1>14 DEF ReloadAllowlist
  <1>15. CASE BridgeStops
    BY <1>1, <1>4, <1>15 DEF BridgeStops, Stopped
  <1>16. CASE UNCHANGED packVars
    BY <1>1, <1>4, <1>16 DEF packVars
  <1>17. QED
    BY <1>6, <1>7, <1>8, <1>9, <1>10, <1>11, <1>12, <1>13, <1>14, <1>15, <1>16
       DEF PacksNext

LEMMA PacksFound ==
    ASSUME PacksTypeOK, InstalledFound, [PacksNext]_packVars
    PROVE  InstalledFound'
  <1>1. /\ DOMAIN packState = Packs /\ DOMAIN dirs = Packs
        /\ packState = [p \in Packs |-> packState[p]] /\ dirs = [p \in Packs |-> dirs[p]]
    BY DEF PacksTypeOK
  <1>2. ASSUME NEW p \in Packs, \A q \in Packs \ {p} : packState'[q] = packState[q] /\ dirs'[q] = dirs[q],
               packState'[p] \in {"installed", "disabled"} => "installed" \in dirs'[p]
        PROVE  InstalledFound'
    BY <1>2 DEF InstalledFound, Found
  <1>3. ASSUME NEW p \in Packs, StagePack(p)
        PROVE  InstalledFound'
    BY <1>1, <1>2, <1>3 DEF StagePack, Become
  <1>4. ASSUME NEW p \in Packs, ValidatePack(p)
        PROVE  InstalledFound'
    BY <1>1, <1>2, <1>4 DEF ValidatePack, Become
  <1>5. ASSUME NEW p \in Packs, RequestApproval(p) \/ InstallFails(p)
        PROVE  InstalledFound'
    BY <1>5 DEF RequestApproval, InstallFails, InstalledFound, Found
  <1>6. ASSUME NEW p \in Packs, InstallPack(p)
        PROVE  InstalledFound'
    <2>1. CanInstall(p) /\ packState' = [packState EXCEPT ![p] = "installed"] /\ dirs' = Moved(p)
      BY <1>6 DEF InstallPack, Installing, Become
    <2>2. "installed" \in dirs'[p]
      BY <1>1, <2>1 DEF CanInstall, Found, Moved
    <2>3. \A q \in Packs \ {p} : packState'[q] = packState[q] /\ dirs'[q] = dirs[q]
      BY <1>1, <2>1 DEF Moved
    <2>4. QED
      BY <1>2, <2>2, <2>3
  <1>7. ASSUME NEW p \in Packs, InstallKilled(p)
        PROVE  InstalledFound'
    <2>1. CanInstall(p) /\ packState' = packState /\ dirs' \in {dirs, Moved(p)}
      BY <1>7 DEF InstallKilled, Installing
    <2>2. \A q \in Packs : packState[q] \in {"installed", "disabled"} => dirs'[q] = dirs[q]
      BY <1>1, <2>1 DEF Moved
    <2>3. QED
      BY <2>1, <2>2 DEF InstalledFound, Found
  <1>8. ASSUME NEW p \in Packs, RemovePack(p)
        PROVE  InstalledFound'
    BY <1>1, <1>2, <1>8 DEF RemovePack, Become
  <1>9. ASSUME NEW p \in Packs, DisablePack(p)
        PROVE  InstalledFound'
    BY <1>1, <1>2, <1>9 DEF DisablePack, Become, Found
  <1>10. CASE ReloadAllowlist \/ BridgeStops \/ UNCHANGED packVars
    BY <1>10 DEF ReloadAllowlist, BridgeStops, packVars, InstalledFound, Found
  <1>11. QED
    BY <1>3, <1>4, <1>5, <1>6, <1>7, <1>8, <1>9, <1>10 DEF PacksNext

LEMMA PacksAgree ==
    ASSUME PacksInv, [PacksNext]_packVars, ~uneven', NEW t \in PackTools
    PROVE  /\ source'[t] \in Packs => listed'[t] = source'[t]
           /\ loaded' /\ listed'[t] # NoOne => source'[t] # NoOne
  <1>1. /\ source = [x \in PackTools |-> source[x]] /\ listed = [x \in PackTools |-> listed[x]]
        /\ uneven \in BOOLEAN /\ loaded \in BOOLEAN
    BY DEF PacksInv, PacksTypeOK
  <1>2. ~uneven => /\ source[t] \in Packs => listed[t] = source[t]
                   /\ loaded /\ listed[t] # NoOne => source[t] # NoOne
    BY DEF PacksInv
  <1>3. NoOne \notin Packs /\ HotReload \notin Packs /\ NoOne # HotReload
    BY PacksAssumption
  <1>4. CASE UNCHANGED <<source, listed, loaded, uneven>>
    BY <1>2, <1>4
  <1>5. ASSUME NEW p \in Packs, InstallPack(p)
        PROVE  /\ source'[t] \in Packs => listed'[t] = source'[t]
               /\ loaded' /\ listed'[t] # NoOne => source'[t] # NoOne
    <2>1. ~uneven /\ source' = Registered(p) /\ listed' = ListedFor(p) /\ loaded' = loaded
      BY <1>1, <1>5 DEF InstallPack, Installing
    <2>2. QED
      BY <1>1, <1>2, <1>3, <2>1 DEF Registered, ListedFor
  <1>6. ASSUME NEW p \in Packs, InstallFails(p)
        PROVE  FALSE
    BY <1>6 DEF InstallFails
  <1>7. ASSUME source'[t] = NoOne, loaded' = FALSE
        PROVE  /\ source'[t] \in Packs => listed'[t] = source'[t]
               /\ loaded' /\ listed'[t] # NoOne => source'[t] # NoOne
    BY <1>3, <1>7
  <1>8. ASSUME Stopped
        PROVE  source'[t] = NoOne /\ loaded' = FALSE
    BY <1>8 DEF Stopped
  <1>9. ASSUME NEW p \in Packs, RemovePack(p)
        PROVE  /\ source'[t] \in Packs => listed'[t] = source'[t]
               /\ loaded' /\ listed'[t] # NoOne => source'[t] # NoOne
    <2>1. /\ ~uneven /\ loaded' = loaded
          /\ source' = [x \in PackTools |-> IF x \in RegisteredBy(p) THEN NoOne ELSE source[x]]
          /\ listed' = [x \in PackTools |-> IF x \in EntriesOf(p) THEN NoOne ELSE listed[x]]
      BY <1>9 DEF RemovePack
    <2>2. QED
      BY <1>2, <1>3, <2>1 DEF RegisteredBy, EntriesOf
  <1>10. CASE ReloadAllowlist
    <2>1. uneven' = uneven /\ listed' = listed
          /\ source'[t] = (IF listed[t] = NoOne THEN NoOne
                           ELSE IF source[t] = NoOne THEN HotReload ELSE source[t])
      BY <1>10 DEF ReloadAllowlist
    <2>2. QED
      BY <1>2, <1>3, <2>1
  <1>11. QED
    BY <1>4, <1>5, <1>6, <1>7, <1>8, <1>9, <1>10
       DEF PacksNext, packVars, StagePack, ValidatePack, RequestApproval, InstallKilled,
           DisablePack, BridgeStops

(* For any packs and tools: a pack that is installed is found, and as long  *)
(* as the registry and the allowlist agree no installation takes a tool of  *)
(* another installed pack.                                                  *)
THEOREM PacksHold == PacksSpec => [](PacksTypeOK /\ InstalledFound) /\ OwnersKept
  <1>1. PacksInit => PacksInv
    BY PacksAssumption DEF PacksInit, PacksInv, PacksTypeOK, InstalledFound
  <1>2. PacksInv /\ [PacksNext]_packVars => PacksInv'
    BY PacksTypes, PacksFound, PacksAgree DEF PacksInv
  <1>3. PacksInv /\ [PacksNext]_packVars =>
          [\A t \in PackTools, p, q \in Packs :
             ~uneven' /\ p # q /\ listed[t] = q /\ packState[q] \in {"installed", "disabled"}
               => listed'[t] # p]_packVars
    <2> SUFFICES ASSUME PacksInv, PacksNext, NEW t \in PackTools, NEW p \in Packs, NEW q \in Packs,
                        ~uneven', p # q, listed[t] = q, listed'[t] = p
                 PROVE  FALSE
      OBVIOUS
    <2>1. NoOne \notin Packs /\ uneven \in BOOLEAN /\ loaded \in BOOLEAN
      BY PacksAssumption DEF PacksInv, PacksTypeOK
    <2>2. PICK r \in Packs : InstallPack(r) \/ InstallKilled(r)
      BY <2>1 DEF PacksNext, StagePack, ValidatePack, RequestApproval, InstallFails, RemovePack,
                  DisablePack, ReloadAllowlist, BridgeStops
    <2>3. ~uneven /\ loaded /\ listed' = ListedFor(r)
      BY <2>1, <2>2 DEF InstallPack, InstallKilled, Installing
    <2>4. source[t] # NoOne
      BY <2>1, <2>3 DEF PacksInv
    <2>5. QED
      BY <2>3, <2>4 DEF ListedFor, ToInstall
  <1>4. PacksInv => PacksTypeOK /\ InstalledFound
    BY DEF PacksInv
  <1>5. QED
    BY <1>1, <1>2, <1>3, <1>4, PTL DEF PacksSpec, OwnersKept

----------------------------------------------------------------------------
(* The daily limit of tokens (ai/budget.py).                                *)

LEMMA Products ==
    ASSUME NEW n \in Nat, NEW m \in Nat
    PROVE  /\ n * m \in Nat
           /\ (n + 1) * m = n * m + m
           /\ n > 0 => n * m >= m
  <1>1. n * m \in Nat
    BY SMT
  <1>2. (n + 1) * m = n * m + m
    BY SMT
  <1>3. n > 0 => n * m >= m
    BY SMT
  <1>4. QED
    BY <1>1, <1>2, <1>3

LEMMA ProductsGrow ==
    ASSUME NEW n \in Nat, NEW p \in Nat, NEW m \in Nat, n <= p
    PROVE  n * m <= p * m
  <1>1. PICK k \in Nat : p = n + k
    BY p - n \in Nat
  <1>2. (n + k) * m = n * m + k * m /\ k * m \in Nat /\ n * m \in Nat
    BY SMT
  <1>3. QED
    BY <1>1, <1>2

LEMMA OneLess ==
    ASSUME NEW n \in Nat, NEW m \in Nat, n > 0
    PROVE  (n - 1) * m = n * m - m
  BY Products, n - 1 \in Nat, (n - 1) + 1 = n

\* The limit, with one call's tokens for each request in flight at once.
Ceiling == Limit + peak * MaxTokens

\* What requests that process r has in flight may still take.
TokensPending(r) == inFlight[r] * MaxTokens

\* What answers of day d took that the budget did not see, at most.
TokensUnseen(d) == unseen[d] * MaxTokens

\* What may be in flight is bounded by the peak, and dies with its process.
PeakInv ==
    /\ \A r \in Routers : inFlight[r] <= peak
    /\ \A r \in Routers \ up : inFlight[r] = 0

LEMMA BudgetNumbers ==
    ASSUME BudgetTypeOK
    PROVE  /\ MaxTokens \in Nat /\ Limit \in Nat /\ peak \in Nat /\ starts \in Nat /\ today \in Days
           /\ Ceiling \in Nat
           /\ \A r \in Routers : inFlight[r] \in Nat /\ usage[r] \in Nat /\ TokensPending(r) \in Nat
           /\ \A d \in Days : /\ spent[d] \in Nat /\ usageFile[d] \in Nat
                              /\ unseen[d] \in Nat /\ TokensUnseen(d) \in Nat
  <1>1. /\ MaxTokens \in Nat /\ Limit \in Nat /\ peak \in Nat /\ starts \in Nat /\ today \in Days
        /\ \A r \in Routers : inFlight[r] \in Nat /\ usage[r] \in Nat
        /\ \A d \in Days : spent[d] \in Nat /\ usageFile[d] \in Nat /\ unseen[d] \in Nat
    BY BudgetAssumption DEF BudgetTypeOK
  <1>2. QED
    BY <1>1, Products DEF Ceiling, TokensPending, TokensUnseen

LEMMA PeakBounds ==
    ASSUME BudgetTypeOK, PeakInv, NEW r \in Routers
    PROVE  TokensPending(r) <= peak * MaxTokens /\ peak * MaxTokens \in Nat
  BY BudgetNumbers, ProductsGrow, Products DEF PeakInv, TokensPending

\* record_spend adds the tokens to the count of r, and to the file if it can.
LEMMA RecordSpendTypes ==
    ASSUME BudgetTypeOK, NEW r \in Routers, NEW actual \in Nat, RecordSpend(r, actual)
    PROVE  /\ usage' \in [Routers -> Nat] /\ usageFile' \in [Days -> Nat] /\ apart' \in BOOLEAN
           /\ usage'[r] = usage[r] + actual
           /\ \A q \in Routers : q # r => usage'[q] = usage[q]
           /\ apart' => /\ apart /\ usageFile'[today] = usage[r] + actual
                        /\ \A d \in Days : d # today => usageFile'[d] = usageFile[d]
  <1>1. usage[r] + actual \in Nat /\ today \in Days
    BY DEF BudgetTypeOK
  <1>2. usage' = [usage EXCEPT ![r] = usage[r] + actual]
    BY DEF RecordSpend
  <1>3. \/ usageFile' = [usageFile EXCEPT ![today] = usage[r] + actual] /\ apart' = apart
        \/ apart' = FALSE /\ usageFile' = usageFile
    BY DEF RecordSpend
  <1>4. usageFile' \in [Days -> Nat] /\ apart' \in BOOLEAN
    BY <1>1, <1>3 DEF BudgetTypeOK
  <1>5. apart' => /\ apart /\ usageFile'[today] = usage[r] + actual
                  /\ \A d \in Days : d # today => usageFile'[d] = usageFile[d]
    BY <1>1, <1>3 DEF BudgetTypeOK
  <1>6. QED
    BY <1>1, <1>2, <1>4, <1>5 DEF BudgetTypeOK

\* An answer of today takes tokens.
LEMMA TookTypes ==
    ASSUME BudgetTypeOK, NEW actual \in Nat, Took(actual)
    PROVE  /\ spent' \in [Days -> Nat]
           /\ spent'[today] = spent[today] + actual
           /\ \A d \in Days : d # today => spent'[d] = spent[d]
  <1>1. spent[today] + actual \in Nat /\ today \in Days
    BY DEF BudgetTypeOK
  <1>2. QED
    BY <1>1 DEF Took, BudgetTypeOK

\* One that the budget does not see leaves room for them.
LEMMA EscapedTypes ==
    ASSUME BudgetTypeOK, Escaped
    PROVE  /\ unseen' \in [Days -> Nat] /\ calls' \in Nat
           /\ \A d \in Days : unseen'[d] \in Nat /\ unseen'[d] >= unseen[d]
           /\ unseen'[today] * MaxTokens = TokensUnseen(today) + MaxTokens
           /\ \A d \in Days : d # today => unseen'[d] = unseen[d]
  <1>1. unseen[today] + 1 \in Nat /\ today \in Days /\ calls + 1 \in Nat
    BY DEF BudgetTypeOK
  <1>2. unseen' = [unseen EXCEPT ![today] = unseen[today] + 1] /\ calls' = calls + 1
    BY DEF Escaped
  <1>3. unseen' \in [Days -> Nat] /\ unseen'[today] = unseen[today] + 1
        /\ \A d \in Days : d # today => unseen'[d] = unseen[d]
    BY <1>1, <1>2 DEF BudgetTypeOK
  <1>4. (unseen[today] + 1) * MaxTokens = unseen[today] * MaxTokens + MaxTokens
    BY <1>1, BudgetNumbers, Products
  <1>5. \A d \in Days : unseen'[d] \in Nat /\ unseen'[d] >= unseen[d]
    BY <1>1, <1>3, BudgetNumbers
  <1>6. QED
    BY <1>1, <1>2, <1>3, <1>4, <1>5 DEF TokensUnseen

\* What every answer does, by the one of the three that it is.
LEMMA AnswerTakes ==
    ASSUME BudgetTypeOK, NEW r \in Routers,
           Answered(r) \/ AnsweredUnrecorded(r) \/ AnsweredUnchecked(r)
    PROVE  \E actual \in Nat :
              /\ actual <= MaxTokens
              /\ spent' \in [Days -> Nat]
              /\ spent'[today] = spent[today] + actual
              /\ \A d \in Days : d # today => spent'[d] = spent[d]
              /\ \/ Answered(r) /\ RecordSpend(r, actual)
                 \/ AnsweredUnrecorded(r)
                 \/ AnsweredUnchecked(r) /\ (RecordSpend(r, actual) \/ UNCHANGED <<usage, usageFile, apart>>)
  <1>1. PICK actual \in Tokens :
          /\ Took(actual)
          /\ \/ Answered(r) /\ RecordSpend(r, actual)
             \/ AnsweredUnrecorded(r)
             \/ AnsweredUnchecked(r) /\ (RecordSpend(r, actual) \/ UNCHANGED <<usage, usageFile, apart>>)
    BY DEF Answered, AnsweredUnrecorded, AnsweredUnchecked
  <1>2. actual \in Nat /\ actual <= MaxTokens
    BY BudgetAssumption DEF Tokens
  <1>3. QED
    BY <1>1, <1>2, TookTypes

LEMMA InFlightTypes ==
    ASSUME BudgetTypeOK, NEW r \in Routers, inFlight[r] > 0,
           inFlight' = [inFlight EXCEPT ![r] = @ - 1]
    PROVE  /\ inFlight' \in [Routers -> Nat] /\ inFlight'[r] = inFlight[r] - 1
           /\ TokensPending(r)' = TokensPending(r) - MaxTokens
           /\ \A q \in Routers : q # r => inFlight'[q] = inFlight[q]
  <1>1. inFlight[r] \in Nat /\ inFlight[r] - 1 \in Nat
    BY BudgetNumbers
  <1>2. /\ inFlight' \in [Routers -> Nat] /\ inFlight'[r] = inFlight[r] - 1
        /\ \A q \in Routers : q # r => inFlight'[q] = inFlight[q]
    BY <1>1 DEF BudgetTypeOK
  <1>3. (inFlight[r] - 1) * MaxTokens = inFlight[r] * MaxTokens - MaxTokens
    BY <1>1, OneLess, BudgetNumbers
  <1>4. QED
    BY <1>2, <1>3 DEF TokensPending

(* The types of budget.py hold of every state, and so does the peak.        *)
LEMMA BudgetTypeStep ==
    ASSUME BudgetTypeOK, PeakInv, [BudgetNext]_budgetVars
    PROVE  BudgetTypeOK' /\ PeakInv'
  <1>1. ASSUME NEW r \in Routers, RouterStarts(r)
        PROVE  BudgetTypeOK' /\ PeakInv'
    <2>1. LoadDailyUsage(TRUE) \in Nat /\ LoadDailyUsage(FALSE) \in Nat
      BY BudgetNumbers DEF LoadDailyUsage
    <2>2. PICK readable \in BOOLEAN :
            /\ usage' = [usage EXCEPT ![r] = LoadDailyUsage(readable)]
            /\ apart' = (apart /\ up = {} /\ readable)
      BY <1>1 DEF RouterStarts
    <2>3. usage' \in [Routers -> Nat]
      BY <2>1, <2>2 DEF BudgetTypeOK
    <2>4. apart' \in BOOLEAN
      BY <2>2
    <2>5. QED
      BY <1>1, <2>3, <2>4 DEF RouterStarts, BudgetTypeOK, PeakInv
  <1>2. ASSUME NEW r \in Routers, RouterStops(r)
        PROVE  BudgetTypeOK' /\ PeakInv'
    <2>1. BudgetTypeOK'
      BY <1>2 DEF RouterStops, BudgetTypeOK
    <2>2. PeakInv'
      BY <1>2, BudgetNumbers DEF RouterStops, BudgetTypeOK, PeakInv
    <2>3. QED
      BY <2>1, <2>2
  <1>3. ASSUME NEW r \in Routers, Admitted(r)
        PROVE  BudgetTypeOK' /\ PeakInv'
    <2>1. /\ inFlight[r] + 1 \in Nat /\ peak \in Nat /\ calls + 1 \in Nat
          /\ \A q \in Routers : inFlight[q] \in Nat
      BY BudgetNumbers DEF BudgetTypeOK
    <2>2. /\ inFlight' = [inFlight EXCEPT ![r] = inFlight[r] + 1] /\ calls' = calls + 1
          /\ peak' = IF inFlight[r] + 1 > peak THEN inFlight[r] + 1 ELSE peak
          /\ UNCHANGED <<up, usage, usageFile, today, spent, starts, unseen, apart>> /\ r \in up
      BY <1>3 DEF Admitted
    <2>3. BudgetTypeOK'
      BY <2>1, <2>2 DEF BudgetTypeOK
    <2>4. PeakInv'
      BY <2>1, <2>2 DEF BudgetTypeOK, PeakInv
    <2>5. QED
      BY <2>3, <2>4
  <1>4. ASSUME NEW r \in Routers, Refused(r)
        PROVE  BudgetTypeOK' /\ PeakInv'
    BY <1>4 DEF Refused, BudgetTypeOK, PeakInv
  <1>5. ASSUME NEW r \in Routers, Unanswered(r)
        PROVE  BudgetTypeOK' /\ PeakInv'
    <2>1. /\ inFlight' \in [Routers -> Nat] /\ inFlight'[r] = inFlight[r] - 1 /\ inFlight[r] > 0
          /\ \A q \in Routers : q # r => inFlight'[q] = inFlight[q]
      BY <1>5, InFlightTypes DEF Unanswered
    <2>2. UNCHANGED <<up, usage, usageFile, today, spent, calls, starts, peak, unseen, apart>>
      BY <1>5 DEF Unanswered
    <2>3. QED
      BY <2>1, <2>2, BudgetNumbers DEF BudgetTypeOK, PeakInv
  <1>6. ASSUME NEW r \in Routers,
               Answered(r) \/ AnsweredUnrecorded(r) \/ AnsweredUnchecked(r)
        PROVE  BudgetTypeOK' /\ PeakInv'
    <2>1. PICK actual \in Nat :
            /\ spent' \in [Days -> Nat]
            /\ \/ Answered(r) /\ RecordSpend(r, actual)
               \/ AnsweredUnrecorded(r)
               \/ AnsweredUnchecked(r) /\ (RecordSpend(r, actual) \/ UNCHANGED <<usage, usageFile, apart>>)
      BY <1>6, AnswerTakes
    <2>2. usage' \in [Routers -> Nat] /\ usageFile' \in [Days -> Nat] /\ apart' \in BOOLEAN
      <3>1. CASE RecordSpend(r, actual)
        BY <3>1, RecordSpendTypes
      <3>2. CASE UNCHANGED <<usage, usageFile, apart>>
        BY <3>2 DEF BudgetTypeOK
      <3>3. QED
        BY <2>1, <3>1, <3>2 DEF AnsweredUnrecorded
    <2>3. unseen' \in [Days -> Nat] /\ calls' \in Nat
      <3>1. CASE Escaped
        BY <3>1, EscapedTypes
      <3>2. CASE UNCHANGED <<unseen, calls>>
        BY <3>2 DEF BudgetTypeOK
      <3>3. QED
        BY <1>6, <3>1, <3>2 DEF Answered, AnsweredUnrecorded, AnsweredUnchecked
    <2>4. /\ inFlight' \in [Routers -> Nat]
          /\ \A q \in Routers : inFlight'[q] <= inFlight[q]
      <3>1. CASE inFlight[r] > 0 /\ inFlight' = [inFlight EXCEPT ![r] = @ - 1]
        <4>1. /\ inFlight' \in [Routers -> Nat] /\ inFlight'[r] = inFlight[r] - 1
              /\ \A q \in Routers : q # r => inFlight'[q] = inFlight[q]
          BY <3>1, InFlightTypes
        <4>2. QED
          BY <4>1, BudgetNumbers
      <3>2. CASE inFlight' = inFlight
        BY <3>2, BudgetNumbers DEF BudgetTypeOK
      <3>3. QED
        BY <1>6, <3>1, <3>2 DEF Answered, AnsweredUnrecorded, AnsweredUnchecked
    <2>5. UNCHANGED <<up, today, starts, peak>>
      BY <1>6 DEF Answered, AnsweredUnrecorded, AnsweredUnchecked
    <2>6. BudgetTypeOK'
      BY <2>1, <2>2, <2>3, <2>4, <2>5 DEF BudgetTypeOK
    <2>7. \A q \in Routers : inFlight'[q] \in Nat /\ inFlight[q] \in Nat /\ peak \in Nat
      BY <2>4, BudgetNumbers
    <2>8. PeakInv'
      BY <2>4, <2>5, <2>7 DEF PeakInv
    <2>9. QED
      BY <2>6, <2>8
  <1>7. CASE NextDay
    <2>1. today' \in Days
      BY <1>7, BudgetAssumption DEF NextDay, Days, BudgetTypeOK
    <2>2. QED
      BY <1>7, <2>1 DEF NextDay, BudgetTypeOK, PeakInv
  <1>8. CASE UNCHANGED budgetVars
    BY <1>8 DEF budgetVars, BudgetTypeOK, PeakInv
  <1>9. QED
    BY <1>1, <1>2, <1>3, <1>4, <1>5, <1>6, <1>7, <1>8 DEF BudgetNext

----------------------------------------------------------------------------
\* With one process at a time, the count of the process and the file of the
\* day are behind what was spent by no more than the unseen answers took ...
ApartInv ==
    /\ \A d \in Days : d > today => spent[d] = 0
    /\ apart => /\ \A r, q \in up : r = q
                /\ \A d \in Days : spent[d] <= usageFile[d] + TokensUnseen(d)
                /\ \A r \in up : spent[today] <= usage[r] + TokensUnseen(today)

\* ... so that what it may still take is within the limit as well.
WithinInv ==
    apart => /\ \A d \in Days : spent[d] <= Ceiling + TokensUnseen(d)
             /\ \A r \in up : spent[today] + TokensPending(r) <= Ceiling + TokensUnseen(today)

LEMMA ApartStep ==
    ASSUME BudgetTypeOK, BudgetTypeOK', PeakInv, ApartInv, [BudgetNext]_budgetVars
    PROVE  ApartInv'
  <1>1. ASSUME NEW r \in Routers, RouterStarts(r)
        PROVE  ApartInv'
    <2>1. PICK readable \in BOOLEAN :
            /\ usage' = [usage EXCEPT ![r] = LoadDailyUsage(readable)]
            /\ apart' = (apart /\ up = {} /\ readable)
      BY <1>1 DEF RouterStarts
    <2>2. UNCHANGED <<usageFile, today, spent, unseen>> /\ up' = up \cup {r}
      BY <1>1 DEF RouterStarts
    <2>3. ASSUME apart'
          PROVE  apart /\ up' = {r} /\ usage'[r] = usageFile[today]
      BY <2>1, <2>2, <2>3 DEF LoadDailyUsage, BudgetTypeOK
    <2>4. today \in Days
      BY DEF BudgetTypeOK
    <2>5. QED
      BY <2>2, <2>3, <2>4 DEF ApartInv, TokensUnseen
  <1>2. ASSUME NEW r \in Routers, RouterStops(r) \/ Unanswered(r) \/ Admitted(r) \/ Refused(r)
        PROVE  ApartInv'
    <2>1. UNCHANGED <<usage, usageFile, today, spent, apart, unseen>> /\ up' \subseteq up
      BY <1>2 DEF RouterStops, Unanswered, Admitted, Refused
    <2>2. QED
      BY <2>1 DEF ApartInv, TokensUnseen
  <1>3. ASSUME NEW r \in Routers,
               Answered(r) \/ AnsweredUnrecorded(r) \/ AnsweredUnchecked(r)
        PROVE  ApartInv'
    <2>1. PICK actual \in Nat :
            /\ actual <= MaxTokens
            /\ spent'[today] = spent[today] + actual
            /\ \A d \in Days : d # today => spent'[d] = spent[d]
            /\ \/ Answered(r) /\ RecordSpend(r, actual)
               \/ AnsweredUnrecorded(r)
               \/ AnsweredUnchecked(r) /\ (RecordSpend(r, actual) \/ UNCHANGED <<usage, usageFile, apart>>)
      BY <1>3, AnswerTakes
    <2>2. r \in up /\ UNCHANGED <<up, today>>
      BY <1>3, BudgetNumbers DEF Answered, AnsweredUnrecorded, AnsweredUnchecked, PeakInv
    <2>3. /\ \A d \in Days : d # today => unseen'[d] = unseen[d]
          /\ \/ unseen' = unseen
             \/ unseen'[today] * MaxTokens = TokensUnseen(today) + MaxTokens
      BY <1>3, EscapedTypes DEF Answered, AnsweredUnrecorded, AnsweredUnchecked
    <2>4. /\ today \in Days /\ today \in Nat
          /\ \A d \in Days : d > today => spent'[d] = 0
      BY <2>1, BudgetNumbers DEF ApartInv, Days
    <2>5. ASSUME apart'
          PROVE  /\ apart
                 /\ \/ /\ usage'[r] = usage[r] + actual
                       /\ usageFile'[today] = usage[r] + actual
                       /\ unseen'[today] * MaxTokens >= TokensUnseen(today)
                    \/ /\ usage'[r] = usage[r] /\ usageFile'[today] = usageFile[today]
                       /\ unseen'[today] * MaxTokens = TokensUnseen(today) + MaxTokens
                 /\ \A d \in Days : d # today => usageFile'[d] = usageFile[d]
      <3>1. CASE RecordSpend(r, actual)
        <4>1. unseen'[today] * MaxTokens >= TokensUnseen(today)
          BY <2>3, BudgetNumbers DEF TokensUnseen
        <4>2. QED
          BY <2>1, <2>5, <3>1, <4>1, RecordSpendTypes
      <3>2. CASE UNCHANGED <<usage, usageFile, apart>> /\ Escaped
        BY <2>5, <3>2, EscapedTypes
      <3>3. QED
        BY <2>1, <3>1, <3>2 DEF AnsweredUnrecorded, AnsweredUnchecked
    <2>6. ASSUME apart'
          PROVE  /\ \A p, q \in up' : p = q
                 /\ \A d \in Days : spent'[d] <= usageFile'[d] + TokensUnseen(d)'
                 /\ \A q \in up' : spent'[today'] <= usage'[q] + TokensUnseen(today)'
      <3>1. /\ apart /\ \A p, q \in up : p = q
            /\ \A d \in Days : spent[d] <= usageFile[d] + TokensUnseen(d)
            /\ spent[today] <= usage[r] + TokensUnseen(today)
        BY <2>2, <2>5, <2>6 DEF ApartInv
      <3>2. /\ {spent[today], usage[r], usageFile[today], TokensUnseen(today), actual, MaxTokens} \subseteq Nat
            /\ unseen'[today] * MaxTokens \in Nat
        BY <2>4, BudgetNumbers, Products DEF BudgetTypeOK
      <3>3. /\ spent'[today] <= usage'[r] + unseen'[today] * MaxTokens
            /\ spent'[today] <= usageFile'[today] + unseen'[today] * MaxTokens
        <4>1. spent[today] <= usageFile[today] + TokensUnseen(today)
          BY <2>4, <3>1
        <4>2. QED
          BY <2>1, <2>5, <2>6, <3>1, <3>2, <4>1
      <3>4. \A d \in Days : d # today => spent'[d] <= usageFile'[d] + TokensUnseen(d)'
        BY <2>1, <2>3, <2>5, <2>6, <3>1 DEF TokensUnseen
      <3>5. \A q \in up' : q = r
        BY <2>2, <3>1
      <3>6. QED
        BY <2>2, <2>4, <3>3, <3>4, <3>5 DEF TokensUnseen
    <2>7. QED
      BY <2>2, <2>4, <2>6 DEF ApartInv
  <1>4. CASE NextDay
    <2>1. today' = today + 1 /\ today' \in Days
          /\ UNCHANGED <<up, usage, usageFile, spent, unseen, apart>>
      BY <1>4 DEF NextDay, BudgetTypeOK
    <2>2. today \in Nat /\ today' > today
      BY <2>1 DEF Days, BudgetTypeOK
    <2>3. spent[today'] = 0
      BY <2>1, <2>2 DEF ApartInv
    <2>4. \A d \in Days : d > today' => spent[d] = 0
      BY <2>1, <2>2 DEF ApartInv, Days
    <2>5. \A q \in up : 0 <= usage[q] + unseen[today'] * MaxTokens
      <3>1. unseen[today'] * MaxTokens \in Nat
        BY <2>1, BudgetNumbers DEF TokensUnseen
      <3>2. \A q \in up : usage[q] \in Nat
        BY BudgetNumbers DEF BudgetTypeOK
      <3>3. QED
        BY <3>1, <3>2
    <2>6. QED
      BY <2>1, <2>3, <2>4, <2>5 DEF ApartInv, TokensUnseen
  <1>5. CASE UNCHANGED budgetVars
    BY <1>5 DEF budgetVars, ApartInv, TokensUnseen
  <1>6. QED
    BY <1>1, <1>2, <1>3, <1>4, <1>5 DEF BudgetNext

LEMMA WithinStep ==
    ASSUME BudgetTypeOK, BudgetTypeOK', PeakInv, ApartInv, WithinInv, [BudgetNext]_budgetVars
    PROVE  WithinInv'
  <1>1. /\ today \in Days /\ Ceiling \in Nat /\ MaxTokens \in Nat
        /\ \A d \in Days : spent[d] \in Nat /\ TokensUnseen(d) \in Nat
        /\ \A r \in Routers : TokensPending(r) \in Nat
        /\ up \subseteq Routers
    BY BudgetNumbers DEF BudgetTypeOK
  <1>2. ASSUME UNCHANGED <<today, spent, peak, unseen>>, apart' => apart,
               \A r \in up' : inFlight'[r] = 0 \/ (r \in up /\ TokensPending(r)' <= TokensPending(r))
        PROVE  WithinInv'
    <2>1. ASSUME apart', NEW r \in up'
          PROVE  spent[today] + TokensPending(r)' <= Ceiling + TokensUnseen(today)
      <3>1. CASE inFlight'[r] = 0
        <4>1. TokensPending(r)' = 0
          BY <1>1, <3>1 DEF TokensPending
        <4>2. spent[today] <= Ceiling + TokensUnseen(today)
          BY <1>1, <1>2, <2>1 DEF WithinInv
        <4>3. QED
          BY <1>1, <4>1, <4>2
      <3>2. CASE r \in up /\ TokensPending(r)' <= TokensPending(r)
        <4>1. spent[today] + TokensPending(r) <= Ceiling + TokensUnseen(today)
          BY <1>2, <2>1, <3>2 DEF WithinInv
        <4>2. TokensPending(r)' \in Nat
          BY <1>1, <3>2, Products DEF TokensPending, BudgetTypeOK
        <4>3. QED
          BY <1>1, <3>2, <4>1, <4>2
      <3>3. QED
        BY <1>2, <2>1, <3>1, <3>2
    <2>2. QED
      BY <1>2, <2>1 DEF WithinInv, Ceiling, TokensUnseen
  <1>3. ASSUME NEW r \in Routers, RouterStarts(r)
        PROVE  WithinInv'
    <2>1. /\ UNCHANGED <<today, spent, peak, unseen, inFlight>> /\ up' = up \cup {r}
          /\ apart' => apart
          /\ inFlight[r] = 0
      BY <1>3 DEF RouterStarts, PeakInv
    <2>2. \A q \in up : TokensPending(q)' <= TokensPending(q)
      BY <1>1, <2>1 DEF TokensPending
    <2>3. \A q \in up' : inFlight'[q] = 0 \/ (q \in up /\ TokensPending(q)' <= TokensPending(q))
      BY <2>1, <2>2
    <2>4. UNCHANGED <<today, spent, peak, unseen>>
      BY <2>1
    <2>5. QED
      BY <1>2, <2>1, <2>3, <2>4
  <1>4. ASSUME NEW r \in Routers, RouterStops(r) \/ Unanswered(r) \/ Refused(r)
        PROVE  WithinInv'
    <2>1. UNCHANGED <<today, spent, peak, unseen, apart>> /\ up' \subseteq up
      BY <1>4 DEF RouterStops, Unanswered, Refused
    <2>2. \A q \in up' : TokensPending(q)' <= TokensPending(q)
      <3>1. CASE Unanswered(r)
        <4>1. /\ TokensPending(r)' = TokensPending(r) - MaxTokens
              /\ \A q \in Routers : q # r => inFlight'[q] = inFlight[q]
          BY <3>1, InFlightTypes DEF Unanswered
        <4>2. \A q \in Routers : q # r => TokensPending(q)' = TokensPending(q)
          BY <4>1 DEF TokensPending
        <4>3. QED
          BY <1>1, <2>1, <4>1, <4>2
      <3>2. CASE RouterStops(r) \/ Refused(r)
        <4>1. \A q \in up' : inFlight'[q] = inFlight[q]
          BY <3>2, <1>1 DEF RouterStops, Refused, BudgetTypeOK
        <4>2. QED
          BY <1>1, <2>1, <4>1 DEF TokensPending
      <3>3. QED
        BY <1>4, <3>1, <3>2
    <2>3. QED
      BY <1>2, <2>1, <2>2
  <1>5. ASSUME NEW r \in Routers, Admitted(r)
        PROVE  WithinInv'
    <2>1. /\ UNCHANGED <<up, usage, today, spent, unseen, apart>> /\ r \in up
          /\ inFlight' = [inFlight EXCEPT ![r] = inFlight[r] + 1]
          /\ peak' = IF inFlight[r] + 1 > peak THEN inFlight[r] + 1 ELSE peak
      BY <1>5 DEF Admitted
    <2>2. usage[r] <= Limit
      <3>1. PICK estimated \in Estimates : CanSpend(r, estimated)
        BY <1>5 DEF Admitted
      <3>2. estimated \in Nat
        BY DEF Estimates
      <3>3. QED
        BY <3>1, <3>2, BudgetNumbers DEF CanSpend
    <2>3. peak' \in Nat /\ peak' >= peak /\ peak' >= inFlight[r] + 1 /\ peak \in Nat
          /\ inFlight'[r] = inFlight[r] + 1 /\ inFlight[r] + 1 \in Nat
      BY <2>1, BudgetNumbers DEF BudgetTypeOK
    <2>4. /\ peak * MaxTokens <= peak' * MaxTokens
          /\ TokensPending(r)' <= peak' * MaxTokens
          /\ peak * MaxTokens \in Nat /\ peak' * MaxTokens \in Nat /\ TokensPending(r)' \in Nat
      BY <1>1, <2>3, ProductsGrow, Products DEF TokensPending
    <2>5. Ceiling' = Limit + peak' * MaxTokens /\ Ceiling <= Ceiling' /\ Ceiling' \in Nat
      BY <2>4, BudgetNumbers DEF Ceiling
    <2>6. ASSUME apart
          PROVE  /\ \A d \in Days : spent[d] <= Ceiling' + TokensUnseen(d)
                 /\ \A q \in up : spent[today] + TokensPending(q)' <= Ceiling' + TokensUnseen(today)
      <3>1. \A d \in Days : spent[d] <= Ceiling' + TokensUnseen(d)
        <4>1. \A d \in Days : spent[d] <= Ceiling + TokensUnseen(d)
          BY <2>6 DEF WithinInv
        <4>2. QED
          BY <1>1, <2>5, <4>1
      <3>2. spent[today] <= usage[r] + TokensUnseen(today) /\ \A q \in up : q = r
        BY <2>1, <2>6 DEF ApartInv
      <3>3. spent[today] + TokensPending(r)' <= Ceiling' + TokensUnseen(today)
        BY <1>1, <2>2, <2>4, <2>5, <3>2, BudgetNumbers
      <3>4. QED
        BY <3>1, <3>2, <3>3
    <2>7. QED
      BY <2>1, <2>6 DEF WithinInv, TokensUnseen
  <1>6. ASSUME NEW r \in Routers,
               Answered(r) \/ AnsweredUnrecorded(r) \/ AnsweredUnchecked(r)
        PROVE  WithinInv'
    <2>1. PICK actual \in Nat :
            /\ actual <= MaxTokens
            /\ spent'[today] = spent[today] + actual
            /\ \A d \in Days : d # today => spent'[d] = spent[d]
            /\ \/ Answered(r) /\ RecordSpend(r, actual)
               \/ AnsweredUnrecorded(r)
               \/ AnsweredUnchecked(r) /\ (RecordSpend(r, actual) \/ UNCHANGED <<usage, usageFile, apart>>)
      BY <1>6, AnswerTakes
    <2>2. r \in up /\ UNCHANGED <<up, today, peak>>
      BY <1>6, BudgetNumbers DEF Answered, AnsweredUnrecorded, AnsweredUnchecked, PeakInv
    <2>3. \A d \in Days : d # today => unseen'[d] = unseen[d]
      BY <1>6, EscapedTypes DEF Answered, AnsweredUnrecorded, AnsweredUnchecked
    <2>4. \/ /\ TokensPending(r)' = TokensPending(r) - MaxTokens
             /\ unseen'[today] * MaxTokens = TokensUnseen(today)
          \/ /\ TokensPending(r)' <= TokensPending(r)
             /\ unseen'[today] * MaxTokens = TokensUnseen(today) + MaxTokens
      <3>1. CASE Answered(r)
        BY <3>1, InFlightTypes DEF Answered, TokensUnseen
      <3>2. CASE AnsweredUnrecorded(r)
        <4>1. TokensPending(r)' <= TokensPending(r)
          <5>1. CASE inFlight' = inFlight
            BY <5>1, <1>1 DEF TokensPending
          <5>2. CASE inFlight' = [inFlight EXCEPT ![r] = @ - 1]
            <6>1. TokensPending(r)' = TokensPending(r) - MaxTokens
              BY <3>2, <5>2, InFlightTypes DEF AnsweredUnrecorded
            <6>2. TokensPending(r) \in Nat /\ MaxTokens \in Nat
              BY <1>1
            <6>3. QED
              BY <6>1, <6>2
          <5>3. QED
            BY <3>2, <5>1, <5>2 DEF AnsweredUnrecorded
        <4>2. QED
          BY <3>2, <4>1, EscapedTypes DEF AnsweredUnrecorded
      <3>3. CASE AnsweredUnchecked(r)
        <4>1. TokensPending(r)' <= TokensPending(r)
          BY <1>1, <3>3 DEF AnsweredUnchecked, TokensPending
        <4>2. QED
          BY <3>3, <4>1, EscapedTypes DEF AnsweredUnchecked
      <3>4. QED
        BY <1>6, <3>1, <3>2, <3>3
    <2>5. apart' => apart
      BY <2>1, RecordSpendTypes DEF AnsweredUnrecorded
    <2>6. ASSUME apart
          PROVE  /\ spent'[today] <= Ceiling + unseen'[today] * MaxTokens
                 /\ spent'[today] + TokensPending(r)' <= Ceiling + unseen'[today] * MaxTokens
      <3>1. spent[today] + TokensPending(r) <= Ceiling + TokensUnseen(today)
        BY <2>2, <2>6 DEF WithinInv
      <3>2. TokensPending(r)' \in Nat
        BY <1>1, Products DEF TokensPending, BudgetTypeOK
      <3>3. {spent[today], TokensPending(r), TokensUnseen(today), Ceiling, MaxTokens, actual} \subseteq Nat
        BY <1>1
      <3>4. QED
        BY <2>1, <2>4, <3>1, <3>2, <3>3
    <2>7. \A q \in up : apart => q = r
      BY <2>2 DEF ApartInv
    <2>8. Ceiling' = Ceiling
      BY <2>2 DEF Ceiling
    <2>9. ASSUME apart, NEW d \in Days
          PROVE  spent'[d] <= Ceiling + unseen'[d] * MaxTokens
      BY <2>1, <2>3, <2>6, <2>9 DEF WithinInv, TokensUnseen
    <2>10. QED
      BY <2>2, <2>5, <2>6, <2>7, <2>8, <2>9 DEF WithinInv, TokensUnseen
  <1>7. CASE NextDay
    <2>1. today' = today + 1 /\ today' \in Days
          /\ UNCHANGED <<up, usage, inFlight, spent, peak, unseen, apart>>
      BY <1>7 DEF NextDay, BudgetTypeOK
    <2>2. spent[today'] = 0
      BY <2>1 DEF ApartInv, Days, BudgetTypeOK
    <2>3. ASSUME NEW r \in up
          PROVE  spent[today'] + TokensPending(r) <= Ceiling + unseen[today'] * MaxTokens
      <3>1. TokensPending(r) <= peak * MaxTokens /\ peak * MaxTokens \in Nat
        BY <1>1, PeakBounds
      <3>2. unseen[today'] * MaxTokens \in Nat
        BY <1>1, <2>1 DEF TokensUnseen
      <3>3. TokensPending(r) \in Nat /\ Limit \in Nat
        BY <1>1, BudgetNumbers
      <3>4. QED
        BY <2>2, <3>1, <3>2, <3>3 DEF Ceiling
    <2>4. QED
      BY <2>1, <2>3 DEF WithinInv, Ceiling, TokensPending, TokensUnseen
  <1>8. CASE UNCHANGED budgetVars
    BY <1>8 DEF budgetVars, WithinInv, Ceiling, TokensPending, TokensUnseen
  <1>9. QED
    BY <1>3, <1>4, <1>5, <1>6, <1>7, <1>8 DEF BudgetNext

----------------------------------------------------------------------------
LEMMA BudgetInitially ==
    ASSUME BudgetInit
    PROVE  BudgetTypeOK /\ PeakInv /\ ApartInv /\ WithinInv
  <1>1. BudgetTypeOK
    BY BudgetAssumption DEF BudgetInit, BudgetTypeOK, Days
  <1>2. /\ up = {} /\ \A r \in Routers : inFlight[r] = 0
        /\ \A d \in Days : spent[d] = 0 /\ usageFile[d] = 0
        /\ peak = 0
    BY DEF BudgetInit
  <1>3. Ceiling \in Nat /\ \A d \in Days : TokensUnseen(d) \in Nat
    BY <1>1, BudgetNumbers
  <1>4. \A d \in Days : 0 <= 0 + TokensUnseen(d) /\ 0 <= Ceiling + TokensUnseen(d)
    BY <1>3
  <1>5. PeakInv /\ ApartInv /\ WithinInv
    BY <1>2, <1>4 DEF PeakInv, ApartInv, WithinInv
  <1>6. QED
    BY <1>1, <1>5

LEMMA WithinCeiling ==
    ASSUME BudgetTypeOK, WithinInv
    PROVE  DayWithinLimit
  <1>1. SUFFICES ASSUME apart, NEW d \in Days
                 PROVE  spent[d] <= Limit + (peak + unseen[d]) * MaxTokens
    BY DEF DayWithinLimit
  <1>2. spent[d] <= Ceiling + TokensUnseen(d)
    BY <1>1 DEF WithinInv
  <1>3. (peak + unseen[d]) * MaxTokens = peak * MaxTokens + unseen[d] * MaxTokens
        /\ peak * MaxTokens \in Nat /\ unseen[d] * MaxTokens \in Nat
    <2>1. peak \in Nat /\ unseen[d] \in Nat /\ MaxTokens \in Nat
      BY BudgetNumbers
    <2>2. QED
      BY <2>1, Products, SMT
  <1>4. spent[d] \in Nat /\ Limit \in Nat
    BY BudgetNumbers
  <1>5. QED
    BY <1>2, <1>3, <1>4 DEF Ceiling, TokensUnseen

(* While one process runs at a time and the usage file can be read and      *)
(* written, a day's answers take no more than the limit and one call's      *)
(* tokens for each request that was in flight at once and for each answer   *)
(* that day that was not checked or not recorded, whatever the number of    *)
(* calls, restarts and midnights.                                           *)
THEOREM DailyLimitHolds == BudgetSpec => [](BudgetTypeOK /\ DayWithinLimit)
  <1>1. BudgetInit => BudgetTypeOK /\ PeakInv /\ ApartInv /\ WithinInv
    BY BudgetInitially
  <1>2. BudgetTypeOK /\ PeakInv /\ ApartInv /\ WithinInv /\ [BudgetNext]_budgetVars
        => (BudgetTypeOK /\ PeakInv /\ ApartInv /\ WithinInv)'
    BY BudgetTypeStep, ApartStep, WithinStep
  <1>3. BudgetTypeOK /\ PeakInv /\ ApartInv /\ WithinInv => BudgetTypeOK /\ DayWithinLimit
    BY WithinCeiling
  <1>4. QED
    BY <1>1, <1>2, <1>3, PTL DEF BudgetSpec

----------------------------------------------------------------------------
(* What running processes have used of their ceilings, one element for each *)
(* token, so that their sum is the size of a set.                           *)

\* A bar of n tokens for one process.
Bar(r, n) == {r} \X (1..n)

\* What process r cannot take any more: all that it counts, and all of its
\* ceiling but what it has in flight, if that is less.
Used(r) == IF usage[r] + TokensPending(r) <= Ceiling THEN usage[r] ELSE Ceiling - TokensPending(r)

Counted == UNION {Bar(r, Used(r)) : r \in up}

(* Each start may add a ceiling's worth of tokens: a process has taken no   *)
(* more than it has used of its own, and what it has left is not spent yet. *)
StartsInv ==
    /\ IsFiniteSet(up) /\ Cardinality(up) <= starts
    /\ \A d \in Days : spent[d] + Cardinality(up) * Ceiling
                         <= starts * Ceiling + Cardinality(Counted) + TokensUnseen(d)

LEMMA BarSize ==
    ASSUME NEW r, NEW n \in Nat
    PROVE  IsFiniteSet(Bar(r, n)) /\ Cardinality(Bar(r, n)) = n
  <1>1. IsFiniteSet({r}) /\ Cardinality({r}) = 1
    BY FS_Singleton
  <1>2. IsFiniteSet(1..n) /\ Cardinality(1..n) = n
    BY FS_Interval
  <1>3. IsFiniteSet({r} \X (1..n)) /\ Cardinality({r} \X (1..n)) = Cardinality({r}) * Cardinality(1..n)
    BY <1>1, <1>2, FS_Product
  <1>4. 1 * n = n
    OBVIOUS
  <1>5. QED
    BY <1>1, <1>2, <1>3, <1>4 DEF Bar

LEMMA DisjointUnion ==
    ASSUME NEW S, IsFiniteSet(S), NEW T, IsFiniteSet(T), S \cap T = {}
    PROVE  /\ IsFiniteSet(S \cup T)
           /\ Cardinality(S \cup T) = Cardinality(S) + Cardinality(T)
           /\ Cardinality(S) \in Nat /\ Cardinality(T) \in Nat
  <1>1. /\ IsFiniteSet(S \cup T)
        /\ Cardinality(S \cup T) = Cardinality(S) + Cardinality(T) - Cardinality({})
    BY FS_Union
  <1>2. Cardinality({}) = 0 /\ Cardinality(S) \in Nat /\ Cardinality(T) \in Nat
    BY FS_EmptySet, FS_CardinalityType
  <1>3. QED
    BY <1>1, <1>2

LEMMA BarAdded ==
    ASSUME NEW S, IsFiniteSet(S), NEW r, NEW n \in Nat, S \cap Bar(r, n) = {}
    PROVE  /\ IsFiniteSet(S \cup Bar(r, n)) /\ Cardinality(S) \in Nat
           /\ Cardinality(S \cup Bar(r, n)) = Cardinality(S) + n
  <1>1. IsFiniteSet(Bar(r, n)) /\ Cardinality(Bar(r, n)) = n
    BY BarSize
  <1>2. QED
    BY <1>1, DisjointUnion

LEMMA UsedType ==
    ASSUME BudgetTypeOK, PeakInv, NEW r \in Routers
    PROVE  /\ Used(r) \in Nat /\ Used(r) <= Ceiling
           /\ usage[r] <= Limit => Used(r) = usage[r]
  <1>1. /\ Ceiling \in Nat /\ usage[r] \in Nat /\ TokensPending(r) \in Nat /\ Limit \in Nat
        /\ TokensPending(r) <= peak * MaxTokens /\ peak * MaxTokens \in Nat
    BY BudgetNumbers, PeakBounds
  <1>2. TokensPending(r) <= Ceiling
    BY <1>1 DEF Ceiling
  <1>3. Limit + TokensPending(r) <= Ceiling
    BY <1>1 DEF Ceiling
  <1>4. Used(r) \in Nat /\ Used(r) <= Ceiling
    BY <1>1, <1>2 DEF Used
  <1>5. usage[r] <= Limit => Used(r) = usage[r]
    BY <1>1, <1>3 DEF Used
  <1>6. QED
    BY <1>4, <1>5

LEMMA CountedSize ==
    ASSUME BudgetTypeOK, PeakInv, IsFiniteSet(up)
    PROVE  /\ IsFiniteSet(Counted) /\ Cardinality(Counted) \in Nat
           /\ Cardinality(Counted) <= Cardinality(up) * Ceiling
           /\ Cardinality(up) \in Nat
  <1>1. Counted \subseteq up \X (1..Ceiling)
    <2>1. ASSUME NEW r \in up
          PROVE  Bar(r, Used(r)) \subseteq up \X (1..Ceiling)
      <3>1. Used(r) \in Nat /\ Used(r) <= Ceiling /\ Ceiling \in Nat
        BY UsedType, BudgetNumbers DEF BudgetTypeOK
      <3>2. QED
        BY <3>1 DEF Bar
    <2>2. QED
      BY <2>1 DEF Counted
  <1>2. IsFiniteSet(1..Ceiling) /\ Cardinality(1..Ceiling) = Ceiling
    <2>1. ASSUME NEW n \in Nat
          PROVE  IsFiniteSet(1..n) /\ Cardinality(1..n) = n
      BY FS_Interval
    <2>2. QED
      BY <2>1, BudgetNumbers
  <1>3. /\ IsFiniteSet(up \X (1..Ceiling))
        /\ Cardinality(up \X (1..Ceiling)) = Cardinality(up) * Cardinality(1..Ceiling)
    BY <1>2, FS_Product
  <1>4. QED
    BY <1>1, <1>2, <1>3, FS_Subset, FS_CardinalityType

\* What the processes other than r have used.
Others(r) == UNION {Bar(q, Used(q)) : q \in up \ {r}}

LEMMA CountedSplit ==
    ASSUME BudgetTypeOK, PeakInv, IsFiniteSet(up), NEW r \in Routers
    PROVE  /\ IsFiniteSet(Others(r)) /\ Cardinality(Others(r)) \in Nat
           /\ \A n \in Nat : Others(r) \cap Bar(r, n) = {}
           /\ r \in up => Cardinality(Counted) = Cardinality(Others(r)) + Used(r)
           /\ r \notin up => Counted = Others(r)
  <1>1. Others(r) \subseteq Counted
    BY DEF Others, Counted
  <1>2. IsFiniteSet(Others(r)) /\ Cardinality(Others(r)) \in Nat
    BY <1>1, CountedSize, FS_Subset, FS_CardinalityType
  <1>3. ASSUME NEW n \in Nat
        PROVE  Others(r) \cap Bar(r, n) = {}
    BY DEF Others, Bar
  <1>4. ASSUME r \in up
        PROVE  Cardinality(Counted) = Cardinality(Others(r)) + Used(r)
    <2>1. Counted = Others(r) \cup Bar(r, Used(r))
      BY <1>4 DEF Counted, Others
    <2>2. Used(r) \in Nat
      BY UsedType
    <2>3. QED
      BY <1>2, <1>3, <2>1, <2>2, BarAdded
  <1>5. ASSUME r \notin up
        PROVE  Counted = Others(r)
    <2>1. up \ {r} = up
      BY <1>5
    <2>2. QED
      BY <2>1 DEF Counted, Others
  <1>6. QED
    BY <1>2, <1>3, <1>4, <1>5

\* The same of the next state.
SizesOK ==
    /\ Ceiling \in Nat
    /\ \A r \in Routers : /\ {usage[r], TokensPending(r), Used(r)} \subseteq Nat
                          /\ Used(r) <= Ceiling
                          /\ usage[r] <= Limit => Used(r) = usage[r]
    /\ IsFiniteSet(up) =>
          /\ IsFiniteSet(Counted) /\ Cardinality(Counted) \in Nat
          /\ \A r \in up : Cardinality(Counted) = Cardinality(Others(r)) + Used(r)

LEMMA SizesHold == BudgetTypeOK /\ PeakInv => SizesOK
  <1>1. SUFFICES ASSUME BudgetTypeOK, PeakInv
                 PROVE  SizesOK
    OBVIOUS
  <1>2. Ceiling \in Nat /\ up \subseteq Routers
    BY <1>1, BudgetNumbers DEF BudgetTypeOK
  <1>3. ASSUME NEW r \in Routers
        PROVE  /\ {usage[r], TokensPending(r), Used(r)} \subseteq Nat /\ Used(r) <= Ceiling
               /\ usage[r] <= Limit => Used(r) = usage[r]
    BY <1>1, UsedType, BudgetNumbers
  <1>4. ASSUME IsFiniteSet(up)
        PROVE  /\ IsFiniteSet(Counted) /\ Cardinality(Counted) \in Nat
               /\ \A r \in up : Cardinality(Counted) = Cardinality(Others(r)) + Used(r)
    BY <1>1, <1>2, <1>4, CountedSize, CountedSplit
  <1>5. QED
    BY <1>2, <1>3, <1>4 DEF SizesOK

LEMMA SizesNext == BudgetTypeOK' /\ PeakInv' => SizesOK'
  BY SizesHold, PTL

LEMMA StartsTypes ==
    ASSUME BudgetTypeOK, PeakInv, StartsInv
    PROVE  /\ Ceiling \in Nat /\ starts \in Nat /\ Cardinality(up) \in Nat
           /\ IsFiniteSet(Counted) /\ Cardinality(Counted) \in Nat
           /\ Cardinality(up) * Ceiling \in Nat /\ starts * Ceiling \in Nat
           /\ \A d \in Days : spent[d] \in Nat /\ TokensUnseen(d) \in Nat
  <1>1. /\ Ceiling \in Nat /\ starts \in Nat /\ Cardinality(up) \in Nat
        /\ IsFiniteSet(Counted) /\ Cardinality(Counted) \in Nat
    BY CountedSize, BudgetNumbers DEF StartsInv
  <1>2. QED
    BY <1>1, Products, BudgetNumbers

LEMMA StartsOn ==
    ASSUME BudgetTypeOK, BudgetTypeOK', PeakInv, PeakInv', StartsInv,
           NEW r \in Routers, RouterStarts(r)
    PROVE  StartsInv'
  <1>1. /\ r \notin up /\ up' = up \cup {r} /\ starts' = starts + 1
        /\ \A q \in Routers : q # r => usage'[q] = usage[q]
        /\ UNCHANGED <<inFlight, peak, spent, unseen>>
    BY DEF RouterStarts, BudgetTypeOK
  <1>2. /\ IsFiniteSet(up') /\ Cardinality(up') = Cardinality(up) + 1
    BY <1>1, FS_AddElement DEF StartsInv
  <1> DEFINE n == Used(r)'
  <1>3. n \in Nat
    BY SizesNext DEF SizesOK
  <1>4. Counted' = Counted \cup Bar(r, n)
    <2>1. \A q \in up : Used(q)' = Used(q)
      BY <1>1 DEF Used, TokensPending, Ceiling, BudgetTypeOK
    <2>2. QED
      BY <1>1, <2>1 DEF Counted
  <1> HIDE DEF n
  <1>5. Cardinality(Counted') = Cardinality(Counted) + n
    <2>1. Counted \cap Bar(r, n) = {}
      BY <1>1, <1>3, CountedSplit DEF StartsInv
    <2>2. QED
      BY <1>3, <1>4, <2>1, BarAdded, StartsTypes
  <1>6. /\ Ceiling' = Ceiling
        /\ (Cardinality(up) + 1) * Ceiling = Cardinality(up) * Ceiling + Ceiling
        /\ (starts + 1) * Ceiling = starts * Ceiling + Ceiling
    BY <1>1, StartsTypes, Products DEF Ceiling
  <1>7. ASSUME NEW d \in Days
        PROVE  spent[d] + (Cardinality(up) * Ceiling + Ceiling)
                 <= (starts * Ceiling + Ceiling) + (Cardinality(Counted) + n) + TokensUnseen(d)
    BY <1>3, StartsTypes DEF StartsInv
  <1>8. Cardinality(up') <= starts'
    BY <1>1, <1>2, StartsTypes DEF StartsInv
  <1>9. QED
    BY <1>1, <1>2, <1>5, <1>6, <1>7, <1>8 DEF StartsInv, TokensUnseen

LEMMA StartsEnd ==
    ASSUME BudgetTypeOK, BudgetTypeOK', PeakInv, PeakInv', StartsInv,
           NEW r \in Routers, RouterStops(r)
    PROVE  StartsInv'
  <1>1. /\ r \in up /\ up' = up \ {r}
        /\ UNCHANGED <<usage, starts, peak, spent, unseen>>
        /\ \A q \in Routers : q # r => inFlight'[q] = inFlight[q]
    BY DEF RouterStops, BudgetTypeOK
  <1>2. /\ IsFiniteSet(up') /\ Cardinality(up') = Cardinality(up) - 1
        /\ Cardinality(up') \in Nat
    BY <1>1, FS_RemoveElement, FS_CardinalityType DEF StartsInv
  <1>3. Counted' = Others(r)
    <2>1. \A q \in up \ {r} : Used(q)' = Used(q)
      BY <1>1 DEF Used, TokensPending, Ceiling, BudgetTypeOK
    <2>2. QED
      BY <1>1, <2>1 DEF Counted, Others
  <1>4. /\ Cardinality(Counted') \in Nat
        /\ Cardinality(Counted) = Cardinality(Counted') + Used(r)
    BY <1>1, <1>3, CountedSplit DEF StartsInv
  <1>5. Used(r) \in Nat /\ Used(r) <= Ceiling
    BY UsedType
  <1>6. /\ Ceiling' = Ceiling
        /\ (Cardinality(up') + 1) * Ceiling = Cardinality(up') * Ceiling + Ceiling
        /\ Cardinality(up') * Ceiling \in Nat
    BY <1>1, <1>2, StartsTypes, Products DEF Ceiling
  <1>7. ASSUME NEW d \in Days
        PROVE  spent[d] + Cardinality(up') * Ceiling
                 <= starts * Ceiling + Cardinality(Counted') + TokensUnseen(d)
    <2>1. spent[d] + Cardinality(up) * Ceiling
            <= starts * Ceiling + Cardinality(Counted) + TokensUnseen(d)
      BY DEF StartsInv
    <2>2. Cardinality(up') + 1 = Cardinality(up)
      BY <1>2, StartsTypes
    <2>3. Cardinality(up) * Ceiling = Cardinality(up') * Ceiling + Ceiling
      BY <1>6, <2>2
    <2>4. QED
      BY <1>4, <1>5, <1>6, <2>1, <2>3, StartsTypes
  <1>8. Cardinality(up') <= starts'
    BY <1>1, <1>2, StartsTypes DEF StartsInv
  <1>9. QED
    BY <1>1, <1>2, <1>4, <1>6, <1>7, <1>8 DEF StartsInv, TokensUnseen

\* A higher ceiling allows each start as much more.
LEMMA StartsAdmit ==
    ASSUME BudgetTypeOK, BudgetTypeOK', PeakInv, PeakInv', StartsInv,
           NEW r \in Routers, Admitted(r)
    PROVE  StartsInv'
  <1>1. UNCHANGED <<up, usage, starts, spent, unseen>> /\ peak' \in Nat /\ peak \in Nat /\ peak <= peak'
    BY DEF Admitted, BudgetTypeOK
  <1>2. PICK e \in Nat : Ceiling' = Ceiling + e
    <2>1. /\ peak * MaxTokens \in Nat /\ peak' * MaxTokens \in Nat
          /\ peak * MaxTokens <= peak' * MaxTokens /\ Limit \in Nat
      BY <1>1, BudgetAssumption, Products, ProductsGrow
    <2>2. peak' * MaxTokens - peak * MaxTokens \in Nat
      BY <2>1
    <2>3. Ceiling' = Ceiling + (peak' * MaxTokens - peak * MaxTokens)
      BY <2>1 DEF Ceiling
    <2>4. QED
      BY <2>2, <2>3
  <1>3. ASSUME NEW q \in up
        PROVE  Used(q) \in Nat /\ Used(q)' \in Nat /\ Used(q) <= Used(q)'
    <2>1. q \in Routers /\ SizesOK /\ SizesOK'
      BY SizesHold, SizesNext DEF BudgetTypeOK
    <2>2. /\ {usage[q], TokensPending(q), TokensPending(q)', Used(q), Used(q)'} \subseteq Nat
          /\ Ceiling \in Nat /\ Ceiling' \in Nat
      BY <2>1 DEF SizesOK
    <2>3. CASE q = r
      <3>1. usage[q] <= Limit
        <4>1. PICK estimated \in Estimates : CanSpend(r, estimated)
          BY DEF Admitted
        <4>2. estimated \in Nat
          BY DEF Estimates
        <4>3. QED
          BY <2>3, <4>1, <4>2, BudgetNumbers DEF CanSpend
      <3>2. Used(q)' = usage[q]
        BY <1>1, <2>1, <3>1 DEF SizesOK
      <3>3. Used(q) = usage[q]
        BY <2>1, <3>1 DEF SizesOK
      <3>4. QED
        BY <2>2, <3>2, <3>3
    <2>4. CASE q # r
      <3>1. TokensPending(q)' = TokensPending(q)
        BY <2>1, <2>4 DEF Admitted, TokensPending, BudgetTypeOK
      <3>2. QED
        BY <1>1, <1>2, <2>1, <2>2, <3>1 DEF Used
    <2>5. QED
      BY <2>3, <2>4
  <1>4. Counted \subseteq Counted'
    <2>1. \A q \in up : Bar(q, Used(q)) \subseteq Bar(q, Used(q)')
      BY <1>3 DEF Bar
    <2>2. QED
      BY <1>1, <2>1 DEF Counted
  <1>5. /\ IsFiniteSet(Counted') /\ Cardinality(Counted') \in Nat
        /\ Cardinality(Counted) <= Cardinality(Counted')
    <2>1. IsFiniteSet(up')
      BY <1>1 DEF StartsInv
    <2>2. IsFiniteSet(Counted') /\ Cardinality(Counted') \in Nat
      BY <2>1, SizesNext DEF SizesOK
    <2>3. QED
      BY <1>4, <2>2, FS_Subset
  <1> DEFINE a == Cardinality(up)
  <1>6. a \in Nat /\ starts \in Nat /\ Ceiling \in Nat /\ a <= starts
    BY StartsTypes DEF StartsInv
  <1> HIDE DEF a
  <1>7. /\ a * (Ceiling + e) = a * Ceiling + a * e
        /\ starts * (Ceiling + e) = starts * Ceiling + starts * e
    BY <1>2, <1>6
  <1>8. a * e <= starts * e /\ a * e \in Nat /\ starts * e \in Nat
    BY <1>2, <1>6, Products, ProductsGrow
  <1>9. ASSUME NEW d \in Days
        PROVE  spent[d] + (a * Ceiling + a * e)
                 <= (starts * Ceiling + starts * e) + Cardinality(Counted') + TokensUnseen(d)
    <2>1. spent[d] + a * Ceiling <= starts * Ceiling + Cardinality(Counted) + TokensUnseen(d)
      BY DEF StartsInv, a
    <2>2. /\ a * Ceiling \in Nat /\ starts * Ceiling \in Nat /\ Cardinality(Counted) \in Nat
          /\ spent[d] \in Nat /\ TokensUnseen(d) \in Nat
      BY StartsTypes DEF a
    <2>3. QED
      BY <1>5, <1>8, <2>1, <2>2
  <1>10. QED
    BY <1>1, <1>2, <1>6, <1>7, <1>9 DEF StartsInv, TokensUnseen, a

\* An answer uses up what it takes, unless the budget does not see it.
LEMMA StartsSpend ==
    ASSUME BudgetTypeOK, BudgetTypeOK', PeakInv, PeakInv', StartsInv, NEW r \in Routers,
           Answered(r) \/ AnsweredUnrecorded(r) \/ AnsweredUnchecked(r)
    PROVE  StartsInv'
  <1>1. PICK actual \in Nat :
          /\ actual <= MaxTokens
          /\ spent'[today] = spent[today] + actual
          /\ \A d \in Days : d # today => spent'[d] = spent[d]
          /\ \/ Answered(r) /\ RecordSpend(r, actual)
             \/ AnsweredUnrecorded(r)
             \/ AnsweredUnchecked(r) /\ (RecordSpend(r, actual) \/ UNCHANGED <<usage, usageFile, apart>>)
    BY AnswerTakes
  <1>2. r \in up /\ UNCHANGED <<up, starts, peak>>
    BY BudgetNumbers DEF Answered, AnsweredUnrecorded, AnsweredUnchecked, PeakInv
  <1>3. Ceiling' = Ceiling /\ Ceiling \in Nat /\ MaxTokens \in Nat
    BY <1>2, BudgetNumbers DEF Ceiling
  <1>4. /\ {Used(r), usage[r], TokensPending(r)} \subseteq Nat
        /\ {Used(r)', usage'[r], TokensPending(r)'} \subseteq Nat
    BY SizesHold, SizesNext DEF SizesOK
  <1>5. \A q \in Routers : q # r => usage'[q] = usage[q] /\ inFlight'[q] = inFlight[q]
    <2>1. ASSUME NEW q \in Routers, q # r
          PROVE  usage'[q] = usage[q]
      BY <1>1, <2>1, RecordSpendTypes DEF AnsweredUnrecorded
    <2>2. ASSUME NEW q \in Routers, q # r
          PROVE  inFlight'[q] = inFlight[q]
      BY <1>1, <2>2 DEF Answered, AnsweredUnrecorded, AnsweredUnchecked, BudgetTypeOK
    <2>3. QED
      BY <2>1, <2>2
  <1>6. Cardinality(Counted') + Used(r) = Cardinality(Counted) + Used(r)'
    <2>1. Others(r)' = Others(r)
      <3>1. \A q \in up \ {r} : Used(q)' = Used(q)
        BY <1>3, <1>5 DEF Used, TokensPending, BudgetTypeOK
      <3>2. QED
        BY <1>2, <3>1 DEF Others
    <2>2. /\ Cardinality(Counted) = Cardinality(Others(r)) + Used(r)
          /\ Cardinality(Others(r)) \in Nat
      BY <1>2, CountedSplit DEF StartsInv
    <2>3. IsFiniteSet(up') /\ r \in up'
      BY <1>2 DEF StartsInv
    <2>4. Cardinality(Counted') = Cardinality(Others(r)') + Used(r)'
      BY <2>3, SizesNext DEF SizesOK
    <2>5. QED
      BY <1>4, <2>1, <2>2, <2>4
  <1>7. \/ Used(r)' >= Used(r) + actual /\ unseen' = unseen
        \/ Used(r)' >= Used(r) /\ unseen'[today] * MaxTokens = TokensUnseen(today) + MaxTokens
    <2>1. CASE Answered(r) /\ RecordSpend(r, actual)
      <3>1. TokensPending(r)' = TokensPending(r) - MaxTokens /\ unseen' = unseen
        BY <2>1, InFlightTypes DEF Answered
      <3>2. usage'[r] = usage[r] + actual
        BY <2>1, RecordSpendTypes
      <3>3. Used(r)' >= Used(r) + actual
        BY <1>1, <1>3, <1>4, <3>1, <3>2 DEF Used
      <3>4. QED
        BY <3>1, <3>3
    <2>2. CASE AnsweredUnrecorded(r)
      <3>1. usage' = usage /\ unseen'[today] * MaxTokens = TokensUnseen(today) + MaxTokens
        BY <2>2, EscapedTypes DEF AnsweredUnrecorded
      <3>2. TokensPending(r)' <= TokensPending(r)
        <4>1. CASE inFlight' = inFlight
          BY <1>4, <4>1 DEF TokensPending
        <4>2. CASE inFlight' = [inFlight EXCEPT ![r] = @ - 1]
          <5>1. TokensPending(r)' = TokensPending(r) - MaxTokens
            BY <2>2, <4>2, InFlightTypes DEF AnsweredUnrecorded
          <5>2. QED
            BY <1>3, <1>4, <5>1
        <4>3. QED
          BY <2>2, <4>1, <4>2 DEF AnsweredUnrecorded
      <3>3. QED
        BY <1>3, <1>4, <3>1, <3>2 DEF Used
    <2>3. CASE AnsweredUnchecked(r) /\ (RecordSpend(r, actual) \/ UNCHANGED <<usage, usageFile, apart>>)
      <3>1. unseen'[today] * MaxTokens = TokensUnseen(today) + MaxTokens /\ inFlight' = inFlight
        BY <2>3, EscapedTypes DEF AnsweredUnchecked
      <3>2. usage'[r] >= usage[r]
        BY <1>4, <2>3, RecordSpendTypes
      <3>3. TokensPending(r)' = TokensPending(r)
        BY <3>1 DEF TokensPending
      <3>4. QED
        BY <1>3, <1>4, <3>1, <3>2, <3>3 DEF Used
    <2>4. QED
      BY <1>1, <2>1, <2>2, <2>3
  <1>8. \A d \in Days : d # today => unseen'[d] = unseen[d]
    BY EscapedTypes DEF Answered, AnsweredUnrecorded, AnsweredUnchecked
  <1>9. /\ IsFiniteSet(up') /\ Cardinality(Counted') \in Nat
        /\ Cardinality(up') <= starts'
    BY <1>2, SizesNext DEF StartsInv, SizesOK
  <1>10. ASSUME NEW d \in Days
         PROVE  spent'[d] + Cardinality(up) * Ceiling
                  <= starts * Ceiling + Cardinality(Counted') + unseen'[d] * MaxTokens
    <2>1. spent[d] + Cardinality(up) * Ceiling
            <= starts * Ceiling + Cardinality(Counted) + TokensUnseen(d)
      BY DEF StartsInv
    <2>2. /\ Cardinality(up) * Ceiling \in Nat /\ starts * Ceiling \in Nat
          /\ Cardinality(Counted) \in Nat /\ spent[d] \in Nat /\ TokensUnseen(d) \in Nat
      BY StartsTypes
    <2>3. CASE d = today
      <3>1. CASE Used(r)' >= Used(r) + actual /\ unseen' = unseen
        <4>1. unseen'[d] * MaxTokens = TokensUnseen(d)
          BY <3>1 DEF TokensUnseen
        <4>2. spent'[d] = spent[d] + actual
          BY <1>1, <2>3
        <4>3. Cardinality(Counted') >= Cardinality(Counted) + actual
          BY <1>4, <1>6, <1>9, <2>2, <3>1
        <4>4. QED
          BY <1>9, <2>1, <2>2, <4>1, <4>2, <4>3
      <3>2. CASE Used(r)' >= Used(r) /\ unseen'[today] * MaxTokens = TokensUnseen(today) + MaxTokens
        <4>1. unseen'[d] * MaxTokens = TokensUnseen(d) + MaxTokens
          BY <2>3, <3>2
        <4>2. spent'[d] = spent[d] + actual
          BY <1>1, <2>3
        <4>3. Cardinality(Counted') >= Cardinality(Counted)
          BY <1>4, <1>6, <1>9, <2>2, <3>2
        <4>4. QED
          BY <1>1, <1>3, <1>9, <2>1, <2>2, <4>1, <4>2, <4>3
      <3>3. QED
        BY <1>7, <3>1, <3>2
    <2>4. CASE d # today
      <3>1. spent'[d] = spent[d] /\ unseen'[d] * MaxTokens = TokensUnseen(d)
        BY <1>1, <1>8, <2>4 DEF TokensUnseen
      <3>2. Cardinality(Counted') >= Cardinality(Counted)
        BY <1>4, <1>6, <1>7, <1>9, <2>2
      <3>3. QED
        BY <1>9, <2>1, <2>2, <3>1, <3>2
    <2>5. QED
      BY <2>3, <2>4
  <1>11. QED
    BY <1>2, <1>3, <1>9, <1>10 DEF StartsInv, TokensUnseen

LEMMA StartsStep ==
    ASSUME BudgetTypeOK, BudgetTypeOK', PeakInv, PeakInv', StartsInv, [BudgetNext]_budgetVars
    PROVE  StartsInv'
  <1>1. CASE UNCHANGED <<up, usage, inFlight, starts, spent, peak, unseen>>
    BY <1>1 DEF StartsInv, Counted, Used, TokensPending, Ceiling, TokensUnseen
  <1>2. ASSUME NEW r \in Routers, Unanswered(r)
        PROVE  StartsInv'
    <2>1. /\ UNCHANGED <<up, usage, starts, spent, peak, unseen>>
          /\ TokensPending(r)' = TokensPending(r) - MaxTokens
          /\ \A q \in Routers : q # r => inFlight'[q] = inFlight[q]
      BY <1>2, InFlightTypes DEF Unanswered
    <2>2. Ceiling' = Ceiling /\ Ceiling \in Nat /\ MaxTokens \in Nat
      BY <2>1, BudgetNumbers DEF Ceiling
    <2>3. ASSUME NEW q \in up
          PROVE  Bar(q, Used(q)) \subseteq Bar(q, Used(q)')
      <3>1. q \in Routers /\ {usage[q], TokensPending(q), Used(q), TokensPending(q)', Used(q)'} \subseteq Nat
        BY SizesHold, SizesNext DEF SizesOK, BudgetTypeOK
      <3>2. TokensPending(q)' <= TokensPending(q)
        <4>1. CASE q = r
          BY <2>1, <2>2, <3>1, <4>1
        <4>2. CASE q # r
          BY <2>1, <3>1, <4>2 DEF TokensPending
        <4>3. QED
          BY <4>1, <4>2
      <3>3. Used(q) <= Used(q)'
        BY <2>1, <2>2, <3>1, <3>2 DEF Used
      <3>4. QED
        BY <3>1, <3>3 DEF Bar
    <2>4. Counted \subseteq Counted'
      BY <2>1, <2>3 DEF Counted
    <2>5. IsFiniteSet(up') /\ IsFiniteSet(Counted') /\ Cardinality(Counted') \in Nat
      BY <2>1, SizesNext DEF StartsInv, SizesOK
    <2>6. Cardinality(Counted) <= Cardinality(Counted')
      BY <2>4, <2>5, FS_Subset
    <2>7. ASSUME NEW d \in Days
          PROVE  spent[d] + Cardinality(up) * Ceiling
                   <= starts * Ceiling + Cardinality(Counted') + TokensUnseen(d)
      BY <2>5, <2>6, StartsTypes DEF StartsInv
    <2>8. QED
      BY <2>1, <2>2, <2>5, <2>7 DEF StartsInv, TokensUnseen
  <1>3. CASE NextDay \/ UNCHANGED budgetVars \/ \E r \in Routers : Refused(r)
    BY <1>1, <1>3 DEF NextDay, Refused, budgetVars
  <1>4. QED
    BY <1>2, <1>3, StartsOn, StartsEnd, StartsAdmit, StartsSpend DEF BudgetNext

LEMMA WithinStarts ==
    ASSUME BudgetTypeOK, PeakInv, StartsInv
    PROVE  LimitPerStart
  <1>1. Cardinality(Counted) <= Cardinality(up) * Ceiling
    BY CountedSize DEF StartsInv
  <1>2. ASSUME NEW d \in Days
        PROVE  spent[d] <= starts * Ceiling + TokensUnseen(d)
    BY <1>1, StartsTypes DEF StartsInv
  <1>3. QED
    BY <1>2 DEF LimitPerStart, Ceiling, TokensUnseen

(* However often processes start, stop and overwrite each other's file, the *)
(* answers of a day that were checked and recorded take no more than the    *)
(* ceiling once for each start, and the others one call's tokens each.      *)
THEOREM StartsLimitSpending == BudgetSpec => []LimitPerStart
  <1>1. BudgetInit => BudgetTypeOK /\ PeakInv /\ StartsInv
    <2> SUFFICES ASSUME BudgetInit
                   PROVE  BudgetTypeOK /\ PeakInv /\ StartsInv
      OBVIOUS
    <2>1. BudgetTypeOK /\ PeakInv
      BY BudgetInitially
    <2>2. up = {} /\ starts = 0 /\ Counted = {} /\ \A d \in Days : spent[d] = 0
      BY DEF BudgetInit, Counted
    <2>3. IsFiniteSet({}) /\ Cardinality({}) = 0
      BY FS_EmptySet
    <2>4. Ceiling \in Nat /\ 0 * Ceiling = 0 /\ \A d \in Days : TokensUnseen(d) \in Nat
      BY <2>1, BudgetNumbers
    <2>5. QED
      BY <2>1, <2>2, <2>3, <2>4 DEF StartsInv
  <1>2. BudgetTypeOK /\ PeakInv /\ StartsInv /\ [BudgetNext]_budgetVars
        => (BudgetTypeOK /\ PeakInv /\ StartsInv)'
    BY BudgetTypeStep, StartsStep
  <1>3. BudgetTypeOK /\ PeakInv /\ StartsInv => LimitPerStart
    BY WithinStarts
  <1>4. QED
    BY <1>1, <1>2, <1>3, PTL DEF BudgetSpec
====
