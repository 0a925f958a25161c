----------------------------- MODULE LogIngest -----------------------------
(***************************************************************************)
(* The log ingestion of ai/log_intel/ingest.py: ingest_all runs the health,*)
(* scan and freshclam routines one after the other, each between reading   *)
(* and rewriting one state file that holds the three cursors.  Several     *)
(* processes run it (rag-embed.service, the security audit agent), without *)
(* a lock; each may be killed at any step, and the embedding providers may *)
(* be down.                                                                *)
(*                                                                         *)
(* find_new_files orders the files by name.  The directory of the health   *)
(* logs holds a dated file for each snapshot, the copies that logrotate    *)
(* makes of them, and the link health-latest.log, which sorts last.        *)
(***************************************************************************)
EXTENDS Naturals, Sequences, FiniteSets

CONSTANTS Ingesters,     \* processes that may run ingest_all
          MaxHealth,     \* bound: health logs that are ever written
          MaxScan,       \* bound: scan logs that are ever written
          MaxSignature,  \* bound: signature versions freshclam reaches
          MaxEvents,     \* bound: logs, links, rotations and signatures together
          MaxFaults      \* bound: kills of a process and failed embeddings

ASSUME IngestAssumption == {MaxHealth, MaxScan, MaxSignature, MaxFaults} \subseteq Nat

VARIABLES running,       \* the processes that this deployment runs
          healthLogs,    \* what the snapshots wrote, in order of time
          rotated,       \* the health logs that logrotate has moved to a copy
          linked,        \* the health log that health-latest.log points to, or 0
          scanLogs,      \* what each scan log holds
          signature,     \* version in the freshclam log
          ingestState,   \* .ingest-state.json
          ingester,      \* step, state as read, files or records, new cursor
          healthRows,    \* the health logs with a row in health_records
          scanCopies,    \* rows of scan_records per log: 0, 1 or 2 (several)
          faults,        \* kills and failed embeddings so far
          passed         \* history: health logs there were when the runs that
                         \* saved their cursor listed the directory

ingestVars == <<running, healthLogs, rotated, linked, scanLogs, signature, ingestState,
                ingester, healthRows, scanCopies, faults, passed>>

\* What parsing finds: a record, nothing worth a record (a test scan), or an
\* exception.  An empty health log is as good as none: it is never listed.
Content == {"record", "nothing", "unreadable"}
HealthContent == Content \ {"nothing"}

\* The files of the health directory by the place of their names: the log of
\* snapshot n, health-<date>.log, then its copy, health-<date>.log-<date>, and
\* after all dates health-latest.log.
Original(n) == 2 * n - 1
Copy(n) == 2 * n
Latest == 2 * MaxHealth + 1

Cursors == [health: 0..Latest, scan: 0..MaxScan, sig: 0..MaxSignature]
NoCursors == [health |-> 0, scan |-> 0, sig |-> 0]

Steps == {"idle", "healthParse", "healthAdd", "healthSave", "scan", "scanSave", "scanAdd",
          "fresh", "freshSave"}
\* seen is history: how many health logs there were when i listed them.
Positions == [step : Steps, mem : Cursors, batch : SUBSET Nat, last : Nat,
              seen : 0..MaxHealth]

Resting == [step |-> "idle", mem |-> NoCursors, batch |-> {}, last |-> 0, seen |-> 0]

IngestInit ==
    /\ running \in (SUBSET Ingesters) \ {{}}
    /\ healthLogs = <<>>
    /\ rotated = {}
    /\ linked = 0
    /\ scanLogs = <<>>
    /\ signature = 0
    /\ ingestState = NoCursors
    /\ ingester = [i \in Ingesters |-> Resting]
    /\ healthRows = {}
    /\ scanCopies = [n \in 1..MaxScan |-> 0]
    /\ faults = 0
    /\ passed = 0

Unstored == <<healthRows, scanCopies>>
Outside == <<running, healthLogs, rotated, linked, scanLogs, signature>>
Inside == <<ingestState, ingester, Unstored, faults, passed>>

Events == Len(healthLogs) + linked + Cardinality(rotated) + Len(scanLogs) + signature

\* A snapshot or a scan leaves its log; freshclam updates.
LogWritten ==
    /\ Events < MaxEvents
    /\ \/ /\ Len(healthLogs) < MaxHealth
          /\ \E c \in HealthContent : healthLogs' = Append(healthLogs, c)
          /\ UNCHANGED <<scanLogs, signature>>
       \/ /\ Len(scanLogs) < MaxScan
          /\ \E c \in Content : scanLogs' = Append(scanLogs, c)
          /\ UNCHANGED <<healthLogs, signature>>
       \/ /\ signature < MaxSignature
          /\ signature' = signature + 1
          /\ UNCHANGED <<healthLogs, scanLogs>>
    /\ UNCHANGED <<running, rotated, linked, Inside>>

\* The last command of a snapshot, which one that is killed never reaches,
\* points health-latest.log to its log.
LogLinked ==
    /\ Events < MaxEvents /\ linked < Len(healthLogs)
    /\ linked' = Len(healthLogs)
    /\ UNCHANGED <<running, healthLogs, rotated, scanLogs, signature, Inside>>

\* logrotate moves a log to its copy, and leaves an empty file ("create").
LogRotated ==
    /\ Events < MaxEvents
    /\ \E n \in (1..Len(healthLogs)) \ rotated : rotated' = rotated \cup {n}
    /\ UNCHANGED <<running, healthLogs, linked, scanLogs, signature, Inside>>

----------------------------------------------------------------------------
\* The snapshot that one reads in file f, if any.
Shown(f) ==
    {n \in 1..Len(healthLogs) :
        \/ n \notin rotated /\ f = Original(n)
        \/ n \notin rotated /\ f = Latest /\ n = linked
        \/ n \in rotated /\ f = Copy(n)}

\* find_new_files for both patterns: the files whose name sorts after the
\* cursor, the empty ones left out.
NewHealthFiles(cursor) == {f \in 1..Latest : f > cursor /\ Shown(f) # {}}

\* Mutant: an unreadable log ends the loop over the files.
RecordsToFirstUnreadable(files) ==
    {n \in 1..Len(healthLogs) :
        /\ healthLogs[n] = "record"
        /\ \E f \in files : /\ n \in Shown(f)
                            /\ \A g \in files : g < f =>
                                  \A m \in Shown(g) : healthLogs[m] # "unreadable"}

\* The snapshots that the loop over the files finds a record of.
HealthRecords(files) ==
    {n \in 1..Len(healthLogs) : healthLogs[n] = "record" /\ \E f \in files : n \in Shown(f)}

\* The files that the loop parses without an exception.
HealthParsed(files) ==
    {f \in files : \A n \in Shown(f) : healthLogs[n] # "unreadable"}

\* find_new_files: the scan logs whose name, a date, sorts after the cursor.
NewLogs(logs, cursor) == {n \in 1..Len(logs) : n > cursor}

Records(logs, cursor) == {n \in NewLogs(logs, cursor) : logs[n] = "record"}

Parsed(logs, cursor) == {n \in NewLogs(logs, cursor) : logs[n] # "unreadable"}

\* last_processed: the last file that could be parsed, else the old cursor.
LastProcessed(parsed, cursor) ==
    CHOOSE n \in parsed \cup {cursor} : \A m \in parsed : m <= n

\* Process i goes on to step s.
GoTo(i, s) == ingester' = [ingester EXCEPT ![i] = [Resting EXCEPT !.step = s]]

Added(copies, batch) ==
    [n \in DOMAIN copies |-> IF n \in batch /\ copies[n] < 2 THEN copies[n] + 1
                             ELSE copies[n]]

\* ingest_health reads the cursors and lists the new files, if there are any.
HealthRead(i) ==
    /\ i \in running /\ ingester[i].step = "idle"
    /\ LET files == NewHealthFiles(ingestState.health)
       IN  IF files = {} THEN GoTo(i, "scan")
           ELSE ingester' = [ingester EXCEPT ![i] =
                    [step |-> "healthParse", mem |-> ingestState, batch |-> files,
                     last |-> 0, seen |-> Len(healthLogs)]]
    /\ UNCHANGED <<Outside, ingestState, Unstored, faults, passed>>

\* It reads and parses the files.  Without a record it returns, and leaves the
\* cursor alone.
HealthParse(i) ==
    /\ ingester[i].step = "healthParse"
    /\ LET files == ingester[i].batch
           batch == HealthRecords(files)
       IN  IF batch = {} THEN GoTo(i, "scan")
           ELSE ingester' = [ingester EXCEPT ![i] =
                    [step |-> "healthAdd", mem |-> ingester[i].mem, batch |-> batch,
                     last |-> LastProcessed(HealthParsed(files), ingester[i].mem.health),
                     seen |-> ingester[i].seen]]
    /\ UNCHANGED <<Outside, ingestState, Unstored, faults, passed>>

\* The records are embedded and added to the table.
HealthAdd(i) ==
    /\ ingester[i].step = "healthAdd"
    /\ healthRows' = healthRows \cup ingester[i].batch
    /\ ingester' = [ingester EXCEPT ![i].step = "healthSave"]
    /\ UNCHANGED <<Outside, ingestState, scanCopies, faults, passed>>

\* Mutant: the cursor is saved although nothing could be embedded.
HealthSkipped(i) ==
    /\ ingester[i].step = "healthAdd"
    /\ faults < MaxFaults
    /\ faults' = faults + 1
    /\ ingester' = [ingester EXCEPT ![i].step = "healthSave"]
    /\ UNCHANGED <<Outside, ingestState, Unstored, passed>>

\* No embedding provider answers: the routine returns 0.
HealthFails(i) ==
    /\ ingester[i].step = "healthAdd"
    /\ faults < MaxFaults
    /\ faults' = faults + 1
    /\ GoTo(i, "scan")
    /\ UNCHANGED <<Outside, ingestState, Unstored, passed>>

\* The state read at the start is written back with the new cursor.
HealthSave(i) ==
    /\ ingester[i].step = "healthSave"
    /\ ingestState' = [ingester[i].mem EXCEPT !.health = ingester[i].last]
    /\ passed' = IF ingester[i].seen > passed THEN ingester[i].seen ELSE passed
    /\ GoTo(i, "scan")
    /\ UNCHANGED <<Outside, Unstored, faults>>

\* ingest_scans reads the cursors and parses the new logs.
ScanRead(i) ==
    /\ ingester[i].step = "scan"
    /\ LET cursor == ingestState.scan
           last == LastProcessed(Parsed(scanLogs, cursor), cursor)
       IN  IF last = cursor THEN GoTo(i, "fresh")
           ELSE ingester' = [ingester EXCEPT ![i] =
                    [step |-> "scanSave", mem |-> ingestState,
                     batch |-> Records(scanLogs, cursor), last |-> last, seen |-> 0]]
    /\ UNCHANGED <<Outside, ingestState, Unstored, faults, passed>>

\* Mutant: the cursor is saved here only when there are only test scans.
ScanSaveIfTests(i) ==
    /\ ingester[i].step = "scanSave"
    /\ ingestState' = IF ingester[i].batch = {}
                      THEN [ingester[i].mem EXCEPT !.scan = ingester[i].last]
                      ELSE ingestState
    /\ IF ingester[i].batch = {} THEN GoTo(i, "fresh")
       ELSE ingester' = [ingester EXCEPT ![i].step = "scanAdd"]
    /\ UNCHANGED <<Outside, Unstored, faults, passed>>

\* Unlike ingest_health it saves the cursor before it adds the records.
ScanSave(i) ==
    /\ ingester[i].step = "scanSave"
    /\ ingestState' = [ingester[i].mem EXCEPT !.scan = ingester[i].last]
    /\ IF ingester[i].batch = {} THEN GoTo(i, "fresh")
       ELSE ingester' = [ingester EXCEPT ![i].step = "scanAdd"]
    /\ UNCHANGED <<Outside, Unstored, faults, passed>>

ScanAdd(i) ==
    /\ ingester[i].step = "scanAdd"
    /\ scanCopies' = Added(scanCopies, ingester[i].batch)
    /\ GoTo(i, "fresh")
    /\ UNCHANGED <<Outside, ingestState, healthRows, faults, passed>>

ScanFails(i) ==
    /\ ingester[i].step = "scanAdd"
    /\ faults < MaxFaults
    /\ faults' = faults + 1
    /\ GoTo(i, "fresh")
    /\ UNCHANGED <<Outside, ingestState, Unstored, passed>>

\* ingest_freshclam reads the state and stores an unseen version ...
FreshRead(i) ==
    /\ ingester[i].step = "fresh"
    /\ IF signature \in {0, ingestState.sig} THEN GoTo(i, "idle")
       ELSE ingester' = [ingester EXCEPT ![i] =
                [step |-> "freshSave", mem |-> ingestState, batch |-> {},
                 last |-> signature, seen |-> 0]]
    /\ UNCHANGED <<Outside, ingestState, Unstored, faults, passed>>

\* ... and writes back the whole state.
FreshSave(i) ==
    /\ ingester[i].step = "freshSave"
    /\ ingestState' = [ingester[i].mem EXCEPT !.sig = ingester[i].last]
    /\ GoTo(i, "idle")
    /\ UNCHANGED <<Outside, Unstored, faults, passed>>

\* The process is killed; the state file is replaced atomically, so it holds
\* what some process wrote.
Killed(i) ==
    /\ ingester[i].step # "idle"
    /\ faults < MaxFaults
    /\ faults' = faults + 1
    /\ GoTo(i, "idle")
    /\ UNCHANGED <<Outside, ingestState, Unstored, passed>>

IngestStep(i) == \/ HealthRead(i) \/ HealthParse(i) \/ HealthAdd(i) \/ HealthSave(i)
                 \/ ScanRead(i) \/ ScanSave(i) \/ ScanAdd(i)
                 \/ FreshRead(i) \/ FreshSave(i)

IngestNext ==
    \/ LogWritten \/ LogLinked \/ LogRotated
    \/ \E i \in Ingesters : \/ IngestStep(i)
                            \/ HealthFails(i) \/ ScanFails(i) \/ Killed(i)

\* The timer starts a run again and again, and a run is straight-line code.
IngestFairness == \A i \in Ingesters : WF_ingestVars(IngestStep(i))

IngestSpec == IngestInit /\ [][IngestNext]_ingestVars /\ IngestFairness

----------------------------------------------------------------------------
IngestTypeOK ==
    /\ running \subseteq Ingesters
    /\ healthLogs \in Seq(HealthContent) /\ Len(healthLogs) <= MaxHealth
    /\ rotated \subseteq 1..MaxHealth
    /\ linked \in 0..MaxHealth
    /\ scanLogs \in Seq(Content) /\ Len(scanLogs) <= MaxScan
    /\ signature \in 0..MaxSignature
    /\ ingestState \in Cursors
    /\ ingester \in [Ingesters -> Positions]
    /\ healthRows \subseteq 1..MaxHealth
    /\ scanCopies \in [1..MaxScan -> 0..2]
    /\ faults \in 0..MaxFaults
    /\ passed \in 0..MaxHealth

(* What a run found is stored before its cursor is: every health log with a *)
(* record that was there when a run listed the directory, and that run went *)
(* on to save its cursor, has a row, whatever process is killed between the *)
(* two and whatever stale cursors another one writes back.  It says nothing *)
(* of later logs (see LaterLogsSortLater), nor of a log that logrotate moved*)
(* away, which may have been between the listing and the reading.           *)
HealthAtLeastOnce ==
    \A n \in (1..passed) \ rotated : healthLogs[n] = "record" => n \in healthRows

(* A scan is stored at most once as long as one process ingests: its cursor *)
(* is saved first, so a run that dies is not repeated.                      *)
ScansAtMostOnce ==
    (\A i, j \in running : i = j) => \A n \in 1..MaxScan : scanCopies[n] <= 1

(* Every health log with a record is stored in the end, however many runs   *)
(* fail before and whatever unreadable logs lie around it, unless           *)
(* health-latest.log becomes the cursor, or logrotate moves the log.        *)
HealthCaughtUp ==
    \A n \in 1..MaxHealth :
        n <= Len(healthLogs) /\ healthLogs[n] = "record"
          ~> n \in healthRows \cup rotated \/ ingestState.health = Latest

(* "lexicographic = chronological": a health log written after the last run *)
(* that saved its cursor listed the directory sorts after that cursor, so   *)
(* that the next run finds it.                                              *)
LaterLogsSortLater ==
    \A n \in 1..Len(healthLogs) : n > passed => Original(n) > ingestState.health
=============================================================================
