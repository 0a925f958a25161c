---------------------------- MODULE IngestProofs ----------------------------
(***************************************************************************)
(* Proofs that what the ingestion of logs, documents and code remembers is *)
(* backed by its tables: a run of ai/log_intel/ingest.py that saves its    *)
(* cursor has stored the health logs that it listed, the state file of     *)
(* ai/rag/ingest_docs.py and ingest_code.py records no file whose text is  *)
(* not in the table, and the code index has the file it passes by, for any *)
(* number of processes, files, runs and kills.                             *)
(***************************************************************************)
EXTENDS LogIngest, DocIndex, CodeIndex, TLAPS, SequenceTheorems, WellFoundedInduction

NatLess == {ss \in Nat \X Nat : ss[1] < ss[2]}

LEMMA NatLessWellFounded == IsWellFoundedOn(NatLess, Nat)
  <1>1. OpToRel(<, Nat) = NatLess
    BY DEF OpToRel, NatLess
  <1>2. QED
    BY <1>1, NatLessThanWellFounded

(* A bounded set of numbers that is not empty has a greatest element.       *)
LEMMA GreatestExists ==
    ASSUME NEW bound \in Nat, NEW S, S \subseteq 0..bound, S # {}
    PROVE  \E n \in S : \A m \in S : m <= n
  <1> DEFINE T == {bound - n : n \in S}
  <1>1. T \subseteq Nat /\ T # {}
    <2>1. \A n \in S : n \in Nat /\ n <= bound
      OBVIOUS
    <2>2. \A n \in S : bound - n \in Nat
      BY <2>1
    <2>3. QED
      BY <2>2
  <1>2. PICK x \in T : \A y \in T : <<y, x>> \notin NatLess
    <2> HIDE DEF T
    <2>1. QED
      BY <1>1, NatLessWellFounded, WFMin
  <1>3. PICK n \in S : x = bound - n
    OBVIOUS
  <1>4. ASSUME NEW m \in S
        PROVE  m <= n
    <2>1. bound - m \in T /\ bound - m \in Nat /\ x \in Nat
      BY <1>1
    <2>2. ~(bound - m < x)
      BY <1>2, <2>1 DEF NatLess
    <2>3. m \in Nat /\ n \in Nat
      OBVIOUS
    <2>4. QED
      BY <1>3, <2>2, <2>3
  <1>5. QED
    BY <1>4

(* last_processed is the old cursor or the last of the files that could be  *)
(* parsed.                                                                  *)
LEMMA LastProcessedIsLast ==
    ASSUME NEW bound \in Nat, NEW found, NEW cursor, found \cup {cursor} \subseteq 0..bound
    PROVE  /\ LastProcessed(found, cursor) \in found \cup {cursor}
           /\ \A m \in found : m <= LastProcessed(found, cursor)
  <1>1. PICK n \in found \cup {cursor} : \A m \in found \cup {cursor} : m <= n
    BY GreatestExists
  <1>2. n \in found \cup {cursor} /\ \A m \in found : m <= n
    BY <1>1
  <1>3. QED
    BY <1>2 DEF LastProcessed

----------------------------------------------------------------------------
\* What each process holds, by the step it has reached.
HoldsOK ==
    \A i \in Ingesters :
          /\ ingester[i].step = "healthParse" => ingester[i].batch \subseteq 1..Latest
          /\ ingester[i].step = "healthAdd" => ingester[i].batch \subseteq 1..MaxHealth
          /\ ingester[i].step \in {"healthAdd", "healthSave"} => ingester[i].last <= Latest
          /\ ingester[i].step = "scanSave" => ingester[i].last <= Len(scanLogs)
          /\ ingester[i].step = "freshSave" => ingester[i].last <= MaxSignature

\* The scan cursors point to logs that exist.
CursorsOK == ingestState.scan <= Len(scanLogs)
             /\ \A i \in Ingesters : ingester[i].mem.scan <= Len(scanLogs)

TypesInv == IngestTypeOK /\ HoldsOK /\ CursorsOK

LEMMA Bounds ==
    /\ MaxHealth \in Nat /\ MaxScan \in Nat /\ MaxSignature \in Nat /\ MaxFaults \in Nat
    /\ Latest = 2 * MaxHealth + 1 /\ Latest \in Nat
  BY IngestAssumption DEF Latest

LEMMA RestingHolds ==
    \A s \in Steps : [Resting EXCEPT !.step = s] \in Positions
  BY Bounds DEF Resting, NoCursors, Cursors, Positions, Steps

LEMMA Lengths ==
    ASSUME IngestTypeOK
    PROVE  /\ Len(healthLogs) \in 0..MaxHealth /\ Len(scanLogs) \in 0..MaxScan
           /\ Len(healthLogs) \in Nat /\ Len(scanLogs) \in Nat
  BY LenProperties, Bounds DEF IngestTypeOK

\* A step that only moves process i on, with the file as it is.
LEMMA GoToKeeps ==
    ASSUME TypesInv, NEW i \in Ingesters, UNCHANGED Outside, UNCHANGED ingestState,
           NEW s \in {"idle", "scan", "fresh"}, GoTo(i, s),
           healthRows' \subseteq 1..MaxHealth, scanCopies' \in [1..MaxScan -> 0..2],
           faults' \in 0..MaxFaults, passed' = passed
    PROVE  TypesInv'
  <1> USE DEF TypesInv
  <1>1. ingester' = [ingester EXCEPT ![i] = [Resting EXCEPT !.step = s]]
    BY DEF GoTo
  <1>2. /\ ingester'[i].step = s
        /\ ingester'[i].mem = NoCursors
        /\ \A j \in Ingesters : j # i => ingester'[j] = ingester[j]
        /\ ingester' \in [Ingesters -> Positions]
    <2>1. [Resting EXCEPT !.step = s].step = s /\ [Resting EXCEPT !.step = s].mem = NoCursors
      BY DEF Resting
    <2>2. [Resting EXCEPT !.step = s] \in Positions
      BY s \in Steps, RestingHolds DEF Steps
    <2>3. QED
      BY <1>1, <2>1, <2>2 DEF IngestTypeOK
  <1>3. HoldsOK'
    BY <1>2 DEF HoldsOK, Outside
  <1>4. IngestTypeOK'
    BY <1>2 DEF IngestTypeOK, Outside
  <1>5. CursorsOK'
    <2>1. NoCursors.scan = 0
      BY DEF NoCursors
    <2>2. QED
      BY <1>2, <2>1, Lengths DEF CursorsOK, Outside
  <1>6. QED
    BY <1>3, <1>4, <1>5

\* A step that changes only the step of process i.
LEMMA StepKeeps ==
    ASSUME TypesInv, NEW i \in Ingesters, UNCHANGED Outside, UNCHANGED ingestState,
           NEW s \in {"healthSave", "scanAdd"}, ingester' = [ingester EXCEPT ![i].step = s],
           s = "healthSave" => ingester[i].step = "healthAdd",
           healthRows' \subseteq 1..MaxHealth, scanCopies' \in [1..MaxScan -> 0..2],
           UNCHANGED <<faults, passed>>
    PROVE  TypesInv'
  <1> USE DEF TypesInv
  <1>1. /\ ingester'[i].step = s
        /\ ingester'[i].mem = ingester[i].mem
        /\ ingester'[i].last = ingester[i].last
        /\ \A j \in Ingesters : j # i => ingester'[j] = ingester[j]
        /\ ingester' \in [Ingesters -> Positions]
    BY s \in Steps DEF Steps, IngestTypeOK, Positions
  <1>2. HoldsOK'
    BY <1>1 DEF HoldsOK, Outside
  <1>3. IngestTypeOK'
    BY <1>1 DEF IngestTypeOK, Outside
  <1>4. CursorsOK'
    BY <1>1 DEF CursorsOK, Outside
  <1>5. QED
    BY <1>2, <1>3, <1>4

\* A step that lists files, or reads logs and prepares records and a cursor.
LEMMA ReadKeeps ==
    ASSUME TypesInv, NEW i \in Ingesters, UNCHANGED Outside, UNCHANGED ingestState,
           UNCHANGED Unstored, UNCHANGED <<faults, passed>>,
           NEW s \in {"healthParse", "healthAdd", "scanSave", "freshSave"},
           NEW mem \in {ingestState, ingester[i].mem},
           NEW batch \in SUBSET Nat, NEW last \in Nat, NEW seen \in 0..MaxHealth,
           s = "healthParse" => batch \subseteq 1..Latest,
           s = "healthAdd" => batch \subseteq 1..MaxHealth /\ last <= Latest,
           s = "scanSave" => last <= Len(scanLogs),
           s = "freshSave" => last <= MaxSignature,
           ingester' = [ingester EXCEPT ![i] =
               [step |-> s, mem |-> mem, batch |-> batch, last |-> last, seen |-> seen]]
    PROVE  TypesInv'
  <1> USE DEF TypesInv
  <1>1. mem \in Cursors /\ mem.scan <= Len(scanLogs)
    BY DEF IngestTypeOK, Positions, CursorsOK
  <1>2. /\ ingester'[i].step = s
        /\ ingester'[i].mem = mem
        /\ ingester'[i].batch = batch
        /\ ingester'[i].last = last
        /\ \A j \in Ingesters : j # i => ingester'[j] = ingester[j]
        /\ ingester' \in [Ingesters -> Positions]
    BY <1>1, s \in Steps DEF Steps, IngestTypeOK, Positions
  <1>3. HoldsOK'
    BY <1>2 DEF HoldsOK, Outside
  <1>4. IngestTypeOK'
    BY <1>2 DEF IngestTypeOK, Outside, Unstored
  <1>5. CursorsOK'
    BY <1>1, <1>2 DEF CursorsOK, Outside
  <1>6. QED
    BY <1>3, <1>4, <1>5

LEMMA AddedType ==
    ASSUME NEW n \in Nat, NEW copies \in [1..n -> 0..2], NEW batch
    PROVE  Added(copies, batch) \in [1..n -> 0..2]
  BY DEF Added

\* What ingest_scans reads, and where it stops.
LEMMA ScansRead ==
    ASSUME NEW logs \in Seq(Content), NEW cursor \in 0..Len(logs)
    PROVE  LET last == LastProcessed(Parsed(logs, cursor), cursor)
           IN  /\ last \in cursor..Len(logs)
               /\ Records(logs, cursor) \subseteq Nat
               /\ \A n \in Records(logs, cursor) : n > cursor /\ n <= last
  <1>1. Len(logs) \in Nat
    BY LenProperties
  <1>2. /\ Parsed(logs, cursor) \cup {cursor} \subseteq cursor..Len(logs)
        /\ Parsed(logs, cursor) \cup {cursor} \subseteq 0..Len(logs)
    BY <1>1 DEF Parsed, NewLogs
  <1>3. /\ LastProcessed(Parsed(logs, cursor), cursor) \in Parsed(logs, cursor) \cup {cursor}
        /\ \A m \in Parsed(logs, cursor) : m <= LastProcessed(Parsed(logs, cursor), cursor)
    BY <1>1, <1>2, LastProcessedIsLast
  <1>4. \A n \in Records(logs, cursor) : n \in Parsed(logs, cursor) /\ n > cursor /\ n \in Nat
    BY <1>1 DEF Records, Parsed, NewLogs
  <1>5. QED
    BY <1>2, <1>3, <1>4

\* What ingest_health lists, and what it parses of it.
LEMMA HealthFilesTyped ==
    ASSUME IngestTypeOK, NEW files, NEW cursor \in 0..Latest, files \subseteq 1..Latest
    PROVE  /\ NewHealthFiles(cursor) \subseteq 1..Latest
           /\ HealthRecords(files) \subseteq 1..MaxHealth
           /\ LastProcessed(HealthParsed(files), cursor) \in HealthParsed(files) \cup {cursor}
           /\ LastProcessed(HealthParsed(files), cursor) \in 0..Latest
  <1>1. HealthParsed(files) \cup {cursor} \subseteq 0..Latest
    <2>1. HealthParsed(files) \subseteq files
      BY DEF HealthParsed
    <2>2. \A f \in 1..Latest : f \in 0..Latest
      BY Bounds
    <2>3. \A f \in HealthParsed(files) : f \in 0..Latest
      BY <2>1, <2>2
    <2>4. QED
      BY <2>3
  <1>2. LastProcessed(HealthParsed(files), cursor) \in HealthParsed(files) \cup {cursor}
    BY <1>1, Bounds, LastProcessedIsLast
  <1>3. HealthRecords(files) \subseteq 1..MaxHealth
    BY Lengths, Bounds DEF HealthRecords
  <1>4. QED
    BY <1>1, <1>2, <1>3 DEF NewHealthFiles

\* A step that writes the state back.
LEMMA SaveKeeps ==
    ASSUME TypesInv, NEW i \in Ingesters, UNCHANGED Outside, UNCHANGED Unstored, faults' = faults,
           passed' \in 0..MaxHealth,
           NEW s \in {"idle", "scan", "fresh", "scanAdd"},
           \/ GoTo(i, s)
           \/ s = "scanAdd" /\ ingester' = [ingester EXCEPT ![i].step = s],
           ingestState' \in Cursors, ingestState'.scan <= Len(scanLogs)
    PROVE  TypesInv'
  <1> USE DEF TypesInv
  <1>1. /\ ingester'[i].step = s
        /\ ingester'[i].mem \in {NoCursors, ingester[i].mem}
        /\ \A j \in Ingesters : j # i => ingester'[j] = ingester[j]
        /\ ingester' \in [Ingesters -> Positions]
    <2>1. s \in Steps
      BY DEF Steps
    <2>2. CASE GoTo(i, s)
      <3>1. [Resting EXCEPT !.step = s].step = s /\ [Resting EXCEPT !.step = s].mem = NoCursors
        BY DEF Resting
      <3>2. [Resting EXCEPT !.step = s] \in Positions
        BY <2>1, RestingHolds
      <3>3. QED
        BY <2>2, <3>1, <3>2 DEF GoTo, IngestTypeOK
    <2>3. CASE ingester' = [ingester EXCEPT ![i].step = s]
      BY <2>1, <2>3 DEF IngestTypeOK, Positions
    <2>4. QED
      BY <2>2, <2>3
  <1>2. HoldsOK'
    BY <1>1 DEF HoldsOK, Outside
  <1>3. NoCursors.scan = 0
    BY DEF NoCursors
  <1>4. IngestTypeOK'
    BY <1>1 DEF IngestTypeOK, Outside, Unstored
  <1>5. CursorsOK'
    BY <1>1, <1>3, Lengths DEF CursorsOK, Outside
  <1>6. QED
    BY <1>2, <1>4, <1>5

\* The health logs only grow, and so do the scan logs.
LEMMA LogsGrow ==
    ASSUME IngestTypeOK, LogWritten
    PROVE  /\ healthLogs' \in Seq(HealthContent) /\ scanLogs' \in Seq(Content)
           /\ Len(healthLogs') \in Nat /\ Len(scanLogs') \in Nat
           /\ Len(healthLogs') \in Len(healthLogs)..MaxHealth
           /\ Len(scanLogs') \in Len(scanLogs)..MaxScan
           /\ signature' \in 0..MaxSignature
           /\ \A n \in 1..Len(healthLogs) : healthLogs'[n] = healthLogs[n]
  <1> USE DEF IngestTypeOK
  <1>1. /\ Len(healthLogs) \in 0..MaxHealth /\ Len(scanLogs) \in 0..MaxScan
        /\ MaxSignature \in Nat /\ MaxHealth \in Nat /\ MaxScan \in Nat
    BY Lengths, Bounds
  <1>2. CASE /\ Len(healthLogs) < MaxHealth
             /\ \E c \in HealthContent : healthLogs' = Append(healthLogs, c)
             /\ UNCHANGED <<scanLogs, signature>>
    <2>1. PICK c \in HealthContent : healthLogs' = Append(healthLogs, c)
      BY <1>2
    <2>2. /\ healthLogs' \in Seq(HealthContent)
          /\ Len(healthLogs') = Len(healthLogs) + 1
          /\ \A n \in 1..Len(healthLogs) : healthLogs'[n] = healthLogs[n]
      BY <2>1, AppendProperties
    <2>3. Len(healthLogs') \in Len(healthLogs)..MaxHealth /\ Len(healthLogs') \in Nat
      BY <1>1, <1>2, <2>2
    <2>4. Len(scanLogs') \in Len(scanLogs)..MaxScan /\ Len(scanLogs') \in Nat
      BY <1>1, <1>2
    <2>5. QED
      BY <1>2, <2>2, <2>3, <2>4
  <1>3. CASE /\ Len(scanLogs) < MaxScan
             /\ \E c \in Content : scanLogs' = Append(scanLogs, c)
             /\ UNCHANGED <<healthLogs, signature>>
    <2>1. PICK c \in Content : scanLogs' = Append(scanLogs, c)
      BY <1>3
    <2>2. /\ scanLogs' \in Seq(Content)
          /\ Len(scanLogs') = Len(scanLogs) + 1
      BY <2>1, AppendProperties
    <2>3. Len(scanLogs') \in Len(scanLogs)..MaxScan /\ Len(scanLogs') \in Nat
      BY <1>1, <1>3, <2>2
    <2>4. Len(healthLogs') \in Len(healthLogs)..MaxHealth /\ Len(healthLogs') \in Nat
      BY <1>1, <1>3
    <2>5. QED
      BY <1>3, <2>2, <2>3, <2>4
  <1>4. CASE /\ signature < MaxSignature
             /\ signature' = signature + 1
             /\ UNCHANGED <<healthLogs, scanLogs>>
    BY <1>1, <1>4
  <1>5. QED
    BY <1>2, <1>3, <1>4 DEF LogWritten

\* One cursor of the three moves.
LEMMA CursorMoved ==
    ASSUME NEW c \in Cursors, NEW n \in Nat
    PROVE  /\ n <= Latest => /\ [c EXCEPT !.health = n] \in Cursors
                             /\ [c EXCEPT !.health = n].health = n
                             /\ [c EXCEPT !.health = n].scan = c.scan
           /\ n <= MaxScan => /\ [c EXCEPT !.scan = n] \in Cursors
                              /\ [c EXCEPT !.scan = n].scan = n
                              /\ [c EXCEPT !.scan = n].health = c.health
           /\ n <= MaxSignature => /\ [c EXCEPT !.sig = n] \in Cursors
                                   /\ [c EXCEPT !.sig = n].scan = c.scan
                                   /\ [c EXCEPT !.sig = n].health = c.health
  <1>1. n <= Latest => [c EXCEPT !.health = n] \in Cursors
    BY Bounds DEF Cursors
  <1>2. n <= MaxScan => [c EXCEPT !.scan = n] \in Cursors
    BY Bounds DEF Cursors
  <1>3. n <= MaxSignature => [c EXCEPT !.sig = n] \in Cursors
    BY Bounds DEF Cursors
  <1>4. QED
    BY <1>1, <1>2, <1>3 DEF Cursors

LEMMA TypesStep ==
    ASSUME TypesInv, [IngestNext]_ingestVars
    PROVE  TypesInv'
  <1>1. IngestTypeOK /\ HoldsOK /\ CursorsOK
    BY DEF TypesInv
  <1>2. /\ healthRows \subseteq 1..MaxHealth /\ scanCopies \in [1..MaxScan -> 0..2]
        /\ faults \in 0..MaxFaults /\ MaxFaults \in Nat /\ MaxHealth \in Nat /\ MaxScan \in Nat
        /\ ingestState \in Cursors /\ ingester \in [Ingesters -> Positions]
        /\ healthLogs \in Seq(HealthContent) /\ scanLogs \in Seq(Content)
        /\ signature \in 0..MaxSignature /\ MaxSignature \in Nat /\ passed \in 0..MaxHealth
        /\ Len(healthLogs) \in 0..MaxHealth /\ Len(scanLogs) \in 0..MaxScan
        /\ rotated \subseteq 1..MaxHealth /\ linked \in 0..MaxHealth
    BY <1>1, Lengths, Bounds DEF IngestTypeOK
  <1>3. ASSUME LogWritten
        PROVE  TypesInv'
    <2>1. UNCHANGED <<running, rotated, linked, ingestState, ingester, healthRows, scanCopies,
                      faults, passed>>
      BY <1>3 DEF LogWritten, Inside, Unstored
    <2>2. IngestTypeOK'
      BY <1>1, <1>3, <2>1, LogsGrow DEF IngestTypeOK
    <2>3. HoldsOK' /\ CursorsOK'
      <3>1. Len(scanLogs) <= Len(scanLogs') /\ Len(scanLogs') \in Nat
        BY <1>1, <1>2, <1>3, LogsGrow
      <3>2. \A i \in Ingesters : ingester[i].last \in Nat /\ ingester[i].mem \in Cursors
        BY <1>2 DEF Positions
      <3>3. \A c \in Cursors : c.scan \in Nat
        BY DEF Cursors
      <3>4. QED
        BY <1>1, <1>2, <2>1, <3>1, <3>2, <3>3 DEF HoldsOK, CursorsOK
    <2>4. QED
      BY <2>2, <2>3 DEF TypesInv
  <1>4. ASSUME LogLinked \/ LogRotated
        PROVE  TypesInv'
    <2>1. /\ UNCHANGED <<running, healthLogs, scanLogs, signature, ingestState, ingester,
                         healthRows, scanCopies, faults, passed>>
          /\ rotated' \subseteq 1..MaxHealth /\ linked' \in 0..MaxHealth
      <3>1. CASE LogLinked
        BY <1>2, <3>1 DEF LogLinked, Inside, Unstored
      <3>2. CASE LogRotated
        <4>1. PICK n \in (1..Len(healthLogs)) \ rotated : rotated' = rotated \cup {n}
          BY <3>2 DEF LogRotated
        <4>2. n \in 1..MaxHealth
          BY <1>2, <4>1
        <4>3. QED
          BY <1>2, <3>2, <4>1, <4>2 DEF LogRotated, Inside, Unstored
      <3>3. QED
        BY <1>4, <3>1, <3>2
    <2>2. IngestTypeOK'
      BY <1>1, <2>1 DEF IngestTypeOK
    <2>3. HoldsOK' /\ CursorsOK'
      BY <1>1, <2>1 DEF HoldsOK, CursorsOK
    <2>4. QED
      BY <2>2, <2>3 DEF TypesInv
  <1>5. ASSUME NEW i \in Ingesters, HealthRead(i)
        PROVE  TypesInv'
    <2> DEFINE files == NewHealthFiles(ingestState.health)
    <2>1. CASE files = {}
      BY <1>2, <1>5, <2>1, GoToKeeps DEF HealthRead, Unstored
    <2>2. CASE files # {}
      <3>1. files \subseteq 1..Latest
        BY DEF NewHealthFiles
      <3>2. ingester' = [ingester EXCEPT ![i] =
               [step |-> "healthParse", mem |-> ingestState, batch |-> files, last |-> 0,
                seen |-> Len(healthLogs)]]
        BY <1>5, <2>2 DEF HealthRead
      <3>3. UNCHANGED <<Outside, ingestState, Unstored, faults, passed>>
        BY <1>5 DEF HealthRead
      <3>4. files \in SUBSET Nat
        BY <3>1, Bounds
      <3> HIDE DEF files
      <3>5. QED
        BY <1>2, <3>1, <3>2, <3>3, <3>4, ReadKeeps
    <2>3. QED
      BY <2>1, <2>2
  <1>6. ASSUME NEW i \in Ingesters, HealthParse(i)
        PROVE  TypesInv'
    <2> DEFINE files == ingester[i].batch
               batch == HealthRecords(files)
               last == LastProcessed(HealthParsed(files), ingester[i].mem.health)
    <2>1. CASE batch = {}
      BY <1>2, <1>6, <2>1, GoToKeeps DEF HealthParse, Unstored
    <2>2. CASE batch # {}
      <3>1. files \subseteq 1..Latest /\ ingester[i].mem.health \in 0..Latest
        BY <1>1, <1>2, <1>6 DEF HealthParse, HoldsOK, Positions, Cursors
      <3>2. batch \subseteq 1..MaxHealth /\ last \in 0..Latest
        BY <1>1, <3>1, HealthFilesTyped
      <3>3. ingester' = [ingester EXCEPT ![i] =
               [step |-> "healthAdd", mem |-> ingester[i].mem, batch |-> batch, last |-> last,
                seen |-> ingester[i].seen]]
        BY <1>6, <2>2 DEF HealthParse
      <3>4. UNCHANGED <<Outside, ingestState, Unstored, faults, passed>>
        BY <1>6 DEF HealthParse
      <3>5. /\ batch \in SUBSET Nat /\ last \in Nat /\ last <= Latest
            /\ ingester[i].seen \in 0..MaxHealth
        BY <1>2, <3>2, Bounds DEF Positions
      <3> HIDE DEF files, batch, last
      <3>6. QED
        BY <3>2, <3>3, <3>4, <3>5, ReadKeeps
    <2>3. QED
      BY <2>1, <2>2
  <1>7. ASSUME NEW i \in Ingesters, HealthAdd(i)
        PROVE  TypesInv'
    <2>1. healthRows' \subseteq 1..MaxHealth
      BY <1>1, <1>2, <1>7 DEF HealthAdd, HoldsOK
    <2>2. QED
      BY <1>2, <1>7, <2>1, StepKeeps DEF HealthAdd
  <1>8. ASSUME NEW i \in Ingesters, HealthFails(i) \/ ScanFails(i) \/ Killed(i)
        PROVE  TypesInv'
    <2>1. /\ UNCHANGED Outside /\ UNCHANGED <<ingestState, healthRows, scanCopies, passed>>
          /\ faults' = faults + 1 /\ faults < MaxFaults
          /\ GoTo(i, "scan") \/ GoTo(i, "fresh") \/ GoTo(i, "idle")
      BY <1>8 DEF HealthFails, ScanFails, Killed, Unstored
    <2>2. faults' \in 0..MaxFaults
      BY <1>2, <2>1
    <2>3. QED
      BY <1>2, <2>1, <2>2, GoToKeeps
  <1>9. ASSUME NEW i \in Ingesters, HealthSave(i)
        PROVE  TypesInv'
    <2>1. ingester[i].mem \in Cursors /\ ingester[i].last \in Nat /\ ingester[i].seen \in 0..MaxHealth
      BY <1>2 DEF Positions
    <2>2. ingester[i].last <= Latest /\ ingester[i].mem.scan <= Len(scanLogs)
      BY <1>1, <1>9 DEF HealthSave, HoldsOK, CursorsOK
    <2>3. ingestState' = [ingester[i].mem EXCEPT !.health = ingester[i].last]
      BY <1>9 DEF HealthSave
    <2>4. ingestState' \in Cursors /\ ingestState'.scan <= Len(scanLogs)
      BY <2>1, <2>2, <2>3, CursorMoved
    <2>5. passed' \in 0..MaxHealth
      BY <1>2, <1>9, <2>1 DEF HealthSave
    <2>6. QED
      BY <1>9, <2>4, <2>5, SaveKeeps DEF HealthSave
  <1>10. ASSUME NEW i \in Ingesters, ScanRead(i)
        PROVE  TypesInv'
    <2> DEFINE batch == Records(scanLogs, ingestState.scan)
               last == LastProcessed(Parsed(scanLogs, ingestState.scan), ingestState.scan)
    <2>1. CASE last = ingestState.scan
      BY <1>2, <1>10, <2>1, GoToKeeps DEF ScanRead, Unstored
    <2>2. CASE last # ingestState.scan
      <3>1. ingestState.scan \in 0..Len(scanLogs)
        BY <1>1, <1>2 DEF CursorsOK, Cursors
      <3>2. /\ last \in Nat /\ last <= Len(scanLogs) /\ batch \in SUBSET Nat
            /\ 0 \in 0..MaxHealth
        BY <1>2, <3>1, ScansRead
      <3>3. ingester' = [ingester EXCEPT ![i] =
               [step |-> "scanSave", mem |-> ingestState, batch |-> batch, last |-> last,
                seen |-> 0]]
        BY <1>10, <2>2 DEF ScanRead
      <3>4. UNCHANGED <<Outside, ingestState, Unstored, faults, passed>>
        BY <1>10 DEF ScanRead
      <3> HIDE DEF batch, last
      <3>5. QED
        BY <1>2, <3>2, <3>3, <3>4, ReadKeeps
    <2>3. QED
      BY <2>1, <2>2
  <1>11. ASSUME NEW i \in Ingesters, ScanSave(i)
        PROVE  TypesInv'
    <2>1. ingester[i].mem \in Cursors /\ ingester[i].last \in Nat
      BY <1>2 DEF Positions
    <2>2. ingester[i].last <= Len(scanLogs)
      BY <1>1, <1>11 DEF ScanSave, HoldsOK
    <2>3. ingestState' = [ingester[i].mem EXCEPT !.scan = ingester[i].last]
      BY <1>11 DEF ScanSave
    <2>4. ingestState' \in Cursors /\ ingestState'.scan <= Len(scanLogs)
      <3>1. ingester[i].last <= MaxScan
        BY <1>2, <2>1, <2>2
      <3>2. QED
        BY <2>1, <2>2, <2>3, <3>1, CursorMoved
    <2>5. QED
      BY <1>2, <1>11, <2>4, SaveKeeps DEF ScanSave
  <1>12. ASSUME NEW i \in Ingesters, ScanAdd(i)
         PROVE  TypesInv'
    BY <1>2, <1>12, AddedType, GoToKeeps DEF ScanAdd
  <1>13. ASSUME NEW i \in Ingesters, FreshRead(i)
         PROVE  TypesInv'
    <2>1. CASE signature \in {0, ingestState.sig}
      BY <1>2, <1>13, <2>1, GoToKeeps DEF FreshRead, Unstored
    <2>2. CASE signature \notin {0, ingestState.sig}
      <3>1. ingester' = [ingester EXCEPT ![i] =
               [step |-> "freshSave", mem |-> ingestState, batch |-> {}, last |-> signature,
                seen |-> 0]]
        BY <1>13, <2>2 DEF FreshRead
      <3>2. UNCHANGED <<Outside, ingestState, Unstored, faults, passed>>
        BY <1>13 DEF FreshRead
      <3>3. /\ signature \in Nat /\ signature <= MaxSignature /\ {} \in SUBSET Nat
            /\ 0 \in 0..MaxHealth
        BY <1>2
      <3>4. QED
        BY <3>1, <3>2, <3>3, ReadKeeps
    <2>3. QED
      BY <2>1, <2>2
  <1>14. ASSUME NEW i \in Ingesters, FreshSave(i)
         PROVE  TypesInv'
    <2>1. ingester[i].mem \in Cursors /\ ingester[i].last \in Nat
      BY <1>2 DEF Positions
    <2>2. ingester[i].last <= MaxSignature /\ ingester[i].mem.scan <= Len(scanLogs)
      BY <1>1, <1>14 DEF FreshSave, HoldsOK, CursorsOK
    <2>3. ingestState' = [ingester[i].mem EXCEPT !.sig = ingester[i].last]
      BY <1>14 DEF FreshSave
    <2>4. ingestState' \in Cursors /\ ingestState'.scan <= Len(scanLogs)
      BY <2>1, <2>2, <2>3, CursorMoved
    <2>5. QED
      BY <1>2, <1>14, <2>4, SaveKeeps DEF FreshSave
  <1>15. CASE UNCHANGED ingestVars
    BY <1>1, <1>15 DEF ingestVars, TypesInv, IngestTypeOK, HoldsOK, CursorsOK
  <1>16. QED
    BY <1>3, <1>4, <1>5, <1>6, <1>7, <1>8, <1>9, <1>10, <1>11, <1>12, <1>13, <1>14, <1>15
       DEF IngestNext, IngestStep

----------------------------------------------------------------------------
\* Health log n needs nothing more: it is stored, has no record, or is gone.
NeedsNothing(n) == n \in rotated \/ healthLogs[n] # "record" \/ n \in healthRows

UpTo(k) == \A n \in 1..k : NeedsNothing(n)

\* No log that sorts up to cursor c is missing, unless c is health-latest.log.
Behind(c) ==
    c # Latest => /\ c <= 2 * Len(healthLogs)
                  /\ \A n \in 1..Len(healthLogs) : Original(n) <= c => NeedsNothing(n)

\* What process i may still write back: no more than the logs it has seen.
Listed(i) ==
    ingester[i].step \in {"healthParse", "healthAdd", "healthSave"} =>
        ingester[i].seen <= Len(healthLogs)

ToParse(i) ==
    ingester[i].step = "healthParse" =>
        /\ ingester[i].mem.health <= 2 * ingester[i].seen
        /\ \A f \in ingester[i].batch : f = Latest \/ f <= 2 * ingester[i].seen
        /\ \A n \in 1..ingester[i].seen : NeedsNothing(n) \/ Original(n) \in ingester[i].batch

ToAdd(i) ==
    ingester[i].step = "healthAdd" =>
        /\ ingester[i].last = Latest \/ ingester[i].last <= 2 * ingester[i].seen
        /\ \A n \in 1..ingester[i].seen : NeedsNothing(n) \/ n \in ingester[i].batch

ToSave(i) ==
    ingester[i].step = "healthSave" =>
        /\ ingester[i].last = Latest \/ ingester[i].last <= 2 * ingester[i].seen
        /\ UpTo(ingester[i].seen)

Holds(i) == Behind(ingester[i].mem.health) /\ Listed(i) /\ ToParse(i) /\ ToAdd(i) /\ ToSave(i)

StoredInv ==
    /\ passed <= Len(healthLogs) /\ UpTo(passed)
    /\ Behind(ingestState.health)
    /\ \A i \in Ingesters : Holds(i)

\* No step takes a log or a row away, and a log that is moved stays moved.
Grows ==
    /\ Len(healthLogs) <= Len(healthLogs')
    /\ \A n \in 1..Len(healthLogs) : healthLogs'[n] = healthLogs[n]
    /\ rotated \subseteq rotated' /\ healthRows \subseteq healthRows'

LEMMA StepGrows ==
    ASSUME TypesInv, [IngestNext]_ingestVars
    PROVE  Grows
  <1>1. IngestTypeOK /\ Len(healthLogs) \in Nat
    BY Lengths DEF TypesInv
  <1>2. CASE LogWritten
    <2>1. UNCHANGED <<rotated, healthRows>>
      BY <1>2 DEF LogWritten, Inside, Unstored
    <2>2. /\ Len(healthLogs') \in Len(healthLogs)..MaxHealth
          /\ \A n \in 1..Len(healthLogs) : healthLogs'[n] = healthLogs[n]
      BY <1>1, <1>2, LogsGrow
    <2>3. QED
      BY <1>1, <2>1, <2>2, Bounds DEF Grows
  <1>3. CASE LogLinked \/ LogRotated
    BY <1>1, <1>3 DEF LogLinked, LogRotated, Inside, Unstored, Grows
  <1>4. ASSUME NEW i \in Ingesters, IngestStep(i) \/ HealthFails(i) \/ ScanFails(i) \/ Killed(i)
        PROVE  Grows
    <2>1. UNCHANGED <<healthLogs, rotated>> /\ healthRows \subseteq healthRows'
      BY <1>4 DEF IngestStep, HealthRead, HealthParse, HealthAdd, HealthSave, ScanRead, ScanSave,
                  ScanAdd, FreshRead, FreshSave, HealthFails, ScanFails, Killed, Outside, Unstored
    <2>2. QED
      BY <1>1, <2>1 DEF Grows
  <1>5. CASE UNCHANGED ingestVars
    BY <1>1, <1>5 DEF ingestVars, Grows
  <1>6. QED
    BY <1>2, <1>3, <1>4, <1>5 DEF IngestNext

LEMMA KeptStays ==
    ASSUME Grows, NEW n \in 1..Len(healthLogs), NeedsNothing(n)
    PROVE  NeedsNothing(n)'
  BY DEF Grows, NeedsNothing

LEMMA UpToStays ==
    ASSUME TypesInv, Grows, NEW k \in Nat, k <= Len(healthLogs), UpTo(k)
    PROVE  /\ k <= Len(healthLogs')
           /\ \A n \in 1..k : NeedsNothing(n)'
  <1>1. Len(healthLogs) \in Nat
    BY Lengths DEF TypesInv
  <1>2. \A n \in 1..k : n \in 1..Len(healthLogs) /\ NeedsNothing(n)
    BY <1>1 DEF UpTo
  <1>3. QED
    BY <1>1, <1>2, KeptStays, LenProperties DEF Grows

LEMMA BehindStays ==
    ASSUME TypesInv, TypesInv', Grows, NEW c \in Nat, Behind(c)
    PROVE  c # Latest => /\ c <= 2 * Len(healthLogs')
                         /\ \A n \in 1..Len(healthLogs') : Original(n) <= c => NeedsNothing(n)'
  <1>1. Len(healthLogs) \in Nat /\ Len(healthLogs') \in Nat
    <2>1. healthLogs \in Seq(HealthContent) /\ healthLogs' \in Seq(HealthContent)
      BY DEF TypesInv, IngestTypeOK
    <2>2. QED
      BY <2>1, LenProperties
  <1>2. SUFFICES ASSUME c # Latest
                 PROVE  /\ c <= 2 * Len(healthLogs')
                        /\ \A n \in 1..Len(healthLogs') : Original(n) <= c => NeedsNothing(n)'
    OBVIOUS
  <1>3. c <= 2 * Len(healthLogs)
        /\ \A n \in 1..Len(healthLogs) : Original(n) <= c => NeedsNothing(n)
    BY <1>2 DEF Behind
  <1>4. ASSUME NEW n \in 1..Len(healthLogs'), Original(n) <= c
        PROVE  NeedsNothing(n)'
    <2>1. n \in 1..Len(healthLogs)
      BY <1>1, <1>3, <1>4 DEF Original
    <2>2. QED
      BY <1>3, <1>4, <2>1, KeptStays
  <1>5. QED
    BY <1>1, <1>3, <1>4 DEF Grows

\* A process that a step leaves alone.
LEMMA OthersHold ==
    ASSUME TypesInv, TypesInv', Grows, NEW i \in Ingesters, Holds(i), ingester'[i] = ingester[i]
    PROVE  Holds(i)'
  <1>1. /\ ingester[i].mem.health \in Nat /\ ingester[i].seen \in Nat
        /\ Len(healthLogs) \in Nat
    <2>1. ingester[i] \in Positions /\ Len(healthLogs) \in Nat
      BY Lengths DEF TypesInv, IngestTypeOK
    <2>2. QED
      BY <2>1, Bounds DEF Positions, Cursors
  <1>2. Behind(ingester[i].mem.health)'
    BY <1>1, BehindStays DEF Holds, Behind
  <1>3. ASSUME ingester[i].step \in {"healthParse", "healthAdd", "healthSave"}
        PROVE  \A n \in 1..ingester[i].seen : n \in 1..Len(healthLogs) /\ (NeedsNothing(n) => NeedsNothing(n)')
    <2>1. \A n \in 1..ingester[i].seen : n \in 1..Len(healthLogs)
      BY <1>1, <1>3 DEF Holds, Listed
    <2>2. QED
      BY <2>1, KeptStays
  <1>4. Listed(i)'
    <2>1. Len(healthLogs') \in Nat
      BY LenProperties DEF TypesInv, IngestTypeOK
    <2>2. QED
      BY <1>1, <2>1 DEF Holds, Listed, Grows
  <1>5. ToParse(i)'
    BY <1>3 DEF Holds, ToParse
  <1>6. ToAdd(i)' /\ ToSave(i)'
    BY <1>3 DEF Holds, ToAdd, ToSave, UpTo
  <1>7. QED
    BY <1>2, <1>4, <1>5, <1>6 DEF Holds

\* Nothing changes but process i, and what it does is in order.
LEMMA StoredAfter ==
    ASSUME TypesInv, TypesInv', StoredInv, Grows, NEW i \in Ingesters,
           \A j \in Ingesters : j # i => ingester'[j] = ingester[j],
           Holds(i)', Behind(ingestState.health)',
           passed' <= Len(healthLogs') /\ UpTo(passed)'
    PROVE  StoredInv'
  <1>1. \A j \in Ingesters : Holds(j)'
    BY OthersHold DEF StoredInv
  <1>2. QED
    BY <1>1 DEF StoredInv

LEMMA PassedStays ==
    ASSUME TypesInv, StoredInv, Grows, passed' = passed
    PROVE  passed' <= Len(healthLogs') /\ UpTo(passed)'
  <1>1. passed \in Nat /\ passed <= Len(healthLogs) /\ UpTo(passed)
    BY DEF TypesInv, IngestTypeOK, StoredInv
  <1>2. QED
    BY <1>1, UpToStays DEF UpTo

LEMMA FileStays ==
    ASSUME TypesInv, TypesInv', Grows, NEW c \in Nat, Behind(c), ingestState'.health = c
    PROVE  Behind(ingestState.health)'
  BY BehindStays DEF Behind

\* What a step that goes on to the next routine does to process i.
LEMMA AfterGoTo ==
    ASSUME IngestTypeOK, NEW i \in Ingesters, NEW s, GoTo(i, s)
    PROVE  /\ ingester'[i].step = s /\ ingester'[i].mem = NoCursors
           /\ \A j \in Ingesters : j # i => ingester'[j] = ingester[j]
  BY DEF GoTo, Resting, IngestTypeOK

\* A process that holds no more than a state that it read.
LEMMA ReaderHolds ==
    ASSUME TypesInv, TypesInv', Grows, NEW i \in Ingesters,
           ingester'[i].step \notin {"healthParse", "healthAdd", "healthSave"},
           NEW c \in Nat, Behind(c) \/ c = 0, ingester'[i].mem.health = c
    PROVE  Holds(i)'
  <1>1. Behind(ingester[i].mem.health)'
    <2>1. CASE c = 0
      <3>1. \A n \in 1..Len(healthLogs') : ~(Original(n) <= c)
        BY <2>1 DEF Original
      <3>2. Len(healthLogs') \in Nat
        BY LenProperties DEF TypesInv, IngestTypeOK
      <3>3. c <= 2 * Len(healthLogs')
        BY <2>1, <3>2
      <3>4. QED
        BY <3>1, <3>3 DEF Behind
    <2>2. CASE Behind(c)
      BY <2>2, BehindStays DEF Behind
    <2>3. QED
      BY <2>1, <2>2
  <1>2. QED
    BY <1>1 DEF Holds, Listed, ToParse, ToAdd, ToSave

LEMMA StoredStep ==
    ASSUME TypesInv, TypesInv', StoredInv, [IngestNext]_ingestVars
    PROVE  StoredInv'
  <1>1. /\ IngestTypeOK /\ HoldsOK /\ CursorsOK
        /\ ingester \in [Ingesters -> Positions] /\ ingestState \in Cursors
        /\ Len(healthLogs) \in 0..MaxHealth /\ MaxHealth \in Nat
        /\ passed \in 0..MaxHealth /\ ingestState.health \in Nat
    <2>1. IngestTypeOK /\ HoldsOK /\ CursorsOK
      BY DEF TypesInv
    <2>2. ingestState.health \in Nat
      BY <2>1, Bounds DEF IngestTypeOK, Cursors
    <2>3. QED
      BY <2>1, <2>2, Lengths, Bounds DEF IngestTypeOK
  <1>2. Grows
    BY StepGrows
  <1>3. \A i \in Ingesters : /\ ingester[i].mem \in Cursors /\ ingester[i].mem.health \in Nat
                             /\ ingester[i].last \in Nat /\ ingester[i].seen \in Nat
    <2>1. \A i \in Ingesters : ingester[i] \in Positions
      BY <1>1
    <2>2. QED
      BY <2>1, Bounds DEF Positions, Cursors
  <1>4. ASSUME UNCHANGED <<ingestState, ingester, passed>>
        PROVE  StoredInv'
    <2>1. \A i \in Ingesters : Holds(i)'
      BY <1>2, <1>4, OthersHold DEF StoredInv
    <2>2. Behind(ingestState.health)'
      BY <1>1, <1>2, <1>4, FileStays DEF StoredInv
    <2>3. QED
      BY <1>2, <1>4, <2>1, <2>2, PassedStays DEF StoredInv
  <1>5. CASE LogWritten \/ LogLinked \/ LogRotated
    BY <1>4, <1>5 DEF LogWritten, LogLinked, LogRotated, Inside
  <1>6. CASE UNCHANGED ingestVars
    BY <1>4, <1>6 DEF ingestVars
  <1>7. ASSUME NEW i \in Ingesters, passed' = passed, Behind(ingestState.health)',
               \A j \in Ingesters : j # i => ingester'[j] = ingester[j], Holds(i)'
        PROVE  StoredInv'
    BY <1>2, <1>7, PassedStays, StoredAfter
  <1>8. ASSUME ingestState' = ingestState
        PROVE  Behind(ingestState.health)'
    BY <1>1, <1>2, <1>8, FileStays DEF StoredInv
  <1>9. ASSUME NEW i \in Ingesters, NEW s \in {"idle", "scan", "fresh"}, GoTo(i, s)
        PROVE  /\ \A j \in Ingesters : j # i => ingester'[j] = ingester[j]
               /\ Holds(i)'
    <2>1. /\ ingester'[i].step = s /\ ingester'[i].mem = NoCursors
          /\ \A j \in Ingesters : j # i => ingester'[j] = ingester[j]
      BY <1>1, <1>9, AfterGoTo
    <2>2. ingester'[i].mem.health = 0
      BY <2>1 DEF NoCursors
    <2>3. QED
      BY <1>2, <2>1, <2>2, ReaderHolds
  <1>10. ASSUME NEW i \in Ingesters, HealthRead(i)
         PROVE  StoredInv'
    <2> DEFINE files == NewHealthFiles(ingestState.health)
    <2>1. UNCHANGED <<healthLogs, rotated, healthRows, ingestState, passed>>
      BY <1>10 DEF HealthRead, Outside, Unstored
    <2>2. CASE files = {}
      BY <1>7, <1>8, <1>9, <1>10, <2>1, <2>2 DEF HealthRead
    <2>3. CASE files # {}
      <3>1. /\ ingester'[i].step = "healthParse" /\ ingester'[i].mem = ingestState
            /\ ingester'[i].batch = files /\ ingester'[i].seen = Len(healthLogs)
            /\ \A j \in Ingesters : j # i => ingester'[j] = ingester[j]
        BY <1>1, <1>10, <2>3 DEF HealthRead
      <3>2. ingestState.health # Latest
        BY <1>1, <2>3, Bounds DEF NewHealthFiles
      <3>3. ingestState.health <= 2 * Len(healthLogs)
        BY <3>2 DEF StoredInv, Behind
      <3>4. ASSUME NEW f \in files
            PROVE  f = Latest \/ f <= 2 * Len(healthLogs)
        <4>1. f \in 1..Latest /\ Shown(f) # {}
          BY DEF NewHealthFiles
        <4>2. PICK n \in 1..Len(healthLogs) : f \in {Original(n), Latest, Copy(n)}
          BY <4>1 DEF Shown
        <4>3. QED
          BY <1>1, <4>2 DEF Original, Copy
      <3>5. ASSUME NEW n \in 1..Len(healthLogs)
            PROVE  NeedsNothing(n) \/ Original(n) \in files
        <4>1. CASE n \in rotated \/ Original(n) <= ingestState.health
          BY <3>2, <4>1 DEF StoredInv, Behind, NeedsNothing
        <4>2. CASE n \notin rotated /\ ~(Original(n) <= ingestState.health)
          <5>1. Original(n) > ingestState.health /\ Original(n) \in 1..Latest
            BY <1>1, <4>2, Bounds DEF Original
          <5>2. n \in Shown(Original(n))
            BY <4>2 DEF Shown
          <5>3. QED
            BY <5>1, <5>2 DEF NewHealthFiles
        <4>3. QED
          BY <4>1, <4>2
      <3> HIDE DEF files
      <3>6. Behind(ingester[i].mem.health)'
        BY <1>8, <2>1, <3>1
      <3>7. Listed(i)' /\ ToParse(i)'
        <4>1. Len(healthLogs') = Len(healthLogs) /\ \A n : NeedsNothing(n)' <=> NeedsNothing(n)
          BY <2>1 DEF NeedsNothing
        <4>2. Listed(i)'
          BY <1>1, <3>1, <4>1 DEF Listed
        <4>3. ToParse(i)'
          BY <3>1, <3>3, <3>4, <3>5, <4>1, <2>1 DEF ToParse
        <4>4. QED
          BY <4>2, <4>3
      <3>8. Holds(i)'
        BY <3>1, <3>6, <3>7 DEF Holds, ToAdd, ToSave
      <3>9. QED
        BY <1>7, <1>8, <2>1, <3>1, <3>8
    <2>4. QED
      BY <2>2, <2>3
  <1>11. ASSUME NEW i \in Ingesters, HealthParse(i)
         PROVE  StoredInv'
    <2> DEFINE files == ingester[i].batch
               batch == HealthRecords(files)
               cursor == ingester[i].mem.health
               last == LastProcessed(HealthParsed(files), cursor)
    <2>1. /\ UNCHANGED <<healthLogs, rotated, healthRows, ingestState, passed>>
          /\ ingester[i].step = "healthParse"
      BY <1>11 DEF HealthParse, Outside, Unstored
    <2>2. CASE batch = {}
      BY <1>7, <1>8, <1>9, <1>11, <2>1, <2>2 DEF HealthParse
    <2>3. CASE batch # {}
      <3>1. /\ ingester'[i].step = "healthAdd" /\ ingester'[i].mem = ingester[i].mem
            /\ ingester'[i].batch = batch /\ ingester'[i].last = last
            /\ ingester'[i].seen = ingester[i].seen
            /\ \A j \in Ingesters : j # i => ingester'[j] = ingester[j]
        BY <1>1, <1>11, <2>3 DEF HealthParse
      <3>2. Holds(i)
        BY DEF StoredInv
      <3>3. ingester[i].seen <= Len(healthLogs)
        BY <2>1, <3>2 DEF Holds, Listed
      <3>4. last = Latest \/ last <= 2 * ingester[i].seen
        <4>1. files \subseteq 1..Latest /\ cursor \in 0..Latest
          BY <1>1, <1>3, <2>1 DEF HoldsOK, Cursors
        <4>2. last \in HealthParsed(files) \cup {cursor}
          BY <1>1, <4>1, HealthFilesTyped
        <4>3. last \in files \/ last = cursor
          BY <4>2 DEF HealthParsed
        <4>4. QED
          BY <2>1, <3>2, <4>3 DEF Holds, ToParse
      <3>5. ASSUME NEW n \in 1..ingester[i].seen
            PROVE  NeedsNothing(n) \/ n \in batch
        <4>1. n \in 1..Len(healthLogs)
          BY <1>1, <1>3, <3>3
        <4>2. NeedsNothing(n) \/ Original(n) \in files
          BY <2>1, <3>2 DEF Holds, ToParse
        <4>3. CASE n \notin rotated /\ healthLogs[n] = "record" /\ Original(n) \in files
          <5>1. n \in Shown(Original(n))
            BY <4>1, <4>3 DEF Shown
          <5>2. QED
            BY <4>1, <4>3, <5>1 DEF HealthRecords
        <4>4. QED
          BY <4>2, <4>3 DEF NeedsNothing
      <3>6. Behind(ingester[i].mem.health)'
        <4>1. Behind(ingester[i].mem.health)
          BY <3>2 DEF Holds
        <4>2. QED
          BY <2>1, <3>1, <4>1 DEF Behind, NeedsNothing
      <3> HIDE DEF files, batch, cursor, last
      <3>7. Listed(i)' /\ ToAdd(i)'
        <4>1. Len(healthLogs') = Len(healthLogs) /\ \A n : NeedsNothing(n)' <=> NeedsNothing(n)
          BY <2>1 DEF NeedsNothing
        <4>2. Listed(i)'
          BY <3>1, <3>3, <4>1 DEF Listed
        <4>3. ToAdd(i)'
          BY <3>1, <3>4, <3>5, <4>1 DEF ToAdd
        <4>4. QED
          BY <4>2, <4>3
      <3>8. Holds(i)'
        BY <3>1, <3>6, <3>7 DEF Holds, ToParse, ToSave
      <3>9. QED
        BY <1>7, <1>8, <2>1, <3>1, <3>8
    <2>4. QED
      BY <2>2, <2>3
  <1>12. ASSUME NEW i \in Ingesters, HealthAdd(i)
         PROVE  StoredInv'
    <2>1. /\ UNCHANGED <<healthLogs, rotated, ingestState, passed>>
          /\ healthRows' = healthRows \cup ingester[i].batch
          /\ ingester[i].step = "healthAdd" /\ ingester'[i].step = "healthSave"
          /\ ingester'[i].mem = ingester[i].mem /\ ingester'[i].last = ingester[i].last
          /\ ingester'[i].seen = ingester[i].seen
          /\ \A j \in Ingesters : j # i => ingester'[j] = ingester[j]
      BY <1>1, <1>12 DEF HealthAdd, Outside, Positions, Steps
    <2>2. Holds(i)
      BY DEF StoredInv
    <2>3. \A n \in 1..ingester[i].seen : NeedsNothing(n)'
      BY <2>1, <2>2 DEF Holds, ToAdd, NeedsNothing
    <2>4. Behind(ingester[i].mem.health)'
      <3>1. Behind(ingester[i].mem.health)
        BY <2>2 DEF Holds
      <3>2. QED
        BY <2>1, <3>1 DEF Behind, NeedsNothing
    <2>5. Listed(i)' /\ ToSave(i)'
      BY <2>1, <2>2, <2>3 DEF Holds, Listed, ToAdd, ToSave, UpTo
    <2>6. Holds(i)'
      BY <2>1, <2>4, <2>5 DEF Holds, ToParse, ToAdd
    <2>7. QED
      BY <1>7, <1>8, <2>1, <2>6
  <1>13. ASSUME NEW i \in Ingesters, HealthSave(i)
         PROVE  StoredInv'
    <2>1. /\ UNCHANGED <<healthLogs, rotated, healthRows>> /\ ingester[i].step = "healthSave"
          /\ ingestState' = [ingester[i].mem EXCEPT !.health = ingester[i].last]
          /\ passed' \in {passed, ingester[i].seen}
      BY <1>13 DEF HealthSave, Outside, Unstored
    <2>2. Holds(i)'  /\ \A j \in Ingesters : j # i => ingester'[j] = ingester[j]
      BY <1>9, <1>13 DEF HealthSave
    <2>3. ingestState'.health = ingester[i].last
      BY <1>3, <2>1 DEF Cursors
    <2>4. /\ ingester[i].seen <= Len(healthLogs) /\ UpTo(ingester[i].seen)
          /\ ingester[i].last = Latest \/ ingester[i].last <= 2 * ingester[i].seen
      BY <2>1 DEF StoredInv, Holds, Listed, ToSave
    <2>5. Behind(ingester[i].last)
      <3>1. SUFFICES ASSUME ingester[i].last # Latest
                     PROVE  /\ ingester[i].last <= 2 * Len(healthLogs)
                            /\ \A n \in 1..Len(healthLogs) :
                                  Original(n) <= ingester[i].last => NeedsNothing(n)
        BY DEF Behind
      <3>2. ingester[i].last <= 2 * ingester[i].seen
        BY <2>4, <3>1
      <3>3. ASSUME NEW n \in 1..Len(healthLogs), Original(n) <= ingester[i].last
            PROVE  n \in 1..ingester[i].seen
        BY <1>1, <1>3, <3>2, <3>3 DEF Original
      <3>4. QED
        BY <1>1, <1>3, <2>4, <3>2, <3>3 DEF UpTo
    <2>6. Behind(ingestState.health)'
      BY <1>2, <1>3, <2>3, <2>5, FileStays
    <2>7. /\ passed <= Len(healthLogs) /\ UpTo(passed)
          /\ \A n : NeedsNothing(n)' <=> NeedsNothing(n)
      BY <2>1 DEF StoredInv, NeedsNothing
    <2>8. passed' <= Len(healthLogs') /\ UpTo(passed)'
      BY <2>1, <2>4, <2>7 DEF UpTo
    <2>9. QED
      BY <1>2, <2>2, <2>6, <2>8, StoredAfter
  <1>14. ASSUME NEW i \in Ingesters, HealthFails(i) \/ ScanFails(i) \/ Killed(i) \/ ScanAdd(i)
         PROVE  StoredInv'
    <2>1. /\ UNCHANGED <<ingestState, passed>>
          /\ GoTo(i, "scan") \/ GoTo(i, "fresh") \/ GoTo(i, "idle")
      BY <1>14 DEF HealthFails, ScanFails, Killed, ScanAdd
    <2>2. Holds(i)' /\ \A j \in Ingesters : j # i => ingester'[j] = ingester[j]
      BY <1>9, <2>1
    <2>3. QED
      BY <1>7, <1>8, <2>1, <2>2
  <1>15. ASSUME NEW i \in Ingesters, ScanRead(i) \/ FreshRead(i)
         PROVE  StoredInv'
    <2>1. UNCHANGED <<ingestState, passed>>
      BY <1>15 DEF ScanRead, FreshRead
    <2>2. Holds(i)' /\ \A j \in Ingesters : j # i => ingester'[j] = ingester[j]
      <3>1. CASE GoTo(i, "fresh") \/ GoTo(i, "idle")
        BY <1>9, <3>1
      <3>2. CASE ~(GoTo(i, "fresh") \/ GoTo(i, "idle"))
        <4>1. \/ ingester' = [ingester EXCEPT ![i] =
                     [step |-> "scanSave", mem |-> ingestState,
                      batch |-> Records(scanLogs, ingestState.scan),
                      last |-> LastProcessed(Parsed(scanLogs, ingestState.scan), ingestState.scan),
                      seen |-> 0]]
              \/ ingester' = [ingester EXCEPT ![i] =
                     [step |-> "freshSave", mem |-> ingestState, batch |-> {},
                      last |-> signature, seen |-> 0]]
          BY <1>15, <3>2 DEF ScanRead, FreshRead
        <4>2. /\ ingester'[i].step \in {"scanSave", "freshSave"} /\ ingester'[i].mem = ingestState
              /\ \A j \in Ingesters : j # i => ingester'[j] = ingester[j]
          BY <1>1, <4>1
        <4>3. QED
          BY <1>1, <1>2, <4>2, ReaderHolds DEF StoredInv
      <3>3. QED
        BY <3>1, <3>2
    <2>3. QED
      BY <1>7, <1>8, <2>1, <2>2
  <1>16. ASSUME NEW i \in Ingesters, ScanSave(i) \/ FreshSave(i)
         PROVE  StoredInv'
    <2>1. passed' = passed /\ ingestState'.health = ingester[i].mem.health
      BY <1>3, <1>16 DEF ScanSave, FreshSave, Cursors
    <2>2. Behind(ingester[i].mem.health)
      BY DEF StoredInv, Holds
    <2>3. Behind(ingestState.health)'
      BY <1>2, <1>3, <2>1, <2>2, FileStays
    <2>4. Holds(i)' /\ \A j \in Ingesters : j # i => ingester'[j] = ingester[j]
      <3>1. CASE GoTo(i, "fresh") \/ GoTo(i, "idle")
        BY <1>9, <3>1
      <3>2. CASE ingester' = [ingester EXCEPT ![i].step = "scanAdd"]
        <4>1. /\ ingester'[i].step = "scanAdd" /\ ingester'[i].mem = ingester[i].mem
              /\ \A j \in Ingesters : j # i => ingester'[j] = ingester[j]
          BY <1>1, <3>2 DEF Positions, Steps
        <4>2. QED
          BY <1>2, <1>3, <2>2, <4>1, ReaderHolds
      <3>3. QED
        BY <1>16, <3>1, <3>2 DEF ScanSave, FreshSave
    <2>5. QED
      BY <1>7, <2>1, <2>3, <2>4
  <1>17. QED
    BY <1>5, <1>6, <1>10, <1>11, <1>12, <1>13, <1>14, <1>15, <1>16 DEF IngestNext, IngestStep

----------------------------------------------------------------------------
LEMMA IngestInitially ==
    ASSUME IngestInit
    PROVE  TypesInv /\ StoredInv
  <1>1. NoCursors \in Cursors /\ NoCursors.health = 0 /\ NoCursors.scan = 0
    BY Bounds DEF NoCursors, Cursors
  <1>2. Resting \in Positions /\ Resting.step = "idle" /\ Resting.mem = NoCursors
    BY <1>1, Bounds DEF Resting, Positions, Steps
  <1>3. Len(<<>>) = 0 /\ <<>> \in Seq(Content) /\ <<>> \in Seq(HealthContent)
    OBVIOUS
  <1>4. IngestTypeOK
    BY <1>1, <1>2, <1>3, Bounds DEF IngestInit, IngestTypeOK
  <1>5. HoldsOK /\ CursorsOK
    BY <1>1, <1>2, <1>3 DEF IngestInit, HoldsOK, CursorsOK
  <1>6. Behind(0) /\ UpTo(0)
    BY <1>3 DEF IngestInit, Behind, UpTo
  <1>7. StoredInv
    BY <1>1, <1>2, <1>3, <1>6
       DEF IngestInit, StoredInv, Holds, Listed, ToParse, ToAdd, ToSave
  <1>8. QED
    BY <1>4, <1>5, <1>7 DEF TypesInv

(* For any number of processes, logs, rotations, kills and failed           *)
(* embeddings: what a run listed before it saved its cursor is in the table.*)
THEOREM HealthLogsAreStored == IngestSpec => [](IngestTypeOK /\ HealthAtLeastOnce)
  <1>1. IngestInit => TypesInv /\ StoredInv
    BY IngestInitially
  <1>2. TypesInv /\ StoredInv /\ [IngestNext]_ingestVars => (TypesInv /\ StoredInv)'
    BY TypesStep, StoredStep
  <1>3. TypesInv /\ StoredInv => IngestTypeOK /\ HealthAtLeastOnce
    BY DEF TypesInv, StoredInv, UpTo, NeedsNothing, HealthAtLeastOnce
  <1>4. QED
    BY <1>1, <1>2, <1>3, PTL DEF IngestSpec

----------------------------------------------------------------------------
\* Scans, when one process ingests: what is stored is behind the cursor, and
\* what is still to be stored is not stored yet.
OneRuns == \A i, j \in running : i = j

ScansCounted ==
    \A n \in 1..MaxScan :
        scanCopies[n] <= 1 /\ (scanCopies[n] > 0 => n <= ingestState.scan)

ScansHeld(i) ==
    /\ ingester[i].step \in {"healthParse", "healthAdd", "healthSave", "scanSave", "freshSave"} =>
          ingester[i].mem.scan = ingestState.scan
    /\ ingester[i].step = "scanSave" =>
          /\ ingester[i].last >= ingestState.scan
          /\ \A n \in ingester[i].batch : n > ingestState.scan /\ n <= ingester[i].last
    /\ ingester[i].step = "scanAdd" =>
          \A n \in ingester[i].batch \cap (1..MaxScan) :
              n <= ingestState.scan /\ scanCopies[n] = 0

ScansInv ==
    /\ \A i \in Ingesters \ running : ingester[i].step = "idle"
    /\ OneRuns => ScansCounted /\ \A i \in Ingesters : ScansHeld(i)

\* A step of the process that runs.
LEMMA ScansKept ==
    ASSUME ScansInv, UNCHANGED running, NEW i \in Ingesters,
           i \in running \/ ingester[i].step # "idle",
           \A j \in Ingesters : j # i => ingester'[j] = ingester[j],
           OneRuns /\ ScansCounted /\ ScansHeld(i) => ScansCounted' /\ ScansHeld(i)'
    PROVE  ScansInv'
  <1>1. i \in running
    BY DEF ScansInv
  <1>2. \A j \in Ingesters \ running' : ingester'[j].step = "idle"
    BY <1>1 DEF ScansInv
  <1>3. OneRuns' <=> OneRuns
    BY DEF OneRuns
  <1>4. ASSUME OneRuns, NEW j \in Ingesters, j # i
        PROVE  ScansHeld(j)'
    <2>1. j \notin running
      BY <1>1, <1>4 DEF OneRuns
    <2>2. ingester'[j].step = "idle"
      BY <1>2, <2>1
    <2>3. QED
      BY <2>2 DEF ScansHeld
  <1>5. QED
    BY <1>2, <1>3, <1>4 DEF ScansInv

LEMMA ScansStep ==
    ASSUME TypesInv, ScansInv, [IngestNext]_ingestVars
    PROVE  ScansInv'
  <1>1. /\ IngestTypeOK /\ CursorsOK
        /\ ingester \in [Ingesters -> Positions] /\ ingestState \in Cursors
        /\ scanLogs \in Seq(Content) /\ Len(scanLogs) \in Nat /\ Len(scanLogs) <= MaxScan
        /\ MaxScan \in Nat /\ MaxHealth \in Nat /\ MaxSignature \in Nat
        /\ scanCopies \in [1..MaxScan -> 0..2]
        /\ ingestState.scan \in 0..Len(scanLogs)
    <2>1. IngestTypeOK /\ CursorsOK
      BY DEF TypesInv
    <2>2. ingestState.scan \in Nat
      BY <2>1, Bounds DEF IngestTypeOK, Cursors
    <2>3. QED
      BY <2>1, <2>2, Lengths, Bounds DEF IngestTypeOK, CursorsOK
  <1>2. CASE LogWritten \/ LogLinked \/ LogRotated
    <2>1. UNCHANGED <<running, ingestState, ingester, scanCopies>>
      BY <1>2 DEF LogWritten, LogLinked, LogRotated, Inside, Unstored
    <2>2. QED
      BY <2>1 DEF ScansInv, OneRuns, ScansCounted, ScansHeld
  <1>3. ASSUME NEW i \in Ingesters, i \in running \/ ingester[i].step # "idle", UNCHANGED running,
               NEW s \in {"idle", "scan", "fresh"}, GoTo(i, s),
               ScansCounted /\ ScansHeld(i) => ScansCounted'
        PROVE  ScansInv'
    <2>1. ingester'[i].step = s /\ \A j \in Ingesters : j # i => ingester'[j] = ingester[j]
      BY <1>1, <1>3, AfterGoTo
    <2>2. ScansHeld(i)'
      BY <2>1 DEF ScansHeld
    <2>3. QED
      BY <1>3, <2>1, <2>2, ScansKept
  <1>4. ASSUME UNCHANGED <<scanCopies, ingestState>>, ScansCounted
        PROVE  ScansCounted'
    BY <1>4 DEF ScansCounted
  <1>5. ASSUME NEW i \in Ingesters, HealthRead(i)
        PROVE  ScansInv'
    <2>1. UNCHANGED <<running, scanCopies, ingestState>> /\ i \in running
      BY <1>5 DEF HealthRead, Outside, Unstored
    <2>2. CASE GoTo(i, "scan")
      BY <1>3, <1>4, <2>1, <2>2
    <2>3. CASE ~GoTo(i, "scan")
      <3>1. /\ ingester'[i].step = "healthParse" /\ ingester'[i].mem = ingestState
            /\ \A j \in Ingesters : j # i => ingester'[j] = ingester[j]
        BY <1>1, <1>5, <2>3 DEF HealthRead
      <3>2. ScansHeld(i)'
        BY <2>1, <3>1 DEF ScansHeld
      <3>3. QED
        BY <1>4, <2>1, <3>1, <3>2, ScansKept
    <2>4. QED
      BY <2>2, <2>3
  <1>6. ASSUME NEW i \in Ingesters, HealthAdd(i)
        PROVE  ScansInv'
    <2>1. /\ UNCHANGED <<running, scanCopies, ingestState>>
          /\ ingester[i].step = "healthAdd" /\ ingester'[i].step = "healthSave"
          /\ ingester'[i].mem = ingester[i].mem
          /\ \A j \in Ingesters : j # i => ingester'[j] = ingester[j]
      BY <1>1, <1>6 DEF HealthAdd, Outside, Positions, Steps
    <2>2. ScansHeld(i) => ScansHeld(i)'
      BY <2>1 DEF ScansHeld
    <2>3. QED
      BY <1>4, <2>1, <2>2, ScansKept
  <1>7. ASSUME NEW i \in Ingesters, HealthParse(i)
         PROVE  ScansInv'
    <2>1. UNCHANGED <<running, scanCopies, ingestState>> /\ ingester[i].step = "healthParse"
      BY <1>7 DEF HealthParse, Outside, Unstored
    <2>2. CASE GoTo(i, "scan")
      BY <1>3, <1>4, <2>1, <2>2
    <2>3. CASE ~GoTo(i, "scan")
      <3>1. /\ ingester'[i].step = "healthAdd" /\ ingester'[i].mem = ingester[i].mem
            /\ \A j \in Ingesters : j # i => ingester'[j] = ingester[j]
        BY <1>1, <1>7, <2>3 DEF HealthParse
      <3>2. ScansHeld(i) => ScansHeld(i)'
        BY <2>1, <3>1 DEF ScansHeld
      <3>3. QED
        BY <1>4, <2>1, <3>1, <3>2, ScansKept
    <2>4. QED
      BY <2>2, <2>3
  <1>8. ASSUME NEW i \in Ingesters, HealthFails(i) \/ ScanFails(i) \/ Killed(i)
        PROVE  ScansInv'
    <2>1. UNCHANGED <<running, scanCopies, ingestState>> /\ ingester[i].step # "idle"
      BY <1>8 DEF HealthFails, ScanFails, Killed, Outside, Unstored
    <2>2. GoTo(i, "scan") \/ GoTo(i, "fresh") \/ GoTo(i, "idle")
      BY <1>8 DEF HealthFails, ScanFails, Killed
    <2>3. QED
      BY <1>3, <1>4, <2>1, <2>2
  <1>9. ASSUME NEW i \in Ingesters, HealthSave(i) \/ FreshSave(i)
        PROVE  ScansInv'
    <2>1. /\ UNCHANGED <<running, scanCopies>> /\ ingester[i].step \in {"healthSave", "freshSave"}
          /\ \/ ingestState' = [ingester[i].mem EXCEPT !.health = ingester[i].last]
             \/ ingestState' = [ingester[i].mem EXCEPT !.sig = ingester[i].last]
          /\ GoTo(i, "scan") \/ GoTo(i, "idle")
      BY <1>9 DEF HealthSave, FreshSave, Outside, Unstored
    <2>2. ingestState'.scan = ingester[i].mem.scan
      BY <1>1, <2>1 DEF Positions, Cursors
    <2>3. ScansHeld(i) => ingestState'.scan = ingestState.scan
      BY <2>1, <2>2 DEF ScansHeld
    <2>4. ScansCounted /\ ScansHeld(i) => ScansCounted'
      BY <2>1, <2>3 DEF ScansCounted
    <2>5. QED
      BY <1>3, <2>1, <2>4
  <1>10. ASSUME NEW i \in Ingesters, ScanRead(i)
        PROVE  ScansInv'
    <2> DEFINE batch == Records(scanLogs, ingestState.scan)
               last == LastProcessed(Parsed(scanLogs, ingestState.scan), ingestState.scan)
    <2>1. UNCHANGED <<running, scanCopies, ingestState>> /\ ingester[i].step # "idle"
      BY <1>10 DEF ScanRead, Outside, Unstored
    <2>2. CASE GoTo(i, "fresh")
      BY <1>3, <1>4, <2>1, <2>2
    <2>3. CASE ~GoTo(i, "fresh")
      <3>1. /\ ingester'[i].step = "scanSave" /\ ingester'[i].mem = ingestState
            /\ ingester'[i].batch = batch /\ ingester'[i].last = last
            /\ \A j \in Ingesters : j # i => ingester'[j] = ingester[j]
        BY <1>1, <1>10, <2>3 DEF ScanRead
      <3>2. last >= ingestState.scan
        BY <1>1, ScansRead
      <3>3. \A n \in batch : n > ingestState.scan /\ n <= last
        BY <1>1, ScansRead
      <3> HIDE DEF batch, last
      <3>4. ScansHeld(i)'
        BY <2>1, <3>1, <3>2, <3>3 DEF ScansHeld
      <3>5. QED
        BY <1>4, <2>1, <3>1, <3>4, ScansKept
    <2>4. QED
      BY <2>2, <2>3
  <1>11. ASSUME NEW i \in Ingesters, ScanSave(i)
        PROVE  ScansInv'
    <2>1. /\ UNCHANGED <<running, scanCopies>> /\ ingester[i].step = "scanSave"
          /\ ingestState' = [ingester[i].mem EXCEPT !.scan = ingester[i].last]
      BY <1>11 DEF ScanSave, Outside, Unstored
    <2>2. ingestState'.scan = ingester[i].last /\ ingester[i].last \in Nat
          /\ ingester[i].batch \subseteq Nat /\ ingestState.scan \in Nat
      BY <1>1, <2>1 DEF Positions, Cursors
    <2>3. ASSUME ScansCounted, ScansHeld(i)
          PROVE  ScansCounted'
      <3>1. ingestState.scan <= ingestState'.scan
        BY <2>1, <2>2, <2>3 DEF ScansHeld
      <3>2. QED
        BY <1>1, <2>1, <2>2, <2>3, <3>1 DEF ScansCounted
    <2>4. CASE GoTo(i, "fresh")
      BY <1>3, <2>1, <2>3, <2>4
    <2>5. CASE ~GoTo(i, "fresh")
      <3>1. /\ ingester'[i].step = "scanAdd" /\ ingester'[i].batch = ingester[i].batch
            /\ \A j \in Ingesters : j # i => ingester'[j] = ingester[j]
        BY <1>1, <1>11, <2>5 DEF ScanSave, Positions, Steps
      <3>2. ASSUME ScansCounted, ScansHeld(i)
            PROVE  ScansHeld(i)'
        <4>1. ASSUME NEW n \in ingester[i].batch, n \in 1..MaxScan
              PROVE  n <= ingestState'.scan /\ scanCopies'[n] = 0
          <5>1. n > ingestState.scan /\ n <= ingestState'.scan
            BY <2>1, <2>2, <3>2 DEF ScansHeld
          <5>2. scanCopies[n] \in 0..2
            BY <1>1, <4>1
          <5>3. ~(scanCopies[n] > 0)
            BY <2>2, <3>2, <4>1, <5>1 DEF ScansCounted
          <5>4. QED
            BY <2>1, <5>1, <5>2, <5>3
        <4>2. QED
          BY <3>1, <4>1 DEF ScansHeld
      <3>3. QED
        BY <2>1, <2>3, <3>1, <3>2, ScansKept
    <2>6. QED
      BY <2>4, <2>5
  <1>12. ASSUME NEW i \in Ingesters, ScanAdd(i)
        PROVE  ScansInv'
    <2>1. /\ UNCHANGED <<running, ingestState>> /\ ingester[i].step = "scanAdd"
          /\ scanCopies' = Added(scanCopies, ingester[i].batch) /\ GoTo(i, "fresh")
      BY <1>12 DEF ScanAdd, Outside
    <2>2. ASSUME ScansCounted, ScansHeld(i)
          PROVE  ScansCounted'
      <3>1. SUFFICES ASSUME NEW n \in 1..MaxScan
                     PROVE  scanCopies'[n] <= 1 /\ (scanCopies'[n] > 0 => n <= ingestState'.scan)
        BY DEF ScansCounted
      <3>2. /\ scanCopies'[n] = IF n \in ingester[i].batch /\ scanCopies[n] < 2
                                THEN scanCopies[n] + 1 ELSE scanCopies[n]
            /\ scanCopies[n] \in 0..2
        BY <1>1, <2>1 DEF Added
      <3>3. CASE n \in ingester[i].batch
        BY <2>1, <2>2, <3>2, <3>3 DEF ScansHeld
      <3>4. CASE n \notin ingester[i].batch
        BY <2>1, <2>2, <3>2, <3>4 DEF ScansCounted
      <3>5. QED
        BY <3>3, <3>4
    <2>3. QED
      BY <1>3, <2>1, <2>2
  <1>13. ASSUME NEW i \in Ingesters, FreshRead(i)
        PROVE  ScansInv'
    <2>1. UNCHANGED <<running, scanCopies, ingestState>> /\ ingester[i].step # "idle"
      BY <1>13 DEF FreshRead, Outside, Unstored
    <2>2. CASE GoTo(i, "idle")
      BY <1>3, <1>4, <2>1, <2>2
    <2>3. CASE ~GoTo(i, "idle")
      <3>1. /\ ingester'[i].step = "freshSave" /\ ingester'[i].mem = ingestState
            /\ \A j \in Ingesters : j # i => ingester'[j] = ingester[j]
        BY <1>1, <1>13, <2>3 DEF FreshRead
      <3>2. ScansHeld(i)'
        BY <2>1, <3>1 DEF ScansHeld
      <3>3. QED
        BY <1>4, <2>1, <3>1, <3>2, ScansKept
    <2>4. QED
      BY <2>2, <2>3
  <1>14. CASE UNCHANGED ingestVars
    BY <1>14 DEF ingestVars, ScansInv, OneRuns, ScansCounted, ScansHeld
  <1>15. QED
    BY <1>2, <1>5, <1>6, <1>8, <1>9, <1>10, <1>11, <1>12, <1>13, <1>14, <1>7
       DEF IngestNext, IngestStep

LEMMA ScansInitially ==
    ASSUME IngestInit
    PROVE  ScansInv
  <1>1. \A i \in Ingesters : ingester[i].step = "idle"
    <2>1. ingester = [i \in Ingesters |-> Resting]
      BY DEF IngestInit
    <2>2. Resting.step = "idle"
      BY DEF Resting
    <2>3. \A i \in Ingesters : ingester[i] = Resting
      BY <2>1
    <2>4. QED
      BY <2>2, <2>3
  <1>2. \A n \in 1..MaxScan : scanCopies[n] = 0
    BY DEF IngestInit
  <1>3. QED
    BY <1>1, <1>2 DEF ScansInv, ScansCounted, ScansHeld

\* No fairness is needed for what the table holds.
LEMMA IngestSafe == IngestInit /\ [][IngestNext]_ingestVars
                    => [](IngestTypeOK /\ HealthAtLeastOnce /\ ScansAtMostOnce)
  <1>1. IngestInit => TypesInv /\ StoredInv /\ ScansInv
    BY IngestInitially, ScansInitially
  <1>2. TypesInv /\ StoredInv /\ ScansInv /\ [IngestNext]_ingestVars
        => (TypesInv /\ StoredInv /\ ScansInv)'
    BY TypesStep, StoredStep, ScansStep
  <1>3. TypesInv /\ StoredInv /\ ScansInv => IngestTypeOK /\ HealthAtLeastOnce /\ ScansAtMostOnce
    BY DEF TypesInv, StoredInv, UpTo, NeedsNothing, HealthAtLeastOnce, ScansInv, OneRuns, ScansCounted,
           ScansAtMostOnce
  <1>4. QED
    BY <1>1, <1>2, <1>3, PTL

(* For any number of logs, kills and failed embeddings: if one process      *)
(* ingests, no scan is stored twice, since ingest_scans saves the cursor    *)
(* before it adds the records.                                              *)
THEOREM ScansAreStoredOnce == IngestSpec => []ScansAtMostOnce
  BY IngestSafe, PTL DEF IngestSpec

----------------------------------------------------------------------------
\* A log whose record the table still awaits, and the runs that hold it.
Awaited(n) == healthLogs[n] = "record" /\ n \notin healthRows /\ n \notin rotated
Taken(i, n) ==
    \/ ingester[i].step = "healthParse" /\ Original(n) \in ingester[i].batch
    \/ ingester[i].step = "healthAdd" /\ n \in ingester[i].batch

\* How many steps a run that stands at step s has before it, at most.
StepsAhead(s) ==
    CASE s = "healthParse" -> 8 [] s = "healthAdd" -> 7 [] s = "healthSave" -> 6
      [] s = "scan" -> 5 [] s = "scanSave" -> 4 [] s = "scanAdd" -> 3 [] s = "fresh" -> 2
      [] s = "freshSave" -> 1 [] s = "idle" -> 0

(* Unless the cursor is health-latest.log, a run that starts takes every    *)
(* missing log with it; its next steps keep hold of them and store them, or *)
(* are one of the failures that are bounded; and a run has at most nine     *)
(* steps, so that the next one starts.                                      *)
CatchesUp ==
    \A i \in Ingesters : ingester'[i] # ingester[i] =>
        /\ ingester[i].step # "idle"
             => StepsAhead(ingester'[i].step) < StepsAhead(ingester[i].step)
        /\ \A n \in 1..Len(healthLogs) : Awaited(n) =>
             /\ ingester[i].step = "idle" => Taken(i, n)' \/ ingestState.health = Latest
             /\ Taken(i, n) => Taken(i, n)' \/ n \in healthRows' \/ faults' = faults + 1

LEMMA CatchUpStep ==
    ASSUME TypesInv, StoredInv, [IngestNext]_ingestVars
    PROVE  CatchesUp
  <1> SUFFICES ASSUME NEW i \in Ingesters, ingester'[i] # ingester[i]
               PROVE  /\ ingester[i].step # "idle"
                           => StepsAhead(ingester'[i].step) < StepsAhead(ingester[i].step)
                      /\ \A n \in 1..Len(healthLogs) : Awaited(n) =>
                           /\ ingester[i].step = "idle"
                                => Taken(i, n)' \/ ingestState.health = Latest
                           /\ Taken(i, n)
                                => Taken(i, n)' \/ n \in healthRows' \/ faults' = faults + 1
    BY DEF CatchesUp
  <1>1. /\ IngestTypeOK
        /\ ingester \in [Ingesters -> Positions] /\ ingestState.health \in Nat
        /\ Len(healthLogs) \in 0..MaxHealth /\ MaxHealth \in Nat
    <2>1. IngestTypeOK
      BY DEF TypesInv
    <2>2. ingestState.health \in Nat
      BY <2>1, Bounds DEF IngestTypeOK, Cursors
    <2>3. QED
      BY <2>1, <2>2, Lengths, Bounds DEF IngestTypeOK
  <1>2. PICK j \in Ingesters : IngestStep(j) \/ HealthFails(j) \/ ScanFails(j) \/ Killed(j)
    BY DEF IngestNext, LogWritten, LogLinked, LogRotated, Inside, ingestVars
  <1>3. j = i
    <2>1. ASSUME NEW p, ingester' = [ingester EXCEPT ![j] = p], j # i
          PROVE  FALSE
      BY <1>1, <2>1
    <2>2. \E p : ingester' = [ingester EXCEPT ![j] = p]
      BY <1>2 DEF IngestStep, HealthRead, HealthParse, HealthAdd, HealthSave, ScanRead, ScanSave,
                  ScanAdd, FreshRead, FreshSave, HealthFails, ScanFails, Killed, GoTo
    <2>3. QED
      BY <2>1, <2>2
  <1>4. CASE HealthRead(i)
    <2>1. ingester[i].step = "idle"
      BY <1>4 DEF HealthRead
    <2>2. ASSUME NEW n \in 1..Len(healthLogs), Awaited(n), ingestState.health # Latest
          PROVE  Original(n) \in NewHealthFiles(ingestState.health)
      <3>1. ~(Original(n) <= ingestState.health)
        BY <2>2 DEF StoredInv, Behind, NeedsNothing, Awaited
      <3>2. Original(n) > ingestState.health /\ Original(n) \in 1..Latest
        BY <1>1, <3>1, Bounds DEF Original
      <3>3. n \in Shown(Original(n))
        BY <2>2 DEF Shown, Awaited
      <3>4. QED
        BY <3>2, <3>3 DEF NewHealthFiles
    <2>3. ASSUME NEW n \in 1..Len(healthLogs), Awaited(n), ingestState.health # Latest
          PROVE  Taken(i, n)'
      <3>1. Original(n) \in NewHealthFiles(ingestState.health)
        BY <2>2, <2>3
      <3>2. NewHealthFiles(ingestState.health) # {}
        BY <3>1
      <3>3. /\ ingester'[i].step = "healthParse"
            /\ ingester'[i].batch = NewHealthFiles(ingestState.health)
        BY <1>1, <1>4, <3>2 DEF HealthRead
      <3>4. QED
        BY <3>1, <3>3 DEF Taken
    <2>4. QED
      BY <2>1, <2>3 DEF Taken
  <1>5. CASE HealthParse(i)
    <2> DEFINE batch == HealthRecords(ingester[i].batch)
    <2>1. ingester[i].step = "healthParse" /\ healthRows' = healthRows
      BY <1>5 DEF HealthParse, Unstored
    <2>2. \/ ingester'[i].step = "scan" /\ batch = {}
          \/ ingester'[i].step = "healthAdd" /\ ingester'[i].batch = batch
      <3>1. CASE batch = {}
        BY <1>1, <1>5, <3>1, AfterGoTo DEF HealthParse
      <3>2. CASE batch # {}
        BY <1>1, <1>5, <3>2 DEF HealthParse
      <3>3. QED
        BY <3>1, <3>2
    <2>3. ASSUME NEW n \in 1..Len(healthLogs), Awaited(n), Taken(i, n)
          PROVE  Taken(i, n)'
      <3>1. Original(n) \in ingester[i].batch /\ n \in Shown(Original(n))
        BY <2>1, <2>3 DEF Taken, Shown, Awaited
      <3>2. n \in batch
        BY <2>3, <3>1 DEF HealthRecords, Awaited
      <3>3. QED
        BY <2>2, <3>2 DEF Taken
    <2>4. StepsAhead(ingester'[i].step) < StepsAhead(ingester[i].step)
      BY <2>1, <2>2 DEF StepsAhead
    <2>5. QED
      BY <2>1, <2>3, <2>4
  <1>6. CASE HealthAdd(i)
    <2>1. /\ ingester[i].step = "healthAdd" /\ ingester'[i].step = "healthSave"
          /\ healthRows' = healthRows \cup ingester[i].batch
      BY <1>1, <1>6 DEF HealthAdd, Positions, Steps
    <2>2. ASSUME NEW n \in 1..Len(healthLogs), Taken(i, n)
          PROVE  n \in healthRows'
      BY <2>1, <2>2 DEF Taken
    <2>3. StepsAhead(ingester'[i].step) < StepsAhead(ingester[i].step)
      BY <2>1 DEF StepsAhead
    <2>4. QED
      BY <2>1, <2>2, <2>3
  <1>7. CASE HealthFails(i) \/ Killed(i)
    <2>1. /\ faults' = faults + 1 /\ ingester[i].step # "idle" /\ ingester[i].step \in Steps
          /\ (GoTo(i, "scan") /\ ingester[i].step = "healthAdd") \/ GoTo(i, "idle")
      BY <1>1, <1>7 DEF HealthFails, Killed, Positions
    <2>2. \/ ingester'[i].step = "scan" /\ ingester[i].step = "healthAdd"
          \/ ingester'[i].step = "idle"
      BY <1>1, <2>1, AfterGoTo
    <2>3. StepsAhead(ingester'[i].step) < StepsAhead(ingester[i].step)
      BY <2>1, <2>2 DEF StepsAhead, Steps
    <2>4. QED
      BY <2>1, <2>3
  <1>8. CASE \/ HealthSave(i) \/ ScanRead(i) \/ ScanSave(i) \/ ScanAdd(i)
             \/ FreshRead(i) \/ FreshSave(i) \/ ScanFails(i)
    <2>1. \/ ingester[i].step = "healthSave" /\ ingester'[i].step = "scan"
          \/ ingester[i].step = "scan" /\ ingester'[i].step \in {"scanSave", "fresh"}
          \/ ingester[i].step = "scanSave" /\ ingester'[i].step \in {"scanAdd", "fresh"}
          \/ ingester[i].step = "scanAdd" /\ ingester'[i].step = "fresh"
          \/ ingester[i].step = "fresh" /\ ingester'[i].step \in {"freshSave", "idle"}
          \/ ingester[i].step = "freshSave" /\ ingester'[i].step = "idle"
      <3>1. CASE HealthSave(i)
        BY <1>1, <3>1, AfterGoTo DEF HealthSave
      <3>2. CASE ScanRead(i)
        BY <1>1, <3>2, AfterGoTo DEF ScanRead
      <3>3. CASE ScanSave(i)
        BY <1>1, <3>3, AfterGoTo DEF ScanSave, Positions
      <3>4. CASE ScanAdd(i) \/ ScanFails(i)
        BY <1>1, <3>4, AfterGoTo DEF ScanAdd, ScanFails
      <3>5. CASE FreshRead(i)
        BY <1>1, <3>5, AfterGoTo DEF FreshRead
      <3>6. CASE FreshSave(i)
        BY <1>1, <3>6, AfterGoTo DEF FreshSave
      <3>7. QED
        BY <1>8, <3>1, <3>2, <3>3, <3>4, <3>5, <3>6
    <2>2. StepsAhead(ingester'[i].step) < StepsAhead(ingester[i].step)
      BY <2>1 DEF StepsAhead
    <2>3. QED
      BY <2>1, <2>2 DEF Taken
  <1>9. QED
    BY <1>2, <1>3, <1>4, <1>5, <1>6, <1>7, <1>8 DEF IngestStep

(* For any number of processes, logs and failures: what ingest_health has   *)
(* not stored is in the batch of every run that starts, whatever cursor the *)
(* runs before it wrote back, save health-latest.log, and no step but a     *)
(* failure lets go of it before it is stored.  With the fairness of the runs*)
(* and the bound on the failures this is why HealthCaughtUp holds.          *)
THEOREM RunsCatchUp == IngestSpec => [][CatchesUp]_ingestVars
  <1>1. IngestInit => TypesInv /\ StoredInv
    BY IngestInitially
  <1>2. TypesInv /\ StoredInv /\ [IngestNext]_ingestVars => (TypesInv /\ StoredInv)'
    BY TypesStep, StoredStep
  <1>3. TypesInv /\ StoredInv /\ [IngestNext]_ingestVars => [CatchesUp]_ingestVars
    BY CatchUpStep
  <1>4. QED
    BY <1>1, <1>2, <1>3, PTL DEF IngestSpec

-----------------------------------------------------------------------------

LEMMA RunsAreRuns ==
    /\ Idle \in Runs /\ Idle.known = NothingRecorded /\ Idle.found = NothingRecorded
    /\ Idle.at = "idle"
    /\ NothingRecorded \in HashMaps
    /\ Unseen \notin Editions /\ Editions \subseteq Nat /\ 1 \in Editions
  <1>1. Unseen \notin Editions /\ Editions \subseteq Nat /\ 1 \in Editions
    BY DocIndexAssumption DEF Unseen, Editions
  <1>2. NothingRecorded \in HashMaps
    BY DEF NothingRecorded, HashMaps
  <1>3. (CHOOSE f \in DocFiles : TRUE) \in DocFiles
    BY DocIndexAssumption
  <1>4. QED
    BY <1>1, <1>2, <1>3 DEF Idle, Runs

LEMMA EditionsAreNumbers ==
    ASSUME IndexTypeOK, NEW f \in DocFiles
    PROVE  edition[f] \in Nat
  <1>1. edition[f] \in Editions
    BY DEF IndexTypeOK
  <1>2. QED
    BY <1>1, RunsAreRuns

LEMMA RunsAreTyped ==
    ASSUME IndexTypeOK, NEW i \in Indexers
    PROVE  /\ run[i] \in Runs /\ run[i].file \in DocFiles /\ run[i].hash \in Nat
           /\ \A f \in DocFiles : /\ run[i].found[f] \in {Unseen} \cup Editions
                                 /\ run[i].texts[f] \in {Unseen} \cup Editions
                                 /\ run[i].found[f] \in Nat /\ run[i].texts[f] \in Nat
  <1>1. run[i] \in Runs
    BY DEF IndexTypeOK
  <1>2. run[i].file \in DocFiles /\ run[i].hash \in Editions
        /\ run[i].found \in HashMaps /\ run[i].texts \in HashMaps
    BY <1>1 DEF Runs
  <1>3. Editions \subseteq Nat /\ Unseen \in Nat
    BY RunsAreRuns DEF Unseen
  <1>4. QED
    BY <1>1, <1>2, <1>3 DEF HashMaps, IndexTypeOK

(* What a run holds after it read a file.                                   *)
LEMMA ReadFileReads ==
    ASSUME IndexTypeOK, NEW i \in Indexers, ReadFile(i)
    PROVE  \E found \in HashMaps, texts \in HashMaps :
             /\ run' = [run EXCEPT ![i] = [@ EXCEPT !.at = "looking", !.found = found,
                                                    !.texts = texts]]
             /\ \A f \in DocFiles \ {run[i].file} :
                  found[f] = run[i].found[f] /\ texts[f] = run[i].texts[f]
             /\ run[i].file \notin Blank =>
                  /\ found[run[i].file] = run[i].hash
                  /\ texts[run[i].file] = edition[run[i].file]
  <1> DEFINE f == run[i].file
  <1>1. /\ run[i] \in Runs /\ run \in [Indexers -> Runs] /\ f \in DocFiles
        /\ edition[f] \in Editions /\ run[i].hash \in Editions
        /\ run[i].found \in HashMaps /\ run[i].texts \in HashMaps
    <2>1. run[i] \in Runs /\ run \in [Indexers -> Runs]
      BY DEF IndexTypeOK
    <2>2. QED
      BY <2>1 DEF Runs, IndexTypeOK
  <1>2. CASE f \in Blank /\ ~reloads
    <2>1. run' = [run EXCEPT ![i].at = "looking"]
      BY <1>2 DEF ReadFile
    <2>2. run' = [run EXCEPT ![i] = [@ EXCEPT !.at = "looking", !.found = run[i].found,
                                              !.texts = run[i].texts]]
      BY <1>1, <2>1 DEF Runs
    <2>3. f \in Blank
      BY <1>2
    <2> HIDE DEF f
    <2>4. QED
      BY <1>1, <2>2, <2>3 DEF f
  <1>3. CASE ~(f \in Blank /\ ~reloads)
    <2> DEFINE found == [run[i].found EXCEPT ![f] = run[i].hash]
    <2> DEFINE texts == [run[i].texts EXCEPT ![f] = IF f \in Blank THEN Unseen ELSE edition[f]]
    <2>1. found \in HashMaps /\ texts \in HashMaps
      BY <1>1 DEF HashMaps
    <2>2. run' = [run EXCEPT ![i] = [@ EXCEPT !.at = "looking", !.found = found,
                                              !.texts = texts]]
      BY <1>3 DEF ReadFile
    <2>3. /\ \A g \in DocFiles \ {f} : found[g] = run[i].found[g] /\ texts[g] = run[i].texts[g]
          /\ f \notin Blank => found[f] = run[i].hash /\ texts[f] = edition[f]
      BY <1>1 DEF HashMaps
    <2> HIDE DEF found, texts
    <2>4. QED
      BY <2>1, <2>2, <2>3
  <1>4. QED
    BY <1>2, <1>3

LEMMA IndexTypesHold == IndexTypeOK /\ [IndexNext]_indexVars => IndexTypeOK'
  <1> SUFFICES ASSUME IndexTypeOK, [IndexNext]_indexVars
               PROVE  IndexTypeOK'
    OBVIOUS
  <1> USE RunsAreRuns DEF IndexTypeOK
  <1>1. ASSUME NEW f \in DocFiles, Edit(f)
        PROVE  IndexTypeOK'
    <2>1. edition[f] + 1 \in Editions
      BY <1>1, DocIndexAssumption DEF Edit, Editions
    <2>2. QED
      BY <1>1, <2>1 DEF Edit
  <1>2. ASSUME NEW i \in Indexers, StartIndexing(i)
        PROVE  IndexTypeOK'
    <2>1. PICK paths \in SUBSET DocFiles, forced \in BOOLEAN :
            run' = [run EXCEPT ![i] = [@ EXCEPT !.at = "looking", !.forced = forced,
                                       !.todo = paths,
                                       !.known = IF forced THEN NothingRecorded ELSE recorded]]
      BY <1>2 DEF StartIndexing
    <2>2. run'[i] \in Runs
      BY <2>1 DEF Runs
    <2>3. indexRuns' \in 0..MaxIndexRuns
      BY <1>2, DocIndexAssumption DEF StartIndexing
    <2>4. QED
      BY <1>2, <2>1, <2>2, <2>3 DEF StartIndexing
  <1>3. ASSUME NEW i \in Indexers, HashFile(i)
        PROVE  IndexTypeOK'
    <2>1. PICK f \in run[i].todo :
            \/ run' = [run EXCEPT ![i].todo = @ \ {f}]
            \/ run' = [run EXCEPT ![i] = [@ EXCEPT !.at = "reading", !.todo = run[i].todo \ {f},
                                          !.file = f, !.hash = edition[f]]]
      BY <1>3 DEF HashFile
    <2>2. f \in DocFiles /\ edition[f] \in Editions
      BY DEF Runs
    <2>3. CASE run' = [run EXCEPT ![i].todo = @ \ {f}]
      <3>1. run'[i] \in Runs
        BY <2>3 DEF Runs
      <3>2. QED
        BY <1>3, <2>3, <3>1 DEF HashFile
    <2>4. CASE run' = [run EXCEPT ![i] = [@ EXCEPT !.at = "reading", !.todo = run[i].todo \ {f},
                                          !.file = f, !.hash = edition[f]]]
      <3>1. run'[i] \in Runs
        BY <2>2, <2>4 DEF Runs
      <3>2. QED
        BY <1>3, <2>4, <3>1 DEF HashFile
    <2>5. QED
      BY <2>1, <2>3, <2>4
  <1>4. ASSUME NEW i \in Indexers, ReadFile(i)
        PROVE  IndexTypeOK'
    <2>2. PICK found \in HashMaps, texts \in HashMaps :
            /\ run' = [run EXCEPT ![i] = [@ EXCEPT !.at = "looking", !.found = found,
                                                   !.texts = texts]]
            /\ \A f \in DocFiles \ {run[i].file} :
                 found[f] = run[i].found[f] /\ texts[f] = run[i].texts[f]
            /\ run[i].file \notin Blank =>
                 /\ found[run[i].file] = run[i].hash
                 /\ texts[run[i].file] = edition[run[i].file]
      BY <1>4, ReadFileReads
    <2>3. run'[i] \in Runs
      BY <2>2 DEF Runs
    <2>4. run' \in [Indexers -> Runs]
      BY <2>2, <2>3
    <2>5. QED
      BY <1>4, <2>4 DEF ReadFile
  <1>5. ASSUME NEW i \in Indexers, StoreChunks(i)
        PROVE  IndexTypeOK'
    <2>1. \A f \in ToEmbed(i) : run[i].texts[f] \in Editions
      BY DEF ToEmbed, Runs, HashMaps, Unseen
    <2>2. table' \in [DocFiles -> SUBSET Editions]
      BY <1>5, <2>1 DEF StoreChunks
    <2>3. run' \in [Indexers -> Runs]
      BY <1>5 DEF StoreChunks, Runs
    <2>4. QED
      BY <1>5, <2>2, <2>3 DEF StoreChunks
  <1>6. ASSUME NEW i \in Indexers, StoreNothing(i) \/ IndexingDies(i)
        PROVE  IndexTypeOK'
    BY <1>6 DEF StoreNothing, IndexingDies
  <1>7. ASSUME NEW i \in Indexers, LoadAgain(i)
        PROVE  IndexTypeOK'
    <2>1. run' \in [Indexers -> Runs]
      BY <1>7 DEF LoadAgain, Runs
    <2>2. QED
      BY <1>7, <2>1 DEF LoadAgain
  <1>8. ASSUME NEW i \in Indexers, SaveState(i)
        PROVE  IndexTypeOK'
    <2>1. recorded' \in HashMaps
      BY <1>8 DEF SaveState, Runs, HashMaps
    <2>2. QED
      BY <1>8, <2>1 DEF SaveState
  <1>9. CASE UNCHANGED indexVars
    BY <1>9 DEF indexVars
  <1>10. QED
    BY <1>1, <1>2, <1>3, <1>4, <1>5, <1>6, <1>7, <1>8, <1>9 DEF IndexNext

\* What run i holds of file f: a version it read in the state file is in the
\* table; one it hashed is in the text it holds, and in the table once that is
\* stored.
HoldsOf(i, f) ==
    /\ run[i].known[f] # Unseen => Indexed(f, run[i].known[f])
    /\ run[i].found[f] # Unseen =>
         \/ run[i].at \in {"looking", "reading"} /\ run[i].texts[f] >= run[i].found[f]
         \/ run[i].at \in {"saving", "writing"} /\ Indexed(f, run[i].found[f])
    /\ run[i].at = "reading" /\ run[i].file = f => run[i].hash <= edition[f]

IndexInv ==
    /\ IndexTypeOK
    /\ RecordedIsIndexed
    /\ \A i \in Indexers : \A f \in DocFiles \ Blank : HoldsOf(i, f)

\* What run i holds of f after it ends, or when another run or the table moves.
LEMMA IdleHolds ==
    ASSUME NEW i \in Indexers, NEW f \in DocFiles, run'[i] = Idle
    PROVE  HoldsOf(i, f)'
  BY RunsAreRuns DEF HoldsOf, NothingRecorded

LEMMA HeldStays ==
    ASSUME IndexTypeOK, IndexTypeOK', NEW i \in Indexers, NEW f \in DocFiles, HoldsOf(i, f),
           run'[i] = run[i], table[f] \subseteq table'[f], edition[f] <= edition'[f]
    PROVE  HoldsOf(i, f)'
  <1>1. \A e : Indexed(f, e) => Indexed(f, e)'
    BY DEF Indexed
  <1>2. run[i].file = f => run[i].hash \in Nat /\ edition[f] \in Nat /\ edition'[f] \in Nat
    BY RunsAreRuns DEF IndexTypeOK, Runs
  <1>3. QED
    BY <1>1, <1>2 DEF HoldsOf

LEMMA IndexInvHolds == IndexInv /\ [IndexNext]_indexVars => IndexInv'
  <1> SUFFICES ASSUME IndexInv, [IndexNext]_indexVars
               PROVE  IndexInv'
    OBVIOUS
  <1>1. IndexTypeOK /\ IndexTypeOK'
    BY IndexTypesHold DEF IndexInv
  <1>2. ASSUME UNCHANGED <<recorded, table>>
        PROVE  RecordedIsIndexed'
    BY <1>2 DEF IndexInv, RecordedIsIndexed, Indexed
  <1>3. ASSUME NEW i \in Indexers, UNCHANGED edition, UNCHANGED table,
               \E r : run' = [run EXCEPT ![i] = r],
               \A f \in DocFiles \ Blank : HoldsOf(i, f)'
        PROVE  \A j \in Indexers : \A f \in DocFiles \ Blank : HoldsOf(j, f)'
    <2> SUFFICES ASSUME NEW j \in Indexers, NEW f \in DocFiles \ Blank, j # i
                 PROVE  HoldsOf(j, f)'
      BY <1>3
    <2>1. run'[j] = run[j]
      BY <1>1, <1>3 DEF IndexTypeOK
    <2>2. edition[f] \in Nat
      BY <1>1, RunsAreRuns DEF IndexTypeOK
    <2>3. QED
      BY <1>1, <1>3, <2>1, <2>2, HeldStays DEF IndexInv
  <1>4. ASSUME NEW f \in DocFiles, Edit(f)
        PROVE  IndexInv'
    <2>1. \A g \in DocFiles : edition[g] <= edition'[g]
      BY <1>1, <1>4, EditionsAreNumbers DEF Edit, IndexTypeOK
    <2>2. UNCHANGED <<run, table, recorded>>
      BY <1>4 DEF Edit
    <2>3. \A j \in Indexers : \A g \in DocFiles \ Blank : HoldsOf(j, g)'
      BY <1>1, <2>1, <2>2, HeldStays DEF IndexInv
    <2>4. QED
      BY <1>1, <1>2, <2>2, <2>3 DEF IndexInv
  <1>5. ASSUME NEW i \in Indexers, StartIndexing(i)
        PROVE  IndexInv'
    <2>1. PICK paths \in SUBSET DocFiles, forced \in BOOLEAN :
            run' = [run EXCEPT ![i] = [@ EXCEPT !.at = "looking", !.forced = forced,
                                       !.todo = paths,
                                       !.known = IF forced THEN NothingRecorded ELSE recorded]]
      BY <1>5 DEF StartIndexing
    <2>2. /\ run'[i].at = "looking" /\ run'[i].found = run[i].found
          /\ run'[i].texts = run[i].texts
          /\ run'[i].known \in {NothingRecorded, recorded}
      BY <1>1, <2>1 DEF IndexTypeOK, Runs
    <2>3. ASSUME NEW f \in DocFiles \ Blank
          PROVE  HoldsOf(i, f)'
      <3>1. run[i].at = "idle"
        BY <1>5 DEF StartIndexing
      <3>2. run[i].found[f] = Unseen
        BY <3>1 DEF IndexInv, HoldsOf
      <3>3. UNCHANGED <<table, recorded>> /\ NothingRecorded[f] = Unseen
        BY <1>5 DEF StartIndexing, NothingRecorded
      <3>4. QED
        BY <2>2, <3>2, <3>3 DEF HoldsOf, IndexInv, RecordedIsIndexed, Indexed
    <2>4. UNCHANGED <<edition, table, recorded>> /\ \E r : run' = [run EXCEPT ![i] = r]
      BY <1>5, <2>1 DEF StartIndexing
    <2>5. QED
      BY <1>1, <1>2, <1>3, <2>3, <2>4 DEF IndexInv
  <1>6. ASSUME NEW i \in Indexers, HashFile(i)
        PROVE  IndexInv'
    <2>1. PICK g \in run[i].todo :
            \/ run' = [run EXCEPT ![i].todo = @ \ {g}]
            \/ run' = [run EXCEPT ![i] = [@ EXCEPT !.at = "reading", !.todo = run[i].todo \ {g},
                                          !.file = g, !.hash = edition[g]]]
      BY <1>6 DEF HashFile
    <2>2. /\ run[i].at = "looking" /\ run'[i].at \in {"looking", "reading"}
          /\ run'[i].found = run[i].found /\ run'[i].texts = run[i].texts
          /\ run'[i].known = run[i].known
          /\ run'[i].at = "reading" => run'[i].hash = edition[run'[i].file]
      <3>1. run[i] \in Runs /\ run \in [Indexers -> Runs]
        BY <1>1 DEF IndexTypeOK
      <3>2. CASE run' = [run EXCEPT ![i].todo = @ \ {g}]
        BY <1>6, <3>1, <3>2 DEF HashFile, Runs
      <3>3. CASE run' = [run EXCEPT ![i] = [@ EXCEPT !.at = "reading", !.todo = run[i].todo \ {g},
                                            !.file = g, !.hash = edition[g]]]
        BY <1>6, <3>1, <3>3 DEF HashFile, Runs
      <3>4. QED
        BY <2>1, <3>2, <3>3
    <2>3. UNCHANGED <<edition, table, recorded>> /\ \E r : run' = [run EXCEPT ![i] = r]
      BY <1>6, <2>1 DEF HashFile
    <2>4. ASSUME NEW f \in DocFiles \ Blank
          PROVE  HoldsOf(i, f)'
      <3>1. edition[f] <= edition[f]
        BY <1>1, EditionsAreNumbers
      <3>2. QED
        BY <2>2, <2>3, <3>1 DEF HoldsOf, IndexInv, Indexed
    <2>5. QED
      BY <1>1, <1>2, <1>3, <2>3, <2>4 DEF IndexInv
  <1>7. ASSUME NEW i \in Indexers, ReadFile(i)
        PROVE  IndexInv'
    <2> DEFINE g == run[i].file
    <2>0. PICK found \in HashMaps, texts \in HashMaps :
            /\ run' = [run EXCEPT ![i] = [@ EXCEPT !.at = "looking", !.found = found,
                                                   !.texts = texts]]
            /\ \A f \in DocFiles \ {run[i].file} :
                 found[f] = run[i].found[f] /\ texts[f] = run[i].texts[f]
            /\ run[i].file \notin Blank =>
                 /\ found[run[i].file] = run[i].hash
                 /\ texts[run[i].file] = edition[run[i].file]
      BY <1>1, <1>7, ReadFileReads
    <2>1. /\ run[i].at = "reading" /\ run'[i].at = "looking" /\ run'[i].known = run[i].known
          /\ g \in DocFiles /\ edition[g] \in Nat
      <3>1. run[i] \in Runs /\ run \in [Indexers -> Runs] /\ g \in DocFiles /\ edition[g] \in Nat
        BY <1>1, RunsAreTyped, EditionsAreNumbers DEF IndexTypeOK
      <3>2. run'[i].at = "looking" /\ run'[i].known = run[i].known
        BY <2>0, <3>1 DEF Runs
      <3>3. QED
        BY <1>7, <3>1, <3>2 DEF ReadFile
    <2>2. UNCHANGED <<edition, table, recorded>> /\ \E r : run' = [run EXCEPT ![i] = r]
      BY <1>7 DEF ReadFile
    <2>3. ASSUME NEW f \in DocFiles \ Blank
          PROVE  HoldsOf(i, f)'
      <3>1. CASE f # g
        <4>1. run'[i].found[f] = run[i].found[f] /\ run'[i].texts[f] = run[i].texts[f]
          <5>1. run[i] \in Runs /\ run \in [Indexers -> Runs]
            BY <1>1 DEF IndexTypeOK
          <5>2. run'[i].found = found /\ run'[i].texts = texts
            BY <2>0, <5>1 DEF Runs
          <5>3. QED
            BY <2>0, <3>1, <5>2
        <4>2. QED
          BY <2>1, <2>2, <4>1 DEF HoldsOf, IndexInv, Indexed
      <3>2. CASE f = g
        <4>1. run'[i].found[f] = run[i].hash /\ run'[i].texts[f] = edition[f]
          <5>1. run[i] \in Runs /\ run \in [Indexers -> Runs]
            BY <1>1 DEF IndexTypeOK
          <5>2. run'[i].found = found /\ run'[i].texts = texts
            BY <2>0, <5>1 DEF Runs
          <5>3. QED
            BY <2>0, <3>2, <5>2
        <4>2. run[i].hash <= edition[f] /\ run[i].hash \in Nat /\ edition[f] \in Nat
          BY <1>1, <2>1, <3>2, RunsAreTyped DEF IndexInv, HoldsOf
        <4>3. QED
          BY <2>1, <2>2, <4>1, <4>2 DEF HoldsOf, IndexInv, Indexed
      <3>3. QED
        BY <3>1, <3>2
    <2>4. QED
      BY <1>1, <1>2, <1>3, <2>2, <2>3 DEF IndexInv
  <1>8. ASSUME NEW i \in Indexers, StoreChunks(i)
        PROVE  IndexInv'
    <2>1. \A f \in DocFiles : table[f] \subseteq table'[f] /\ edition[f] <= edition'[f]
      BY <1>1, <1>8, RunsAreRuns DEF StoreChunks, IndexTypeOK
    <2>2. RecordedIsIndexed'
      BY <1>8, <2>1 DEF IndexInv, RecordedIsIndexed, StoreChunks, Indexed
    <2>3. /\ run[i].at = "looking" /\ run'[i].at = "saving"
          /\ run'[i].known = run[i].known /\ run'[i].found = run[i].found
      BY <1>1, <1>8 DEF StoreChunks, IndexTypeOK, Runs
    <2>4. ASSUME NEW f \in DocFiles \ Blank
          PROVE  HoldsOf(i, f)'
      <3>1. ASSUME run[i].found[f] # Unseen
            PROVE  Indexed(f, run[i].found[f])'
        <4>1. run[i].texts[f] >= run[i].found[f]
          BY <2>3, <3>1 DEF IndexInv, HoldsOf
        <4>2. run[i].found[f] \in Nat \ {0} /\ run[i].texts[f] \in Nat
          BY <1>1, <3>1, RunsAreTyped DEF Unseen
        <4>3. f \in ToEmbed(i)
          BY <4>1, <4>2 DEF ToEmbed, Unseen
        <4>4. run[i].texts[f] \in table'[f]
          BY <1>1, <1>8, <4>2, <4>3, RunsAreTyped DEF StoreChunks, ToEmbed
        <4>5. QED
          BY <2>3, <4>1, <4>4 DEF Indexed
      <3>2. QED
        BY <2>1, <2>3, <3>1 DEF IndexInv, HoldsOf, Indexed
    <2>5. ASSUME NEW j \in Indexers, NEW f \in DocFiles \ Blank, j # i
          PROVE  HoldsOf(j, f)'
      <3>1. run'[j] = run[j]
        BY <1>1, <1>8, <2>5 DEF StoreChunks, IndexTypeOK
      <3>2. QED
        BY <1>1, <2>1, <3>1, HeldStays DEF IndexInv
    <2>6. QED
      BY <1>1, <2>2, <2>4, <2>5 DEF IndexInv
  <1>9. ASSUME NEW i \in Indexers, StoreNothing(i) \/ IndexingDies(i)
        PROVE  IndexInv'
    <2>1. run'[i] = Idle /\ run' = [run EXCEPT ![i] = Idle] /\ UNCHANGED <<edition, table, recorded>>
      BY <1>1, <1>9 DEF StoreNothing, IndexingDies, IndexTypeOK
    <2>2. QED
      BY <1>1, <1>2, <1>3, <2>1, IdleHolds DEF IndexInv
  <1>10. ASSUME NEW i \in Indexers, LoadAgain(i)
         PROVE  IndexInv'
    <2>1. /\ run[i].at = "saving" /\ run'[i].at = "writing" /\ run'[i].found = run[i].found
          /\ run'[i].known \in {run[i].known, recorded}
      BY <1>1, <1>10 DEF LoadAgain, IndexTypeOK, Runs
    <2>2. UNCHANGED <<edition, table, recorded>> /\ \E r : run' = [run EXCEPT ![i] = r]
      BY <1>10 DEF LoadAgain
    <2>3. \A f \in DocFiles \ Blank : HoldsOf(i, f)'
      BY <2>1, <2>2 DEF HoldsOf, IndexInv, RecordedIsIndexed, Indexed
    <2>4. QED
      BY <1>1, <1>2, <1>3, <2>2, <2>3 DEF IndexInv
  <1>11. ASSUME NEW i \in Indexers, SaveState(i)
         PROVE  IndexInv'
    <2>1. RecordedIsIndexed'
      <3> SUFFICES ASSUME NEW f \in DocFiles \ Blank, recorded'[f] # Unseen
                   PROVE  Indexed(f, recorded[f])'
        BY DEF RecordedIsIndexed, Unseen
      <3>1. /\ run[i].at = "writing" /\ table' = table
            /\ recorded'[f] = IF run[i].found[f] # Unseen THEN run[i].found[f] ELSE run[i].known[f]
        BY <1>11 DEF SaveState
      <3>2. HoldsOf(i, f)
        BY DEF IndexInv
      <3>3. Indexed(f, recorded'[f])
        BY <3>1, <3>2 DEF HoldsOf
      <3>4. QED
        BY <3>1, <3>3 DEF Indexed
    <2>2. /\ run'[i] = Idle /\ run' = [run EXCEPT ![i] = Idle] /\ UNCHANGED <<edition, table>>
      BY <1>1, <1>11 DEF SaveState, IndexTypeOK
    <2>3. QED
      BY <1>1, <1>3, <2>1, <2>2, IdleHolds DEF IndexInv
  <1>12. CASE UNCHANGED indexVars
    BY <1>1, <1>12 DEF indexVars, IndexInv, RecordedIsIndexed, HoldsOf, Indexed
  <1>13. QED
    BY <1>4, <1>5, <1>6, <1>7, <1>8, <1>9, <1>10, <1>11, <1>12 DEF IndexNext

(* For any number of runs, files, edits and deaths: what the state file     *)
(* records is in the table.                                                 *)
THEOREM RecordsAreIndexed == IndexSpec => [](IndexTypeOK /\ RecordedIsIndexed)
  <1>1. IndexInit => IndexInv
    <2> SUFFICES ASSUME IndexInit
                 PROVE  IndexInv
      OBVIOUS
    <2>1. IndexTypeOK
      BY RunsAreRuns, DocIndexAssumption DEF IndexInit, IndexTypeOK
    <2>2. QED
      BY <2>1, RunsAreRuns DEF IndexInit, IndexInv, RecordedIsIndexed, HoldsOf, NothingRecorded
  <1>2. IndexInv => IndexTypeOK /\ RecordedIsIndexed
    BY DEF IndexInv
  <1>3. QED
    BY <1>1, <1>2, IndexInvHolds, PTL DEF IndexSpec

(* The types of the code index are kept.                                    *)
LEMMA CodeTypesHold == CodeTypeOK /\ [CodeNext]_codeVars => CodeTypeOK'
  <1> SUFFICES ASSUME CodeTypeOK, [CodeNext]_codeVars
               PROVE  CodeTypeOK'
    OBVIOUS
  <1> USE CodeAssumption DEF CodeTypeOK
  <1>1. NothingParsed \in [CodeFiles -> [text : Texts \cup {Absent}, hash : Contents]]
    BY DEF NothingParsed, NoRow, Contents
  <1>2. \A f \in CodeFiles : Rows(f) \subseteq CodeRows /\ Relationships(f) \subseteq Texts
    BY DEF Rows, Relationships, CodeRows
  <1>3. Existing \subseteq CodeFiles
    BY DEF Existing
  <1>4. CASE UNCHANGED codeVars
    BY <1>4 DEF codeVars
  <1>5. ASSUME NEW f \in CodeFiles, Change(f)
        PROVE  CodeTypeOK'
    BY <1>5 DEF Change
  <1>6. ASSUME NEW whole \in BOOLEAN, NEW files \in SUBSET CodeFiles, Begin(whole, files)
        PROVE  CodeTypeOK'
    BY <1>6 DEF Begin
  <1>7. CASE DeleteRows
    BY <1>7 DEF DeleteRows, NodesFirst, NodesDeleted, LinksDeleted
  <1>8. CASE DeletionFails
    BY <1>8 DEF DeletionFails
  <1>9. CASE NextFile
    BY <1>9 DEF NextFile
  <1>10. CASE ReadText
    BY <1>10 DEF ReadText, Looped, Contents
  <1>11. CASE HashText
    BY <1>11 DEF HashText
  <1>12. CASE AddNodes
    BY <1>12, <1>2 DEF AddNodes
  <1>13. CASE AddLinks
    BY <1>13, <1>1, <1>2 DEF AddLinks
  <1>14. CASE EndRun
    BY <1>14 DEF EndRun
  <1>15. CASE CodeRunDies
    BY <1>15, <1>1 DEF CodeRunDies
  <1>16. CASE IndexProject \/ IndexOne \/ IndexChanged
    BY <1>16, <1>3, <1>6 DEF IndexProject, IndexOne, IndexChanged
  <1>17. QED
    BY <1>4, <1>5, <1>7, <1>8, <1>9, <1>10, <1>11, <1>12, <1>13, <1>14, <1>15, <1>16
       DEF CodeNext

(* What a run has parsed is of one moment, unless the file raced it.        *)
ParsedInv ==
    /\ step \in {"idle", "update", "unlink"} \/ (step = "read" /\ ~full)
         => parsed = NothingParsed
    /\ (step \in {"update", "unlink", "add"} => ~full) /\ (step = "next" => full)
    /\ \A f \in CodeFiles : (step = "hash" => file # f) /\ parsed[f].text # Absent
         => f \in raced \/ parsed[f].text = parsed[f].hash
    /\ step = "hash" => file \in raced \/ content[file] = parsed[file].text

(* A row is of the text its hash is of, and its relationships are in their  *)
(* table or about to be added, but for the files that the histories name.   *)
RowsInv ==
    /\ step = "unlink" => nodes[file] = {}
    /\ \A f \in CodeFiles : \A row \in nodes[f] :
         /\ f \in raced \/ row.text = row.hash
         /\ f \in unlinked \/ row.text \in links[f] \/ (step = "link" /\ row \in Rows(f))

CodeInv == CodeTypeOK /\ ParsedInv /\ RowsInv

(* Every step keeps ParsedInv.                                              *)
LEMMA ParsedKept == CodeInv /\ [CodeNext]_codeVars => ParsedInv'
  <1> SUFFICES ASSUME CodeInv, [CodeNext]_codeVars
               PROVE  ParsedInv'
    OBVIOUS
  <1> USE CodeAssumption DEF CodeInv, CodeTypeOK, ParsedInv
  <1>1. \A f \in CodeFiles : NothingParsed[f].text = Absent
    BY DEF NothingParsed, NoRow
  <1>2. CASE UNCHANGED codeVars
    BY <1>2 DEF codeVars
  <1>3. ASSUME NEW f \in CodeFiles, Change(f)
        PROVE  ParsedInv'
    BY <1>3 DEF Change
  <1>4. ASSUME NEW whole \in BOOLEAN, NEW files \in SUBSET CodeFiles, Begin(whole, files)
        PROVE  ParsedInv'
    BY <1>1, <1>4 DEF Begin
  <1>5. CASE DeleteRows
    BY <1>1, <1>5 DEF DeleteRows, NodesFirst, NodesDeleted, LinksDeleted
  <1>6. CASE DeletionFails
    BY <1>1, <1>6 DEF DeletionFails
  <1>7. CASE NextFile
    BY <1>7 DEF NextFile
  <1>8. CASE ReadText
    BY <1>1, <1>8 DEF ReadText, Looped
  <1>9. CASE HashText
    BY <1>9 DEF HashText
  <1>10. CASE AddNodes
    BY <1>10 DEF AddNodes, ReadyToAdd
  <1>11. CASE AddLinks
    BY <1>1, <1>11 DEF AddLinks
  <1>12. CASE EndRun
    BY <1>12 DEF EndRun
  <1>13. CASE CodeRunDies
    BY <1>1, <1>13 DEF CodeRunDies
  <1>14. CASE IndexProject \/ IndexOne \/ IndexChanged
    BY <1>4, <1>14 DEF IndexProject, IndexOne, IndexChanged, Existing
  <1>15. QED
    BY <1>2, <1>3, <1>5, <1>6, <1>7, <1>8, <1>9, <1>10, <1>11, <1>12, <1>13, <1>14
       DEF CodeNext

(* Every step keeps RowsInv.                                                *)
LEMMA RowsKept == CodeInv /\ [CodeNext]_codeVars => RowsInv'
  <1> SUFFICES ASSUME CodeInv, [CodeNext]_codeVars
               PROVE  RowsInv'
    OBVIOUS
  <1> USE CodeAssumption DEF CodeInv, CodeTypeOK, RowsInv
  <1>1. CASE UNCHANGED codeVars
    BY <1>1 DEF codeVars, Rows
  <1>2. ASSUME NEW f \in CodeFiles, Change(f)
        PROVE  RowsInv'
    BY <1>2 DEF Change, Rows
  <1>3. ASSUME NEW whole, NEW files, Begin(whole, files)
        PROVE  RowsInv'
    BY <1>3 DEF Begin
  <1>4. CASE DeleteRows
    BY <1>4 DEF DeleteRows, NodesFirst, NodesDeleted, LinksDeleted
  <1>5. CASE DeletionFails
    BY <1>5 DEF DeletionFails
  <1>6. CASE NextFile
    BY <1>6 DEF NextFile
  <1>7. CASE ReadText
    BY <1>7 DEF ReadText, Looped
  <1>8. CASE HashText
    BY <1>8 DEF HashText
  <1>9. CASE AddNodes
    <2>1. UNCHANGED <<links, parsed, raced, unlinked>> /\ step' = "link"
      BY <1>9 DEF AddNodes
    <2>2. \A f \in CodeFiles : nodes'[f] = nodes[f] \cup Rows(f) /\ Rows(f)' = Rows(f)
      BY <1>9 DEF AddNodes, Rows
    <2>3. step # "hash" /\ step # "link"
      BY <1>9 DEF AddNodes, ReadyToAdd
    <2>4. ASSUME NEW f \in CodeFiles, NEW row \in Rows(f)
          PROVE  f \in raced \/ row.text = row.hash
      BY <2>3, <2>4 DEF Rows, ParsedInv
    <2>5. QED
      BY <2>1, <2>2, <2>3, <2>4
  <1>10. CASE AddLinks
    <2>1. /\ UNCHANGED <<nodes, raced, unlinked>> /\ step' \in {"idle", "update"}
          /\ \A f \in CodeFiles : links'[f] = links[f] \cup Relationships(f)
      BY <1>10 DEF AddLinks
    <2>2. \A f \in CodeFiles : \A row \in Rows(f) : row.text \in Relationships(f)
      BY DEF Relationships
    <2>3. QED
      BY <2>1, <2>2
  <1>11. CASE EndRun
    BY <1>11 DEF EndRun
  <1>12. CASE CodeRunDies
    <2>1. UNCHANGED <<nodes, links, raced>> /\ step' = "idle"
      BY <1>12 DEF CodeRunDies
    <2>2. /\ unlinked \subseteq unlinked'
          /\ step = "link" => \A f \in CodeFiles : Rows(f) # {} => f \in unlinked'
      BY <1>12 DEF CodeRunDies
    <2>3. QED
      BY <2>1, <2>2
  <1>13. CASE IndexProject \/ IndexOne \/ IndexChanged
    BY <1>3, <1>13 DEF IndexProject, IndexOne, IndexChanged
  <1>14. QED
    BY <1>1, <1>2, <1>4, <1>5, <1>6, <1>7, <1>8, <1>9, <1>10, <1>11, <1>12, <1>13
       DEF CodeNext

(* A file that an incremental run passes by, since a row has its hash, has  *)
(* rows and relationships of its present text: the deletion takes nodes and *)
(* with them the hash first, the addition puts them last before the links   *)
(* (store.py update_incremental, parser.py parse_file).  For any files,     *)
(* texts and number of runs.                                                *)
THEOREM PassedByHolds == CodeSpec => [](CodeTypeOK /\ PassedByIsIndexed)
  <1>1. CodeInit => CodeInv
    <2> SUFFICES ASSUME CodeInit
                 PROVE  CodeInv
      OBVIOUS
    <2>1. /\ NothingParsed \in [CodeFiles -> [text : Texts \cup {Absent}, hash : Contents]]
          /\ \A f \in CodeFiles : NothingParsed[f].text = Absent
      BY DEF NothingParsed, NoRow, Contents
    <2>2. CodeTypeOK
      <3>1. {raced, unlinked} \subseteq SUBSET CodeFiles
        BY DEF CodeInit
      <3>2. codeRuns \in 0..MaxCodeRuns
        BY CodeAssumption DEF CodeInit
      <3>3. nodes \in [CodeFiles -> SUBSET CodeRows] /\ links \in [CodeFiles -> SUBSET Texts]
        BY DEF CodeInit
      <3>4. QED
        BY <2>1, <3>1, <3>2, <3>3 DEF CodeInit, CodeTypeOK
    <2>3. ParsedInv
      BY <2>1 DEF CodeInit, ParsedInv
    <2>4. RowsInv
      BY DEF CodeInit, RowsInv
    <2>5. QED
      BY <2>2, <2>3, <2>4 DEF CodeInv
  <1>2. CodeInv /\ [CodeNext]_codeVars => CodeInv'
    BY CodeTypesHold, ParsedKept, RowsKept DEF CodeInv
  <1>3. CodeInv => CodeTypeOK /\ PassedByIsIndexed
    <2>1. CodeInv => PassedByIsIndexed
      <3> SUFFICES ASSUME CodeInv,
                          NEW f \in CodeFiles, f \notin raced, f \notin unlinked,
                          NEW row \in nodes[f], row.hash = content[f]
                   PROVE  /\ row.text = content[f]
                          /\ content[f] \in links[f] \/ (step = "link" /\ row \in Rows(f))
        BY DEF PassedByIsIndexed
      <3>1. QED
        BY DEF CodeInv, RowsInv
    <2>2. QED
      BY <2>1 DEF CodeInv
  <1>4. QED
    BY <1>1, <1>2, <1>3, PTL DEF CodeSpec
=============================================================================
