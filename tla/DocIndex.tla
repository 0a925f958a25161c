------------------------------ MODULE DocIndex ------------------------------
(***************************************************************************)
(* The index of documents and of code (ai/rag/ingest_docs.py and           *)
(* ai/rag/ingest_code.py): a run looks at its files one after the other,   *)
(* embeds what is not yet recorded, adds all of it to the vector table and *)
(* only then writes the record of what it indexed.  Tools, the closeout of *)
(* a phase and operators start runs, which nothing keeps apart, while the  *)
(* files are edited.  Versions of a file are numbered: the number stands   *)
(* for the hash of a document and for the time stamp of a module.  Files   *)
(* are of one size, so that both caps of a run are the one on their        *)
(* number.                                                                 *)
(***************************************************************************)
EXTENDS Naturals, FiniteSets

CONSTANTS Indexers,         \* runs that may be under way at a time
          DocFiles,
          Blank,            \* files whose text gives nothing to embed
          MaxPerRun,        \* MAX_DOCS_PER_RUN
          MaxEdition,       \* bound: versions of a file
          MaxIndexRuns      \* bound: runs

ASSUME DocIndexAssumption == /\ DocFiles # {} /\ Blank \subseteq DocFiles
                             /\ MaxPerRun \in Nat /\ MaxEdition \in Nat \ {0}
                             /\ MaxIndexRuns \in Nat

Editions == 1..MaxEdition
Unseen == 0
HashMaps == [DocFiles -> {Unseen} \cup Editions]
NothingRecorded == [f \in DocFiles |-> Unseen]
Runs == [at : {"idle", "looking", "reading", "saving", "writing"},
         forced : BOOLEAN, todo : SUBSET DocFiles, file : DocFiles,
         hash : Editions, known : HashMaps, found : HashMaps, texts : HashMaps]

Idle == [at |-> "idle", forced |-> FALSE, todo |-> {}, file |-> CHOOSE f \in DocFiles : TRUE,
         hash |-> 1, known |-> NothingRecorded, found |-> NothingRecorded,
         texts |-> NothingRecorded]

VARIABLES edition,      \* the version of each file on disk
          table,        \* versions of each file with chunks in the table
          recorded,     \* the state file: the version indexed last, as a run saw it
          reloads,      \* code: the state file is read again before it is written
          run,          \* what each run holds in memory
          indexRuns     \* runs so far

indexVars == <<edition, table, recorded, reloads, run, indexRuns>>

IndexInit ==
    /\ edition = [f \in DocFiles |-> 1]
    /\ table = [f \in DocFiles |-> {}]
    /\ recorded = NothingRecorded
    /\ reloads \in BOOLEAN
    /\ run = [i \in Indexers |-> Idle]
    /\ indexRuns = 0

Edit(f) ==
    /\ edition[f] < MaxEdition
    /\ edition' = [edition EXCEPT ![f] = @ + 1]
    /\ UNCHANGED <<table, recorded, reloads, run, indexRuns>>

StartIndexing(i) ==
    /\ run[i].at = "idle" /\ indexRuns < MaxIndexRuns
    /\ \E paths \in SUBSET DocFiles, forced \in BOOLEAN :
         run' = [run EXCEPT ![i] = [@ EXCEPT !.at = "looking", !.forced = forced,
                                    !.todo = paths,
                                    !.known = IF forced THEN NothingRecorded ELSE recorded]]
    /\ indexRuns' = indexRuns + 1
    /\ UNCHANGED <<edition, table, recorded, reloads>>

Processed(i) == Cardinality({f \in DocFiles : run[i].found[f] # Unseen})

\* A file that has not changed since it was recorded, or is one too many, is passed by.
HashFile(i) ==
    /\ run[i].at = "looking"
    /\ \E f \in run[i].todo :
         \/ /\ \/ ~run[i].forced /\ run[i].known[f] = edition[f]
               \/ Processed(i) >= MaxPerRun
            /\ run' = [run EXCEPT ![i].todo = @ \ {f}]
         \/ /\ run[i].forced \/ run[i].known[f] # edition[f]
            /\ Processed(i) < MaxPerRun
            /\ run' = [run EXCEPT ![i] = [@ EXCEPT !.at = "reading", !.todo = run[i].todo \ {f},
                                          !.file = f, !.hash = edition[f]]]
    /\ UNCHANGED <<edition, table, recorded, reloads, indexRuns>>

\* The text is read after the hash was taken.  A document without sections is left
\* unrecorded; a module without text is recorded, and its chunk is dropped later.
ReadFile(i) ==
    /\ run[i].at = "reading"
    /\ LET f == run[i].file IN
         IF f \in Blank /\ ~reloads
         THEN run' = [run EXCEPT ![i].at = "looking"]
         ELSE run' = [run EXCEPT ![i] = [@ EXCEPT !.at = "looking",
                                         !.found[f] = run[i].hash,
                                         !.texts[f] = IF f \in Blank THEN Unseen ELSE edition[f]]]
    /\ UNCHANGED <<edition, table, recorded, reloads, indexRuns>>

ToEmbed(i) == {f \in DocFiles : run[i].texts[f] # Unseen}

StoreChunks(i) ==
    /\ run[i].at = "looking" /\ run[i].todo = {} /\ ToEmbed(i) # {}
    /\ table' = [f \in DocFiles |-> table[f] \cup {e \in Editions : e = run[i].texts[f]}]
    /\ run' = [run EXCEPT ![i].at = "saving"]
    /\ UNCHANGED <<edition, recorded, reloads, indexRuns>>

\* Mutant: what a run saves does not depend on what the table took.
StoreUnseen(i) ==
    /\ run[i].at = "looking" /\ run[i].todo = {}
    /\ run' = [run EXCEPT ![i].at = "saving"]
    /\ UNCHANGED <<edition, table, recorded, reloads, indexRuns>>

\* No chunks, or none that the table took: the state file stays as it is.
StoreNothing(i) ==
    /\ run[i].at = "looking" /\ run[i].todo = {}
    /\ run' = [run EXCEPT ![i] = Idle]
    /\ UNCHANGED <<edition, table, recorded, reloads, indexRuns>>

\* Documents write back what they read at the start, code what it reads now.
LoadAgain(i) ==
    /\ run[i].at = "saving"
    /\ LET now == IF reloads /\ ~run[i].forced THEN recorded ELSE run[i].known IN
         run' = [run EXCEPT ![i] = [@ EXCEPT !.at = "writing", !.known = now]]
    /\ UNCHANGED <<edition, table, recorded, reloads, indexRuns>>

SaveState(i) ==
    /\ run[i].at = "writing"
    /\ recorded' = [f \in DocFiles |-> IF run[i].found[f] # Unseen
                                       THEN run[i].found[f] ELSE run[i].known[f]]
    /\ run' = [run EXCEPT ![i] = Idle]
    /\ UNCHANGED <<edition, table, reloads, indexRuns>>

\* The process is killed, or a text that is no UTF-8, a provider or the disk ends the run.
IndexingDies(i) ==
    /\ run[i].at # "idle"
    /\ run' = [run EXCEPT ![i] = Idle]
    /\ UNCHANGED <<edition, table, recorded, reloads, indexRuns>>

IndexNext ==
    \/ \E f \in DocFiles : Edit(f)
    \/ \E i \in Indexers : \/ StartIndexing(i) \/ HashFile(i) \/ ReadFile(i)
                           \/ StoreChunks(i) \/ StoreNothing(i)
                           \/ LoadAgain(i) \/ SaveState(i) \/ IndexingDies(i)

IndexSpec == IndexInit /\ [][IndexNext]_indexVars

-----------------------------------------------------------------------------

(* The variables keep their types.                                          *)
IndexTypeOK ==
    /\ edition \in [DocFiles -> Editions]
    /\ table \in [DocFiles -> SUBSET Editions]
    /\ recorded \in HashMaps
    /\ reloads \in BOOLEAN
    /\ run \in [Indexers -> Runs]
    /\ indexRuns \in 0..MaxIndexRuns

\* A version of f no older than e has its chunks in the table.
Indexed(f, e) == \E t \in table[f] : t >= e

(* A later run passes by what is recorded, so a file must never be recorded *)
(* without its text in the table, that version's or a later one's, whatever *)
(* runs overlap, die or find the table closed, and whatever is edited       *)
(* between the hash and the text (ingest_docs.py, ingest_code.py:           *)
(* ingest_files).                                                           *)
RecordedIsIndexed ==
    \A f \in DocFiles \ Blank : recorded[f] # Unseen => Indexed(f, recorded[f])
=============================================================================
