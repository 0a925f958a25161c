------------------------- MODULE CloseoutIngestion -------------------------
(***************************************************************************)
(* Closeout of a finished phase (ai/phase_control/closeout.py): the engine *)
(* ingests the phase into every target in turn, retries a failure a        *)
(* bounded number of times, writes what keeps failing to a dead-letter     *)
(* file and reports.  The runner starts it when a phase is done, and again *)
(* for a phase whose process was killed on the way; an operator may run it *)
(* at any time.                                                            *)
(***************************************************************************)
EXTENDS Naturals

CONSTANTS LastTarget,       \* targets are numbered in the order of registration
          MaxRetries,       \* RetryConfig.max_retries
          MaxCloseouts      \* bound: closeouts of the phase

ASSUME CloseoutAssumption == /\ LastTarget \in Nat \ {0}
                             /\ MaxRetries \in Nat /\ MaxCloseouts \in Nat

Targets == 1..LastTarget
Closeouts == 1..MaxCloseouts

VARIABLES closeout,     \* the closeout that runs, or ran last; 0 before the first
          target,       \* the target it ingests into; 0 when none runs
          attempt,      \* of that target
          results,      \* IngestionResult.status of each target, for each closeout
          stored,       \* targets in which a closeout left records
          report,       \* overall_status of each closeout; "none" without a report
          deadLetters,  \* entries of .closeout-dead-letter.jsonl
          unwritten     \* entries whose write failed

closeoutVars == <<closeout, target, attempt, results, stored, report,
                  deadLetters, unwritten>>

CloseoutInit ==
    /\ closeout = 0
    /\ target = 0
    /\ attempt = 0
    /\ results = [c \in Closeouts |-> [t \in Targets |-> "pending"]]
    /\ stored = {}
    /\ report = [c \in Closeouts |-> "none"]
    /\ deadLetters = {}
    /\ unwritten = {}

Running == target \in Targets

RunCloseout ==
    /\ ~Running /\ closeout < MaxCloseouts
    /\ closeout' = closeout + 1
    /\ target' = 1
    /\ attempt' = 0
    /\ UNCHANGED <<results, stored, report, deadLetters, unwritten>>

\* Mutant: the loop does not end with the last target.
Onward == target' = target + 1

\* The last target ends the closeout.
Leaving == target' = IF target = LastTarget THEN 0 ELSE target + 1

\* overall_status: SUCCESS when every target succeeded, else PARTIAL.
OverallStatus(r) == IF \A t \in Targets : r[t] = "success" THEN "success" ELSE "partial"

\* The result of the target joins the report, which is complete with the last.
Finish(status) ==
    /\ results' = [results EXCEPT ![closeout][target] = status]
    /\ report' = IF target = LastTarget
                 THEN [report EXCEPT ![closeout] = OverallStatus(results'[closeout])]
                 ELSE report
    /\ attempt' = 0
    /\ Leaving
    /\ UNCHANGED closeout

\* ingest returns SUCCESS: the records are stored, or, when there is nothing
\* to ingest or the store does not answer, skipped.
IngestSucceeds ==
    /\ Running
    /\ Finish("success")
    /\ stored' \in {stored, stored \cup {<<closeout, target>>}}
    /\ UNCHANGED <<deadLetters, unwritten>>

\* A result that is not SUCCESS, or an exception, perhaps after records were
\* stored.
Fails ==
    /\ Running
    /\ stored' \in {stored, stored \cup {<<closeout, target>>}}

\* Mutant: the retries start again after the last one.
RetryAgain ==
    /\ Fails
    /\ attempt < MaxRetries
    /\ attempt' = (attempt + 1) % MaxRetries
    /\ UNCHANGED <<closeout, target, results, report, deadLetters, unwritten>>

\* One of the first attempts: wait and retry.
Retry ==
    /\ Fails
    /\ attempt < MaxRetries
    /\ attempt' = attempt + 1
    /\ UNCHANGED <<closeout, target, results, report, deadLetters, unwritten>>

\* Mutant: the entry names no closeout of its own, and replaces the last one.
Replaced(entry) == {entry}

Filed(entry) == deadLetters \cup {entry}

\* The last attempt: FAILED, and an entry in the dead-letter file, unless the
\* write fails, which is only logged.
GiveUp ==
    /\ Fails
    /\ attempt = MaxRetries
    /\ Finish("failed")
    /\ \/ /\ deadLetters' = Filed(<<closeout, target>>)
          /\ UNCHANGED unwritten
       \/ /\ unwritten' = unwritten \cup {<<closeout, target>>}
          /\ UNCHANGED deadLetters

\* The process is killed: no report.
CloseoutKilled ==
    /\ Running
    /\ target' = 0
    /\ UNCHANGED <<closeout, attempt, results, stored, report, deadLetters, unwritten>>

CloseoutStep == IngestSucceeds \/ Retry \/ GiveUp

CloseoutNext == RunCloseout \/ CloseoutStep \/ CloseoutKilled

\* A closeout that runs goes on: ingest and sleep return.
CloseoutFairness == WF_closeoutVars(CloseoutStep)

CloseoutSpec == CloseoutInit /\ [][CloseoutNext]_closeoutVars /\ CloseoutFairness

----------------------------------------------------------------------------
CloseoutTypeOK ==
    /\ closeout \in Closeouts \cup {0}
    /\ target \in Targets \cup {0}
    /\ attempt \in 0..MaxRetries
    /\ results \in [Closeouts -> [Targets -> {"pending", "success", "failed"}]]
    /\ report \in [Closeouts -> {"none", "success", "partial"}]
    /\ {stored, deadLetters, unwritten} \subseteq SUBSET (Closeouts \X Targets)

(* Failures stay visible: a target that failed for good, in a closeout that *)
(* ended or was killed after it, has its dead letter unless that very write *)
(* failed, and a closeout with a failed target never reports success.       *)
FailuresVisible ==
    \A c \in Closeouts, t \in Targets : results[c][t] = "failed" =>
        /\ <<c, t>> \in deadLetters \cup unwritten
        /\ report[c] # "success"

(* Closeout does not block the phase: one that started ends, with every     *)
(* target succeeded or given up, however many ingests fail.                 *)
CloseoutEnds == Running ~> ~Running
=============================================================================
