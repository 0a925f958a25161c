---------------------------- MODULE AuditLedger ----------------------------
(***************************************************************************)
(* The ledger of the security autopilot: SafeRemediationExecutor           *)
(* (ai/security_autopilot/executor.py) runs an action or rejects the       *)
(* request and then appends an event to a JSONL file that chains each      *)
(* event to the hash of the last line (ai/security_autopilot/audit.py).    *)
(* Processes share the file without a lock and may be killed at any point; *)
(* a tool or a write that raises leaves the same state behind as a kill.   *)
(***************************************************************************)
EXTENDS Naturals, Sequences, FiniteSets

CONSTANTS Executors,    \* processes with an executor
          MaxRequests,  \* bound: requests altogether
          MaxKilled     \* bound: kills of executors and requests left by an exception

ASSUME ExecutorAssumption ==
    IsFiniteSet(Executors) /\ MaxRequests \in Nat /\ MaxKilled \in Nat

Requests == 1..MaxRequests
NoHash == 0

VARIABLES ledger,     \* lines: the event, or NoHash where it is unreadable, and prev_hash
          tornTail,   \* the last line has no end: the next event continues it
          request,    \* the request each executor handles
          phase,      \* how far it got
          prevHash,   \* what _read_last_hash gave it
          requests,   \* requests so far
          ran,        \* requests whose action was run
          answered,   \* requests whose result, with its audit event, was returned
          killed, tears

ledgerVars == <<ledger, tornTail, request, phase, prevHash, requests, ran,
                answered, killed, tears>>

LedgerInit ==
    /\ ledger = <<>>
    /\ tornTail = FALSE
    /\ request = [x \in Executors |-> NoHash]
    /\ phase = [x \in Executors |-> "idle"]
    /\ prevHash = [x \in Executors |-> NoHash]
    /\ requests = 0
    /\ ran = {}
    /\ answered = {}
    /\ killed = 0
    /\ tears = 0

\* execute: an unknown action, a bad payload, the policy or a missing approval
\* reject the request, and a prepared one waits for the operator; both are
\* audited as the ones that run are.
Execute(x) ==
    /\ phase[x] = "idle" /\ requests < MaxRequests
    /\ requests' = requests + 1
    /\ request' = [request EXCEPT ![x] = requests']
    /\ phase' = [phase EXCEPT ![x] = "execute"]
    /\ ran' \in {ran, ran \cup {requests'}}
    /\ UNCHANGED <<ledger, tornTail, prevHash, answered, killed, tears>>

\* The hash on the last line: "" when there is none or it cannot be parsed.
LastHash == IF ledger = <<>> THEN NoHash ELSE ledger[Len(ledger)].event

\* Mutant: the hash is read once for each process.
ReadHashOnce(x) ==
    /\ phase[x] = "execute"
    /\ prevHash' = [prevHash EXCEPT ![x] = IF @ # NoHash THEN @ ELSE LastHash]
    /\ phase' = [phase EXCEPT ![x] = "append"]
    /\ UNCHANGED <<ledger, tornTail, request, requests, ran, answered, killed, tears>>

ReadLastHash(x) ==
    /\ phase[x] = "execute"
    /\ prevHash' = [prevHash EXCEPT ![x] = LastHash]
    /\ phase' = [phase EXCEPT ![x] = "append"]
    /\ UNCHANGED <<ledger, tornTail, request, requests, ran, answered, killed, tears>>

Line(x) == [event |-> IF tornTail THEN NoHash ELSE request[x], prev |-> prevHash[x]]

\* Mutant: the file is opened for writing and not for appending.
Rewritten(x) == <<Line(x)>>

\* A torn last line takes the text of the event and becomes unreadable.
Appended(x) ==
    IF tornTail THEN [ledger EXCEPT ![Len(ledger)] = Line(x)] ELSE Append(ledger, Line(x))

\* append_event writes the line, and the result goes back to the caller.
AppendEvent(x) ==
    /\ phase[x] = "append"
    /\ ledger' = Appended(x)
    /\ tornTail' = FALSE
    /\ answered' = answered \cup {request[x]}
    /\ phase' = [phase EXCEPT ![x] = "idle"]
    /\ UNCHANGED <<request, prevHash, requests, ran, killed, tears>>

Ended(x) ==
    /\ killed < MaxKilled
    /\ killed' = killed + 1
    /\ phase' = [phase EXCEPT ![x] = "idle"]
    /\ prevHash' = [prevHash EXCEPT ![x] = NoHash]
    /\ UNCHANGED <<request, requests, ran, answered>>

\* Cut short before the event is written: killed, or tool_runner or the opening
\* of the file raises.
KilledBefore(x) ==
    /\ phase[x] # "idle"
    /\ Ended(x)
    /\ UNCHANGED <<ledger, tornTail, tears>>

Unreadable == [event |-> NoHash, prev |-> NoHash]

\* Killed, or the write fails, in the middle of the line or with only its end
\* missing.
KilledWriting(x) ==
    /\ phase[x] = "append"
    /\ Ended(x)
    /\ IF tornTail THEN ledger' = [ledger EXCEPT ![Len(ledger)] = Unreadable]
                   ELSE ledger' \in {Append(ledger, line) : line \in {Unreadable, Line(x)}}
    /\ tornTail' = TRUE
    /\ tears' = tears + 1

LedgerNext ==
    \E x \in Executors : \/ Execute(x) \/ ReadLastHash(x) \/ AppendEvent(x)
                         \/ KilledBefore(x) \/ KilledWriting(x)

LedgerSpec == LedgerInit /\ [][LedgerNext]_ledgerVars

----------------------------------------------------------------------------
LedgerTypeOK ==
    /\ ledger \in Seq([event : Requests \cup {NoHash}, prev : Requests \cup {NoHash}])
    /\ tornTail \in BOOLEAN
    /\ {request, prevHash} \subseteq [Executors -> Requests \cup {NoHash}]
    /\ phase \in [Executors -> {"idle", "execute", "append"}]
    /\ requests \in 0..MaxRequests
    /\ {ran, answered} \subseteq SUBSET Requests
    /\ {killed, tears} \subseteq Nat

Recorded == {ledger[i].event : i \in DOMAIN ledger} \ {NoHash}
InHand == {request[x] : x \in {y \in Executors : phase[y] # "idle"}}

(* Nothing is done unseen: an action that was run, or a result that was     *)
(* returned, is missing from the ledger only if its executor was killed, or *)
(* left by an exception, before the line was written, or if the line was    *)
(* glued to a torn one, at most one for each of the former ("killed") and   *)
(* one for each torn line.                                                  *)
AuditAccounted ==
    /\ Cardinality((ran \cup answered) \ (Recorded \cup InHand)) <= killed + tears
    /\ Cardinality(answered \ Recorded) <= tears

(* The chain forks no further than the number of processes: an event is the *)
(* predecessor of at most one event of each.                                *)
ForksBounded ==
    \A e \in Requests :
        Cardinality({i \in DOMAIN ledger : ledger[i].event # NoHash /\ ledger[i].prev = e})
            <= Cardinality(Executors)
=============================================================================
