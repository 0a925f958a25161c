---------------------------- MODULE ClientStream ----------------------------
(***************************************************************************)
(* What the router promises the client of a request: one speaker.  However *)
(* many providers are tried, the client hears the chunks of one answer, in *)
(* order and with nothing taken back, until the request ends with the      *)
(* whole of that answer or with an error.                                  *)
(***************************************************************************)
EXTENDS Naturals, Sequences

CONSTANT Requests

VARIABLES open,   \* the request is under way
          heard,  \* who spoke each chunk that the client was sent
          due     \* chunks of the answer so far

vars == <<open, heard, due>>

Init ==
  /\ open = [q \in Requests |-> FALSE]
  /\ heard = [q \in Requests |-> <<>>]
  /\ due = [q \in Requests |-> 0]

OneSpeaker(s) == \A i \in DOMAIN s : s[i] = s[1]

Continued(s, t) == \A i \in DOMAIN s : i \in DOMAIN t /\ t[i] = s[i]

\* The client of q hears more, or nothing, of the same speaker.
Hears(q) ==
  /\ heard' = [heard EXCEPT ![q] = heard'[q]]
  /\ Continued(heard[q], heard'[q])
  /\ OneSpeaker(heard'[q])

Ask(q) ==
  /\ ~open[q]
  /\ open' = [open EXCEPT ![q] = TRUE]
  /\ heard' = [heard EXCEPT ![q] = <<>>]
  /\ due' = [due EXCEPT ![q] = 0]

\* The answer has a chunk more, which may be held back for a while.
Deliver(q) ==
  /\ open[q]
  /\ due' = [due EXCEPT ![q] = @ + 1]
  /\ Hears(q)
  /\ Len(heard'[q]) <= due'[q]
  /\ UNCHANGED open

\* Another answer is begun, as long as nothing was heard of this one.
Failover(q) ==
  /\ open[q]
  /\ heard[q] = <<>>
  /\ due' = [due EXCEPT ![q] = 0]
  /\ UNCHANGED <<open, heard>>

\* The answer ends, and what was held back of it is sent.
End(q) ==
  /\ open[q]
  /\ open' = [open EXCEPT ![q] = FALSE]
  /\ Hears(q)
  /\ Len(heard'[q]) = due[q]
  /\ UNCHANGED due

\* The request ends with an error, and what was heard of it counts no more.
Break(q) ==
  /\ open[q]
  /\ open' = [open EXCEPT ![q] = FALSE]
  /\ heard' = [heard EXCEPT ![q] = <<>>]
  /\ due' = [due EXCEPT ![q] = 0]

Next == \E q \in Requests : Ask(q) \/ Deliver(q) \/ Failover(q) \/ End(q) \/ Break(q)

Spec == Init /\ [][Next]_vars
=============================================================================
