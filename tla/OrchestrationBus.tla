-------------------------- MODULE OrchestrationBus --------------------------
(***************************************************************************)
(* OrchestrationBus of ai/orchestration/bus.py: dispatch calls the handler *)
(* of an agent, which may dispatch again under the same correlation id.    *)
(* _correlation_stack counts the levels of each correlation, to end        *)
(* circular handoffs.  Tasks of one event loop interleave at every await.  *)
(***************************************************************************)
EXTENDS Naturals, Integers

CONSTANTS Correlations,
          MaxDepth,       \* MAX_HANDOFD_DEPTH
          MaxDispatches,  \* bound: dispatches of a correlation
          MaxStops        \* bound: calls of stop

ASSUME MaxDepthAssumption == MaxDepth \in Nat

VARIABLES stack,       \* _correlation_stack; a missing key counts 0
          lookingUp,   \* dispatches admitted, waiting for the registry
          handling,    \* dispatches whose handler runs
          refused,     \* dispatches that ended without a handler
          dispatches,  \* dispatches so far
          stops        \* calls of stop so far

busVars == <<stack, lookingUp, handling, refused, dispatches, stops>>

BusInit ==
    /\ stack = [c \in Correlations |-> 0]
    /\ lookingUp = [c \in Correlations |-> 0]
    /\ handling = [c \in Correlations |-> 0]
    /\ refused = [c \in Correlations |-> 0]
    /\ dispatches = [c \in Correlations |-> 0]
    /\ stops = 0

\* A task, or a handler of the same correlation, calls dispatch.
Called(c) ==
    /\ dispatches[c] < MaxDispatches
    /\ dispatches' = [dispatches EXCEPT ![c] = @ + 1]
    /\ stack' = [stack EXCEPT ![c] = @ + 1]

\* Mutant: the bound is tested before the level is added.
AdmitLate(c) ==
    /\ Called(c)
    /\ stack[c] <= MaxDepth
    /\ lookingUp' = [lookingUp EXCEPT ![c] = @ + 1]
    /\ UNCHANGED <<handling, refused, stops>>

Admit(c) ==
    /\ Called(c)
    /\ stack'[c] <= MaxDepth
    /\ lookingUp' = [lookingUp EXCEPT ![c] = @ + 1]
    /\ UNCHANGED <<handling, refused, stops>>

\* Too deep: the error result is returned, and the level stays counted.
Refuse(c) ==
    /\ Called(c)
    /\ stack'[c] > MaxDepth
    /\ refused' = [refused EXCEPT ![c] = @ + 1]
    /\ UNCHANGED <<lookingUp, handling, stops>>

\* No handler is registered: as in Refuse, the level stays counted.
NoHandler(c) ==
    /\ lookingUp[c] > 0
    /\ lookingUp' = [lookingUp EXCEPT ![c] = @ - 1]
    /\ refused' = [refused EXCEPT ![c] = @ + 1]
    /\ UNCHANGED <<stack, handling, dispatches, stops>>

Handle(c) ==
    /\ lookingUp[c] > 0
    /\ lookingUp' = [lookingUp EXCEPT ![c] = @ - 1]
    /\ handling' = [handling EXCEPT ![c] = @ + 1]
    /\ UNCHANGED <<stack, refused, dispatches, stops>>

\* Mutant: a handler that raises skips the decrement (no finally clause).
ReturnOrRaise(c) ==
    /\ handling[c] > 0
    /\ handling' = [handling EXCEPT ![c] = @ - 1]
    /\ \E d \in {0, 1} : stack' = [stack EXCEPT ![c] = @ - d]
    /\ UNCHANGED <<lookingUp, refused, dispatches, stops>>

\* The handler returns or raises: the finally clause takes the level off.
Return(c) ==
    /\ handling[c] > 0
    /\ handling' = [handling EXCEPT ![c] = @ - 1]
    /\ stack' = [stack EXCEPT ![c] = @ - 1]
    /\ UNCHANGED <<lookingUp, refused, dispatches, stops>>

\* stop clears the counters, whatever is still running.
Stop ==
    /\ stops < MaxStops
    /\ stops' = stops + 1
    /\ stack' = [c \in Correlations |-> 0]
    /\ UNCHANGED <<lookingUp, handling, refused, dispatches>>

BusNext ==
    \/ \E c \in Correlations :
          Admit(c) \/ Refuse(c) \/ NoHandler(c) \/ Handle(c) \/ Return(c)
    \/ Stop

BusSpec == BusInit /\ [][BusNext]_busVars

----------------------------------------------------------------------------
BusTypeOK ==
    /\ stack \in [Correlations -> Int]
    /\ lookingUp \in [Correlations -> Nat]
    /\ handling \in [Correlations -> Nat]
    /\ refused \in [Correlations -> Nat]
    /\ dispatches \in [Correlations -> Nat]
    /\ stops \in Nat

Open(c) == lookingUp[c] + handling[c]

(* A circular handoff ends: the dispatches of one correlation that are open *)
(* at once stay within the bound, and each stop, which forgets the levels   *)
(* of running dispatches, lets through at most one more bound's worth.      *)
NestingBounded == \A c \in Correlations : Open(c) <= MaxDepth * (stops + 1)

(* Until a stop the counter is exactly the open dispatches and those that   *)
(* were refused: what a refusal leaves behind is never taken off, and       *)
(* nothing else is left behind by any order of nested and concurrent        *)
(* dispatches that return or raise.                                         *)
LevelsAccounted ==
    stops = 0 => \A c \in Correlations : stack[c] = Open(c) + refused[c]
=============================================================================
