--------------------------- MODULE MCPhaseControl ---------------------------
(* Instances of PhaseControl for TLC: phase 2 depends on phase 1.          *)
EXTENDS PhaseControl

ChainOfPhases == [p \in Phases |-> {q \in Phases : q = p - 1}]
=============================================================================
