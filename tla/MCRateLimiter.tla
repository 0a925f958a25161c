--------------------------- MODULE MCRateLimiter ---------------------------
(* Instances of RateLimiter for TLC: one provider with a limit a minute    *)
(* and a limit a day, and a thread per process.                            *)
EXTENDS RateLimiter

CONSTANTS q1, q2, t1, t2

TwoProcesses == [t \in Threads |-> IF t = t1 THEN q1 ELSE q2]
OneProcess == [t \in Threads |-> q1]
MinuteLength == [w \in Rolling |-> 1]
OneAMinuteTwoADay ==
  [pw \in Providers \X Windows |-> IF pw[2] = "day" THEN 2 ELSE 1]
=============================================================================
