--------------------------- MODULE ProviderHealth ---------------------------
(***************************************************************************)
(* The health record of an LLM provider (ai/health.py).  disabled_until is *)
(* kept as the time left, so that no clock is needed; the success, failure *)
(* and latency totals only feed the score, which only orders providers.    *)
(* Counters saturate where larger values make no further difference.       *)
(***************************************************************************)
EXTENDS Naturals

CONSTANTS
  FailureThreshold,   \* _FAILURE_THRESHOLD
  AuthThreshold,      \* auth failures in a row that mark a provider broken
  BaseCooldown,       \* _BASE_COOLDOWN_S
  MaxCooldown         \* _MAX_COOLDOWN_S

ASSUME ThresholdAssumption ==
  /\ FailureThreshold \in Nat \ {0}
  /\ AuthThreshold \in Nat \ {0}
  /\ BaseCooldown \in Nat \ {0}
  /\ MaxCooldown \in Nat
  /\ BaseCooldown <= MaxCooldown

AtMost(n, bound) == IF n <= bound THEN n ELSE bound

(* The cooldown doubles with every demotion, up to its maximum.            *)
Cooldown(demotions) == AtMost(BaseCooldown * 2^demotions, MaxCooldown)

(* Demotions from which on the cooldown is at its maximum.                 *)
DemotionCap == CHOOSE n \in 0 .. MaxCooldown :
  /\ BaseCooldown * 2^n >= MaxCooldown
  /\ \A m \in 0 .. n - 1 : BaseCooldown * 2^m < MaxCooldown

Health ==
  [ failures     : 0 .. FailureThreshold,   \* consecutive_failures
    authFailures : 0 .. AuthThreshold,      \* consecutive_auth_failures
    broken       : BOOLEAN,                 \* auth_broken
    cooling      : 0 .. MaxCooldown,        \* time left until disabled_until
    demotions    : 0 .. DemotionCap ]

Neutral == [failures |-> 0, authFailures |-> 0, broken |-> FALSE,
            cooling |-> 0, demotions |-> 0]

IsDisabled(h) == h.cooling > 0

(* Mutant: only broken providers are left out.                             *)
IsUnbroken(h) == ~h.broken

(* get_sorted keeps these; their order is the score's.                     *)
IsOffered(h) == ~IsDisabled(h) /\ ~h.broken

(* Mutant: a success forgives everything.                                  *)
AfterPardon(h) == Neutral

(* record_success: neither the cooldown nor the demotions are touched.     *)
AfterSuccess(h) == [h EXCEPT !.failures = 0, !.authFailures = 0, !.broken = FALSE]

(* record_failure; auth stands for a status code of 401 or 403.            *)
AfterFailure(h, auth) ==
  LET failed  == AtMost(h.failures + 1, FailureThreshold)
      refused == IF auth THEN AtMost(h.authFailures + 1, AuthThreshold) ELSE 0
      demoted == failed >= FailureThreshold
  IN [ failures     |-> failed,
       authFailures |-> refused,
       broken       |-> h.broken \/ refused >= AuthThreshold,
       cooling      |-> IF demoted THEN Cooldown(h.demotions) ELSE h.cooling,
       demotions    |-> IF demoted THEN AtMost(h.demotions + 1, DemotionCap)
                                   ELSE h.demotions ]

Later(h) == IF IsDisabled(h) THEN [h EXCEPT !.cooling = @ - 1] ELSE h
=============================================================================
