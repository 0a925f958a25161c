--------------------------- MODULE RecoveryProofs ---------------------------
(***************************************************************************)
(* Proofs about what is kept over failures and restarts: the dead letters  *)
(* of a closeout, the cooldowns of self-healing and the audit ledger of    *)
(* the security autopilot.                                                 *)
(***************************************************************************)
EXTENDS AuditLedger, CloseoutIngestion, SelfHealing, FiniteSetTheorems, SequenceTheorems,
        TLAPS

----------------------------------------------------------------------------
(* Closeout (ai/phase_control/closeout.py).                                 *)

\* A closeout writes into its own results, and only before its report.
CloseoutInv ==
    /\ CloseoutTypeOK
    /\ FailuresVisible
    /\ \A c \in Closeouts : c > closeout => report[c] = "none"
    /\ Running => closeout \in Closeouts /\ report[closeout] = "none"

LEMMA CloseoutFinishes ==
    ASSUME CloseoutInv, Running, NEW status \in {"success", "failed"}, Finish(status),
           deadLetters \subseteq deadLetters', unwritten \subseteq unwritten',
           deadLetters' \subseteq Closeouts \X Targets, unwritten' \subseteq Closeouts \X Targets,
           stored' \subseteq Closeouts \X Targets,
           status = "failed" => <<closeout, target>> \in deadLetters' \cup unwritten'
    PROVE  CloseoutInv'
  <1>1. /\ closeout \in Closeouts /\ target \in Targets /\ LastTarget \in Nat /\ MaxRetries \in Nat /\ LastTarget > 0
        /\ results \in [Closeouts -> [Targets -> {"pending", "success", "failed"}]]
        /\ report \in [Closeouts -> {"none", "success", "partial"}]
    BY CloseoutAssumption DEF Running, CloseoutInv, CloseoutTypeOK
  <1>2. /\ closeout' = closeout /\ attempt' = 0
        /\ target' = (IF target = LastTarget THEN 0 ELSE target + 1)
        /\ results' = [results EXCEPT ![closeout][target] = status]
        /\ report' = (IF target = LastTarget
                      THEN [report EXCEPT ![closeout] = OverallStatus(results'[closeout])]
                      ELSE report)
    BY DEF Finish, Leaving
  <1>3. results' \in [Closeouts -> [Targets -> {"pending", "success", "failed"}]]
    BY <1>1, <1>2
  <1>4. OverallStatus(results'[closeout]) \in {"success", "partial"}
        /\ \A t \in Targets : results'[closeout][t] = "failed"
                                => OverallStatus(results'[closeout]) # "success"
    BY DEF OverallStatus
  <1>5. report' \in [Closeouts -> {"none", "success", "partial"}]
    BY <1>1, <1>2, <1>4
  <1>6. target' \in Targets \cup {0}
    BY <1>1, <1>2 DEF Targets
  <1>7. CloseoutTypeOK'
    BY <1>1, <1>2, <1>3, <1>5, <1>6 DEF CloseoutTypeOK
  <1>8. ASSUME NEW c \in Closeouts, NEW t \in Targets, results'[c][t] = "failed"
        PROVE  <<c, t>> \in deadLetters' \cup unwritten' /\ report'[c] # "success"
    <2>1. CASE c = closeout /\ t = target
      <3>1. status = "failed" /\ report[closeout] # "success"
        BY <1>1, <1>2, <1>8, <2>1 DEF CloseoutInv
      <3>2. QED
        BY <1>1, <1>2, <1>4, <1>8, <2>1, <3>1
    <2>2. CASE ~(c = closeout /\ t = target)
      <3>1. results[c][t] = "failed"
        BY <1>1, <1>2, <1>8, <2>2
      <3>2. <<c, t>> \in deadLetters \cup unwritten /\ report[c] # "success"
        BY <3>1 DEF CloseoutInv, FailuresVisible
      <3>3. report'[c] # "success"
        BY <1>1, <1>2, <1>4, <1>8, <3>2
      <3>4. QED
        BY <3>2, <3>3
    <2>3. QED
      BY <2>1, <2>2
  <1>9. \A c \in Closeouts : c > closeout' => report'[c] = "none"
    BY <1>1, <1>2 DEF CloseoutInv, Closeouts
  <1>10. Running' => closeout' \in Closeouts /\ report'[closeout'] = "none"
    BY <1>1, <1>2 DEF CloseoutInv, Running, Targets
  <1>11. QED
    BY <1>7, <1>8, <1>9, <1>10 DEF CloseoutInv, FailuresVisible

LEMMA CloseoutInvStep ==
    ASSUME CloseoutInv, [CloseoutNext]_closeoutVars
    PROVE  CloseoutInv'
  <1>1. /\ closeout \in Closeouts \cup {0} /\ target \in Targets \cup {0}
        /\ attempt \in 0..MaxRetries /\ MaxRetries \in Nat
        /\ stored \subseteq Closeouts \X Targets /\ deadLetters \subseteq Closeouts \X Targets
        /\ unwritten \subseteq Closeouts \X Targets
    BY CloseoutAssumption DEF CloseoutInv, CloseoutTypeOK
  <1>2. CASE RunCloseout
    <2>1. closeout' \in Closeouts /\ target' \in Targets /\ attempt' \in 0..MaxRetries
      BY <1>1, <1>2, CloseoutAssumption DEF RunCloseout, Closeouts, Targets
    <2>2. report[closeout + 1] = "none"
          /\ \A c \in Closeouts : c > closeout + 1 => report[c] = "none"
      BY <1>1, <1>2, <2>1 DEF RunCloseout, CloseoutInv, Closeouts
    <2>3. QED
      BY <1>2, <2>1, <2>2 DEF RunCloseout, CloseoutInv, CloseoutTypeOK, FailuresVisible
  <1>3. CASE IngestSucceeds
    BY <1>1, <1>3, CloseoutFinishes DEF IngestSucceeds, CloseoutInv, Running
  <1>4. CASE Retry
    <2>1. /\ stored' \subseteq Closeouts \X Targets /\ attempt' \in 0..MaxRetries
          /\ UNCHANGED <<closeout, target, results, report, deadLetters, unwritten>>
      BY <1>1, <1>4 DEF Retry, Fails, Running, CloseoutInv
    <2>2. QED
      BY <2>1 DEF CloseoutInv, CloseoutTypeOK, FailuresVisible, Running
  <1>5. CASE GiveUp
    <2>1. /\ Running /\ closeout \in Closeouts /\ Finish("failed")
          /\ stored' \subseteq Closeouts \X Targets
      BY <1>1, <1>5 DEF GiveUp, Fails, Running, CloseoutInv
    <2>2. <<closeout, target>> \in Closeouts \X Targets
      BY <2>1 DEF Running
    <2>3. /\ deadLetters \subseteq deadLetters' /\ unwritten \subseteq unwritten'
          /\ deadLetters' \subseteq Closeouts \X Targets
          /\ unwritten' \subseteq Closeouts \X Targets
          /\ <<closeout, target>> \in deadLetters' \cup unwritten'
      BY <1>1, <1>5, <2>2 DEF GiveUp, Filed
    <2>4. QED
      BY <2>1, <2>3, CloseoutFinishes
  <1>6. CASE CloseoutKilled
    BY <1>1, <1>6 DEF CloseoutKilled, CloseoutInv, CloseoutTypeOK, FailuresVisible, Running, Targets
  <1>7. CASE UNCHANGED closeoutVars
    BY <1>7 DEF closeoutVars, CloseoutInv, CloseoutTypeOK, FailuresVisible, Running
  <1>8. QED
    BY <1>2, <1>3, <1>4, <1>5, <1>6, <1>7 DEF CloseoutNext, CloseoutStep

LEMMA CloseoutInitially ==
    ASSUME CloseoutInit
    PROVE  CloseoutInv
  BY CloseoutAssumption
     DEF CloseoutInit, CloseoutInv, CloseoutTypeOK, FailuresVisible, Running, Targets

\* No fairness is needed for what a closeout reports.
LEMMA CloseoutSafe == CloseoutInit /\ [][CloseoutNext]_closeoutVars
                      => [](CloseoutTypeOK /\ FailuresVisible)
  <1>1. CloseoutInit => CloseoutInv
    BY CloseoutInitially
  <1>2. CloseoutInv /\ [CloseoutNext]_closeoutVars => CloseoutInv'
    BY CloseoutInvStep
  <1>3. CloseoutInv => CloseoutTypeOK /\ FailuresVisible
    BY DEF CloseoutInv
  <1>4. QED
    BY <1>1, <1>2, <1>3, PTL

(* For any number of targets, retries and closeouts: a target that failed   *)
(* for good has its dead letter, and its closeout does not report success.  *)
THEOREM FailuresAreVisible == CloseoutSpec => [](CloseoutTypeOK /\ FailuresVisible)
  BY CloseoutSafe, PTL DEF CloseoutSpec

\* The attempts that the closeout under way may still make.
AttemptsLeft ==
    IF Running THEN (LastTarget - target) * (MaxRetries + 1) + (MaxRetries - attempt) + 1 ELSE 0

(* What CloseoutEnds rests on besides fairness: every attempt, failed or    *)
(* not, is one of a number that the targets and retries fix (_ingest_with_  *)
(* retry), and nothing gives a closeout more of them.                       *)
AttemptsRunOut ==
    [][Running => /\ AttemptsLeft' <= AttemptsLeft
                  /\ CloseoutStep => AttemptsLeft' < AttemptsLeft]_closeoutVars

LEMMA FewerTargets ==
    ASSUME NEW n \in Nat, NEW m \in Nat \ {0}
    PROVE  /\ n * m \in Nat
           /\ n > 0 => (n - 1) * m + m = n * m /\ (n - 1) * m \in Nat
  <1>1. n * m \in Nat
    BY Z3
  <1>2. ASSUME n > 0 PROVE (n - 1) * m + m = n * m /\ (n - 1) * m \in Nat
    <2>1. (n - 1) * m = n * m - m
      BY Z3
    <2>2. n - 1 \in Nat
      BY <1>2
    <2>3. \A k \in Nat : k * m \in Nat
      BY Z3
    <2>4. QED
      BY <1>1, <2>1, <2>2, <2>3
  <1>3. QED
    BY <1>1, <1>2

LEMMA AttemptsTyped ==
    ASSUME CloseoutTypeOK, Running
    PROVE  /\ LastTarget - target \in Nat /\ MaxRetries - attempt \in Nat /\ MaxRetries + 1 \in Nat \ {0}
           /\ (LastTarget - target) * (MaxRetries + 1) \in Nat
           /\ AttemptsLeft = (LastTarget - target) * (MaxRetries + 1) + (MaxRetries - attempt) + 1
           /\ AttemptsLeft \in 1..(LastTarget * (MaxRetries + 1))
  <1>1. /\ target \in 1..LastTarget /\ attempt \in 0..MaxRetries
        /\ LastTarget \in Nat \ {0} /\ MaxRetries \in Nat
    BY CloseoutAssumption DEF CloseoutTypeOK, Running, Targets
  <1>2. LastTarget - target \in Nat /\ MaxRetries - attempt \in Nat /\ MaxRetries + 1 \in Nat \ {0}
    BY <1>1
  <1>3. (LastTarget - target) * (MaxRetries + 1) \in Nat
    BY <1>2, FewerTargets
  <1>4. AttemptsLeft = (LastTarget - target) * (MaxRetries + 1) + (MaxRetries - attempt) + 1
    BY DEF AttemptsLeft
  <1>5. (LastTarget - target) * (MaxRetries + 1) + (MaxRetries + 1) <= LastTarget * (MaxRetries + 1)
    <2> DEFINE m == MaxRetries + 1
    <2>1. /\ LastTarget * m = (LastTarget - target) * m + target * m
          /\ target * m = (target - 1) * m + m
      BY <1>1
    <2>2. target - 1 \in Nat
      BY <1>1
    <2>3. (target - 1) * m \in Nat /\ (LastTarget - target) * m \in Nat /\ target * m \in Int
      BY <1>1, <1>2, <2>2, FewerTargets
    <2>4. LastTarget * m \in Int
      BY <1>1
    <2> HIDE DEF m
    <2>5. m \in Nat
      BY <1>2 DEF m
    <2>6. (LastTarget - target) * m + m <= LastTarget * m
      BY <2>1, <2>3, <2>4, <2>5
    <2>7. QED
      BY <2>6 DEF m
  <1>6. LastTarget * (MaxRetries + 1) \in Nat
    BY <1>1, <1>2, FewerTargets
  <1>7. QED
    BY <1>1, <1>2, <1>3, <1>4, <1>5, <1>6

LEMMA AttemptsStep ==
    ASSUME CloseoutTypeOK, CloseoutTypeOK', Running, [CloseoutNext]_closeoutVars
    PROVE  /\ AttemptsLeft' <= AttemptsLeft
           /\ CloseoutStep => AttemptsLeft' < AttemptsLeft
  <1> DEFINE m == MaxRetries + 1
             left == (LastTarget - target) * m + (MaxRetries - attempt) + 1
  <1>1. /\ LastTarget - target \in Nat /\ MaxRetries - attempt \in Nat /\ m \in Nat \ {0}
        /\ (LastTarget - target) * m \in Nat /\ AttemptsLeft = left
        /\ MaxRetries \in Nat /\ LastTarget \in Nat \ {0}
        /\ target \in 1..LastTarget /\ attempt \in 0..MaxRetries
    BY AttemptsTyped, CloseoutAssumption DEF Running, Targets, CloseoutTypeOK
  <1>2. ASSUME attempt' = 0, Leaving
        PROVE  AttemptsLeft' < AttemptsLeft /\ AttemptsLeft' \in Nat
    <2>1. CASE target = LastTarget
      <3>1. target' = 0
        BY <1>2, <2>1 DEF Leaving
      <3>2. AttemptsLeft' = 0
        BY <3>1 DEF AttemptsLeft, Running, Targets
      <3>3. left > 0
        BY <1>1
      <3>4. QED
        BY <1>1, <3>2, <3>3
    <2>2. CASE target # LastTarget
      <3>1. target' = target + 1 /\ target' \in Targets
        BY <1>1, <1>2, <2>2 DEF Leaving, Targets
      <3>2. AttemptsLeft' = (LastTarget - target') * m + (MaxRetries - 0) + 1
        BY <1>2, <3>1 DEF AttemptsLeft, Running
      <3>3. LastTarget - target > 0 /\ LastTarget - target' = (LastTarget - target) - 1
        BY <1>1, <2>2, <3>1
      <3>4. /\ ((LastTarget - target) - 1) * m + m = (LastTarget - target) * m
            /\ ((LastTarget - target) - 1) * m \in Nat
        BY <1>1, <3>3, FewerTargets
      <3>5. AttemptsLeft' = ((LastTarget - target) - 1) * m + m
        BY <1>1, <3>2, <3>3, <3>4
      <3>6. QED
        BY <1>1, <3>4, <3>5
    <2>3. QED
      BY <2>1, <2>2
  <1>3. CASE IngestSucceeds \/ GiveUp
    <2>1. AttemptsLeft' < AttemptsLeft /\ AttemptsLeft' \in Nat
      BY <1>2, <1>3 DEF IngestSucceeds, GiveUp, Finish
    <2>2. AttemptsLeft \in Nat
      BY <1>1
    <2>3. QED
      BY <2>1, <2>2
  <1>4. CASE Retry
    <2>1. attempt' = attempt + 1 /\ target' = target
      BY <1>4 DEF Retry
    <2>2. AttemptsLeft' = (LastTarget - target) * m + (MaxRetries - (attempt + 1)) + 1
      BY <2>1 DEF AttemptsLeft, Running
    <2>3. QED
      BY <1>1, <2>2
  <1>5. CASE CloseoutKilled
    <2>1. AttemptsLeft' = 0
      BY <1>5 DEF CloseoutKilled, AttemptsLeft, Running, Targets
    <2>2. QED
      BY <1>1, <2>1
  <1>6. CASE UNCHANGED closeoutVars
    <2>1. AttemptsLeft' = AttemptsLeft /\ target' = target /\ attempt' = attempt
      BY <1>6 DEF closeoutVars, AttemptsLeft, Running
    <2>2. ~CloseoutStep
      BY <1>1, <1>3, <1>4, <2>1 DEF CloseoutStep
    <2>3. QED
      BY <1>1, <2>1, <2>2
  <1>7. ~RunCloseout
    BY DEF RunCloseout
  <1>8. QED
    BY <1>3, <1>4, <1>5, <1>6, <1>7 DEF CloseoutNext, CloseoutStep

(* For any targets and retries: a closeout makes at most LastTarget times   *)
(* MaxRetries + 1 attempts, and then it has ended.                          *)
THEOREM AttemptsAreFinite ==
    CloseoutSpec => /\ [](Running => AttemptsLeft \in 1..(LastTarget * (MaxRetries + 1)))
                    /\ AttemptsRunOut
  <1>1. CloseoutInv => (Running => AttemptsLeft \in 1..(LastTarget * (MaxRetries + 1)))
    BY AttemptsTyped DEF CloseoutInv
  <1>2. CloseoutInv /\ CloseoutInv' /\ [CloseoutNext]_closeoutVars =>
          [Running => /\ AttemptsLeft' <= AttemptsLeft
                      /\ CloseoutStep => AttemptsLeft' < AttemptsLeft]_closeoutVars
    BY AttemptsStep DEF CloseoutInv
  <1>3. CloseoutInit => CloseoutInv
    BY CloseoutInitially
  <1>4. CloseoutInv /\ [CloseoutNext]_closeoutVars => CloseoutInv'
    BY CloseoutInvStep
  <1>5. QED
    BY <1>1, <1>2, <1>3, <1>4, PTL DEF CloseoutSpec, AttemptsRunOut

----------------------------------------------------------------------------
(* Self-healing (ai/self_healing.py).                                       *)

\* The cooldown of the last approval is over, or held by table.
Held(table, r) ==
    \/ approvedAt[r] + HealCooldown <= healClock + 1
    \/ approvedAt[r] + HealCooldown <= table[r] + 1

\* Memory and file both hold it, so a restart does not shorten it.
HealInv ==
    /\ HealTypeOK
    /\ \A r \in Repairs : approvedAt[r] > 0 => Held(tracker, r) /\ Held(savedTracker, r)

LEMMA HealStep ==
    ASSUME HealInv, [HealNext]_healVars
    PROVE  /\ HealInv'
           /\ \A r \in Repairs : approvedAt[r] > 0 /\ approvedAt'[r] # approvedAt[r] =>
                  approvedAt'[r] >= approvedAt[r] + HealCooldown
  <1>1. /\ tracker \in [Repairs -> Nat] /\ savedTracker \in [Repairs -> Nat]
        /\ approvedAt \in [Repairs -> Nat]
        /\ healClock \in Nat /\ HealCooldown \in Nat /\ HealCooldown > 0
        /\ \A r \in Repairs : approvedAt[r] > 0 => Held(tracker, r) /\ Held(savedTracker, r)
    BY HealAssumption DEF HealInv, HealTypeOK
  <1>2. CASE RunCheck \/ HealerRestarts \/ HealTick \/ UNCHANGED healVars
    BY <1>1, <1>2 DEF RunCheck, HealerRestarts, HealTick, healVars, HealInv, HealTypeOK, Held
  <1>3. ASSUME NEW r \in Repairs, Blocked(r)
        PROVE  HealInv' /\ approvedAt' = approvedAt
    <2>1. tracker' \in [Repairs -> Nat]
          /\ \A q \in Repairs : tracker'[q] = tracker[q] \/ tracker[q] <= healClock
      BY <1>1, <1>3 DEF Blocked, Looked, InCooldown
    <2>2. QED
      BY <1>1, <1>3, <2>1 DEF Blocked, HealInv, HealTypeOK, Held
  <1>4. ASSUME NEW r \in Repairs, Approved(r)
        PROVE  HealInv' /\ approvedAt' = [approvedAt EXCEPT ![r] = healClock + 1]
                        /\ (approvedAt[r] > 0 => approvedAt[r] + HealCooldown <= healClock + 1)
    <2>1. /\ tracker[r] <= healClock /\ healClock' = healClock
          /\ tracker' = [tracker EXCEPT ![r] = healClock + HealCooldown]
          /\ savedTracker' = tracker'
          /\ approvedAt' = [approvedAt EXCEPT ![r] = healClock + 1]
      BY <1>1, <1>4 DEF Approved, InCooldown
    <2>2. HealTypeOK'
      BY <1>1, <2>1 DEF HealTypeOK
    <2>3. \A q \in Repairs : approvedAt'[q] > 0 => Held(tracker, q)' /\ Held(savedTracker, q)'
      BY <1>1, <2>1 DEF Held
    <2>4. QED
      BY <1>1, <2>1, <2>2, <2>3 DEF HealInv, Held
  <1>5. ASSUME NEW r \in Repairs, ApprovalFails(r)
        PROVE  HealInv' /\ approvedAt' = approvedAt
    <2>1. /\ tracker[r] <= healClock /\ healClock' = healClock
          /\ tracker' = [tracker EXCEPT ![r] = healClock + HealCooldown]
          /\ savedTracker' = savedTracker /\ approvedAt' = approvedAt
      BY <1>1, <1>5 DEF ApprovalFails, InCooldown
    <2>2. HealTypeOK'
      BY <1>1, <2>1 DEF HealTypeOK
    <2>3. \A q \in Repairs : approvedAt'[q] > 0 => Held(tracker, q)' /\ Held(savedTracker, q)'
      BY <1>1, <2>1 DEF Held
    <2>4. QED
      BY <2>1, <2>2, <2>3 DEF HealInv
  <1>6. CASE \E r \in Repairs : Approved(r)
    <2>1. PICK r \in Repairs : Approved(r)
      BY <1>6
    <2>2. QED
      BY <1>1, <1>4, <2>1
  <1>7. QED
    <2>1. RunCheck \/ HealerRestarts \/ HealTick \/ UNCHANGED healVars => approvedAt' = approvedAt
      BY DEF RunCheck, HealerRestarts, HealTick, healVars
    <2>2. QED
      BY <1>2, <1>3, <1>5, <1>6, <2>1 DEF HealNext

(* For any repairs and any cooldown: no repair goes ahead again inside its  *)
(* cooldown.                                                                *)
THEOREM CooldownsHold == HealSpec => []HealTypeOK /\ CooldownHeld
  <1>1. HealInit => HealInv
    BY HealAssumption DEF HealInit, HealInv, HealTypeOK, Held
  <1>2. HealInv /\ [HealNext]_healVars => HealInv'
    BY HealStep
  <1>3. HealInv /\ [HealNext]_healVars =>
          [\A r \in Repairs : approvedAt[r] > 0 /\ approvedAt'[r] # approvedAt[r] =>
             approvedAt'[r] >= approvedAt[r] + HealCooldown]_healVars
    BY HealStep
  <1>4. HealInv => HealTypeOK
    BY DEF HealInv
  <1>5. QED
    BY <1>1, <1>2, <1>3, <1>4, PTL DEF HealSpec, CooldownHeld
----------------------------------------------------------------------------
(* The audit ledger of the security autopilot (executor.py, audit.py).      *)

\* Lines of events that name event e as the one before.
After(e) == {n \in DOMAIN ledger : ledger[n].event # NoHash /\ ledger[n].prev = e}

\* Executors about to write such a line.
AboutToFollow(e) == {x \in Executors : phase[x] = "append" /\ prevHash[x] = e}

Busy(x) == phase[x] # "idle"

Lines == [event : Requests \cup {NoHash}, prev : Requests \cup {NoHash}]

\* Each request is in one hand, and is in the ledger, as an event or as its
\* predecessor, and with its caller only when it was dealt with.
HandsInv ==
    /\ LedgerTypeOK
    /\ (tornTail => ledger # <<>>)
    /\ \A x \in Executors : Busy(x) => request[x] \in 1..requests
    /\ \A x, y \in Executors : Busy(x) /\ Busy(y) /\ x # y => request[x] # request[y]
    /\ \A x \in Executors : phase[x] = "append" => prevHash[x] \in (0..requests) \ InHand
    /\ \A n \in DOMAIN ledger : /\ ledger[n].event \in (0..requests) \ InHand
                                /\ ledger[n].prev \in (0..requests) \ InHand
    /\ ran \subseteq 1..requests
    /\ answered \subseteq (1..requests) \ InHand

\* The last line before a tear is of an event that was not answered.
TailInv == tornTail => ledger[Len(ledger)].event \notin answered

\* An event that has a successor is not the last event again.
ChainInv ==
    \A e \in Requests : \A n \in After(e) : \A m \in DOMAIN ledger :
        n <= m => ledger[m].event # e

ForksInv ==
    \A e \in Requests :
        Cardinality(After(e)) + Cardinality(AboutToFollow(e)) <= Cardinality(Executors)

LedgerInv == HandsInv /\ TailInv /\ ChainInv /\ ForksInv

LEMMA LedgerLength ==
    ASSUME LedgerTypeOK
    PROVE  /\ Len(ledger) \in Nat /\ DOMAIN ledger = 1..Len(ledger)
           /\ ledger # <<>> => Len(ledger) \in DOMAIN ledger
           /\ \A n \in DOMAIN ledger : ledger[n] \in Lines
  <1>1. ledger \in Seq(Lines)
    BY DEF LedgerTypeOK, Lines
  <1>2. /\ Len(ledger) \in Nat /\ DOMAIN ledger = 1..Len(ledger)
        /\ ledger \in [1..Len(ledger) -> Lines]
    BY <1>1, LenProperties
  <1>3. ledger # <<>> => Len(ledger) # 0
    BY <1>1, EmptySeq
  <1>4. QED
    BY <1>2, <1>3

(* A sequence whose last element is replaced.                               *)
LEMMA LastReplaced ==
    ASSUME NEW S, NEW s \in Seq(S), Len(s) \in DOMAIN s, NEW e \in S
    PROVE  /\ [s EXCEPT ![Len(s)] = e] \in Seq(S)
           /\ Len([s EXCEPT ![Len(s)] = e]) = Len(s)
           /\ \A n \in 1..Len(s) :
                 [s EXCEPT ![Len(s)] = e][n] = IF n = Len(s) THEN e ELSE s[n]
  <1>1. Len(s) \in 1..Len(s)
    BY LenProperties, Zenon
  <1> DEFINE k == Len(s)
  <1>2. k \in 1..Len(s)
    BY <1>1
  <1> HIDE DEF k
  <1>3. /\ [s EXCEPT ![k] = e] \in Seq(S)
        /\ Len([s EXCEPT ![k] = e]) = Len(s)
    BY <1>2, ExceptSeq
  <1>4. \A n \in 1..Len(s) : [s EXCEPT ![k] = e][n] = IF n = k THEN e ELSE s[n]
    BY <1>2, ExceptSeq
  <1>5. QED
    BY <1>3, <1>4 DEF k

(* What a step that writes makes of the ledger: a torn last line is         *)
(* replaced, otherwise a line is added.                                     *)
LEMMA Writing ==
    ASSUME LedgerTypeOK, tornTail => ledger # <<>>, NEW line \in Lines,
           ledger' = IF tornTail THEN [ledger EXCEPT ![Len(ledger)] = line]
                                 ELSE Append(ledger, line)
    PROVE  /\ ledger' \in Seq(Lines)
           /\ ledger' # <<>>
           /\ Len(ledger') = IF tornTail THEN Len(ledger) ELSE Len(ledger) + 1
           /\ DOMAIN ledger' = DOMAIN ledger \cup {Len(ledger')}
           /\ Len(ledger') \in Nat
           /\ \A n \in DOMAIN ledger' : n <= Len(ledger')
           /\ Len(ledger') \in DOMAIN ledger'
           /\ ledger'[Len(ledger')] = line
           /\ \A n \in DOMAIN ledger : n # Len(ledger') => ledger'[n] = ledger[n]
  <1>1. /\ ledger \in Seq(Lines) /\ Len(ledger) \in Nat /\ DOMAIN ledger = 1..Len(ledger)
        /\ ledger # <<>> => Len(ledger) \in DOMAIN ledger
    BY LedgerLength DEF LedgerTypeOK, Lines
  <1>2. CASE tornTail
    <2>1. ledger' = [ledger EXCEPT ![Len(ledger)] = line] /\ Len(ledger) \in DOMAIN ledger
      BY <1>1, <1>2
    <2>2. /\ ledger' \in Seq(Lines) /\ Len(ledger') = Len(ledger)
          /\ \A n \in 1..Len(ledger) :
                ledger'[n] = IF n = Len(ledger) THEN line ELSE ledger[n]
      <3>1. /\ [ledger EXCEPT ![Len(ledger)] = line] \in Seq(Lines)
            /\ Len([ledger EXCEPT ![Len(ledger)] = line]) = Len(ledger)
            /\ \A n \in 1..Len(ledger) :
                  [ledger EXCEPT ![Len(ledger)] = line][n] =
                      IF n = Len(ledger) THEN line ELSE ledger[n]
        BY <1>1, <2>1, LastReplaced, Zenon
      <3>2. QED
        BY <2>1, <3>1, Zenon
    <2>3. DOMAIN ledger' = DOMAIN ledger
      BY <2>1
    <2>5. ledger' # <<>>
      BY <1>1, <2>1, <2>3, EmptySeq
    <2>4. QED
      BY <1>1, <1>2, <2>1, <2>2, <2>3, <2>5
  <1>3. CASE ~tornTail
    <2>1. /\ ledger' \in Seq(Lines) /\ ledger' # <<>>
          /\ Len(ledger') = Len(ledger) + 1
          /\ \A n \in 1..Len(ledger) : ledger'[n] = ledger[n]
          /\ ledger'[Len(ledger) + 1] = line
      BY <1>1, <1>3, AppendProperties
    <2>2. DOMAIN ledger' = 1..(Len(ledger) + 1)
      BY <2>1, LenProperties
    <2>3. QED
      BY <1>1, <1>3, <2>1, <2>2
  <1>4. QED
    BY <1>2, <1>3

(* HandsInv, TailInv and ChainInv are kept by every step.                   *)
LEMMA LedgerTypeStep ==
    ASSUME HandsInv, [LedgerNext]_ledgerVars
    PROVE  LedgerTypeOK'
  <1> USE ExecutorAssumption DEF Requests, NoHash
  <1>1. LedgerTypeOK /\ requests \in Nat
    BY DEF HandsInv, LedgerTypeOK
  <1>2. LastHash \in Requests \cup {NoHash}
    BY <1>1, LedgerLength DEF LastHash, Lines
  <1>3. \A x \in Executors : Line(x) \in Lines /\ Unreadable \in Lines
    BY <1>1 DEF Line, Lines, Unreadable, LedgerTypeOK
  <1>4. ASSUME NEW x \in Executors, Execute(x)
        PROVE  LedgerTypeOK'
    <2>1. requests' \in 1..MaxRequests /\ requests' = requests + 1
      BY <1>1, <1>4 DEF Execute, LedgerTypeOK
    <2>2. request' \in [Executors -> Requests \cup {NoHash}] /\ prevHash' = prevHash
      BY <1>1, <1>4, <2>1 DEF Execute, LedgerTypeOK
    <2>3. ran' \in SUBSET Requests /\ answered' = answered
      BY <1>1, <1>4, <2>1 DEF Execute, LedgerTypeOK
    <2>4. QED
      BY <1>1, <1>4, <2>1, <2>2, <2>3 DEF Execute, LedgerTypeOK
  <1>5. ASSUME NEW x \in Executors, ReadLastHash(x)
        PROVE  LedgerTypeOK'
    BY <1>1, <1>2, <1>5 DEF ReadLastHash, LedgerTypeOK
  <1>6. ASSUME NEW x \in Executors, AppendEvent(x)
        PROVE  LedgerTypeOK'
    <2>1. ledger' \in Seq(Lines)
      BY <1>1, <1>3, <1>6, Writing DEF AppendEvent, Appended, HandsInv
    <2>2. request[x] \in Requests
      BY <1>1, <1>6 DEF AppendEvent, HandsInv, Busy, LedgerTypeOK
    <2>3. QED
      BY <1>1, <1>6, <2>1, <2>2 DEF AppendEvent, LedgerTypeOK, Lines
  <1>7. ASSUME NEW x \in Executors, KilledBefore(x)
        PROVE  LedgerTypeOK'
    <2>1. killed' \in Nat /\ tears' = tears
      BY <1>1, <1>7 DEF KilledBefore, Ended, LedgerTypeOK
    <2>2. phase' \in [Executors -> {"idle", "execute", "append"}]
          /\ prevHash' \in [Executors -> Requests \cup {NoHash}]
      BY <1>1, <1>7 DEF KilledBefore, Ended, LedgerTypeOK
    <2>3. QED
      BY <1>1, <1>7, <2>1, <2>2 DEF KilledBefore, Ended, LedgerTypeOK
  <1>8. ASSUME NEW x \in Executors, KilledWriting(x)
        PROVE  LedgerTypeOK'
    <2>1. PICK line \in {Unreadable, Line(x)} :
             ledger' = IF tornTail THEN [ledger EXCEPT ![Len(ledger)] = line]
                                   ELSE Append(ledger, line)
      BY <1>8 DEF KilledWriting
    <2>2. ledger' \in Seq(Lines)
      BY <1>1, <1>3, <2>1, Writing DEF HandsInv
    <2>3. killed' \in Nat /\ tears' \in Nat /\ tornTail' \in BOOLEAN
      BY <1>1, <1>8 DEF KilledWriting, Ended, LedgerTypeOK
    <2>4. phase' \in [Executors -> {"idle", "execute", "append"}]
          /\ prevHash' \in [Executors -> Requests \cup {NoHash}]
      BY <1>1, <1>8 DEF KilledWriting, Ended, LedgerTypeOK
    <2>5. UNCHANGED <<request, requests, ran, answered>>
      BY <1>8 DEF KilledWriting, Ended
    <2>6. QED
      BY <1>1, <2>2, <2>3, <2>4, <2>5 DEF LedgerTypeOK, Lines
  <1>9. CASE UNCHANGED ledgerVars
    BY <1>1, <1>9 DEF ledgerVars, LedgerTypeOK
  <1>10. QED
    BY <1>4, <1>5, <1>6, <1>7, <1>8, <1>9 DEF LedgerNext

(* What a step that writes a line of executor x leaves true.  The caller    *)
(* gets its answer only if nothing interrupts it.                           *)
LEMMA WritingKeeps ==
    ASSUME HandsInv, TailInv, ChainInv, LedgerTypeOK', NEW x \in Executors, phase[x] = "append",
           NEW line \in {Unreadable, Line(x)},
           ledger' = IF tornTail THEN [ledger EXCEPT ![Len(ledger)] = line]
                                 ELSE Append(ledger, line),
           phase' = [phase EXCEPT ![x] = "idle"],
           UNCHANGED <<request, requests, ran>>,
           \A y \in Executors : y # x => prevHash'[y] = prevHash[y],
           \/ tornTail' = TRUE /\ answered' = answered
           \/ tornTail' = FALSE /\ answered' = answered \cup {request[x]}
    PROVE  HandsInv' /\ TailInv' /\ ChainInv'
  <1> DEFINE last == Len(ledger')
  <1>1. LedgerTypeOK /\ Busy(x) /\ request[x] \in 1..requests /\ requests \in Nat
    BY DEF HandsInv, Busy, LedgerTypeOK
  <1>2. /\ \A y \in Executors : phase'[y] = IF y = x THEN "idle" ELSE phase[y]
        /\ \A y \in Executors : Busy(y)' <=> y # x /\ Busy(y)
    BY <1>1 DEF LedgerTypeOK, Busy
  <1>3. InHand' = InHand \ {request[x]} /\ request[x] \in InHand
    BY <1>1, <1>2 DEF InHand, HandsInv, Busy
  <1>4. /\ line \in Lines
        /\ line.event \in {NoHash, request[x]} /\ line.prev \in {NoHash, prevHash[x]}
        /\ tornTail => line.event = NoHash
    BY <1>1, ExecutorAssumption DEF Line, Lines, Unreadable, LedgerTypeOK, Requests, NoHash
  <1>5. /\ ledger' # <<>>
        /\ DOMAIN ledger' = DOMAIN ledger \cup {last} /\ last \in DOMAIN ledger'
        /\ last \in Nat /\ \A n \in DOMAIN ledger' : n \in Nat /\ n <= last
        /\ ledger'[last] = line
        /\ \A n \in DOMAIN ledger : n # last => ledger'[n] = ledger[n]
    BY <1>1, <1>4, Writing, LenProperties DEF HandsInv, LedgerTypeOK
  <1>6. prevHash[x] \in (0..requests) \ InHand
    BY DEF HandsInv
  <1>7. \A y \in Executors : Busy(y) => request[y] # 0
    BY <1>1 DEF HandsInv
  <1>8. 0 \notin InHand
    BY <1>7 DEF InHand, Busy
  <1> HIDE DEF last
  <1>9. HandsInv'
    <2>1. \A n \in DOMAIN ledger' : /\ ledger'[n].event \in (0..requests) \ InHand'
                                    /\ ledger'[n].prev \in (0..requests) \ InHand'
      <3>1. ASSUME NEW n \in DOMAIN ledger', n = last
            PROVE  /\ ledger'[n].event \in (0..requests) \ InHand'
                   /\ ledger'[n].prev \in (0..requests) \ InHand'
        BY <1>1, <1>3, <1>4, <1>5, <1>6, <1>8, <3>1 DEF NoHash
      <3>2. ASSUME NEW n \in DOMAIN ledger', n # last
            PROVE  /\ ledger'[n].event \in (0..requests) \ InHand'
                   /\ ledger'[n].prev \in (0..requests) \ InHand'
        BY <1>3, <1>5, <3>2 DEF HandsInv
      <3>3. QED
        BY <3>1, <3>2
    <2>2. answered' \subseteq (1..requests) \ InHand'
      BY <1>1, <1>3 DEF HandsInv
    <2>3. \A y \in Executors : phase'[y] = "append" => prevHash'[y] \in (0..requests) \ InHand'
      BY <1>2, <1>3 DEF HandsInv
    <2>4. \A y \in Executors : Busy(y)' => request'[y] \in 1..requests'
      BY <1>2 DEF HandsInv
    <2>5. \A y, z \in Executors : Busy(y)' /\ Busy(z)' /\ y # z => request'[y] # request'[z]
      BY <1>2 DEF HandsInv
    <2>6. QED
      BY <1>5, <2>1, <2>2, <2>3, <2>4, <2>5 DEF HandsInv
  <1>10. TailInv'
    <2>1. tornTail' => ledger'[last].event \notin answered
      BY <1>1, <1>3, <1>4, <1>5 DEF HandsInv, NoHash
    <2>2. QED
      BY <2>1 DEF TailInv, last
  <1>11. ChainInv'
    <2>1. SUFFICES ASSUME NEW e \in Requests, NEW n \in After(e)', NEW m \in DOMAIN ledger',
                          n <= m
                   PROVE  ledger'[m].event # e
      BY DEF ChainInv
    <2>2. /\ n \in DOMAIN ledger' /\ ledger'[n].event # NoHash /\ ledger'[n].prev = e
          /\ e # NoHash
      BY DEF After, Requests, NoHash
    <2>3. CASE n = last
      <3>1. m = last
        BY <1>5, <2>1, <2>2, <2>3
      <3>2. e = prevHash[x] /\ e \notin InHand
        BY <1>4, <1>5, <1>6, <2>2, <2>3
      <3>3. QED
        BY <1>3, <1>4, <1>5, <2>2, <3>1, <3>2
    <2>4. CASE n # last
      <3>1. n \in DOMAIN ledger /\ ledger'[n] = ledger[n] /\ n \in After(e)
        BY <1>5, <2>2, <2>4 DEF After
      <3>2. e \notin InHand
        BY <2>2, <3>1 DEF HandsInv
      <3>3. CASE m = last
        BY <1>3, <1>4, <1>5, <2>2, <3>2, <3>3
      <3>4. CASE m # last
        BY <1>5, <2>1, <3>1, <3>4 DEF ChainInv
      <3>5. QED
        BY <3>3, <3>4
    <2>5. QED
      BY <2>3, <2>4
  <1>12. QED
    BY <1>9, <1>10, <1>11

LEMMA LedgerStep ==
    ASSUME HandsInv, TailInv, ChainInv, [LedgerNext]_ledgerVars
    PROVE  HandsInv' /\ TailInv' /\ ChainInv'
  <1> USE ExecutorAssumption
  <1>1. LedgerTypeOK /\ LedgerTypeOK' /\ requests \in Nat
    BY LedgerTypeStep DEF HandsInv, LedgerTypeOK
  <1>2. ASSUME UNCHANGED ledger
        PROVE  /\ (tornTail' => tornTail) /\ answered' = answered => TailInv'
               /\ ChainInv'
    BY <1>2 DEF TailInv, ChainInv, After
  <1>3. ASSUME NEW x \in Executors, Execute(x)
        PROVE  HandsInv' /\ TailInv' /\ ChainInv'
    <2>1. /\ requests' = requests + 1 /\ phase[x] = "idle"
          /\ request' = [request EXCEPT ![x] = requests + 1]
          /\ phase' = [phase EXCEPT ![x] = "execute"]
          /\ ran' \subseteq ran \cup {requests + 1}
          /\ UNCHANGED <<ledger, tornTail, prevHash, answered>>
      BY <1>3 DEF Execute
    <2>2. \A y \in Executors : /\ Busy(y)' <=> (y = x \/ Busy(y))
                               /\ request'[y] = IF y = x THEN requests + 1 ELSE request[y]
                               /\ phase'[y] = "append" => phase[y] = "append"
      BY <1>1, <2>1 DEF Busy, LedgerTypeOK
    <2>3. InHand' = InHand \cup {requests + 1} /\ ~Busy(x)
      BY <1>1, <2>1, <2>2 DEF InHand, Busy
    <2>4. requests + 1 \notin 0..requests /\ 0..requests \subseteq 0..requests'
          /\ 1..requests \subseteq 1..requests' /\ requests + 1 \in 1..requests'
      BY <1>1, <2>1
    <2>5. HandsInv'
      BY <1>1, <2>1, <2>2, <2>3, <2>4 DEF HandsInv
    <2>6. QED
      BY <1>2, <2>1, <2>5
  <1>4. ASSUME NEW x \in Executors, ReadLastHash(x)
        PROVE  HandsInv' /\ TailInv' /\ ChainInv'
    <2>1. /\ phase[x] = "execute" /\ phase' = [phase EXCEPT ![x] = "append"]
          /\ prevHash' = [prevHash EXCEPT ![x] = LastHash]
          /\ UNCHANGED <<ledger, tornTail, request, requests, ran, answered>>
      BY <1>4 DEF ReadLastHash
    <2>2. LastHash \in (0..requests) \ InHand
      <3>1. 0 \in 0..requests /\ 0 \notin InHand
        BY <1>1 DEF InHand, HandsInv, Busy
      <3>2. QED
        BY <1>1, <3>1, LedgerLength DEF LastHash, HandsInv, NoHash
    <2>3. InHand' = InHand
      BY <1>1, <2>1 DEF InHand, LedgerTypeOK
    <2>4. \A y \in Executors : /\ Busy(y)' <=> Busy(y)
                               /\ prevHash'[y] = IF y = x THEN LastHash ELSE prevHash[y]
                               /\ y # x => phase'[y] = phase[y]
      BY <1>1, <2>1 DEF Busy, LedgerTypeOK
    <2>5. HandsInv'
      BY <1>1, <2>1, <2>2, <2>3, <2>4 DEF HandsInv
    <2>6. QED
      BY <1>2, <2>1, <2>5
  <1>5. ASSUME NEW x \in Executors, AppendEvent(x)
        PROVE  HandsInv' /\ TailInv' /\ ChainInv'
    BY <1>1, <1>5, WritingKeeps DEF AppendEvent, Appended
  <1>6. ASSUME NEW x \in Executors, KilledBefore(x)
        PROVE  HandsInv' /\ TailInv' /\ ChainInv'
    <2>1. /\ phase' = [phase EXCEPT ![x] = "idle"]
          /\ prevHash' = [prevHash EXCEPT ![x] = NoHash]
          /\ UNCHANGED <<ledger, tornTail, request, requests, ran, answered>>
      BY <1>6 DEF KilledBefore, Ended
    <2>2. \A y \in Executors : /\ Busy(y)' => Busy(y) /\ y # x
                               /\ y # x => phase'[y] = phase[y] /\ prevHash'[y] = prevHash[y]
                               /\ phase'[x] = "idle"
      BY <1>1, <2>1 DEF Busy, LedgerTypeOK
    <2>3. InHand' \subseteq InHand
      BY <2>1, <2>2 DEF InHand, Busy
    <2>4. HandsInv'
      BY <1>1, <2>1, <2>2, <2>3 DEF HandsInv
    <2>5. QED
      BY <1>2, <2>1, <2>4
  <1>7. ASSUME NEW x \in Executors, KilledWriting(x)
        PROVE  HandsInv' /\ TailInv' /\ ChainInv'
    <2>1. PICK line \in {Unreadable, Line(x)} :
             ledger' = IF tornTail THEN [ledger EXCEPT ![Len(ledger)] = line]
                                   ELSE Append(ledger, line)
      BY <1>7 DEF KilledWriting
    <2>2. \A y \in Executors : y # x => prevHash'[y] = prevHash[y]
      BY <1>1, <1>7 DEF KilledWriting, Ended, LedgerTypeOK
    <2>3. QED
      BY <1>1, <1>7, <2>1, <2>2, WritingKeeps DEF KilledWriting, Ended
  <1>8. CASE UNCHANGED ledgerVars
    <2>1. InHand' = InHand
      BY <1>8 DEF ledgerVars, InHand
    <2>2. HandsInv'
      BY <1>1, <1>8, <2>1 DEF ledgerVars, HandsInv, Busy
    <2>3. QED
      BY <1>2, <1>8, <2>2 DEF ledgerVars
  <1>9. QED
    BY <1>3, <1>4, <1>5, <1>6, <1>7, <1>8 DEF LedgerNext

(* Counting.                                                                *)
LEMMA NoMore ==
    ASSUME NEW S, IsFiniteSet(S), NEW T, T \subseteq S
    PROVE  IsFiniteSet(T) /\ Cardinality(T) \in Nat /\ Cardinality(S) \in Nat
           /\ Cardinality(T) <= Cardinality(S)
  BY FS_Subset, FS_CardinalityType

LEMMA OneMoreAdds ==
    ASSUME NEW S, IsFiniteSet(S), NEW T, NEW a, T \subseteq S \cup {a}
    PROVE  IsFiniteSet(T) /\ Cardinality(T) \in Nat /\ Cardinality(S) \in Nat
           /\ Cardinality(T) <= Cardinality(S) + 1
  <1>1. /\ IsFiniteSet(S \cup {a})
        /\ Cardinality(S \cup {a}) = IF a \in S THEN Cardinality(S) ELSE Cardinality(S) + 1
    BY FS_AddElement
  <1>2. IsFiniteSet(T) /\ Cardinality(T) <= Cardinality(S \cup {a})
    BY <1>1, NoMore
  <1>3. Cardinality(S) \in Nat /\ Cardinality(T) \in Nat
    BY <1>2, FS_CardinalityType
  <1>4. QED
    BY <1>1, <1>2, <1>3

LEMMA FollowersFinite ==
    ASSUME LedgerTypeOK, NEW e
    PROVE  /\ IsFiniteSet(After(e)) /\ IsFiniteSet(AboutToFollow(e))
           /\ Cardinality(After(e)) \in Nat /\ Cardinality(AboutToFollow(e)) \in Nat
           /\ Cardinality(Executors) \in Nat
           /\ Cardinality(AboutToFollow(e)) <= Cardinality(Executors)
  <1>1. IsFiniteSet(DOMAIN ledger)
    BY LedgerLength, FS_Interval
  <1>2. After(e) \subseteq DOMAIN ledger /\ AboutToFollow(e) \subseteq Executors
    BY DEF After, AboutToFollow
  <1>3. QED
    BY <1>1, <1>2, NoMore, ExecutorAssumption

LEMMA WritingForks ==
    ASSUME LedgerInv, NEW x \in Executors, phase[x] = "append",
           NEW line \in {Unreadable, Line(x)},
           ledger' = IF tornTail THEN [ledger EXCEPT ![Len(ledger)] = line]
                                 ELSE Append(ledger, line),
           phase' = [phase EXCEPT ![x] = "idle"],
           \A y \in Executors : y # x => prevHash'[y] = prevHash[y]
    PROVE  ForksInv'
  <1>1. LedgerTypeOK /\ requests \in Nat
    BY DEF LedgerInv, HandsInv, LedgerTypeOK
  <1>2. line \in Lines /\ line.prev \in {NoHash, prevHash[x]}
    BY <1>1, ExecutorAssumption DEF Line, Lines, Unreadable, LedgerTypeOK, Requests, NoHash
  <1>3. /\ DOMAIN ledger' = DOMAIN ledger \cup {Len(ledger')}
        /\ ledger'[Len(ledger')] = line
        /\ \A n \in DOMAIN ledger : n # Len(ledger') => ledger'[n] = ledger[n]
    BY <1>1, <1>2, Writing DEF LedgerInv, HandsInv
  <1>4. SUFFICES ASSUME NEW e \in Requests
                 PROVE  Cardinality(After(e)') + Cardinality(AboutToFollow(e)')
                           <= Cardinality(Executors)
    BY DEF ForksInv
  <1>5. Cardinality(After(e)) + Cardinality(AboutToFollow(e)) <= Cardinality(Executors)
    BY DEF LedgerInv, ForksInv
  <1>6. AboutToFollow(e)' = AboutToFollow(e) \ {x}
    BY <1>1 DEF AboutToFollow, LedgerTypeOK
  <1>7. CASE prevHash[x] = e
    <2>1. x \in AboutToFollow(e)
      BY <1>7 DEF AboutToFollow
    <2>2. Cardinality(AboutToFollow(e)') = Cardinality(AboutToFollow(e)) - 1
      BY <1>1, <1>6, <2>1, FollowersFinite, FS_RemoveElement
    <2>3. After(e)' \subseteq After(e) \cup {Len(ledger')}
      BY <1>3 DEF After
    <2>4. Cardinality(After(e)') \in Nat /\ Cardinality(After(e)') <= Cardinality(After(e)) + 1
      BY <1>1, <2>3, FollowersFinite, OneMoreAdds
    <2>5. QED
      BY <1>1, <1>5, <2>2, <2>4, FollowersFinite
  <1>8. CASE prevHash[x] # e
    <2>1. After(e)' \subseteq After(e)
      BY <1>2, <1>3, <1>8 DEF After, Requests, NoHash
    <2>2. Cardinality(After(e)') <= Cardinality(After(e)) /\ Cardinality(After(e)') \in Nat
      BY <1>1, <2>1, FollowersFinite, NoMore
    <2>3. /\ Cardinality(AboutToFollow(e)') <= Cardinality(AboutToFollow(e))
          /\ Cardinality(AboutToFollow(e)') \in Nat
      BY <1>1, <1>6, FollowersFinite, NoMore
    <2>4. QED
      BY <1>1, <1>5, <2>2, <2>3, FollowersFinite
  <1>9. QED
    BY <1>7, <1>8

LEMMA ForksStep ==
    ASSUME LedgerInv, LedgerTypeOK', [LedgerNext]_ledgerVars
    PROVE  ForksInv'
  <1>1. LedgerTypeOK
    BY DEF LedgerInv, HandsInv
  <1>2. ASSUME UNCHANGED ledger, \A e \in Requests : AboutToFollow(e)' \subseteq AboutToFollow(e)
        PROVE  ForksInv'
    <2>1. SUFFICES ASSUME NEW e \in Requests
                   PROVE  Cardinality(After(e)') + Cardinality(AboutToFollow(e)')
                             <= Cardinality(Executors)
      BY DEF ForksInv
    <2>2. After(e)' = After(e)
      BY <1>2 DEF After
    <2>3. Cardinality(AboutToFollow(e)') <= Cardinality(AboutToFollow(e))
          /\ Cardinality(AboutToFollow(e)') \in Nat
      BY <1>1, <1>2, FollowersFinite, NoMore
    <2>4. QED
      BY <1>1, <2>2, <2>3, FollowersFinite DEF LedgerInv, ForksInv
  <1>3. ASSUME NEW x \in Executors, Execute(x)
        PROVE  ForksInv'
    <2>1. \A e \in Requests : AboutToFollow(e)' \subseteq AboutToFollow(e)
      BY <1>1, <1>3 DEF Execute, AboutToFollow, LedgerTypeOK
    <2>2. QED
      BY <1>2, <1>3, <2>1 DEF Execute
  <1>4. ASSUME NEW x \in Executors, ReadLastHash(x)
        PROVE  ForksInv'
    <2>1. SUFFICES ASSUME NEW e \in Requests
                   PROVE  Cardinality(After(e)') + Cardinality(AboutToFollow(e)')
                             <= Cardinality(Executors)
      BY DEF ForksInv
    <2>2. After(e)' = After(e)
      BY <1>4 DEF ReadLastHash, After
    <2>3. CASE e = LastHash
      <3>1. ledger # <<>> /\ ledger[Len(ledger)].event = e
        BY <2>3 DEF LastHash, Requests, NoHash
      <3>2. \A n \in DOMAIN ledger : n <= Len(ledger)
        BY <1>1, LedgerLength
      <3>3. After(e) = {}
        <4>1. SUFFICES ASSUME NEW n \in After(e)
                       PROVE  FALSE
          OBVIOUS
        <4>2. n \in DOMAIN ledger
          BY DEF After
        <4>3. QED
          BY <1>1, <3>1, <3>2, <4>2, LedgerLength DEF LedgerInv, ChainInv
      <3>4. Cardinality(After(e)) = 0
        BY <3>3, FS_EmptySet
      <3>5. AboutToFollow(e)' \subseteq Executors
        BY DEF AboutToFollow
      <3>6. /\ Cardinality(AboutToFollow(e)') \in Nat /\ Cardinality(Executors) \in Nat
            /\ Cardinality(AboutToFollow(e)') <= Cardinality(Executors)
        BY <3>5, NoMore, ExecutorAssumption
      <3>7. QED
        BY <2>2, <3>4, <3>6
    <2>4. CASE e # LastHash
      <3>1. AboutToFollow(e)' \subseteq AboutToFollow(e)
        BY <1>1, <1>4, <2>4 DEF ReadLastHash, AboutToFollow, LedgerTypeOK
      <3>2. Cardinality(AboutToFollow(e)') <= Cardinality(AboutToFollow(e))
            /\ Cardinality(AboutToFollow(e)') \in Nat
        BY <1>1, <3>1, FollowersFinite, NoMore
      <3>3. QED
        BY <1>1, <2>2, <3>2, FollowersFinite DEF LedgerInv, ForksInv
    <2>5. QED
      BY <2>3, <2>4
  <1>5. ASSUME NEW x \in Executors, AppendEvent(x)
        PROVE  ForksInv'
    BY <1>5, WritingForks DEF AppendEvent, Appended
  <1>6. ASSUME NEW x \in Executors, KilledBefore(x)
        PROVE  ForksInv'
    <2>1. \A e \in Requests : AboutToFollow(e)' \subseteq AboutToFollow(e)
      BY <1>1, <1>6 DEF KilledBefore, Ended, AboutToFollow, LedgerTypeOK
    <2>2. QED
      BY <1>2, <1>6, <2>1 DEF KilledBefore
  <1>7. ASSUME NEW x \in Executors, KilledWriting(x)
        PROVE  ForksInv'
    <2>1. PICK line \in {Unreadable, Line(x)} :
             ledger' = IF tornTail THEN [ledger EXCEPT ![Len(ledger)] = line]
                                   ELSE Append(ledger, line)
      BY <1>7 DEF KilledWriting
    <2>2. \A y \in Executors : y # x => prevHash'[y] = prevHash[y]
      BY <1>1, <1>7 DEF KilledWriting, Ended, LedgerTypeOK
    <2>3. QED
      BY <1>7, <2>1, <2>2, WritingForks DEF KilledWriting, Ended
  <1>8. CASE UNCHANGED ledgerVars
    <2>1. \A e \in Requests : AboutToFollow(e)' \subseteq AboutToFollow(e)
      BY <1>8 DEF ledgerVars, AboutToFollow
    <2>2. QED
      BY <1>2, <1>8, <2>1 DEF ledgerVars
  <1>9. QED
    BY <1>3, <1>4, <1>5, <1>6, <1>7, <1>8 DEF LedgerNext

\* What is missing from the ledger, and what a further append would destroy:
\* the line that has no end, and the event on it if it can still be read.
Missing == (ran \cup answered) \ (Recorded \cup InHand)
Unheard == answered \ Recorded
AtStake ==
    IF tornTail THEN IF ledger[Len(ledger)].event # NoHash THEN 2 ELSE 1 ELSE 0

AccountInv ==
    /\ Cardinality(Missing) + AtStake <= killed + tears
    /\ Cardinality(Unheard) + (IF tornTail THEN 1 ELSE 0) <= tears

LEMMA MissingFinite ==
    ASSUME HandsInv
    PROVE  /\ IsFiniteSet(Missing) /\ Cardinality(Missing) \in Nat
           /\ IsFiniteSet(Unheard) /\ Cardinality(Unheard) \in Nat
           /\ killed \in Nat /\ tears \in Nat
  <1>1. requests \in Nat /\ killed \in Nat /\ tears \in Nat
    BY ExecutorAssumption DEF HandsInv, LedgerTypeOK
  <1>2. IsFiniteSet(1..requests)
    BY <1>1, FS_Interval
  <1>3. Missing \subseteq 1..requests /\ Unheard \subseteq 1..requests
    BY DEF HandsInv, Missing, Unheard
  <1>4. QED
    BY <1>1, <1>2, <1>3, NoMore

(* What a line that is written adds to the events and what it destroys.     *)
LEMMA RecordedAfter ==
    ASSUME HandsInv, NEW line \in Lines,
           ledger' = IF tornTail THEN [ledger EXCEPT ![Len(ledger)] = line]
                                 ELSE Append(ledger, line)
    PROVE  /\ ~tornTail => Recorded \subseteq Recorded'
           /\ tornTail => Recorded \subseteq Recorded' \cup {ledger[Len(ledger)].event}
           /\ line.event # NoHash => line.event \in Recorded'
           /\ ledger'[Len(ledger')] = line
           /\ ledger' # <<>>
  <1>1. /\ DOMAIN ledger' = DOMAIN ledger \cup {Len(ledger')}
        /\ ledger'[Len(ledger')] = line
        /\ \A n \in DOMAIN ledger : n # Len(ledger') => ledger'[n] = ledger[n]
        /\ Len(ledger') = IF tornTail THEN Len(ledger) ELSE Len(ledger) + 1
        /\ ledger' # <<>>
    BY Writing DEF HandsInv
  <1>2. /\ Len(ledger) \in Nat /\ DOMAIN ledger = 1..Len(ledger)
    BY LedgerLength DEF HandsInv
  <1>3. ~tornTail => Len(ledger') \notin DOMAIN ledger
    BY <1>1, <1>2
  <1>4. QED
    BY <1>1, <1>3 DEF Recorded

LEMMA AccountStep ==
    ASSUME LedgerInv, AccountInv, HandsInv', [LedgerNext]_ledgerVars
    PROVE  AccountInv'
  <1>1. HandsInv /\ LedgerTypeOK
    BY DEF LedgerInv, HandsInv
  <1>2. /\ Cardinality(Missing) \in Nat /\ Cardinality(Unheard) \in Nat
        /\ Cardinality(Missing') \in Nat /\ Cardinality(Unheard') \in Nat
        /\ killed \in Nat /\ tears \in Nat
        /\ IsFiniteSet(Missing) /\ IsFiniteSet(Unheard) /\ IsFiniteSet(Missing')
    <2>1. IsFiniteSet(Missing') /\ Cardinality(Missing') \in Nat /\ Cardinality(Unheard') \in Nat
      <3>1. requests' \in Nat
        BY ExecutorAssumption DEF HandsInv, LedgerTypeOK
      <3>2. IsFiniteSet(1..requests')
        BY <3>1, FS_Interval
      <3>3. Missing' \subseteq 1..requests' /\ Unheard' \subseteq 1..requests'
        BY DEF HandsInv, Missing, Unheard
      <3>4. QED
        BY <3>2, <3>3, NoMore
    <2>2. QED
      BY <1>1, <2>1, MissingFinite
  <1>3. ASSUME Missing' \subseteq Missing, Unheard' \subseteq Unheard, UNCHANGED <<ledger, tornTail>>,
               killed' \in Nat, killed' >= killed, tears' = tears
        PROVE  AccountInv'
    <2>1. Cardinality(Missing') <= Cardinality(Missing)
          /\ Cardinality(Unheard') <= Cardinality(Unheard)
      BY <1>2, <1>3, NoMore
    <2>2. AtStake' = AtStake
      BY <1>3 DEF AtStake
    <2>3. AtStake \in {0, 1, 2}
      BY DEF AtStake
    <2>4. QED
      BY <1>2, <1>3, <2>1, <2>2, <2>3 DEF AccountInv
  <1>4. \A x \in Executors : phase[x] # "idle" => request[x] \in InHand
    BY DEF InHand
  <1>5. ASSUME NEW x \in Executors, Execute(x)
        PROVE  AccountInv'
    <2>1. InHand \cup {requests + 1} \subseteq InHand'
      BY <1>1, <1>5 DEF Execute, InHand, LedgerTypeOK
    <2>2. Recorded' = Recorded
      BY <1>5 DEF Execute, Recorded
    <2>3. Missing' \subseteq Missing /\ Unheard' \subseteq Unheard
      BY <1>5, <2>1, <2>2 DEF Execute, Missing, Unheard
    <2>4. QED
      BY <1>2, <1>3, <1>5, <2>3 DEF Execute
  <1>6. ASSUME NEW x \in Executors, ReadLastHash(x)
        PROVE  AccountInv'
    <2>1. InHand' = InHand
      BY <1>1, <1>6 DEF ReadLastHash, InHand, LedgerTypeOK
    <2>2. Recorded' = Recorded
      BY <1>6 DEF ReadLastHash, Recorded
    <2>3. Missing' \subseteq Missing /\ Unheard' \subseteq Unheard
      BY <1>6, <2>1, <2>2 DEF ReadLastHash, Missing, Unheard
    <2>4. QED
      BY <1>2, <1>3, <1>6, <2>3 DEF ReadLastHash
  <1>7. ASSUME NEW x \in Executors, phase[x] # "idle", phase' = [phase EXCEPT ![x] = "idle"],
               UNCHANGED request
        PROVE  InHand \subseteq InHand' \cup {request[x]}
    BY <1>1, <1>7 DEF InHand, LedgerTypeOK
  <1>8. ASSUME NEW x \in Executors, AppendEvent(x)
        PROVE  AccountInv'
    <2>1. /\ phase[x] = "append" /\ phase' = [phase EXCEPT ![x] = "idle"]
          /\ ledger' = IF tornTail THEN [ledger EXCEPT ![Len(ledger)] = Line(x)]
                                   ELSE Append(ledger, Line(x))
          /\ tornTail' = FALSE /\ answered' = answered \cup {request[x]}
          /\ UNCHANGED <<request, ran, killed, tears>>
      BY <1>8 DEF AppendEvent, Appended
    <2>2. Line(x) \in Lines
      BY <1>1, ExecutorAssumption DEF Line, Lines, LedgerTypeOK, Requests, NoHash
    <2>3. InHand \subseteq InHand' \cup {request[x]}
      BY <1>7, <2>1
    <2>4. request[x] \in 1..requests
      BY <1>1, <2>1 DEF HandsInv, Busy
    <2>5. AtStake' = 0
      BY <2>1 DEF AtStake
    <2>6. CASE ~tornTail
      <3>1. Recorded \cup {request[x]} \subseteq Recorded'
        <4>1. Line(x).event = request[x] /\ request[x] # NoHash
          BY <1>1, <2>4, <2>6 DEF Line, NoHash, HandsInv, LedgerTypeOK
        <4>2. QED
          BY <1>1, <2>1, <2>2, <2>6, <4>1, RecordedAfter
      <3>2. Missing' \subseteq Missing /\ Unheard' \subseteq Unheard
        BY <2>1, <2>3, <3>1 DEF Missing, Unheard
      <3>3. Cardinality(Missing') <= Cardinality(Missing)
            /\ Cardinality(Unheard') <= Cardinality(Unheard)
        BY <1>2, <3>2, NoMore
      <3>4. AtStake = 0
        BY <2>6 DEF AtStake
      <3>5. QED
        BY <1>2, <2>1, <2>5, <2>6, <3>3, <3>4 DEF AccountInv
    <2>7. CASE tornTail
      <3> DEFINE v == ledger[Len(ledger)].event
      <3>1. Recorded \subseteq Recorded' \cup {v}
        BY <1>1, <2>1, <2>2, <2>7, RecordedAfter
      <3>2. v \notin answered
        BY <2>7 DEF LedgerInv, TailInv
      <3>3. Unheard' \subseteq Unheard \cup {request[x]}
        BY <2>1, <3>1, <3>2 DEF Unheard
      <3>4. Cardinality(Unheard') <= Cardinality(Unheard) + 1
        BY <1>2, <3>3, OneMoreAdds
      <3>5. CASE v = NoHash
        <4>1. Recorded \subseteq Recorded'
          BY <3>1, <3>5 DEF Recorded
        <4>2. Missing' \subseteq Missing \cup {request[x]}
          BY <2>1, <2>3, <4>1 DEF Missing
        <4>3. Cardinality(Missing') <= Cardinality(Missing) + 1 /\ AtStake = 1
          BY <1>2, <2>7, <3>5, <4>2, OneMoreAdds DEF AtStake
        <4>4. QED
          BY <1>2, <2>1, <2>5, <2>7, <3>4, <4>3 DEF AccountInv
      <3>6. CASE v # NoHash
        <4>1. Missing' \subseteq (Missing \cup {request[x]}) \cup {v}
          BY <2>1, <2>3, <3>1 DEF Missing
        <4>2. /\ IsFiniteSet(Missing \cup {request[x]})
              /\ Cardinality(Missing \cup {request[x]}) <= Cardinality(Missing) + 1
              /\ Cardinality(Missing \cup {request[x]}) \in Nat
          BY <1>2, OneMoreAdds
        <4>3. Cardinality(Missing') <= Cardinality(Missing \cup {request[x]}) + 1
          BY <4>1, <4>2, OneMoreAdds
        <4>4. AtStake = 2
          BY <2>7, <3>6 DEF AtStake
        <4>5. Cardinality(Missing') + AtStake' <= killed' + tears'
          <5>1. Cardinality(Missing) + 2 <= killed + tears
            BY <4>4 DEF AccountInv
          <5>2. Cardinality(Missing') <= Cardinality(Missing) + 2
            BY <1>2, <4>2, <4>3
          <5>3. QED
            BY <1>2, <2>1, <2>5, <5>1, <5>2
        <4>6. Cardinality(Unheard') <= tears'
          BY <1>2, <2>1, <2>7, <3>4 DEF AccountInv
        <4>7. QED
          BY <1>2, <2>1, <4>5, <4>6 DEF AccountInv
      <3>7. QED
        BY <3>5, <3>6
    <2>8. QED
      BY <1>1, <2>6, <2>7 DEF LedgerTypeOK
  <1>9. ASSUME NEW x \in Executors, KilledBefore(x)
        PROVE  AccountInv'
    <2>1. /\ phase[x] # "idle" /\ phase' = [phase EXCEPT ![x] = "idle"]
          /\ killed' = killed + 1
          /\ UNCHANGED <<ledger, tornTail, request, ran, answered, tears>>
      BY <1>9 DEF KilledBefore, Ended
    <2>2. Recorded' = Recorded /\ AtStake' = AtStake
      BY <2>1 DEF Recorded, AtStake
    <2>3. Missing' \subseteq Missing \cup {request[x]} /\ Unheard' = Unheard
      BY <1>7, <2>1, <2>2 DEF Missing, Unheard
    <2>4. Cardinality(Missing') <= Cardinality(Missing) + 1
      BY <1>2, <2>3, OneMoreAdds
    <2>5. AtStake \in {0, 1, 2}
      BY DEF AtStake
    <2>6. QED
      BY <1>2, <2>1, <2>2, <2>3, <2>4, <2>5 DEF AccountInv
  <1>10. ASSUME NEW x \in Executors, KilledWriting(x)
        PROVE  AccountInv'
    <2>1. /\ phase[x] = "append" /\ phase' = [phase EXCEPT ![x] = "idle"]
          /\ killed' = killed + 1 /\ tears' = tears + 1 /\ tornTail' = TRUE
          /\ UNCHANGED <<request, ran, answered>>
      BY <1>10 DEF KilledWriting, Ended
    <2>2. PICK line \in {Unreadable, Line(x)} :
             /\ ledger' = IF tornTail THEN [ledger EXCEPT ![Len(ledger)] = line]
                                      ELSE Append(ledger, line)
             /\ tornTail => line = Unreadable
      BY <1>10 DEF KilledWriting
    <2>3. line \in Lines /\ Unreadable.event = NoHash /\ (~tornTail => Line(x).event = request[x])
      BY <1>1, <2>2, ExecutorAssumption DEF Line, Lines, Unreadable, LedgerTypeOK, Requests, NoHash
    <2>4. InHand \subseteq InHand' \cup {request[x]}
      BY <1>7, <2>1
    <2>5. ledger'[Len(ledger')] = line
      BY <1>1, <2>2, <2>3, RecordedAfter
    <2>6. AtStake' = IF line.event # NoHash THEN 2 ELSE 1
      BY <2>1, <2>5 DEF AtStake
    <2>7. CASE ~tornTail
      <3>1. Recorded \subseteq Recorded'
        BY <1>1, <2>2, <2>3, <2>7, RecordedAfter
      <3>2. Unheard' \subseteq Unheard /\ Missing' \subseteq Missing \cup {request[x]}
        BY <2>1, <2>4, <3>1 DEF Unheard, Missing
      <3>3. Cardinality(Unheard') <= Cardinality(Unheard)
            /\ Cardinality(Missing') <= Cardinality(Missing) + 1
        BY <1>2, <3>2, NoMore, OneMoreAdds
      <3>4. AtStake = 0
        BY <2>7 DEF AtStake
      <3>5. CASE line.event = NoHash
        BY <1>2, <2>1, <2>6, <2>7, <3>3, <3>4, <3>5 DEF AccountInv
      <3>6. CASE line.event # NoHash
        <4>1. request[x] \in Recorded'
          BY <1>1, <2>2, <2>3, <2>7, <3>6, RecordedAfter
        <4>2. Missing' \subseteq Missing
          BY <3>2, <4>1 DEF Missing
        <4>3. Cardinality(Missing') <= Cardinality(Missing)
          BY <1>2, <4>2, NoMore
        <4>4. QED
          BY <1>2, <2>1, <2>6, <2>7, <3>3, <3>4, <3>6, <4>3 DEF AccountInv
      <3>7. QED
        BY <3>5, <3>6
    <2>8. CASE tornTail
      <3> DEFINE v == ledger[Len(ledger)].event
      <3>1. Recorded \subseteq Recorded' \cup {v}
        BY <1>1, <2>2, <2>3, <2>8, RecordedAfter
      <3>2. v \notin answered
        BY <2>8 DEF LedgerInv, TailInv
      <3>3. Unheard' \subseteq Unheard
        BY <2>1, <3>1, <3>2 DEF Unheard
      <3>4. Cardinality(Unheard') <= Cardinality(Unheard)
        BY <1>2, <3>3, NoMore
      <3>5. AtStake' = 1
        BY <2>2, <2>3, <2>6, <2>8
      <3>6. CASE v = NoHash
        <4>1. Recorded \subseteq Recorded'
          BY <3>1, <3>6 DEF Recorded
        <4>2. Missing' \subseteq Missing \cup {request[x]}
          BY <2>1, <2>4, <4>1 DEF Missing
        <4>3. Cardinality(Missing') <= Cardinality(Missing) + 1 /\ AtStake = 1
          BY <1>2, <2>8, <3>6, <4>2, OneMoreAdds DEF AtStake
        <4>4. QED
          BY <1>2, <2>1, <2>8, <3>4, <3>5, <4>3 DEF AccountInv
      <3>7. CASE v # NoHash
        <4>1. Missing' \subseteq (Missing \cup {request[x]}) \cup {v}
          BY <2>1, <2>4, <3>1 DEF Missing
        <4>2. /\ IsFiniteSet(Missing \cup {request[x]})
              /\ Cardinality(Missing \cup {request[x]}) <= Cardinality(Missing) + 1
              /\ Cardinality(Missing \cup {request[x]}) \in Nat
          BY <1>2, OneMoreAdds
        <4>3. Cardinality(Missing') <= Cardinality(Missing \cup {request[x]}) + 1
          BY <4>1, <4>2, OneMoreAdds
        <4>4. AtStake = 2
          BY <2>8, <3>7 DEF AtStake
        <4>5. QED
          BY <1>2, <2>1, <2>8, <3>4, <3>5, <4>2, <4>3, <4>4 DEF AccountInv
      <3>8. QED
        BY <3>6, <3>7
    <2>9. QED
      BY <1>1, <2>7, <2>8 DEF LedgerTypeOK
  <1>11. CASE UNCHANGED ledgerVars
    <2>1. Recorded' = Recorded /\ InHand' = InHand
      BY <1>11 DEF ledgerVars, Recorded, InHand
    <2>2. Missing' \subseteq Missing /\ Unheard' \subseteq Unheard
      BY <1>11, <2>1 DEF ledgerVars, Missing, Unheard
    <2>3. QED
      BY <1>2, <1>3, <1>11, <2>2 DEF ledgerVars
  <1>12. QED
    BY <1>5, <1>6, <1>8, <1>9, <1>10, <1>11 DEF LedgerNext

(* For any number of executors, requests and kills: an action that was run  *)
(* and a result that was returned are missing from the ledger only as kills *)
(* and torn lines account for (executor.py execute, audit.py append_event), *)
(* and no event is followed by more events than there are processes         *)
(* (_read_last_hash).                                                       *)
THEOREM LedgerHolds == LedgerSpec => [](LedgerTypeOK /\ AuditAccounted /\ ForksBounded)
  <1>1. LedgerInit => LedgerInv /\ AccountInv
    <2> SUFFICES ASSUME LedgerInit
                 PROVE  LedgerInv /\ AccountInv
      OBVIOUS
    <2> USE ExecutorAssumption DEF Requests, NoHash
    <2>1. /\ ledger = <<>> /\ DOMAIN ledger = {} /\ tornTail = FALSE /\ requests = 0
          /\ \A x \in Executors : ~Busy(x) /\ phase[x] # "append"
      BY DEF LedgerInit, Busy
    <2>2. LedgerTypeOK
      <3>1. ledger \in Seq([event : Requests \cup {NoHash}, prev : Requests \cup {NoHash}])
        BY EmptySeq DEF LedgerInit
      <3>2. {request, prevHash} \subseteq [Executors -> Requests \cup {NoHash}]
        BY DEF LedgerInit
      <3>3. phase \in [Executors -> {"idle", "execute", "append"}]
        BY DEF LedgerInit
      <3>4. {ran, answered} \subseteq SUBSET Requests /\ {killed, tears} \subseteq Nat
        BY DEF LedgerInit
      <3>5. requests \in 0..MaxRequests
        BY DEF LedgerInit
      <3>6. QED
        BY <2>1, <3>1, <3>2, <3>3, <3>4, <3>5 DEF LedgerTypeOK
    <2>3. HandsInv
      BY <2>1, <2>2 DEF LedgerInit, HandsInv
    <2>4. TailInv /\ ChainInv
      BY <2>1 DEF TailInv, ChainInv
    <2>5. ForksInv
      <3>1. SUFFICES ASSUME NEW e \in Requests
                     PROVE  Cardinality(After(e)) + Cardinality(AboutToFollow(e))
                               <= Cardinality(Executors)
        BY DEF ForksInv
      <3>2. After(e) = {} /\ AboutToFollow(e) = {}
        BY <2>1 DEF After, AboutToFollow
      <3>3. Cardinality(Executors) \in Nat
        BY FS_CardinalityType
      <3>4. QED
        BY <3>2, <3>3, FS_EmptySet
    <2>6. AccountInv
      <3>1. Missing = {} /\ Unheard = {} /\ AtStake = 0 /\ killed = 0 /\ tears = 0
        BY <2>1 DEF LedgerInit, Missing, Unheard, AtStake
      <3>2. QED
        BY <2>1, <3>1, FS_EmptySet DEF AccountInv
    <2>7. QED
      BY <2>3, <2>4, <2>5, <2>6 DEF LedgerInv
  <1>2. LedgerInv /\ AccountInv /\ [LedgerNext]_ledgerVars => (LedgerInv /\ AccountInv)'
    <2> SUFFICES ASSUME LedgerInv, AccountInv, [LedgerNext]_ledgerVars
                 PROVE  (LedgerInv /\ AccountInv)'
      OBVIOUS
    <2>1. HandsInv' /\ TailInv' /\ ChainInv' /\ LedgerTypeOK'
      BY LedgerStep DEF LedgerInv, HandsInv
    <2>2. ForksInv'
      BY <2>1, ForksStep
    <2>3. QED
      BY <2>1, <2>2, AccountStep DEF LedgerInv
  <1>3. LedgerInv /\ AccountInv => LedgerTypeOK /\ AuditAccounted /\ ForksBounded
    <2> SUFFICES ASSUME LedgerInv, AccountInv
                 PROVE  LedgerTypeOK /\ AuditAccounted /\ ForksBounded
      OBVIOUS
    <2>1. LedgerTypeOK /\ HandsInv
      BY DEF LedgerInv, HandsInv
    <2>2. AuditAccounted
      <3>1. AtStake \in {0, 1, 2}
        BY DEF AtStake
      <3>2. /\ Cardinality(Missing) <= killed + tears
            /\ Cardinality(Unheard) <= tears
        BY <2>1, <3>1, MissingFinite DEF AccountInv
      <3>3. QED
        BY <3>2 DEF AuditAccounted, Missing, Unheard
    <2>3. ForksBounded
      <3>1. SUFFICES ASSUME NEW e \in Requests
                     PROVE  Cardinality(After(e)) <= Cardinality(Executors)
        BY DEF ForksBounded, After
      <3>2. QED
        BY <2>1, FollowersFinite DEF LedgerInv, ForksInv
    <2>4. QED
      BY <2>1, <2>2, <2>3
  <1>4. QED
    BY <1>1, <1>2, <1>3, PTL DEF LedgerSpec
=============================================================================
