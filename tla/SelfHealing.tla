---------------------------- MODULE SelfHealing ----------------------------
(***************************************************************************)
(* Cooldowns of the self-healing coordinator (ai/self_healing.py), one     *)
(* object of a process: an approved repair starts the cooldown of its      *)
(* action, which is kept in memory and, by every save, in a file that the  *)
(* next process loads.                                                     *)
(***************************************************************************)
EXTENDS Naturals

CONSTANTS Repairs,        \* RepairActions, by action_id
          HealCooldown,   \* cooldown_seconds of a repair, in ticks
          MaxHealClock    \* bound: the last tick

ASSUME HealAssumption == HealCooldown \in Nat \ {0}

VARIABLES tracker,     \* cooldown_tracker: until when; 0 where there is none
          savedTracker,
          approvedAt,  \* when the caller was last told to go ahead, plus one
          healClock

healVars == <<tracker, savedTracker, approvedAt, healClock>>

HealInit ==
    /\ tracker = [r \in Repairs |-> 0]
    /\ savedTracker = tracker
    /\ approvedAt = [r \in Repairs |-> 0]
    /\ healClock = 0

InCooldown(r) == tracker[r] > healClock

\* _in_cooldown deletes a cooldown that is over.
Looked(r) == IF InCooldown(r) THEN tracker ELSE [tracker EXCEPT ![r] = 0]

\* run_check saves the whole state, deletions included.  An OSError there, or
\* in _set_cooldown, reaches the caller instead of the result.
RunCheck ==
    /\ savedTracker' = tracker
    /\ UNCHANGED <<tracker, approvedAt, healClock>>

\* propose_action with the repair in cooldown or without the approval it needs.
Blocked(r) ==
    /\ tracker' = Looked(r)
    /\ UNCHANGED <<savedTracker, approvedAt, healClock>>

\* Mutant: the cooldown starts in memory, and waits for a save.
ApprovedUnsaved(r) ==
    /\ ~InCooldown(r)
    /\ tracker' = [tracker EXCEPT ![r] = healClock + HealCooldown]
    /\ approvedAt' = [approvedAt EXCEPT ![r] = healClock + 1]
    /\ UNCHANGED <<savedTracker, healClock>>

\* propose_action goes ahead, with the operator's approval where one is needed.
Approved(r) ==
    /\ ~InCooldown(r)
    /\ tracker' = [tracker EXCEPT ![r] = healClock + HealCooldown]
    /\ savedTracker' = tracker'
    /\ approvedAt' = [approvedAt EXCEPT ![r] = healClock + 1]
    /\ UNCHANGED healClock

\* The save of the cooldown fails: the caller gets the exception, and the
\* cooldown holds in memory.
ApprovalFails(r) ==
    /\ ~InCooldown(r)
    /\ tracker' = [tracker EXCEPT ![r] = healClock + HealCooldown]
    /\ UNCHANGED <<savedTracker, approvedAt, healClock>>

\* A new process loads what was saved.
HealerRestarts ==
    /\ tracker' = savedTracker
    /\ UNCHANGED <<savedTracker, approvedAt, healClock>>

HealTick ==
    /\ healClock < MaxHealClock
    /\ healClock' = healClock + 1
    /\ UNCHANGED <<tracker, savedTracker, approvedAt>>

HealNext ==
    \/ RunCheck \/ HealerRestarts \/ HealTick
    \/ \E r \in Repairs : Blocked(r) \/ Approved(r) \/ ApprovalFails(r)

HealSpec == HealInit /\ [][HealNext]_healVars

----------------------------------------------------------------------------
HealTypeOK ==
    /\ {tracker, savedTracker, approvedAt} \subseteq [Repairs -> Nat]
    /\ healClock \in Nat

(* No repair loop: a repair that went ahead goes ahead again only when its  *)
(* cooldown is over, whatever saves fail and however often the process is   *)
(* restarted in between.                                                    *)
CooldownHeld ==
    [][\A r \in Repairs : approvedAt[r] > 0 /\ approvedAt'[r] # approvedAt[r] =>
           approvedAt'[r] >= approvedAt[r] + HealCooldown]_healVars
=============================================================================
