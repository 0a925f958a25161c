---------------------------- MODULE PinLockout ----------------------------
(***************************************************************************)
(* PINManager of ai/settings_service.py: the PIN that unlocks settings and *)
(* secrets, its count of failed attempts and the lockout they lead to, all *)
(* rows of one SQLite table, each written by a transaction of its own.     *)
(* The MCP bridge answers one request at a time and may be killed between  *)
(* any two writes.                                                         *)
(***************************************************************************)
EXTENDS Naturals

CONSTANTS MaxAttempts,      \* MAX_PIN_ATTEMPTS
          LockoutDuration,  \* PIN_LOCKOUT_DURATION, in ticks
          TicksPerSecond,   \* the clock is finer than the stored lockout
          MaxClock,         \* bound: the last tick
          MaxKills          \* bound: calls cut short by a kill or a failing write

ASSUME PinAssumption == /\ {MaxAttempts, TicksPerSecond} \subseteq Nat \ {0}
                        /\ LockoutDuration \in Nat

VARIABLES pin,          \* "unset", "half" (a hash without its salt) or "set"
          attempts,     \* PIN_ATTEMPTS_KEY
          lockedUntil,  \* PIN_LOCKED_UNTIL_KEY
          now,
          wrong,        \* wrong PINs compared since the last right one
          lastWrong,    \* the tick of the last of them
          early,        \* wrong PINs compared when they should have been locked out
          kills

pinVars == <<pin, attempts, lockedUntil, now, wrong, lastWrong, early, kills>>

PinInit ==
    /\ pin = "unset"
    /\ attempts = 0
    /\ lockedUntil = 0
    /\ now = 0
    /\ wrong = 0
    /\ lastWrong = 0
    /\ early = 0
    /\ kills = 0

Kill == kills < MaxKills /\ kills' = kills + 1

\* setup_pin: is_pin_set looks at the hash alone.
SetupPin ==
    /\ pin = "unset"
    /\ pin' = "set"
    /\ attempts' = 0
    /\ lockedUntil' = 0
    /\ UNCHANGED <<now, wrong, lastWrong, early, kills>>

\* Killed between the hash and the salt: no PIN verifies from then on, and
\* setup_pin refuses to set another.
SetupKilled ==
    /\ pin = "unset"
    /\ Kill
    /\ pin' = "half"
    /\ UNCHANGED <<attempts, lockedUntil, now, wrong, lastWrong, early>>

\* int(time.time() + PIN_LOCKOUT_DURATION) is in whole seconds.
WholeSeconds(t) == t - (t % TicksPerSecond)

IsLocked == lockedUntil > now

\* A PIN is compared, which get_lockout_status and verify_pin refuse while
\* locked and verify_pin does not do without a salt.
Compared == pin = "set" /\ ~IsLocked

RightPin ==
    /\ Compared
    /\ attempts' = 0
    /\ wrong' = 0
    /\ UNCHANGED <<pin, lockedUntil, now, lastWrong, early, kills>>

\* The wait that MaxAttempts wrong PINs in a row are to enforce is not over.
MustWait == wrong >= MaxAttempts /\ now + TicksPerSecond <= lastWrong + LockoutDuration

WrongCompared ==
    /\ Compared
    /\ wrong' = IF wrong < MaxAttempts THEN wrong + 1 ELSE wrong
    /\ lastWrong' = now
    /\ early' = early + (IF MustWait THEN 1 ELSE 0)

\* Beyond the limit the count tells nothing apart.
OneMore == IF attempts <= MaxAttempts THEN attempts + 1 ELSE attempts

\* Mutant: one attempt more than the limit.
OneTooMany == attempts' > MaxAttempts

LimitReached == attempts' >= MaxAttempts

\* verify_pin: attempts, and the lockout when the limit is reached.  Attempts
\* stay at the limit after a lockout, and the next wrong PIN locks again.
WrongPin ==
    /\ WrongCompared
    /\ attempts' = OneMore
    /\ lockedUntil' = IF LimitReached THEN WholeSeconds(now + LockoutDuration)
                      ELSE lockedUntil
    /\ UNCHANGED <<pin, now, kills>>

\* Cut short before the attempt is written, or between it and the lockout: by a
\* kill or by a write that fails and raises.
WrongPinKilled ==
    /\ WrongCompared
    /\ Kill
    /\ attempts' \in {attempts, OneMore}
    /\ UNCHANGED <<pin, lockedUntil, now>>

PinTick ==
    /\ now < MaxClock
    /\ now' = now + 1
    /\ UNCHANGED <<pin, attempts, lockedUntil, wrong, lastWrong, early, kills>>

PinNext == SetupPin \/ SetupKilled \/ RightPin \/ WrongPin \/ WrongPinKilled \/ PinTick

PinSpec == PinInit /\ [][PinNext]_pinVars

----------------------------------------------------------------------------
PinTypeOK ==
    /\ pin \in {"unset", "half", "set"}
    /\ attempts \in 0..(MaxAttempts + 1)
    /\ {lockedUntil, now, lastWrong, early, kills} \subseteq Nat
    /\ wrong \in 0..MaxAttempts

(* The lockout holds over restarts: after MAX_PIN_ATTEMPTS wrong PINs in a  *)
(* row no PIN is compared for the duration of the lockout, up to the second *)
(* it is rounded down to, but for one each time the bridge was killed, or a *)
(* write failed, between the comparison and the writes that follow it.      *)
EarlyTriesAccounted == early <= kills
=============================================================================
