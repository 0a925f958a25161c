---------------------------- MODULE TokenBudget ----------------------------
(***************************************************************************)
(* TokenBudget of ai/budget.py as the router uses it: before a call        *)
(* can_spend compares an estimate with the daily limit of the tier, after  *)
(* the call record_spend adds what it took.  Each process loads the usage  *)
(* file of the day when it starts, and keeps its own count from then on.   *)
(* One tier of priority 2 or 3, which are the ones that may be refused.    *)
(*                                                                         *)
(* Not every token is under the budget: streams neither check nor record,  *)
(* a check that raises lets the request pass, and an answer can be thrown  *)
(* away or returned before it is recorded.  Such answers are "unseen" here,*)
(* and counted, to say what the budget still bounds.                       *)
(***************************************************************************)
EXTENDS Naturals

CONSTANTS Routers,     \* processes that route (llm-proxy, MCP bridge, agents)
          Limit,       \* daily_token_limit
          MaxTokens,   \* bound: tokens of one call, estimated or used
          MaxCalls,    \* bound: requests to the budget and unseen answers
          MaxStarts,   \* bound: starts of processes
          MaxUnseen,   \* bound: answers a day that escape the budget
          MaxDay       \* bound: the last day

ASSUME BudgetAssumption == Limit \in Nat \ {0} /\ MaxTokens \in Nat /\ MaxDay \in Nat

Days == 0..MaxDay
Tokens == 1..MaxTokens
Estimates == 0..MaxTokens   \* two for each word of the prompt

VARIABLES up,         \* the processes that run
          usage,      \* usage of the tier, as each process counts it
          inFlight,   \* requests admitted by can_spend and not answered yet
          usageFile,  \* the usage file of each day; 0 where there is none
          today,
          spent,      \* tokens that answers took, per day
          calls, starts,
          peak,       \* most requests one process had in flight at once
          unseen,     \* answers that were not checked or not recorded, per day
          apart       \* no two processes ever ran at once, and the usage file
                      \* could be read at every start and written at every save

budgetVars == <<up, usage, inFlight, usageFile, today, spent, calls, starts,
                peak, unseen, apart>>

BudgetInit ==
    /\ up = {}
    /\ usage = [r \in Routers |-> 0]
    /\ inFlight = [r \in Routers |-> 0]
    /\ usageFile = [d \in Days |-> 0]
    /\ today = 0
    /\ spent = [d \in Days |-> 0]
    /\ calls = 0
    /\ starts = 0
    /\ peak = 0
    /\ unseen = [d \in Days |-> 0]
    /\ apart = TRUE

\* Mutant: a process starts from an empty count.
LoadNothing(readable) == 0

\* _load_daily_usage: a missing file counts nothing, nor does one that cannot
\* be read or parsed.
LoadDailyUsage(readable) == IF readable THEN usageFile[today] ELSE 0

\* get_budget makes the instance of the process.
RouterStarts(r) ==
    /\ r \notin up /\ starts < MaxStarts
    /\ up' = up \cup {r}
    /\ starts' = starts + 1
    /\ \E readable \in BOOLEAN :
          /\ usage' = [usage EXCEPT ![r] = LoadDailyUsage(readable)]
          /\ apart' = (apart /\ up = {} /\ readable)
    /\ UNCHANGED <<inFlight, usageFile, today, spent, calls, peak, unseen>>

\* The process ends, and what it had in flight with it.
RouterStops(r) ==
    /\ r \in up
    /\ up' = up \ {r}
    /\ inFlight' = [inFlight EXCEPT ![r] = 0]
    /\ UNCHANGED <<usage, usageFile, today, spent, calls, starts, peak,
                   unseen, apart>>

CanSpend(r, estimated) == usage[r] + estimated <= Limit

\* A request of route_query or route_chat is admitted and goes out.
Admitted(r) ==
    /\ r \in up /\ calls < MaxCalls
    /\ \E estimated \in Estimates : CanSpend(r, estimated)
    /\ inFlight' = [inFlight EXCEPT ![r] = @ + 1]
    /\ peak' = IF inFlight[r] + 1 > peak THEN inFlight[r] + 1 ELSE peak
    /\ calls' = calls + 1
    /\ UNCHANGED <<up, usage, usageFile, today, spent, starts, unseen, apart>>

\* BudgetExhaustedError: nothing is sent.
Refused(r) ==
    /\ r \in up /\ calls < MaxCalls
    /\ \E estimated \in Estimates : ~CanSpend(r, estimated)
    /\ calls' = calls + 1
    /\ UNCHANGED <<up, usage, inFlight, usageFile, today, spent, starts, peak, unseen,
                   apart>>

\* Mutant: the tokens go to the file and not to the count of the process.
RecordInFile(r, actual) ==
    /\ usageFile' = [usageFile EXCEPT ![today] = usage[r] + actual]
    /\ UNCHANGED <<usage, apart>>

\* record_spend: the process counts the tokens, and its whole count replaces
\* the file of the day, unless the write fails, which is only logged.
RecordSpend(r, actual) ==
    /\ usage' = [usage EXCEPT ![r] = @ + actual]
    /\ \/ /\ usageFile' = [usageFile EXCEPT ![today] = usage[r] + actual]
          /\ UNCHANGED apart
       \/ /\ apart' = FALSE
          /\ UNCHANGED usageFile

Took(actual) == spent' = [spent EXCEPT ![today] = @ + actual]

\* One more answer of today that the budget does not see.
Escaped ==
    /\ calls < MaxCalls /\ unseen[today] < MaxUnseen
    /\ calls' = calls + 1
    /\ unseen' = [unseen EXCEPT ![today] = @ + 1]

\* A request that was admitted is answered and recorded.
Answered(r) ==
    /\ inFlight[r] > 0
    /\ \E actual \in Tokens : Took(actual) /\ RecordSpend(r, actual)
    /\ inFlight' = [inFlight EXCEPT ![r] = @ - 1]
    /\ UNCHANGED <<up, today, calls, starts, peak, unseen>>

\* An answer that is not recorded: an exception before record_spend sends the
\* request to the next provider; one of get_budget, or a thread that overwrites
\* the count of another, loses the tokens of an answer that is returned.
AnsweredUnrecorded(r) ==
    /\ inFlight[r] > 0
    /\ Escaped
    /\ \E actual \in Tokens : Took(actual)
    /\ inFlight' \in {inFlight, [inFlight EXCEPT ![r] = @ - 1]}
    /\ UNCHANGED <<up, usage, usageFile, today, starts, peak, apart>>

\* The answer to a request that no check admitted: of a stream, which is never
\* recorded, or of one whose check raised, which is recorded if it can be.
AnsweredUnchecked(r) ==
    /\ r \in up
    /\ Escaped
    /\ \E actual \in Tokens :
          /\ Took(actual)
          /\ \/ RecordSpend(r, actual)
             \/ UNCHANGED <<usage, usageFile, apart>>
    /\ UNCHANGED <<up, inFlight, today, starts, peak>>

\* No provider answers: nothing is recorded.
Unanswered(r) ==
    /\ inFlight[r] > 0
    /\ inFlight' = [inFlight EXCEPT ![r] = @ - 1]
    /\ UNCHANGED <<up, usage, usageFile, today, spent, calls, starts, peak, unseen,
                   apart>>

\* Midnight: the name of the file changes, and nothing else.
NextDay ==
    /\ today < MaxDay
    /\ today' = today + 1
    /\ UNCHANGED <<up, usage, inFlight, usageFile, spent, calls, starts, peak, unseen,
                   apart>>

BudgetNext ==
    \/ \E r \in Routers : \/ RouterStarts(r) \/ RouterStops(r) \/ Admitted(r)
                          \/ Refused(r) \/ Answered(r) \/ AnsweredUnrecorded(r)
                          \/ AnsweredUnchecked(r) \/ Unanswered(r)
    \/ NextDay

BudgetSpec == BudgetInit /\ [][BudgetNext]_budgetVars

----------------------------------------------------------------------------
BudgetTypeOK ==
    /\ up \subseteq Routers
    /\ usage \in [Routers -> Nat]
    /\ inFlight \in [Routers -> Nat]
    /\ usageFile \in [Days -> Nat]
    /\ today \in Days
    /\ spent \in [Days -> Nat]
    /\ {calls, starts, peak} \subseteq Nat
    /\ unseen \in [Days -> Nat]
    /\ apart \in BOOLEAN

(* The budget bounds what it sees: as long as one process runs at a time,   *)
(* through any number of restarts and midnights, a day's answers take no    *)
(* more than the limit and one call's tokens for each request that was in   *)
(* flight at once when the limit was reached, and for each answer of the    *)
(* day that escaped the budget.                                             *)
DayWithinLimit ==
    apart => \A d \in Days : spent[d] <= Limit + (peak + unseen[d]) * MaxTokens

(* With processes that overwrite each other's file the limit holds once for *)
(* each start of a process, and not once for each request that was checked  *)
(* and recorded; what escapes the budget comes on top.                      *)
LimitPerStart ==
    \A d \in Days :
        spent[d] <= starts * (Limit + peak * MaxTokens) + unseen[d] * MaxTokens

(* "Daily token budget exhausted ... Try again after": a request is refused *)
(* only on a day whose answers used up the limit.                           *)
RefusedWhenSpent ==
    [][\A r \in Routers : Refused(r) => spent[today] + MaxTokens > Limit]_budgetVars
=============================================================================
