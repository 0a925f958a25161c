---------------------------- MODULE RateLimiter ----------------------------
(***************************************************************************)
(* The rate limiter that every outbound call of the AI layer passes        *)
(* (ai/rate_limiter.py): request threads of several processes check a      *)
(* shared JSON file, make their call, and record it, either straight in    *)
(* the file (use_memory=False) or in their process's cache, which a daemon *)
(* thread of the process adds to the file every minute.                    *)
(*                                                                         *)
(* The file is replaced by rename, so a reader sees a whole version of it; *)
(* writers hold an flock from their read to their rename, so each of their *)
(* updates is one step.  Nothing is held from a check to its record.       *)
(***************************************************************************)
EXTENDS Integers, FiniteSets

CONSTANTS
  Processes,    \* processes sharing the state file
  Threads,      \* request threads
  ProcessOf,    \* the process of each thread
  Providers,
  Rolling,      \* the windows with a length: minute and hour
  Length,       \* their lengths
  DayLength,
  Limit,        \* <<provider, window>> -> limit, for the limits that are defined
  NoCall,       \* a thread between two calls
  MaxTime,      \* bound on the clock
  MaxCalls,     \* bound on the calls recorded for a provider in a day
  MayFail       \* files may be unwritable and processes may be killed

Windows == Rolling \union {"day"}

ASSUME WindowAssumption ==
  /\ Rolling \subseteq {"minute", "hour"}
  /\ Length \in [Rolling -> Nat]
  /\ DayLength \in Nat \ {0}

ASSUME LimitAssumption ==
  /\ DOMAIN Limit \subseteq Providers \X Windows
  /\ \A pw \in DOMAIN Limit : Limit[pw] \in Nat

ASSUME ThreadAssumption ==
  /\ IsFiniteSet(Threads)
  /\ Threads # {}
  /\ ProcessOf \in [Threads -> Processes]
  /\ NoCall \notin Providers

ASSUME BoundAssumption ==
  /\ MaxTime \in Nat
  /\ MaxCalls \in Nat
  /\ MayFail \in BOOLEAN

VARIABLES
  now,         \* seconds, in units of the instance
  useMemory,   \* the constructor argument of each process's limiters
  file,        \* the state file
  cache,       \* _memory_cache of each process
  flushing,    \* cache_copy of each process's flush, blank when none is under way
  calling,     \* the provider a thread has been allowed and not yet recorded
  made,        \* history: calls recorded today
  failed       \* history: some write failed or some process was killed

vars == <<now, useMemory, file, cache, flushing, calling, made, failed>>

(* An entry has a counter and a start per window; for the day the start is *)
(* day_date.  A missing key is Unset, a missing entry is blank.            *)
Unset == -1
Window == [count : Nat, start : Nat \union {Unset}]
Entry == [Windows -> Window]
BlankEntry == [w \in Windows |-> [count |-> 0, start |-> Unset]]
Blank == [p \in Providers |-> BlankEntry]

TypeOK ==
  /\ now \in Nat
  /\ useMemory \in [Processes -> BOOLEAN]
  /\ file \in [Providers -> Entry]
  /\ cache \in [Processes -> [Providers -> Entry]]
  /\ flushing \in [Processes -> [Providers -> Entry]]
  /\ calling \in [Threads -> Providers \union {NoCall}]
  /\ made \in [Providers -> Nat]
  /\ failed \in BOOLEAN

Init ==
  /\ now = 0
  /\ useMemory \in [Processes -> BOOLEAN]
  /\ file = Blank
  /\ cache = [q \in Processes |-> Blank]
  /\ flushing = [q \in Processes |-> Blank]
  /\ calling = [t \in Threads |-> NoCall]
  /\ made = [p \in Providers |-> 0]
  /\ failed = FALSE
-----------------------------------------------------------------------------
Date(time) == time \div DayLength

(* The start a window gets when it is opened.                              *)
Opening(w, time) == IF w = "day" THEN Date(time) ELSE time

(* Mutant: the day is compared with the time instead of the date.          *)
ExpiredAtOnce(window, w, time) ==
  \/ window.start = Unset
  \/ w = "day" /\ window.start # time
  \/ w # "day" /\ time - window.start > Length[w]

(* A window is over after more than its length, the day when the date has  *)
(* changed.  A start that cannot be read counts as the epoch.              *)
Expired(window, w, time) ==
  \/ window.start = Unset
  \/ w = "day" /\ window.start # Date(time)
  \/ w # "day" /\ time - window.start > Length[w]

(* _get_provider_state: what a reader of the file makes of an entry.       *)
Renewed(entry, time) ==
  [w \in Windows |->
     IF Expired(entry[w], w, time) THEN [count |-> 0, start |-> Opening(w, time)]
                                   ELSE entry[w]]

(* The same in _record_call_memory, where a missing start of a minute or   *)
(* an hour counts as now and is not filled in.                             *)
RenewedInMemory(entry, time) ==
  [w \in Windows |->
     IF Expired(entry[w], w, time) /\ (w = "day" \/ entry[w].start # Unset)
       THEN [count |-> 0, start |-> Opening(w, time)] ELSE entry[w]]

Counted(entry) == [w \in Windows |-> [entry[w] EXCEPT !.count = @ + 1]]

(* Mutants: every number is added, starts included; cached counts replace  *)
(* those of the file.                                                      *)
MergeNumbers(entry, more) ==
  [w \in Windows |-> [count |-> entry[w].count + more[w].count,
                      start |-> entry[w].start + more[w].start]]
MergeReplacing(entry, more) == more

(* The sums of _flush_memory_cache: counters are added, starts stay.       *)
Merge(entry, more) == [w \in Windows |-> [entry[w] EXCEPT !.count = @ + more[w].count]]
MergeAll(entries, more) == [p \in Providers |-> Merge(entries[p], more[p])]

(* Mutant: the call that reaches the limit is not the last.                *)
ExhaustedBeyond(p, time) ==
  {w \in Windows : /\ <<p, w>> \in DOMAIN Limit
                   /\ Renewed(file[p], time)[w].count > Limit[<<p, w>>]}

(* The limits a provider has used up, and can_call.                        *)
Exhausted(p, time) ==
  {w \in Windows : /\ <<p, w>> \in DOMAIN Limit
                   /\ Renewed(file[p], time)[w].count >= Limit[<<p, w>>]}

CanCall(p, time) == Exhausted(p, time) = {}

(* Mutant: the wait is a whole window, whatever has elapsed of it.         *)
WaitWholeWindow(p) ==
  LET over == Exhausted(p, now)
  IN CASE "day" \in over -> DayLength
       [] over = {}      -> 0
       [] OTHER          -> CHOOSE n \in {Length[w] : w \in over} :
                              \A w \in over : Length[w] <= n

(* wait_time: the day first, then the hour, then the minute; with several  *)
(* of them exhausted it is the wait for the first.  The instance's Rolling *)
(* windows are ordered by their lengths.                                   *)
WaitTime(p) ==
  LET over == Exhausted(p, now)
      longest == CHOOSE w \in over : \A v \in over : Length[v] <= Length[w]
      left == Length[longest] - (now - Renewed(file[p], now)[longest].start)
  IN CASE "day" \in over -> (Date(now) + 1) * DayLength - now
       [] over = {}      -> 0
       [] OTHER          -> IF left > 0 THEN left ELSE 0
-----------------------------------------------------------------------------
(* can_call says yes and the call goes out.  MaxCalls is the bound.        *)
Check(t) ==
  /\ calling[t] = NoCall
  /\ \E p \in Providers :
       /\ made[p] < MaxCalls
       /\ CanCall(p, now)
       /\ calling' = [calling EXCEPT ![t] = p]
  /\ UNCHANGED <<now, useMemory, file, cache, flushing, made, failed>>

(* The call raises: callers record only calls that were answered.          *)
CallFails(t) ==
  /\ calling[t] # NoCall
  /\ calling' = [calling EXCEPT ![t] = NoCall]
  /\ UNCHANGED <<now, useMemory, file, cache, flushing, made, failed>>

Recorded(t) ==
  /\ calling[t] # NoCall
  /\ calling' = [calling EXCEPT ![t] = NoCall]
  /\ made' = [made EXCEPT ![calling[t]] = @ + 1]

(* _record_call_memory, under _cache_lock.                                 *)
RecordMemory(t) ==
  LET q == ProcessOf[t]
      p == calling[t]
      entry == IF cache[q][p] = BlankEntry
                 THEN [w \in Windows |-> [count |-> 0, start |-> Opening(w, now)]]
                 ELSE RenewedInMemory(cache[q][p], now)
  IN /\ useMemory[q]
     /\ Recorded(t)
     /\ cache' = [cache EXCEPT ![q][p] = Counted(entry)]
     /\ UNCHANGED <<now, useMemory, file, flushing, failed>>

(* _record_call_disk, under the flock.                                     *)
RecordDisk(t) ==
  LET p == calling[t]
  IN /\ ~useMemory[ProcessOf[t]]
     /\ Recorded(t)
     /\ file' = [file EXCEPT ![p] = Counted(Renewed(@, now))]
     /\ UNCHANGED <<now, useMemory, cache, flushing, failed>>

(* The lock or the state file cannot be written: a log line.               *)
RecordDiskFails(t) ==
  /\ MayFail
  /\ ~useMemory[ProcessOf[t]]
  /\ Recorded(t)
  /\ failed' = TRUE
  /\ UNCHANGED <<now, useMemory, file, cache, flushing>>
-----------------------------------------------------------------------------
(* _flush_memory_cache takes the cache under _cache_lock ...               *)
FlushTake(q) ==
  /\ cache[q] # Blank
  /\ flushing[q] = Blank
  /\ flushing' = [flushing EXCEPT ![q] = cache[q]]
  /\ cache' = [cache EXCEPT ![q] = Blank]
  /\ UNCHANGED <<now, useMemory, file, calling, made, failed>>

(* ... and adds it to the file under the flock.                            *)
FlushWrite(q) ==
  /\ flushing[q] # Blank
  /\ file' = MergeAll(file, flushing[q])
  /\ flushing' = [flushing EXCEPT ![q] = Blank]
  /\ UNCHANGED <<now, useMemory, cache, calling, made, failed>>

(* The directory, the lock or the state file cannot be opened: the counts  *)
(* go back to the cache.                                                   *)
FlushMergesBack(q) ==
  /\ MayFail
  /\ flushing[q] # Blank
  /\ cache' = [cache EXCEPT ![q] = MergeAll(@, flushing[q])]
  /\ flushing' = [flushing EXCEPT ![q] = Blank]
  /\ failed' = TRUE
  /\ UNCHANGED <<now, useMemory, file, calling, made>>

(* Writing or renaming the temporary file fails: the inner handler removes *)
(* it and says nothing, so the counts are gone.                            *)
FlushDrops(q) ==
  /\ MayFail
  /\ flushing[q] # Blank
  /\ flushing' = [flushing EXCEPT ![q] = Blank]
  /\ failed' = TRUE
  /\ UNCHANGED <<now, useMemory, file, cache, calling, made>>

(* A process is killed, and starts again with an empty cache.              *)
Killed(q) ==
  /\ MayFail
  /\ cache' = [cache EXCEPT ![q] = Blank]
  /\ flushing' = [flushing EXCEPT ![q] = Blank]
  /\ calling' = [t \in Threads |-> IF ProcessOf[t] = q THEN NoCall ELSE calling[t]]
  /\ failed' = TRUE
  /\ UNCHANGED <<now, useMemory, file, made>>

Tick ==
  /\ now < MaxTime
  /\ now' = now + 1
  /\ made' = IF Date(now') = Date(now) THEN made ELSE [p \in Providers |-> 0]
  /\ UNCHANGED <<useMemory, file, cache, flushing, calling, failed>>
-----------------------------------------------------------------------------
Next ==
  \/ \E t \in Threads :
       \/ Check(t) \/ CallFails(t)
       \/ RecordMemory(t) \/ RecordDisk(t) \/ RecordDiskFails(t)
  \/ \E q \in Processes :
       \/ FlushTake(q) \/ FlushWrite(q) \/ FlushMergesBack(q) \/ FlushDrops(q)
       \/ Killed(q)
  \/ Tick

Spec == Init /\ [][Next]_vars
-----------------------------------------------------------------------------
N == Cardinality(Threads)

AllDisk == \A q \in Processes : ~useMemory[q]
AllMemory == \A q \in Processes : useMemory[q]

(* The check and the record are two steps, so a limit can be overrun; but  *)
(* with limiters that write the file, by one call per other thread at      *)
(* most, whatever windows end in between (can_call, _record_call_disk).    *)
OvershootBounded ==
  AllDisk => \A pw \in DOMAIN Limit : file[pw[1]][pw[2]].count <= Limit[pw] + N - 1

(* The same of the calls really made in a day, while no write has failed:  *)
(* no record of another thread or process overwrites a call.               *)
DailyOvershootBounded ==
  AllDisk /\ ~failed =>
    \A p \in Providers : <<p, "day">> \in DOMAIN Limit =>
      made[p] <= Limit[<<p, "day">>] + N - 1

(* What an entry counts of today; and the calls of today that processes    *)
(* have counted and not written to the file yet, one by one.               *)
OfToday(entry) == IF entry["day"].start = Date(now) THEN entry["day"].count ELSE 0

Unwritten(p) ==
  UNION {{q} \X (1 .. OfToday(cache[q][p]) + OfToday(flushing[q][p])) : q \in Processes}

(* With cached limiters every call of the day is in the file, or counted   *)
(* for today in a cache or in a flush under way, while no write has failed *)
(* (_flush_memory_cache takes and clears the cache in one step, and adds   *)
(* to the file under the flock).                                           *)
CallsAreKept ==
  AllMemory /\ ~failed =>
    \A p \in Providers : made[p] <= file[p]["day"].count + Cardinality(Unwritten(p))

(* wait_time never asks for more than is needed: the provider is refused   *)
(* at every instant before (wait_time, against can_call).                  *)
WaitIsNeeded ==
  \A p \in Providers : \A d \in 0 .. WaitTime(p) - 1 : ~CanCall(p, now + d)

(* Once everything recorded is in the file, a provider whose calls of the  *)
(* day have reached its daily limit is refused, by whichever process asks  *)
(* (can_call: "would stay within rate limits").                            *)
FlushedLimitHolds ==
  (cache = [q \in Processes |-> Blank] /\ flushing = cache) =>
    \A p \in Providers :
      <<p, "day">> \in DOMAIN Limit /\ made[p] >= Limit[<<p, "day">>] => ~CanCall(p, now)
=============================================================================
