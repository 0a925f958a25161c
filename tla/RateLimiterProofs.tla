------------------------- MODULE RateLimiterProofs -------------------------
(***************************************************************************)
(* How far a limit can be overrun when the limiters write the state file   *)
(* directly, for any number of processes, threads, providers and windows.  *)
(*                                                                         *)
(* The bound on a counter is not inductive: what a check lets through is   *)
(* recorded later.  The invariant adds to the counter a reader would see   *)
(* the threads that have been let through and have not recorded yet.       *)
(***************************************************************************)
EXTENDS RateLimiter, TLAPS, FiniteSetTheorems

Callers(p) == {t \in Threads : calling[t] = p}

Seen(p, w) == Renewed(file[p], now)[w].count

(* What a limit of n allows for window w of provider p.                    *)
Within(p, w, n) ==
  /\ file[p][w].count <= n + N - 1
  /\ Seen(p, w) + Cardinality(Callers(p)) <= n + N - 1
  /\ n = 0 => Callers(p) = {}

CountInv ==
  /\ cache = [q \in Processes |-> Blank]
  /\ flushing = [q \in Processes |-> Blank]
  /\ \A p \in Providers, w \in Windows :
       <<p, w>> \in DOMAIN Limit => Within(p, w, Limit[<<p, w>>])
  /\ \A p \in Providers : file[p]["day"].start <= Date(now)
  /\ ~failed => \A p \in Providers : made[p] <= Seen(p, "day")

IInv == TypeOK /\ (AllDisk => CountInv)
-----------------------------------------------------------------------------
(* Arithmetic and typing of the helpers.                                   *)

LEMMA DateType == ASSUME NEW time \in Nat PROVE Date(time) \in Nat
  BY WindowAssumption DEF Date

LEMMA DateMonotone ==
  ASSUME NEW time \in Nat
  PROVE  Date(time) <= Date(time + 1)
  <1> DEFINE d == DayLength
             q == time \div d
             r == (time + 1) \div d
  <1>1. d \in Nat \ {0}
    BY WindowAssumption
  <1>2. q \in Nat /\ r \in Nat /\ d * q <= time /\ time + 1 < d * (r + 1)
    BY <1>1, Z3
  <1> HIDE DEF d, q, r
  <1>3. CASE r < q
    <2>1. PICK k \in Nat : q = r + 1 + k
      BY <1>2, <1>3
    <2>2. d * q = d * (r + 1) + d * k
      BY <1>1, <1>2, <2>1
    <2>3. d * k >= 0
      BY <1>1, <2>1
    <2> QED BY <1>1, <1>2, <2>2, <2>3
  <1> QED BY <1>2, <1>3 DEF Date, d, q, r

LEMMA OpeningType ==
  ASSUME NEW time \in Nat, NEW w \in Windows
  PROVE  Opening(w, time) \in Nat
  BY DateType DEF Opening

LEMMA BlankType == BlankEntry \in Entry /\ Blank \in [Providers -> Entry]
  BY DEF BlankEntry, Blank, Entry, Window, Unset

LEMMA RenewedType ==
  ASSUME NEW entry \in Entry, NEW time \in Nat
  PROVE  /\ Renewed(entry, time) \in Entry
         /\ RenewedInMemory(entry, time) \in Entry
  BY OpeningType DEF Renewed, RenewedInMemory, Entry, Window

LEMMA CountedType ==
  ASSUME NEW entry \in Entry
  PROVE  Counted(entry) \in Entry
  BY DEF Counted, Entry, Window

LEMMA MergeAllType ==
  ASSUME NEW entries \in [Providers -> Entry], NEW more \in [Providers -> Entry]
  PROVE  MergeAll(entries, more) \in [Providers -> Entry]
  <1> SUFFICES ASSUME NEW p \in Providers, NEW w \in Windows
               PROVE  [entries[p][w] EXCEPT !.count = @ + more[p][w].count] \in Window
    BY DEF MergeAll, Merge, Entry
  <1>1. entries[p][w] \in Window /\ more[p][w] \in Window
    BY DEF Entry
  <1> QED BY <1>1 DEF Window

(* A window just renewed and counted is read back as it is, one higher.    *)
LEMMA CountedOnce ==
  ASSUME NEW entry \in Entry, NEW time \in Nat, NEW w \in Windows
  PROVE  /\ Renewed(Counted(Renewed(entry, time)), time)[w].count
              = Renewed(entry, time)[w].count + 1
         /\ Counted(Renewed(entry, time))[w].count = Renewed(entry, time)[w].count + 1
  <1> DEFINE seen == Renewed(entry, time)
             written == Counted(seen)
  <1>1. seen \in Entry
    BY RenewedType
  <1>2. /\ written[w].count = seen[w].count + 1
        /\ written[w].start = seen[w].start
    BY <1>1 DEF Counted, Entry, Window
  <1>3. ~Expired(seen[w], w, time)
    <2>1. CASE Expired(entry[w], w, time)
      <3>1. seen[w].start = Opening(w, time)
        BY <2>1 DEF Renewed
      <3>2. Opening(w, time) # Unset
        BY OpeningType DEF Unset
      <3>3. CASE w = "day"
        BY <3>1, <3>2, <3>3 DEF Expired, Opening
      <3>4. CASE w # "day"
        <4>1. seen[w].start = time
          BY <3>1, <3>4 DEF Opening
        <4>2. Length[w] \in Nat
          BY <3>4, WindowAssumption DEF Windows
        <4> QED BY <3>2, <3>4, <4>1, <4>2, <3>1 DEF Expired
      <3> QED BY <3>3, <3>4
    <2>2. CASE ~Expired(entry[w], w, time)
      BY <2>2 DEF Renewed
    <2> QED BY <2>1, <2>2
  <1>4. ~Expired(written[w], w, time)
    BY <1>2, <1>3 DEF Expired
  <1>5. Renewed(written, time)[w] = written[w]
    BY <1>4 DEF Renewed
  <1> QED BY <1>2, <1>5

(* As time goes on a counter stays or is seen as zero, no day being dated  *)
(* in the future.                                                          *)
LEMMA SeenLater ==
  ASSUME NEW entry \in Entry, NEW time \in Nat, NEW w \in Windows,
         entry["day"].start <= Date(time)
  PROVE  /\ Renewed(entry, time)[w].count \in Nat
         /\ Renewed(entry, time)[w].count <= entry[w].count
         /\ \/ Renewed(entry, time + 1)[w].count = Renewed(entry, time)[w].count
            \/ Renewed(entry, time + 1)[w].count = 0
  <1>1. entry[w] \in Window /\ entry[w].count \in Nat
    BY DEF Entry, Window
  <1>2. ASSUME NEW u \in Nat
        PROVE  Renewed(entry, u)[w].count = IF Expired(entry[w], w, u) THEN 0
                                                                      ELSE entry[w].count
    BY DEF Renewed
  <1>4. time + 1 \in Nat
    OBVIOUS
  <1>6. CASE entry[w].start = Unset
    <2>1. Expired(entry[w], w, time) /\ Expired(entry[w], w, time + 1)
      BY <1>6 DEF Expired
    <2> QED BY <1>1, <1>2, <1>4, <2>1
  <1>7. CASE w = "day" /\ entry[w].start # Unset
    <2>1. entry[w].start \in Nat /\ Date(time) \in Nat /\ Date(time + 1) \in Nat
      BY <1>1, <1>4, <1>7, DateType DEF Window
    <2>2. Expired(entry[w], w, time) => Expired(entry[w], w, time + 1)
      BY <1>7, <2>1, DateMonotone DEF Expired
    <2> QED BY <1>1, <1>2, <1>4, <2>2
  <1>8. CASE w # "day" /\ entry[w].start # Unset
    <2>1. Length[w] \in Nat /\ entry[w].start \in Nat
      BY <1>1, <1>8, WindowAssumption DEF Windows, Window
    <2>2. Expired(entry[w], w, time) => Expired(entry[w], w, time + 1)
      BY <2>1, <1>8 DEF Expired
    <2> QED BY <1>1, <1>2, <1>4, <2>2
  <1> QED BY <1>6, <1>7, <1>8

(* Within a day the day's counter is seen unchanged.                       *)
LEMMA SeenSameDay ==
  ASSUME NEW entry \in Entry, NEW time \in Nat, Date(time + 1) = Date(time)
  PROVE  Renewed(entry, time + 1)["day"].count = Renewed(entry, time)["day"].count
  <1>1. "day" \in Windows
    BY DEF Windows
  <1>2. Expired(entry["day"], "day", time + 1) <=> Expired(entry["day"], "day", time)
    BY DEF Expired
  <1> QED BY <1>1, <1>2 DEF Renewed

LEMMA CallersFinite ==
  ASSUME NEW p
  PROVE  /\ IsFiniteSet(Callers(p))
         /\ Cardinality(Callers(p)) \in Nat
         /\ Cardinality(Callers(p)) <= N
  <1>1. Callers(p) \in SUBSET Threads
    BY DEF Callers
  <1> QED BY <1>1, ThreadAssumption, FS_Subset, FS_CardinalityType DEF N

LEMMA ThreadCount == N \in Nat /\ N >= 1
  BY ThreadAssumption, FS_CardinalityType, FS_EmptySet DEF N
-----------------------------------------------------------------------------
LEMMA InitInv == ASSUME Init PROVE IInv
  <1>1. TypeOK
    BY BlankType DEF Init, TypeOK
  <1>2. ASSUME NEW p \in Providers, NEW w \in Windows
        PROVE  file[p][w].count = 0 /\ Seen(p, w) = 0 /\ Callers(p) = {}
    <2>1. Callers(p) = {}
      BY ThreadAssumption DEF Init, Callers
    <2>2. file[p] = BlankEntry
      BY DEF Init, Blank
    <2>3. Expired(file[p][w], w, now)
      BY <2>2 DEF BlankEntry, Expired
    <2> QED BY <2>1, <2>2, <2>3 DEF BlankEntry, Seen, Renewed
  <1>3. ASSUME NEW p \in Providers, NEW w \in Windows, <<p, w>> \in DOMAIN Limit
        PROVE  Within(p, w, Limit[<<p, w>>])
    <2>1. Limit[<<p, w>>] \in Nat
      BY <1>3, LimitAssumption
    <2>2. file[p][w].count = 0 /\ Seen(p, w) = 0 /\ Cardinality(Callers(p)) = 0
      BY <1>2, FS_EmptySet
    <2> QED BY <1>2, <2>1, <2>2, ThreadCount DEF Within
  <1>4. \A p \in Providers : made[p] <= Seen(p, "day")
    BY <1>2 DEF Init, Windows
  <1>5. \A p \in Providers : file[p]["day"].start <= Date(now)
    BY DateType DEF Init, Blank, BlankEntry, Unset, Windows
  <1> QED BY <1>1, <1>3, <1>4, <1>5 DEF Init, IInv, CountInv

(* A step that lets nobody through and leaves the file alone.              *)
LEMMA FewerCallers ==
  ASSUME IInv, AllDisk, file' = file, now' = now,
         \A p \in Providers : Callers(p)' \subseteq Callers(p)
  PROVE  /\ \A p \in Providers, w \in Windows :
              <<p, w>> \in DOMAIN Limit => Within(p, w, Limit[<<p, w>>])'
         /\ \A p \in Providers : file'[p]["day"].start <= Date(now')
         /\ \A p \in Providers, w \in Windows : Seen(p, w)' = Seen(p, w)
  <1>1. \A p \in Providers, w \in Windows : Seen(p, w)' = Seen(p, w)
    BY DEF Seen
  <1>2. \A p \in Providers : file'[p]["day"].start <= Date(now')
    BY DEF IInv, CountInv
  <1>3. ASSUME NEW p \in Providers, NEW w \in Windows, <<p, w>> \in DOMAIN Limit
        PROVE  Within(p, w, Limit[<<p, w>>])'
    <2>1. Within(p, w, Limit[<<p, w>>]) /\ Limit[<<p, w>>] \in Nat
      BY <1>3, LimitAssumption DEF IInv, CountInv
    <2>2. Cardinality(Callers(p)') <= Cardinality(Callers(p))
      BY CallersFinite, FS_Subset
    <2>3. Cardinality(Callers(p)') \in Nat /\ Cardinality(Callers(p)) \in Nat
      BY CallersFinite, FS_Subset, FS_CardinalityType
    <2>4. Seen(p, w) \in Nat
      BY SeenLater DEF IInv, CountInv, TypeOK, Seen
    <2>5. Within(p, w, Limit[<<p, w>>])
            <=> /\ file[p][w].count <= Limit[<<p, w>>] + N - 1
                /\ Seen(p, w) + Cardinality(Callers(p)) <= Limit[<<p, w>>] + N - 1
                /\ Limit[<<p, w>>] = 0 => Callers(p) = {}
      BY DEF Within
    <2>6. Limit[<<p, w>>] = 0 => Callers(p)' = {}
      BY <2>1, <2>5
    <2>7. Seen(p, w)' + Cardinality(Callers(p)') <= Limit[<<p, w>>] + N - 1
      BY <1>1, <2>1, <2>2, <2>3, <2>4, <2>5, ThreadCount
    <2> QED BY <2>1, <2>5, <2>6, <2>7 DEF Within
  <1> QED BY <1>1, <1>2, <1>3

LEMMA CheckInv ==
  ASSUME IInv, NEW t \in Threads, Check(t)
  PROVE  IInv'
  <1>1. PICK p \in Providers :
          /\ calling[t] = NoCall
          /\ CanCall(p, now)
          /\ calling' = [calling EXCEPT ![t] = p]
    BY DEF Check
  <1>2. TypeOK'
    BY <1>1 DEF Check, IInv, TypeOK
  <1>3. ASSUME AllDisk PROVE CountInv'
    <2>1. Callers(p)' = Callers(p) \union {t}
      BY <1>1 DEF IInv, TypeOK, Callers
    <2>2. ASSUME NEW o \in Providers \ {p} PROVE Callers(o)' = Callers(o)
      BY <1>1, ThreadAssumption DEF IInv, TypeOK, Callers
    <2>3. ASSUME NEW o \in Providers, NEW w \in Windows PROVE Seen(o, w)' = Seen(o, w)
      BY DEF Check, Seen
    <2>4. ASSUME NEW o \in Providers, NEW w \in Windows, <<o, w>> \in DOMAIN Limit
          PROVE  Within(o, w, Limit[<<o, w>>])'
      <3>1. /\ Within(o, w, Limit[<<o, w>>])
            /\ Limit[<<o, w>>] \in Nat
        BY <1>3, <2>4, LimitAssumption DEF IInv, CountInv
      <3>2. CASE o # p
        <4>1. Callers(o)' = Callers(o) /\ file' = file
          BY <2>2, <3>2 DEF Check
        <4> QED BY <2>3, <3>1, <4>1 DEF Within
      <3>3. CASE o = p
        <4>1. Seen(p, w) < Limit[<<p, w>>]
          <5>1. Renewed(file[p], now)[w].count \in Nat
            BY SeenLater, <1>3 DEF IInv, CountInv, TypeOK
          <5> QED BY <1>1, <2>4, <3>1, <3>3, <5>1 DEF CanCall, Exhausted, Seen
        <4>2. Seen(p, w) \in Nat
          BY SeenLater, <1>3 DEF IInv, CountInv, TypeOK, Seen
        <4>3. Cardinality(Callers(p)') \in Nat /\ Cardinality(Callers(p)') <= N
          <5>1. Callers(p)' \in SUBSET Threads
            BY DEF Callers
          <5> QED BY <5>1, ThreadAssumption, FS_Subset, FS_CardinalityType DEF N
        <4>4. Seen(p, w)' + Cardinality(Callers(p)') <= Limit[<<p, w>>] + N - 1
          BY <2>3, <3>1, <3>3, <4>1, <4>2, <4>3, ThreadCount
        <4>5. file'[p][w].count <= Limit[<<p, w>>] + N - 1
          BY <3>1, <3>3 DEF Check, Within
        <4>6. Limit[<<p, w>>] # 0
          BY <3>1, <3>3, <4>1, <4>2
        <4> QED BY <3>3, <4>4, <4>5, <4>6 DEF Within
      <3> QED BY <3>2, <3>3
    <2>5. "day" \in Windows
      BY DEF Windows
    <2> QED BY <1>3, <2>3, <2>4, <2>5 DEF Check, IInv, CountInv
  <1> QED BY <1>2, <1>3 DEF Check, AllDisk, IInv

LEMMA CallFailsInv ==
  ASSUME IInv, NEW t \in Threads, CallFails(t)
  PROVE  IInv'
  <1>1. TypeOK'
    BY DEF CallFails, IInv, TypeOK
  <1>2. ASSUME AllDisk PROVE CountInv'
    <2>1. \A p \in Providers : Callers(p)' \subseteq Callers(p)
      BY ThreadAssumption DEF CallFails, IInv, TypeOK, Callers
    <2> QED BY <1>2, <2>1, FewerCallers DEF CallFails, IInv, CountInv, Windows
  <1> QED BY <1>1, <1>2 DEF CallFails, AllDisk, IInv

LEMMA RecordDiskInv ==
  ASSUME IInv, NEW t \in Threads, RecordDisk(t)
  PROVE  IInv'
  <1>0. PICK p \in Providers : p = calling[t]
    BY DEF RecordDisk, Recorded, IInv, TypeOK
  <1> DEFINE entry == Counted(Renewed(file[p], now))
  <1>1. /\ file' = [file EXCEPT ![p] = entry]
        /\ made' = [made EXCEPT ![p] = @ + 1]
        /\ calling' = [calling EXCEPT ![t] = NoCall]
        /\ now' = now
    BY <1>0 DEF RecordDisk, Recorded, IInv, TypeOK
  <1>2. file[p] \in Entry /\ entry \in Entry
    BY <1>1, RenewedType, CountedType DEF IInv, TypeOK
  <1>3. TypeOK'
    BY <1>1, <1>2 DEF RecordDisk, Recorded, IInv, TypeOK
  <1>4. /\ file'[p] = entry
        /\ \A o \in Providers \ {p} : file'[o] = file[o]
    BY <1>1 DEF IInv, TypeOK
  <1>5. ASSUME AllDisk PROVE CountInv'
    <2>1. ASSUME NEW w \in Windows
          PROVE  /\ Seen(p, w)' = Seen(p, w) + 1
                 /\ file'[p][w].count = Seen(p, w) + 1
                 /\ Seen(p, w) \in Nat
      <3>1. Renewed(file[p], now)[w].count \in Nat
        BY <1>1, <1>2, <1>5, SeenLater DEF IInv, CountInv, TypeOK
      <3>2. Renewed(file'[p], now')[w].count = Renewed(file[p], now)[w].count + 1
        BY <1>1, <1>2, <1>4, CountedOnce DEF IInv, TypeOK
      <3>3. file'[p][w].count = Renewed(file[p], now)[w].count + 1
        BY <1>2, <1>4, CountedOnce DEF IInv, TypeOK
      <3> QED BY <3>1, <3>2, <3>3 DEF Seen
    <2>2. \A o \in Providers \ {p}, w \in Windows : Seen(o, w)' = Seen(o, w)
      BY <1>1, <1>4 DEF Seen
    <2>3. /\ Callers(p)' = Callers(p) \ {t}
          /\ t \in Callers(p)
          /\ \A o \in Providers \ {p} : Callers(o)' = Callers(o)
      BY <1>0, <1>1, ThreadAssumption DEF IInv, TypeOK, Callers
    <2>4. ASSUME NEW o \in Providers, NEW w \in Windows, <<o, w>> \in DOMAIN Limit
          PROVE  Within(o, w, Limit[<<o, w>>])'
      <3>1. /\ Within(o, w, Limit[<<o, w>>])
            /\ Limit[<<o, w>>] \in Nat
        BY <1>5, <2>4, LimitAssumption DEF IInv, CountInv
      <3>2. CASE o # p
        <4>1. file'[o] = file[o] /\ Seen(o, w)' = Seen(o, w) /\ Callers(o)' = Callers(o)
          BY <1>4, <2>2, <2>3, <3>2
        <4> QED BY <3>1, <4>1 DEF Within
      <3>3. CASE o = p
        <4>1. /\ Cardinality(Callers(p)') = Cardinality(Callers(p)) - 1
              /\ Cardinality(Callers(p)) \in Nat
              /\ Cardinality(Callers(p)) >= 1
          <5>1. IsFiniteSet(Callers(p)) /\ IsFiniteSet(Callers(p) \ {t})
            BY CallersFinite, FS_RemoveElement
          <5>2. Cardinality(Callers(p) \ {t}) = Cardinality(Callers(p)) - 1
            BY <2>3, <5>1, FS_RemoveElement
          <5>3. Cardinality(Callers(p) \ {t}) \in Nat /\ Cardinality(Callers(p)) \in Nat
            BY <5>1, FS_CardinalityType
          <5> QED BY <2>3, <5>2, <5>3
        <4>2. Seen(p, w) + Cardinality(Callers(p)) <= Limit[<<p, w>>] + N - 1
          BY <3>1, <3>3 DEF Within
        <4>3. /\ file'[p][w].count <= Limit[<<p, w>>] + N - 1
              /\ Seen(p, w)' + Cardinality(Callers(p)') <= Limit[<<p, w>>] + N - 1
          BY <2>1, <3>1, <3>3, <4>1, <4>2, ThreadCount
        <4>4. Limit[<<p, w>>] # 0
          BY <2>3, <3>1, <3>3 DEF Within
        <4> QED BY <3>3, <4>3, <4>4 DEF Within
      <3> QED BY <3>2, <3>3
    <2>5. ASSUME NEW o \in Providers PROVE file'[o]["day"].start <= Date(now')
      <3>1. CASE o # p
        BY <1>1, <1>4, <1>5, <3>1 DEF IInv, CountInv
      <3>2. CASE o = p
        <4>1. "day" \in Windows /\ file[p]["day"].start <= Date(now)
          BY <1>1, <1>5 DEF IInv, CountInv, Windows
        <4>2. Renewed(file[p], now)["day"].start <= Date(now)
          BY <4>1, DateType DEF Renewed, Opening, IInv, TypeOK
        <4>3. entry["day"].start = Renewed(file[p], now)["day"].start
          <5>1. Renewed(file[p], now) \in Entry
            BY <1>2, RenewedType DEF IInv, TypeOK
          <5> QED BY <4>1, <5>1 DEF Counted, Entry, Window
        <4> QED BY <1>1, <1>4, <3>2, <4>2, <4>3
      <3> QED BY <3>1, <3>2
    <2>6. ASSUME ~failed, NEW o \in Providers PROVE made'[o] <= Seen(o, "day")'
      <3>1. "day" \in Windows /\ made[o] <= Seen(o, "day") /\ made[o] \in Nat
        BY <1>5, <2>6 DEF IInv, CountInv, TypeOK, Windows
      <3>2. CASE o # p
        BY <1>1, <2>2, <3>1, <3>2 DEF IInv, TypeOK
      <3>3. CASE o = p
        BY <1>1, <2>1, <3>1, <3>3 DEF IInv, TypeOK
      <3> QED BY <3>2, <3>3
    <2> QED BY <1>5, <2>4, <2>5, <2>6 DEF RecordDisk, IInv, CountInv
  <1> QED BY <1>3, <1>5 DEF RecordDisk, AllDisk, IInv

LEMMA RecordDiskFailsInv ==
  ASSUME IInv, NEW t \in Threads, RecordDiskFails(t)
  PROVE  IInv'
  <1>1. TypeOK'
    BY DEF RecordDiskFails, Recorded, IInv, TypeOK
  <1>2. ASSUME AllDisk PROVE CountInv'
    <2>1. \A p \in Providers : Callers(p)' \subseteq Callers(p)
      BY ThreadAssumption DEF RecordDiskFails, Recorded, IInv, TypeOK, Callers
    <2> QED BY <1>2, <2>1, FewerCallers DEF RecordDiskFails, IInv, CountInv
  <1> QED BY <1>1, <1>2 DEF RecordDiskFails, AllDisk, IInv

(* Without cached limiters there is nothing to record in a cache or flush. *)
LEMMA MemoryInv ==
  ASSUME IInv,
         \/ \E t \in Threads : RecordMemory(t)
         \/ \E q \in Processes :
              FlushTake(q) \/ FlushWrite(q) \/ FlushMergesBack(q) \/ FlushDrops(q)
  PROVE  IInv'
  <1>1. CASE \E t \in Threads : RecordMemory(t)
    <2>1. PICK t \in Threads : RecordMemory(t)
      BY <1>1
    <2> DEFINE q == ProcessOf[t]
               p == calling[t]
               opened == [w \in Windows |-> [count |-> 0, start |-> Opening(w, now)]]
               entry == IF cache[q][p] = BlankEntry THEN opened
                                                    ELSE RenewedInMemory(cache[q][p], now)
    <2>2. q \in Processes /\ p \in Providers /\ useMemory[q]
      BY <2>1, ThreadAssumption DEF RecordMemory, Recorded, IInv, TypeOK
    <2>3. opened \in Entry
      BY OpeningType DEF IInv, TypeOK, Entry, Window
    <2>4. cache[q][p] \in Entry /\ now \in Nat
      BY <2>2 DEF IInv, TypeOK
    <2>5. Counted(entry) \in Entry
      BY <2>3, <2>4, RenewedType, CountedType
    <2>6. cache' = [cache EXCEPT ![q][p] = Counted(entry)]
      BY <2>1 DEF RecordMemory
    <2>7. /\ calling' \in [Threads -> Providers \union {NoCall}]
          /\ made' \in [Providers -> Nat]
      <3>1. /\ calling' = [calling EXCEPT ![t] = NoCall]
            /\ made' = [made EXCEPT ![calling[t]] = @ + 1]
        BY <2>1 DEF RecordMemory, Recorded
      <3> QED BY <2>2, <3>1 DEF IInv, TypeOK
    <2>8. TypeOK'
      <3> HIDE DEF q, p, entry
      <3>1. cache' \in [Processes -> [Providers -> Entry]]
        BY <2>2, <2>5, <2>6 DEF IInv, TypeOK
      <3> QED BY <2>1, <2>7, <3>1 DEF RecordMemory, IInv, TypeOK
    <2>9. ~AllDisk'
      BY <2>1, <2>2 DEF RecordMemory, AllDisk
    <2> QED BY <2>8, <2>9 DEF IInv
  <1>2. CASE \E q \in Processes :
               FlushTake(q) \/ FlushWrite(q) \/ FlushMergesBack(q) \/ FlushDrops(q)
    <2>1. PICK q \in Processes :
            FlushTake(q) \/ FlushWrite(q) \/ FlushMergesBack(q) \/ FlushDrops(q)
      BY <1>2
    <2>2. /\ cache[q] \in [Providers -> Entry] /\ flushing[q] \in [Providers -> Entry]
          /\ MergeAll(file, flushing[q]) \in [Providers -> Entry]
          /\ MergeAll(cache[q], flushing[q]) \in [Providers -> Entry]
      BY MergeAllType DEF IInv, TypeOK
    <2>3. TypeOK'
      BY <2>1, <2>2, BlankType
      DEF FlushTake, FlushWrite, FlushMergesBack, FlushDrops, IInv, TypeOK
    <2>4. ~AllDisk'
      BY <2>1 DEF FlushTake, FlushWrite, FlushMergesBack, FlushDrops, AllDisk, IInv, CountInv
    <2> QED BY <2>3, <2>4 DEF IInv
  <1> QED BY <1>1, <1>2

LEMMA KilledInv ==
  ASSUME IInv, NEW q \in Processes, Killed(q)
  PROVE  IInv'
  <1>1. TypeOK'
    BY BlankType DEF Killed, IInv, TypeOK
  <1>2. ASSUME AllDisk PROVE CountInv'
    <2>1. \A p \in Providers : Callers(p)' \subseteq Callers(p)
      BY ThreadAssumption DEF Killed, IInv, TypeOK, Callers
    <2> QED BY <1>2, <2>1, FewerCallers DEF Killed, IInv, CountInv
  <1> QED BY <1>1, <1>2 DEF Killed, AllDisk, IInv

LEMMA TickInv ==
  ASSUME IInv, Tick
  PROVE  IInv'
  <1>1. now \in Nat /\ now' = now + 1 /\ file' = file /\ file \in [Providers -> Entry]
    BY DEF Tick, IInv, TypeOK
  <1>2. TypeOK'
    BY DEF Tick, IInv, TypeOK
  <1>3. ASSUME AllDisk PROVE CountInv'
    <2>1. ASSUME NEW p \in Providers, NEW w \in Windows
          PROVE  /\ Seen(p, w) \in Nat
                 /\ Seen(p, w)' = Seen(p, w) \/ Seen(p, w)' = 0
      BY <1>1, <1>3, SeenLater DEF IInv, CountInv, Seen
    <2>2. ASSUME NEW p \in Providers PROVE Callers(p)' = Callers(p)
      BY DEF Tick, Callers
    <2>3. ASSUME NEW p \in Providers, NEW w \in Windows, <<p, w>> \in DOMAIN Limit
          PROVE  Within(p, w, Limit[<<p, w>>])'
      <3>1. /\ Within(p, w, Limit[<<p, w>>])
            /\ Limit[<<p, w>>] \in Nat
        BY <1>3, <2>3, LimitAssumption DEF IInv, CountInv
      <3>2. Cardinality(Callers(p)) \in Nat /\ Cardinality(Callers(p)) <= N
        BY CallersFinite
      <3>3. Callers(p) = {} => Cardinality(Callers(p)) = 0
        BY FS_EmptySet
      <3>4. Seen(p, w)' + Cardinality(Callers(p)) <= Limit[<<p, w>>] + N - 1
        <4>1. Seen(p, w) + Cardinality(Callers(p)) <= Limit[<<p, w>>] + N - 1
          BY <3>1 DEF Within
        <4>2. Limit[<<p, w>>] = 0 => Cardinality(Callers(p)) = 0
          BY <3>1, <3>3 DEF Within
        <4> QED BY <2>1, <3>1, <3>2, <4>1, <4>2, ThreadCount
      <3> QED BY <1>1, <2>2, <3>1, <3>4 DEF Within
    <2>4. ASSUME NEW p \in Providers PROVE file'[p]["day"].start <= Date(now')
      <3>1. "day" \in Windows /\ file[p]["day"].start <= Date(now)
        BY <1>3 DEF IInv, CountInv, Windows
      <3>2. file[p]["day"].start \in Int
        BY <1>1, <3>1 DEF Entry, Window, Unset
      <3> QED BY <1>1, <3>1, <3>2, DateType, DateMonotone
    <2>5. ASSUME ~failed, NEW p \in Providers PROVE made'[p] <= Seen(p, "day")'
      <3>1. "day" \in Windows /\ made[p] <= Seen(p, "day") /\ made[p] \in Nat
        BY <1>3, <2>5 DEF IInv, CountInv, TypeOK, Windows
      <3>2. CASE Date(now') = Date(now)
        <4>1. made' = made
          BY <3>2 DEF Tick
        <4>2. Seen(p, "day")' = Seen(p, "day")
          BY <1>1, <3>2, SeenSameDay DEF Seen
        <4> QED BY <3>1, <4>1, <4>2
      <3>3. CASE Date(now') # Date(now)
        <4>1. made'[p] = 0
          BY <3>3 DEF Tick
        <4>2. Seen(p, "day")' \in Nat
          BY <2>1, <3>1
        <4> QED BY <4>1, <4>2
      <3> QED BY <3>2, <3>3
    <2> QED BY <1>3, <2>3, <2>4, <2>5 DEF Tick, IInv, CountInv
  <1> QED BY <1>2, <1>3 DEF Tick, AllDisk, IInv

LEMMA NextInv == ASSUME IInv, [Next]_vars PROVE IInv'
  <1>1. CASE UNCHANGED vars
    <2>1. /\ now' = now /\ useMemory' = useMemory /\ file' = file /\ cache' = cache
          /\ flushing' = flushing /\ calling' = calling /\ made' = made /\ failed' = failed
      BY <1>1 DEF vars
    <2>2. TypeOK' /\ (AllDisk' <=> AllDisk)
      BY <2>1 DEF IInv, TypeOK, AllDisk
    <2>3. ASSUME AllDisk PROVE CountInv'
      <3>1. \A p \in Providers : Callers(p)' \subseteq Callers(p)
        BY <2>1 DEF Callers
      <3>2. "day" \in Windows
        BY DEF Windows
      <3> QED BY <2>1, <2>3, <3>1, <3>2, FewerCallers DEF IInv, CountInv
    <2> QED BY <2>2, <2>3 DEF IInv
  <1>2. ASSUME NEW t \in Threads,
               Check(t) \/ CallFails(t) \/ RecordDisk(t) \/ RecordDiskFails(t)
        PROVE  IInv'
    BY <1>2, CheckInv, CallFailsInv, RecordDiskInv, RecordDiskFailsInv
  <1>3. ASSUME \E t \in Threads : RecordMemory(t) PROVE IInv'
    BY <1>3, MemoryInv
  <1>4. ASSUME NEW q \in Processes,
               FlushTake(q) \/ FlushWrite(q) \/ FlushMergesBack(q) \/ FlushDrops(q)
        PROVE  IInv'
    BY <1>4, MemoryInv
  <1>5. ASSUME NEW q \in Processes, Killed(q) PROVE IInv'
    BY <1>5, KilledInv
  <1>6. CASE Tick
    BY <1>6, TickInv
  <1> QED BY <1>1, <1>2, <1>3, <1>4, <1>5, <1>6 DEF Next

LEMMA Invariance == Spec => []IInv
  <1>1. Init => IInv
    BY InitInv
  <1>2. IInv /\ [Next]_vars => IInv'
    BY NextInv
  <1> QED BY <1>1, <1>2, PTL DEF Spec
-----------------------------------------------------------------------------
(* Type correctness of the limiter in both of its ways of recording.       *)
THEOREM Typing == Spec => []TypeOK
  <1>1. IInv => TypeOK
    BY DEF IInv
  <1> QED BY <1>1, Invariance, PTL

(* With limiters that write the file, no counter of any window exceeds its *)
(* limit by more than the number of other threads.                         *)
THEOREM OvershootIsBounded == Spec => []OvershootBounded
  <1>1. IInv => OvershootBounded
    <2> SUFFICES ASSUME IInv, AllDisk, NEW pw \in DOMAIN Limit
                 PROVE  file[pw[1]][pw[2]].count <= Limit[pw] + N - 1
      BY DEF OvershootBounded
    <2>1. PICK p \in Providers, w \in Windows : pw = <<p, w>>
      BY LimitAssumption
    <2>2. Within(p, w, Limit[<<p, w>>])
      BY <2>1 DEF IInv, CountInv
    <2> QED BY <2>1, <2>2 DEF Within
  <1> QED BY <1>1, Invariance, PTL

(* And while no write has failed, nor does the number of calls made in a   *)
(* day.                                                                    *)
THEOREM DailyOvershootIsBounded == Spec => []DailyOvershootBounded
  <1>1. IInv => DailyOvershootBounded
    <2> SUFFICES ASSUME IInv, AllDisk, ~failed, NEW p \in Providers,
                        <<p, "day">> \in DOMAIN Limit
                 PROVE  made[p] <= Limit[<<p, "day">>] + N - 1
      BY DEF DailyOvershootBounded
    <2>1. "day" \in Windows
      BY DEF Windows
    <2>2. /\ Seen(p, "day") + Cardinality(Callers(p)) <= Limit[<<p, "day">>] + N - 1
          /\ made[p] <= Seen(p, "day")
      BY <2>1 DEF IInv, CountInv, Within
    <2>3. Cardinality(Callers(p)) \in Nat
      BY CallersFinite
    <2>4. Seen(p, "day") \in Nat /\ made[p] \in Nat
      BY <2>1, SeenLater DEF IInv, CountInv, TypeOK, Seen
    <2>5. Limit[<<p, "day">>] \in Nat
      BY LimitAssumption
    <2> QED BY <2>2, <2>3, <2>4, <2>5, ThreadCount
  <1> QED BY <1>1, Invariance, PTL
-----------------------------------------------------------------------------
(* wait_time.  Two instants between a multiple of the length of a day and  *)
(* the next have the same date.                                            *)
LEMMA SameDate ==
  ASSUME NEW time \in Nat, NEW d \in Nat, time + d < (Date(time) + 1) * DayLength
  PROVE  Date(time + d) = Date(time)
  <1> DEFINE len == DayLength
             q == time \div len
             r == (time + d) \div len
  <1>1. len \in Nat \ {0}
    BY WindowAssumption
  <1>2. q \in Nat /\ r \in Nat /\ len * q <= time /\ len * r <= time + d /\ time + d < len * (r + 1)
    BY <1>1, Z3
  <1>3. time + d < (q + 1) * len
    BY DEF Date
  <1> HIDE DEF len, q, r
  <1>4. ~(r > q)
    <2>1. SUFFICES ASSUME r > q
                   PROVE  FALSE
      OBVIOUS
    <2>2. PICK k \in Nat : r = q + 1 + k
      BY <1>2, <2>1
    <2>3. len * r = len * (q + 1) + len * k /\ len * (q + 1) = (q + 1) * len /\ len * k >= 0
      BY <1>1, <1>2, <2>2
    <2>4. QED
      BY <1>1, <1>2, <1>3, <2>3
  <1>5. ~(r < q)
    <2>1. SUFFICES ASSUME r < q
                   PROVE  FALSE
      OBVIOUS
    <2>2. PICK k \in Nat : q = r + 1 + k
      BY <1>2, <2>1
    <2>3. len * q = len * (r + 1) + len * k /\ len * k >= 0
      BY <1>1, <1>2, <2>2
    <2>4. QED
      BY <1>1, <1>2, <2>3
  <1>6. QED
    BY <1>2, <1>4, <1>5 DEF Date, len, q, r

(* A limit that is used up stays so as long as its window lasts.           *)
LEMMA StaysExhausted ==
  ASSUME TypeOK, NEW p \in Providers, NEW w \in Exhausted(p, now), NEW d \in Nat,
         \/ w = "day" /\ Date(now + d) = Date(now)
         \/ w # "day" /\ d < Length[w] - (now - Renewed(file[p], now)[w].start)
  PROVE  w \in Exhausted(p, now + d)
  <1>1. /\ w \in Windows /\ <<p, w>> \in DOMAIN Limit /\ Limit[<<p, w>>] \in Nat
        /\ Renewed(file[p], now)[w].count >= Limit[<<p, w>>]
    BY LimitAssumption DEF Exhausted
  <1>2. file[p] \in Entry /\ now \in Nat /\ now + d \in Nat
    BY DEF TypeOK
  <1>3. /\ file[p][w] \in Window /\ Renewed(file[p], now + d)[w].count \in Nat
    BY <1>1, <1>2, RenewedType DEF Entry, Window
  <1>4. CASE Expired(file[p][w], w, now)
    <2>1. Renewed(file[p], now)[w].count = 0
      BY <1>1, <1>4 DEF Renewed
    <2>2. Limit[<<p, w>>] = 0
      BY <1>1, <2>1
    <2>3. QED
      BY <1>1, <1>3, <2>2 DEF Exhausted
  <1>5. CASE ~Expired(file[p][w], w, now)
    <2>1. Renewed(file[p], now)[w] = file[p][w]
      BY <1>1, <1>5 DEF Renewed
    <2>2. ~Expired(file[p][w], w, now + d)
      <3>1. CASE w = "day"
        BY <1>5, <3>1 DEF Expired
      <3>2. CASE w # "day"
        <4>1. w \in Rolling /\ Length[w] \in Nat
          BY <1>1, <3>2, WindowAssumption DEF Windows
        <4>2. file[p][w].start \in Nat
          BY <1>3, <1>5 DEF Expired, Window
        <4>3. (now + d) - file[p][w].start <= Length[w]
          BY <1>2, <2>1, <3>2, <4>1, <4>2
        <4>4. QED
          BY <1>2, <1>5, <3>2, <4>1, <4>2, <4>3 DEF Expired
      <3>3. QED
        BY <3>1, <3>2
    <2>3. Renewed(file[p], now + d)[w] = file[p][w]
      BY <1>1, <2>2 DEF Renewed
    <2>4. QED
      BY <1>1, <2>1, <2>3 DEF Exhausted
  <1>6. QED
    BY <1>4, <1>5

(* Of the windows used up, wait_time takes the one that lasts longest.     *)
LEMMA LongestExists ==
  ASSUME NEW over \in SUBSET Windows, "day" \notin over, over # {}
  PROVE  \E w \in over : \A v \in over : Length[v] <= Length[w]
  <1>1. over \subseteq Rolling /\ over \subseteq {"minute", "hour"}
    BY WindowAssumption DEF Windows
  <1>2. \A w \in over : Length[w] \in Nat
    BY <1>1, WindowAssumption
  <1>3. CASE "hour" \in over /\ "minute" \in over /\ Length["minute"] > Length["hour"]
    <2>1. \A v \in over : Length[v] <= Length["minute"]
      BY <1>1, <1>2, <1>3
    <2>2. QED
      BY <1>3, <2>1
  <1>4. CASE "hour" \in over /\ "minute" \in over /\ ~(Length["minute"] > Length["hour"])
    <2>1. \A v \in over : Length[v] <= Length["hour"]
      BY <1>1, <1>2, <1>4
    <2>2. QED
      BY <1>4, <2>1
  <1>5. CASE "hour" \notin over \/ "minute" \notin over
    <2>1. PICK w \in over : TRUE
      OBVIOUS
    <2>2. \A v \in over : v = w
      BY <1>1, <1>5
    <2>3. QED
      BY <1>2, <2>2
  <1>6. QED
    BY <1>3, <1>4, <1>5

(* For any limits and windows: until what wait_time asks for has passed,   *)
(* can_call refuses, if nothing is recorded meanwhile; a caller that waits *)
(* never waits for nothing (rate_limiter.py wait_time, can_call).          *)
THEOREM WaitIsNeverTooLong == Spec => []WaitIsNeeded
  <1>1. TypeOK => WaitIsNeeded
    <2> SUFFICES ASSUME TypeOK, NEW p \in Providers, NEW d \in 0 .. WaitTime(p) - 1
                 PROVE  ~CanCall(p, now + d)
      BY DEF WaitIsNeeded
    <2> DEFINE over == Exhausted(p, now)
               longest == CHOOSE w \in over : \A v \in over : Length[v] <= Length[w]
               left == Length[longest] - (now - Renewed(file[p], now)[longest].start)
    <2>1. over \subseteq Windows /\ now \in Nat /\ d \in Nat
      BY DEF Exhausted, TypeOK
    <2>2. SUFFICES \E w \in over : w \in Exhausted(p, now + d)
      BY DEF CanCall
    <2>3. CASE "day" \in over
      <3>1. WaitTime(p) = (Date(now) + 1) * DayLength - now
        BY <2>3 DEF WaitTime
      <3>2. Date(now) \in Nat /\ DayLength \in Nat
        BY <2>1, DateType, WindowAssumption
      <3>3. (Date(now) + 1) * DayLength \in Nat
        BY <3>2
      <3>4. now + d < (Date(now) + 1) * DayLength
        BY <2>1, <3>1, <3>3
      <3>5. Date(now + d) = Date(now)
        BY <2>1, <3>4, SameDate
      <3>6. QED
        BY <2>1, <2>3, <3>5, StaysExhausted
    <2>4. CASE "day" \notin over /\ over = {}
      <3>1. WaitTime(p) = 0
        BY <2>4 DEF WaitTime
      <3>2. QED
        BY <2>1, <3>1
    <2>5. CASE "day" \notin over /\ over # {}
      <3>1. WaitTime(p) = IF left > 0 THEN left ELSE 0
        BY <2>5 DEF WaitTime
      <3>2. longest \in over
        BY <2>1, <2>5, LongestExists
      <3> HIDE DEF longest
      <3>3. longest \in Rolling /\ Length[longest] \in Nat /\ longest # "day"
        BY <2>1, <2>5, <3>2, WindowAssumption DEF Windows
      <3>4. Renewed(file[p], now)[longest].start \in Int
        BY <2>1, <3>2, RenewedType DEF Entry, Window, Unset, TypeOK
      <3>5. d < left
        BY <2>1, <3>1, <3>3, <3>4
      <3>6. QED
        BY <2>1, <3>2, <3>3, <3>5, StaysExhausted
    <2>6. QED
      BY <2>3, <2>4, <2>5
  <1>2. QED
    BY <1>1, Typing, PTL
-----------------------------------------------------------------------------
(* What is counted and not written, as a set with one element for each     *)
(* call: its sum over the processes is the size of the set.                *)

Bars(f) == UNION {{q} \X (1 .. f[q]) : q \in Processes}

Counts(p) == [q \in Processes |-> OfToday(cache[q][p]) + OfToday(flushing[q][p])]

LEMMA BarOf ==
  ASSUME NEW q, NEW n \in Nat
  PROVE  IsFiniteSet({q} \X (1 .. n)) /\ Cardinality({q} \X (1 .. n)) = n
  <1>1. IsFiniteSet({q}) /\ Cardinality({q}) = 1
    BY FS_Singleton
  <1>2. IsFiniteSet(1 .. n) /\ Cardinality(1 .. n) = n
    BY FS_Interval
  <1>3. /\ IsFiniteSet({q} \X (1 .. n))
        /\ Cardinality({q} \X (1 .. n)) = Cardinality({q}) * Cardinality(1 .. n)
    BY <1>1, <1>2, FS_Product
  <1>4. 1 * n = n
    OBVIOUS
  <1> QED BY <1>1, <1>2, <1>3, <1>4

(* Only processes with a thread count anything, and they are finitely many.*)
LEMMA BarsFinite ==
  ASSUME NEW f \in [Processes -> Nat],
         \A q \in Processes : (\A t \in Threads : ProcessOf[t] # q) => f[q] = 0
  PROVE  IsFiniteSet(Bars(f))
  <1> DEFINE B == [t \in Threads |-> {ProcessOf[t]} \X (1 .. f[ProcessOf[t]])]
             R == {B[t] : t \in Threads}
  <1>1. IsFiniteSet(R)
    <2>1. B \in Surjection(Threads, R)
      BY DEF Surjection
    <2> HIDE DEF B, R
    <2> QED BY <2>1, ThreadAssumption, FS_Surjection
  <1>2. \A T \in R : IsFiniteSet(T)
    <2> SUFFICES ASSUME NEW t \in Threads
                 PROVE  IsFiniteSet({ProcessOf[t]} \X (1 .. f[ProcessOf[t]]))
      OBVIOUS
    <2>1. f[ProcessOf[t]] \in Nat
      BY ThreadAssumption
    <2> QED BY <2>1, BarOf
  <1>3. IsFiniteSet(UNION R)
    <2> HIDE DEF R
    <2> QED BY <1>1, <1>2, FS_UNION
  <1>4. Bars(f) \subseteq UNION R
    <2> SUFFICES ASSUME NEW q \in Processes, NEW x \in {q} \X (1 .. f[q])
                 PROVE  \E t \in Threads : x \in {ProcessOf[t]} \X (1 .. f[ProcessOf[t]])
      BY DEF Bars
    <2>1. f[q] # 0
      OBVIOUS
    <2>2. PICK t \in Threads : ProcessOf[t] = q
      BY <2>1
    <2> QED BY <2>2
  <1> QED BY <1>3, <1>4, FS_Subset

LEMMA DisjointUnion ==
  ASSUME NEW S, IsFiniteSet(S), NEW T, IsFiniteSet(T), S \cap T = {}
  PROVE  /\ IsFiniteSet(S \cup T)
         /\ Cardinality(S \cup T) = Cardinality(S) + Cardinality(T)
         /\ Cardinality(S) \in Nat /\ Cardinality(T) \in Nat
  <1>1. /\ IsFiniteSet(S \cup T)
        /\ Cardinality(S \cup T) = Cardinality(S) + Cardinality(T) - Cardinality({})
    BY FS_Union
  <1>2. Cardinality({}) = 0 /\ Cardinality(S) \in Nat /\ Cardinality(T) \in Nat
    BY FS_EmptySet, FS_CardinalityType
  <1> QED BY <1>1, <1>2

(* When one process counts otherwise, the size changes by as much.         *)
LEMMA BarChanged ==
  ASSUME NEW f \in [Processes -> Nat], NEW g \in [Processes -> Nat], NEW q \in Processes,
         \A r \in Processes \ {q} : g[r] = f[r], IsFiniteSet(Bars(f))
  PROVE  /\ Cardinality(Bars(f)) \in Nat /\ Cardinality(Bars(g)) \in Nat
         /\ Cardinality(Bars(g)) + f[q] = Cardinality(Bars(f)) + g[q]
  <1> DEFINE old  == {q} \X (1 .. f[q])
             new  == {q} \X (1 .. g[q])
             rest == UNION {{r} \X (1 .. f[r]) : r \in Processes \ {q}}
  <1>1. /\ IsFiniteSet(old) /\ Cardinality(old) = f[q] /\ f[q] \in Nat
        /\ IsFiniteSet(new) /\ Cardinality(new) = g[q] /\ g[q] \in Nat
    BY BarOf
  <1>2. Bars(f) = rest \cup old /\ rest \cap old = {}
    BY DEF Bars
  <1>3. Bars(g) = rest \cup new /\ rest \cap new = {}
    BY DEF Bars
  <1> HIDE DEF old, new, rest
  <1>4. IsFiniteSet(rest)
    <2>1. rest \in SUBSET Bars(f)
      BY <1>2
    <2> QED BY <2>1, FS_Subset
  <1>5. /\ Cardinality(Bars(f)) = Cardinality(rest) + Cardinality(old)
        /\ Cardinality(rest) \in Nat
    BY <1>1, <1>2, <1>4, DisjointUnion
  <1>6. Cardinality(Bars(g)) = Cardinality(rest) + Cardinality(new)
    BY <1>1, <1>3, <1>4, DisjointUnion
  <1> QED BY <1>1, <1>5, <1>6

-----------------------------------------------------------------------------
(* With cached limiters nothing is lost between a cache and the file.      *)

(* A process without a thread has counted nothing.                         *)
Resting ==
  \A q \in Processes :
    (\A t \in Threads : ProcessOf[t] # q) => cache[q] = Blank /\ flushing[q] = Blank

Balanced == \A p \in Providers : made[p] <= file[p]["day"].count + Cardinality(Unwritten(p))

KeptInv == IInv /\ Resting /\ (AllMemory /\ ~failed => Balanced)

LEMMA EntryTypes ==
  ASSUME TypeOK, NEW p \in Providers
  PROVE  /\ "day" \in Windows
         /\ file[p]["day"].count \in Nat /\ made[p] \in Nat
         /\ \A q \in Processes : /\ cache[q][p]["day"].count \in Nat
                                 /\ OfToday(cache[q][p]) \in Nat
                                 /\ OfToday(flushing[q][p]) \in Nat
                                 /\ flushing[q][p]["day"].count \in Nat
                                 /\ OfToday(flushing[q][p]) <= flushing[q][p]["day"].count
  <1>1. "day" \in Windows
    BY DEF Windows
  <1>2. /\ file[p]["day"].count \in Nat /\ made[p] \in Nat
        /\ \A q \in Processes : /\ cache[q][p]["day"].count \in Nat
                                /\ flushing[q][p]["day"].count \in Nat
    BY <1>1 DEF TypeOK, Entry, Window
  <1> QED BY <1>1, <1>2 DEF OfToday

LEMMA BlankCounts ==
  ASSUME NEW p \in Providers
  PROVE  OfToday(Blank[p]) = 0
  BY DEF OfToday, Blank, BlankEntry, Windows

LEMMA UnwrittenCounts ==
  ASSUME TypeOK, Resting, NEW p \in Providers
  PROVE  /\ Counts(p) \in [Processes -> Nat]
         /\ Unwritten(p) = Bars(Counts(p))
         /\ IsFiniteSet(Unwritten(p)) /\ Cardinality(Unwritten(p)) \in Nat
  <1>1. Counts(p) \in [Processes -> Nat]
    BY EntryTypes DEF Counts
  <1>2. Unwritten(p) = Bars(Counts(p))
    BY DEF Unwritten, Bars, Counts
  <1>3. ASSUME NEW q \in Processes, \A t \in Threads : ProcessOf[t] # q
        PROVE  Counts(p)[q] = 0
    <2>1. cache[q] = Blank /\ flushing[q] = Blank
      BY <1>3 DEF Resting
    <2> QED BY <2>1, BlankCounts DEF Counts
  <1> HIDE DEF Counts
  <1>4. IsFiniteSet(Bars(Counts(p)))
    BY <1>1, <1>3, BarsFinite
  <1> QED BY <1>1, <1>2, <1>4, FS_CardinalityType

LEMMA RestingStep ==
  ASSUME TypeOK, Resting, [Next]_vars
  PROVE  Resting'
  <1>1. ASSUME NEW t \in Threads, RecordMemory(t)
        PROVE  Resting'
    BY <1>1 DEF RecordMemory, Resting, TypeOK
  <1>2. ASSUME NEW q \in Processes,
               FlushTake(q) \/ FlushWrite(q) \/ FlushMergesBack(q) \/ FlushDrops(q)
        PROVE  Resting'
    BY <1>2 DEF FlushTake, FlushWrite, FlushMergesBack, FlushDrops, Resting, TypeOK
  <1>3. ASSUME NEW q \in Processes, Killed(q)
        PROVE  Resting'
    BY <1>3 DEF Killed, Resting, TypeOK
  <1>4. CASE UNCHANGED <<cache, flushing>>
    BY <1>4 DEF Resting
  <1>5. ASSUME NEW t \in Threads, Check(t) \/ CallFails(t) \/ RecordDisk(t) \/ RecordDiskFails(t)
        PROVE  Resting'
    BY <1>4, <1>5 DEF Check, CallFails, RecordDisk, RecordDiskFails
  <1>6. CASE Tick \/ UNCHANGED vars
    BY <1>4, <1>6 DEF Tick, vars
  <1> QED BY <1>1, <1>2, <1>3, <1>5, <1>6 DEF Next

(* A record in the cache counts one more call for today.                   *)
LEMMA CachedOnce ==
  ASSUME NEW entry \in Entry, NEW more, now \in Nat,
         more = Counted(IF entry = BlankEntry
                          THEN [w \in Windows |-> [count |-> 0, start |-> Opening(w, now)]]
                          ELSE RenewedInMemory(entry, now))
  PROVE  OfToday(more) = OfToday(entry) + 1
  <1>1. "day" \in Windows /\ entry["day"] \in Window /\ Date(now) \in Nat
    BY DateType DEF Windows, Entry
  <1>2. entry["day"].count \in Nat /\ Opening("day", now) = Date(now) /\ Date(now) # Unset
    BY <1>1 DEF Window, Opening, Unset
  <1>3. CASE entry = BlankEntry
    <2>1. entry["day"].count = 0
      BY <1>1, <1>3 DEF BlankEntry
    <2>2. more["day"] = [count |-> 1, start |-> Date(now)]
      BY <1>1, <1>2, <1>3 DEF Counted
    <2> QED BY <2>1, <2>2 DEF OfToday
  <1>4. CASE entry # BlankEntry /\ Expired(entry["day"], "day", now)
    <2>1. RenewedInMemory(entry, now)["day"] = [count |-> 0, start |-> Date(now)]
      BY <1>1, <1>2, <1>4 DEF RenewedInMemory
    <2>2. more["day"] = [count |-> 1, start |-> Date(now)]
      BY <1>1, <1>4, <2>1 DEF Counted
    <2>3. entry["day"].start # Date(now)
      BY <1>2, <1>4 DEF Expired
    <2> QED BY <2>2, <2>3 DEF OfToday
  <1>5. CASE entry # BlankEntry /\ ~Expired(entry["day"], "day", now)
    <2>1. RenewedInMemory(entry, now)["day"] = entry["day"]
      BY <1>1, <1>5 DEF RenewedInMemory
    <2>2. /\ more["day"].count = entry["day"].count + 1
          /\ more["day"].start = entry["day"].start
      BY <1>1, <1>5, <2>1 DEF Counted, Window
    <2>3. entry["day"].start = Date(now)
      BY <1>5 DEF Expired
    <2> QED BY <2>2, <2>3 DEF OfToday
  <1> QED BY <1>3, <1>4, <1>5

LEMMA RecordMemoryKeeps ==
  ASSUME IInv, IInv', Resting, Resting', Balanced, NEW t \in Threads, RecordMemory(t)
  PROVE  Balanced'
  <1>1. PICK p \in Providers, q \in Processes : p = calling[t] /\ q = ProcessOf[t]
    BY ThreadAssumption DEF IInv, TypeOK, RecordMemory, Recorded
  <1>2. TypeOK /\ TypeOK' /\ now \in Nat /\ cache[q][p] \in Entry
    BY DEF IInv, TypeOK
  <1> DEFINE more == Counted(IF cache[q][p] = BlankEntry
                               THEN [w \in Windows |-> [count |-> 0, start |-> Opening(w, now)]]
                               ELSE RenewedInMemory(cache[q][p], now))
  <1>3. /\ cache' = [cache EXCEPT ![q][p] = more]
        /\ made' = [made EXCEPT ![p] = @ + 1]
        /\ UNCHANGED <<now, file, flushing>>
    BY <1>1 DEF RecordMemory, Recorded
  <1>4. OfToday(more) = OfToday(cache[q][p]) + 1
    BY <1>2, CachedOnce
  <1> HIDE DEF more
  <1>5. ASSUME NEW o \in Providers, NEW r \in Processes, o # p \/ r # q
        PROVE  cache'[r][o] = cache[r][o]
    BY <1>2, <1>3, <1>5 DEF TypeOK
  <1>6. cache'[q][p] = more
    BY <1>2, <1>3 DEF TypeOK
  <1>7. ASSUME NEW e PROVE OfToday(e)' = OfToday(e)
    BY <1>3 DEF OfToday
  <1>8. ASSUME NEW o \in Providers \ {p}
        PROVE  made'[o] <= file'[o]["day"].count + Cardinality(Unwritten(o)')
    <2>1. Unwritten(o)' = Unwritten(o)
      BY <1>3, <1>5 DEF Unwritten, OfToday
    <2>2. made'[o] = made[o]
      BY <1>2, <1>3 DEF TypeOK
    <2> QED BY <1>3, <2>1, <2>2 DEF Balanced
  <1>9. made'[p] <= file'[p]["day"].count + Cardinality(Unwritten(p)')
    <2> DEFINE f == Counts(p)
               g == Counts(p)'
    <2>1. /\ f \in [Processes -> Nat] /\ Unwritten(p) = Bars(f) /\ IsFiniteSet(Bars(f))
          /\ Unwritten(p)' = Bars(g)
      <3>1. f \in [Processes -> Nat] /\ Unwritten(p) = Bars(f) /\ IsFiniteSet(Bars(f))
        BY <1>2, UnwrittenCounts
      <3>2. Unwritten(p)' = Bars(g)
        BY DEF Unwritten, Bars, Counts
      <3> QED BY <3>1, <3>2
    <2>2. /\ g \in [Processes -> Nat] /\ g[q] = f[q] + 1
          /\ \A r \in Processes \ {q} : g[r] = f[r]
      <3>1. ASSUME NEW r \in Processes \ {q}
            PROVE  g[r] = f[r]
        <4>1. cache'[r][p] = cache[r][p] /\ flushing'[r][p] = flushing[r][p]
          BY <1>3, <1>5
        <4> QED BY <1>3, <4>1 DEF Counts, OfToday
      <3>2. g[q] = f[q] + 1
        <4>1. /\ OfToday(cache[q][p]) \in Nat /\ OfToday(flushing[q][p]) \in Nat
          BY <1>2, EntryTypes
        <4>2. f[q] = OfToday(cache[q][p]) + OfToday(flushing[q][p])
          BY DEF Counts
        <4>3. g[q] = OfToday(more) + OfToday(flushing[q][p])
          BY <1>3, <1>6 DEF Counts, OfToday
        <4> QED BY <1>4, <4>1, <4>2, <4>3
      <3>3. g = [r \in Processes |-> g[r]]
        BY DEF Counts
      <3>4. ASSUME NEW r \in Processes
            PROVE  g[r] \in Nat
        <4> HIDE DEF f, g
        <4> QED BY <2>1, <3>1, <3>2
      <3> HIDE DEF f, g
      <3> QED BY <3>1, <3>2, <3>3, <3>4
    <2> HIDE DEF f, g
    <2>3. /\ Cardinality(Bars(f)) \in Nat /\ Cardinality(Bars(g)) \in Nat
          /\ Cardinality(Bars(g)) + f[q] = Cardinality(Bars(f)) + g[q]
      BY <2>1, <2>2, BarChanged
    <2>4. made'[p] = made[p] + 1 /\ made[p] \in Nat /\ file[p]["day"].count \in Nat
      BY <1>2, <1>3, EntryTypes DEF TypeOK
    <2>5. made[p] <= file[p]["day"].count + Cardinality(Bars(f))
      BY <2>1 DEF Balanced
    <2>6. f[q] \in Nat
      BY <2>1
    <2> QED BY <1>3, <2>1, <2>2, <2>3, <2>4, <2>5, <2>6
  <1> QED BY <1>8, <1>9 DEF Balanced

LEMMA FlushTakeKeeps ==
  ASSUME IInv, Balanced, NEW q \in Processes, FlushTake(q)
  PROVE  Balanced'
  <1>1. /\ flushing[q] = Blank /\ flushing' = [flushing EXCEPT ![q] = cache[q]]
        /\ cache' = [cache EXCEPT ![q] = Blank]
        /\ UNCHANGED <<now, file, made>>
    BY DEF FlushTake
  <1>2. ASSUME NEW p \in Providers
        PROVE  Unwritten(p)' = Unwritten(p)
    <2>1. ASSUME NEW r \in Processes
          PROVE  OfToday(cache'[r][p]) + OfToday(flushing'[r][p])
                   = OfToday(cache[r][p]) + OfToday(flushing[r][p])
      <3>1. /\ OfToday(cache[r][p]) \in Nat /\ OfToday(flushing[r][p]) \in Nat
        BY EntryTypes DEF IInv
      <3>2. CASE r = q
        <4>1. /\ cache'[r] = Blank /\ flushing[r] = Blank /\ flushing'[r] = cache[r]
          BY <1>1, <3>2 DEF IInv, TypeOK
        <4> QED BY <3>1, <4>1, BlankCounts
      <3>3. CASE r # q
        <4>1. cache'[r] = cache[r] /\ flushing'[r] = flushing[r]
          BY <1>1, <3>3 DEF IInv, TypeOK
        <4> QED BY <4>1
      <3> QED BY <3>2, <3>3
    <2>2. Unwritten(p)'
            = UNION {{r} \X (1 .. OfToday(cache'[r][p]) + OfToday(flushing'[r][p])) : r \in Processes}
      BY <1>1 DEF Unwritten, OfToday
    <2> QED BY <2>1, <2>2 DEF Unwritten
  <1> QED BY <1>1, <1>2 DEF Balanced

LEMMA FlushWriteKeeps ==
  ASSUME IInv, Resting, Balanced, NEW q \in Processes, FlushWrite(q)
  PROVE  Balanced'
  <1>1. /\ flushing' = [flushing EXCEPT ![q] = Blank]
        /\ file' = MergeAll(file, flushing[q])
        /\ UNCHANGED <<now, cache, made>>
    BY DEF FlushWrite
  <1>2. TypeOK
    BY DEF IInv
  <1> SUFFICES ASSUME NEW p \in Providers
               PROVE  made'[p] <= file'[p]["day"].count + Cardinality(Unwritten(p)')
    BY DEF Balanced
  <1> DEFINE f == Counts(p)
             g == Counts(p)'
             n == flushing[q][p]["day"].count
  <1>3. /\ f \in [Processes -> Nat] /\ Unwritten(p) = Bars(f) /\ IsFiniteSet(Bars(f))
    BY <1>2, UnwrittenCounts
  <1>4. Unwritten(p)' = Bars(g)
    BY DEF Unwritten, Bars, Counts
  <1>5. /\ "day" \in Windows /\ n \in Nat
        /\ file[p]["day"].count \in Nat /\ made[p] \in Nat
        /\ OfToday(cache[q][p]) \in Nat /\ OfToday(flushing[q][p]) \in Nat
        /\ OfToday(flushing[q][p]) <= n
    BY <1>2, EntryTypes
  <1>6. file'[p]["day"].count = file[p]["day"].count + n
    <2>1. file[p]["day"] \in Window
      BY <1>2, <1>5 DEF TypeOK, Entry
    <2> QED BY <1>1, <1>5, <2>1 DEF MergeAll, Merge, Window
  <1>7. f[q] = OfToday(cache[q][p]) + OfToday(flushing[q][p])
    BY DEF Counts
  <1>8. /\ g \in [Processes -> Nat] /\ g[q] = OfToday(cache[q][p])
        /\ \A r \in Processes \ {q} : g[r] = f[r]
    <2>1. ASSUME NEW r \in Processes \ {q}
          PROVE  g[r] = f[r]
      <3>1. cache'[r][p] = cache[r][p] /\ flushing'[r][p] = flushing[r][p]
        BY <1>1, <1>2 DEF TypeOK
      <3> QED BY <1>1, <3>1 DEF Counts, OfToday
    <2>2. g[q] = OfToday(cache[q][p])
      <3>1. cache'[q][p] = cache[q][p] /\ flushing'[q][p] = Blank[p]
        BY <1>1, <1>2 DEF TypeOK
      <3>2. g[q] = OfToday(cache[q][p]) + OfToday(Blank[p])
        BY <1>1, <3>1 DEF Counts, OfToday
      <3> QED BY <1>5, <3>2, BlankCounts
    <2>3. g = [r \in Processes |-> g[r]]
      BY DEF Counts
    <2>4. ASSUME NEW r \in Processes
          PROVE  g[r] \in Nat
      <3> HIDE DEF f, g
      <3> QED BY <1>3, <1>5, <2>1, <2>2
    <2> HIDE DEF f, g
    <2> QED BY <2>1, <2>2, <2>3, <2>4
  <1> HIDE DEF f, g, n
  <1>9. /\ Cardinality(Bars(f)) \in Nat /\ Cardinality(Bars(g)) \in Nat
        /\ Cardinality(Bars(g)) + f[q] = Cardinality(Bars(f)) + OfToday(cache[q][p])
    BY <1>3, <1>8, BarChanged
  <1>10. made[p] <= file[p]["day"].count + Cardinality(Bars(f))
    BY <1>3 DEF Balanced
  <1>11. made[p] <= file'[p]["day"].count + Cardinality(Bars(g))
    BY <1>5, <1>6, <1>7, <1>9, <1>10
  <1> QED BY <1>1, <1>4, <1>11

LEMMA KeptStep ==
  ASSUME KeptInv, [Next]_vars
  PROVE  KeptInv'
  <1>1. IInv' /\ Resting'
    BY NextInv, RestingStep DEF KeptInv, IInv
  <1>2. SUFFICES ASSUME AllMemory', ~failed'
                 PROVE  Balanced'
    BY <1>1 DEF KeptInv
  <1>3. useMemory' = useMemory /\ (~failed' => ~failed)
    <2>1. ASSUME NEW t \in Threads,
                 Check(t) \/ CallFails(t) \/ RecordMemory(t) \/ RecordDisk(t) \/ RecordDiskFails(t)
          PROVE  useMemory' = useMemory /\ (~failed' => ~failed)
      BY <2>1 DEF Check, CallFails, RecordMemory, RecordDisk, RecordDiskFails
    <2>2. ASSUME NEW q \in Processes,
                 \/ FlushTake(q) \/ FlushWrite(q) \/ FlushMergesBack(q) \/ FlushDrops(q)
                 \/ Killed(q)
          PROVE  useMemory' = useMemory /\ (~failed' => ~failed)
      BY <2>2 DEF FlushTake, FlushWrite, FlushMergesBack, FlushDrops, Killed
    <2>3. CASE Tick \/ UNCHANGED vars
      BY <2>3 DEF Tick, vars
    <2> QED BY <2>1, <2>2, <2>3 DEF Next
  <1>4. AllMemory /\ ~failed /\ Balanced /\ IInv /\ Resting
    BY <1>2, <1>3 DEF KeptInv, AllMemory
  <1>5. CASE UNCHANGED <<now, file, cache, flushing, made>>
    BY <1>4, <1>5 DEF Balanced, Unwritten, OfToday
  <1>6. ASSUME NEW t \in Threads,
               Check(t) \/ CallFails(t) \/ RecordMemory(t) \/ RecordDisk(t) \/ RecordDiskFails(t)
        PROVE  Balanced'
    <2>1. CASE Check(t) \/ CallFails(t)
      BY <1>5, <2>1 DEF Check, CallFails
    <2>2. CASE RecordMemory(t)
      BY <1>1, <1>4, <1>6, <2>2, RecordMemoryKeeps
    <2>3. ~RecordDisk(t) /\ ~RecordDiskFails(t)
      BY <1>4, ThreadAssumption DEF AllMemory, RecordDisk, RecordDiskFails
    <2> QED BY <1>6, <2>1, <2>2, <2>3
  <1>7. ASSUME NEW q \in Processes, FlushTake(q) \/ FlushWrite(q)
        PROVE  Balanced'
    BY <1>4, <1>7, FlushTakeKeeps, FlushWriteKeeps
  <1>8. ASSUME NEW q \in Processes, FlushMergesBack(q) \/ FlushDrops(q) \/ Killed(q)
        PROVE  FALSE
    BY <1>2, <1>8 DEF FlushMergesBack, FlushDrops, Killed
  <1>9. CASE Tick
    <2>1. UNCHANGED <<file, cache, flushing>>
      BY <1>9 DEF Tick
    <2>2. CASE Date(now') = Date(now)
      <3>1. made' = made
        BY <1>9, <2>2 DEF Tick
      <3>2. ASSUME NEW p \in Providers
            PROVE  Unwritten(p)' = Unwritten(p)
        BY <2>1, <2>2 DEF Unwritten, OfToday
      <3> QED BY <1>4, <2>1, <3>1, <3>2 DEF Balanced
    <2>3. CASE Date(now') # Date(now)
      <3> SUFFICES ASSUME NEW p \in Providers
                   PROVE  made'[p] <= file'[p]["day"].count + Cardinality(Unwritten(p)')
        BY DEF Balanced
      <3>1. made'[p] = 0
        BY <1>9, <2>3 DEF Tick
      <3> DEFINE g == Counts(p)'
      <3>2. file'[p]["day"].count \in Nat
        BY <1>4, <2>1, EntryTypes DEF IInv
      <3>3. Unwritten(p)' = Bars(g)
        BY DEF Unwritten, Bars, Counts
      <3>4. ASSUME NEW q \in Processes
            PROVE  /\ g[q] \in Nat
                   /\ (\A t \in Threads : ProcessOf[t] # q) => g[q] = 0
        <4> DEFINE today(e) == IF e["day"].start = Date(now') THEN e["day"].count ELSE 0
        <4>1. g[q] = today(cache[q][p]) + today(flushing[q][p])
          BY <2>1 DEF Counts, OfToday
        <4>2. cache[q][p]["day"].count \in Nat /\ flushing[q][p]["day"].count \in Nat
          BY <1>4, EntryTypes DEF IInv
        <4>3. (\A t \in Threads : ProcessOf[t] # q) => today(cache[q][p]) = 0 /\ today(flushing[q][p]) = 0
          BY <1>4 DEF Resting, Blank, BlankEntry, Windows
        <4>4. today(cache[q][p]) \in Nat /\ today(flushing[q][p]) \in Nat
          BY <4>2
        <4> HIDE DEF g, today
        <4> QED BY <4>1, <4>3, <4>4
      <3>5. g = [q \in Processes |-> g[q]]
        BY DEF Counts
      <3> HIDE DEF g
      <3>6. IsFiniteSet(Bars(g))
        BY <3>4, <3>5, BarsFinite
      <3> QED BY <3>1, <3>2, <3>3, <3>6, FS_CardinalityType
    <2> QED BY <2>2, <2>3
  <1>10. CASE UNCHANGED vars
    BY <1>5, <1>10 DEF vars
  <1> QED BY <1>6, <1>7, <1>8, <1>9, <1>10 DEF Next

(* With cached limiters, however many processes flush at whatever moments, *)
(* every call recorded today is in the file or still counted for today in  *)
(* a cache or a flush, while no write has failed (_record_call_memory,     *)
(* _flush_memory_cache).                                                   *)
THEOREM NoCallIsLost == Spec => []CallsAreKept
  <1>1. Init => KeptInv
    <2> SUFFICES ASSUME Init
                 PROVE  KeptInv
      OBVIOUS
    <2>1. IInv /\ TypeOK
      BY InitInv DEF IInv
    <2>2. Resting
      BY DEF Init, Resting
    <2>3. Balanced
      <3> SUFFICES ASSUME NEW p \in Providers
                   PROVE  made[p] <= file[p]["day"].count + Cardinality(Unwritten(p))
        BY DEF Balanced
      <3>1. made[p] = 0
        BY DEF Init
      <3>2. file[p]["day"].count \in Nat /\ Cardinality(Unwritten(p)) \in Nat
        BY <2>1, <2>2, EntryTypes, UnwrittenCounts
      <3> QED BY <3>1, <3>2
    <2> QED BY <2>1, <2>2, <2>3 DEF KeptInv
  <1>2. KeptInv => CallsAreKept
    BY DEF KeptInv, Balanced, CallsAreKept
  <1>3. KeptInv /\ [Next]_vars => KeptInv'
    BY KeptStep
  <1> QED BY <1>1, <1>2, <1>3, PTL DEF Spec
=============================================================================
