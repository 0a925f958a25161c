\* One process with one thread and a cache, no failures.
SPECIFICATION Spec
CONSTANTS
  q1 = q1
  q2 = q2
  t1 = t1
  t2 = t2
  Processes = {q1}
  Threads = {t1}
  ProcessOf <- OneProcess
  Providers = {"virustotal"}
  Rolling = {"minute"}
  Length <- MinuteLength
  DayLength = 3
  Limit <- OneAMinuteTwoADay
  NoCall = NoCall
  MaxTime = 3
  MaxCalls = 3
  MayFail = FALSE
INVARIANTS FlushedLimitHolds
CHECK_DEADLOCK FALSE
