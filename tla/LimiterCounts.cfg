\* Two processes with a thread each, both ways of recording, with failures.
SPECIFICATION Spec
CONSTANTS
  q1 = q1
  q2 = q2
  t1 = t1
  t2 = t2
  Processes = {q1, q2}
  Threads = {t1, t2}
  ProcessOf <- TwoProcesses
  Providers = {"virustotal"}
  Rolling = {"minute"}
  Length <- MinuteLength
  DayLength = 3
  Limit <- OneAMinuteTwoADay
  NoCall = NoCall
  MaxTime = 3
  MaxCalls = 3
  MayFail = TRUE
INVARIANTS TypeOK OvershootBounded DailyOvershootBounded CallsAreKept WaitIsNeeded
CHECK_DEADLOCK FALSE
