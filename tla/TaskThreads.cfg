CONSTANTS
  SendInterval = 3
  HeartbeatInterval = 7
  ServerIntervals = {2}
  Timeout = 2
  RetryGap = 1
  MaxRetries = 3
  MaxEvents = 1
  StartFails = TRUE
  ThreadDies = TRUE
  Horizon = 9
SPECIFICATION TasksSpec
INVARIANTS ThreadsTypeOK StopsInTime OrderlyExit  RetriesEndInTime
PROPERTIES OnSchedule
