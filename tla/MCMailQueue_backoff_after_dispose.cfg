SPECIFICATION FairSpec
CONSTANTS
  Jobs = {j1, j2, j3}
  Settlers = {s1}
  QueueSize = 1
  RetryAttempts = 1
  SleepMayReject = FALSE
PROPERTIES
  NoBackoffAfterDispose
CHECK_DEADLOCK FALSE
