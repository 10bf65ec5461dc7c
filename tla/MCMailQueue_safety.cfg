SPECIFICATION Spec
CONSTANTS
  Jobs = {j1, j2, j3, j4}
  Settlers = {s1, s2}
  QueueSize = 2
  RetryAttempts = 2
  SleepMayReject = TRUE
SYMMETRY JobSymmetry
INVARIANTS
  FifoExactlyOnce
  RetryBudgetExact
  StatsAccountForEveryOffer
  NoStrandedWork
  DisposedIsQuiet
PROPERTIES
  NoSendAfterDispose
  SettleMeansDrained
  ImplementsOutbox
CHECK_DEADLOCK FALSE
