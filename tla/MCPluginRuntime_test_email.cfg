SPECIFICATION FairSpec
CONSTANTS
  Documents <- MCDocuments
  Events = {e1, e2}
  LineCapacity = 2
  MaxMounts = 2
  MaxObservations = 1
INVARIANTS
  TestAgreesWithNotifications
CHECK_DEADLOCK FALSE
