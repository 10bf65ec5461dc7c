SPECIFICATION FairSpec
CONSTANTS
  Documents <- MCDocuments
  Events = {e1, e2, e3}
  LineCapacity = 2
  MaxMounts = 3
  MaxObservations = 3
INVARIANTS
  RunsTheLastUsable
  OneListener
  ReleasedIsInert
PROPERTIES
  UnloadResolves
CHECK_DEADLOCK FALSE
