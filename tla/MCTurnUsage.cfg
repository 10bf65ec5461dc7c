SPECIFICATION Spec
CONSTANTS
  Tokens = {1}
  Caches = {0, 2}
  MaxSafe = 3
  MaxAccountedSteps = 2
  MaxAccountedSettlements = 3
  MaxCalls = 4
  MaxReplays = 2
INVARIANTS
  CompleteIsComplete
  NeverOverstated
CHECK_DEADLOCK FALSE
