SPECIFICATION Spec
CONSTANTS
  Sessions = {s1}
  Subagents = {s1}
  Configs <- WithDefaults
  Texts = {x1, x2}
  Prompts = {p1, p2}
  Asks = {}
  Anonymous = {}
  Steps = {1}
  Tools = {}
  Kinds = {"completed"}
  Durations <- OnlyLong
  DedupeCapacity = 3
  MaxTurns = 2
  MaxToolErrors = 1
  MaxDecisions = 2
  MaxRedeliveries = 1
SYMMETRY DataSymmetry
INVARIANTS
  TurnsAreToldTruly
  PromptIsTheTurns
  NothingLingers
CHECK_DEADLOCK FALSE
