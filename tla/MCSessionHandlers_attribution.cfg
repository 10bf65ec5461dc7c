SPECIFICATION Spec
CONSTANTS
  Sessions = {s1}
  Subagents = {}
  Configs <- OnlyPermissive
  Texts = {x1, x2}
  Prompts = {p1, p2}
  Asks = {}
  Anonymous = {}
  Steps = {1}
  Tools = {}
  Kinds <- TurnEndKinds
  Durations <- ShortAndLong
  DedupeCapacity = 3
  MaxTurns = 2
  MaxToolErrors = 1
  MaxDecisions = 2
  MaxRedeliveries = 0
INVARIANTS
  AttributionTracksTurns
CHECK_DEADLOCK FALSE
