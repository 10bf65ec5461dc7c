SPECIFICATION Spec
CONSTANTS
  Sessions = {s1}
  Subagents = {}
  Configs <- WithSwitchesOff
  Texts = {x1}
  Prompts = {}
  Asks = {a1, a2}
  Anonymous = {a2}
  Steps = {1}
  Tools = {bash}
  Kinds <- CompletedOrError
  Durations <- ShortAndLong
  DedupeCapacity = 2
  MaxTurns = 2
  MaxToolErrors = 0
  MaxDecisions = 4
  MaxRedeliveries = 1
INVARIANTS
  SuppressionIsJustified
  MarkedIsEnqueued
  AnnouncedOnce
CHECK_DEADLOCK FALSE
