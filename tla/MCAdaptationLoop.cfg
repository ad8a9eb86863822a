CONSTANTS
  Types <- MCTypes
  NoType = NoType
  Targets = {}
  NoTarget = NoTarget
  NoTask = NoTask
  NoFlight = NoFlight
  Sections <- MCSections
  Plan <- MCPlan
  RequiredConsecutiveWindows = 2
  CooldownMs = 1
  DismissalCooldownMs = 1
  HasTtl = TRUE
  MaxSwitches = 1
  MaxEpisodes = 2
  MaxTime = 1
  MaxStreak = 2
SPECIFICATION Spec
INVARIANTS TypeOK BaselineNeverAdapts NoLostEnding
PROPERTIES AppliedForCurrentTask
CHECK_DEADLOCK FALSE
