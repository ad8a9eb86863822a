CONSTANTS
  Types <- MCTypes
  NoType = NoType
  Targets = {}
  NoTarget = NoTarget
  NoTask = NoTask
  NoFlight = NoFlight
  Never = Never
  Sections <- MCSections
  Plan <- MCPlan
  RequiredConsecutiveWindows = 2
  CooldownMs = 2
  DismissalCooldownMs = 3
  HasTtl = TRUE
  MaxSwitches = 0
  MaxEpisodes = 2
  MaxTime = 1
  MaxStreak = 3
SPECIFICATION RefractorySpec
PROPERTY RefractoryPeriod
CHECK_DEADLOCK FALSE
