CONSTANTS
  Types <- MCTypes
  NoType = NoType
  Targets = {}
  NoTarget = NoTarget
  NoTask = NoTask
  NoFlight = NoFlight
  Sections <- MCSections
  Plan <- MCPlan
  RequiredConsecutiveWindows = 2
  CooldownMs = 1
  DismissalCooldownMs = 2
  HasTtl = TRUE
  MaxSwitches = 0
  MaxEpisodes = 1
  MaxTime = 1
  MaxStreak = 3
SPECIFICATION Spec
PROPERTY StepsAreTheUsers
CHECK_DEADLOCK FALSE
