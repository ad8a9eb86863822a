CONSTANTS
  filter = filter
  T1 = T1
  T2 = T2
  Types = {"highlight_primary_action", "expand_tooltip"}
  Targets = {filter}
  NoTarget = NoTarget
  Tasks = {T1, T2}
  NoTask = NoTask
  NoType = NoType
  RequiredConsecutiveWindows = 2
  CooldownMs = 2
  DismissalCooldownMs = 3
  EnforceContextEligibility = TRUE
  CommandInputs <- MCCommands
  ContextInputs <- MCContexts
  MaxTime = 4
  MaxStreak = 3
SPECIFICATION Spec
INVARIANTS TypeOK CooldownSpacing DismissalHonoured StreakWithinOneTask
CHECK_DEADLOCK FALSE
