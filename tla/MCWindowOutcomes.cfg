CONSTANTS
  Stride = 2
  Settlement = 1
  MinEvents = 2
  Retention = 2
  Capacity = 2
  LookaheadMin = 1
  LookaheadMax = 4
  Grace = 1
  DeriverRetention = 1
  MaxBuffered = 2
  RapidScrollMin = 2
  HoverDwellMin = 2
  TieTolerance = 0
  Tolerance = 1
  KindsAt <- MCKindsAt
  NoGrid = NoGrid
  ClockSteps <- MCClockSteps
  MaxTime = 9
  MaxEvents = 3
  MaxSessions = 1
  MaxLives = 1
SPECIFICATION Spec
INVARIANTS TypeOK EventsCountedOnce OpenSlotsKeepTheirEvents WindowsLabelledOnce LabelsAreJustified NoOrphanedWindows
CHECK_DEADLOCK FALSE
