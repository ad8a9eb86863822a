SPECIFICATION Spec
CONSTANTS
  MaxTrials = 2
  MaxReloads = 1
  MaxSwitches = 1
  MaxRejections = 1
INVARIANTS
  TypeOK
  StoredInOrder
  UploadedMeansStored
  NextTrialIsFresh
  RowsAreWholeTrials
  OneOpenSession
  FailedUploadIsKept
\* The bounds are reached: no task, reload or switch is left.
CHECK_DEADLOCK FALSE
