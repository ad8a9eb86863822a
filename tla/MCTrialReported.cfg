SPECIFICATION UploadingSpec
CONSTANTS
  MaxTrials = 2
  MaxReloads = 0
  MaxSwitches = 0
  MaxRejections = 0
INVARIANT ReportedMeansStored
CHECK_DEADLOCK FALSE
