SPECIFICATION LogSpec
CONSTANTS
  MaxLines = 3
  DiskMayFail = FALSE
  MayBeKilled = FALSE
INVARIANT LinesSeparate
CHECK_DEADLOCK FALSE
