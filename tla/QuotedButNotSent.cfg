SPECIFICATION PathSpec
CONSTANTS
  MaxLines = 4
  DiskMayFail = FALSE
  MayBeKilled = FALSE
  Lower <- LowerCase
  Configs <- Files
  Transcripts <- Understood
  Outputs <- Printed
INVARIANT QuotedInputIsTransmitted
CHECK_DEADLOCK FALSE
