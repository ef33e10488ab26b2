SPECIFICATION PathSpec
CONSTANTS
  MaxLines = 4
  DiskMayFail = TRUE
  MayBeKilled = FALSE
  Lower <- LowerCase
  Configs <- Files
  Transcripts <- Understood
  Outputs <- Printed
INVARIANT ArgumentsReachPrograms LogTellsTheRound FilterIgnoresSpelling SilenceIsJustified TextsInOrder
CHECK_DEADLOCK FALSE
