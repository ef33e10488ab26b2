SPECIFICATION Spec
CONSTANTS
  MaxFollowupTurns = 2
  Once = FALSE
  DryRun = FALSE
  AudioPipeline = "local"
  Transport = "cli"
  ResetEnabled = TRUE
  MayCrash = FALSE
INVARIANT ResetIsMarked
