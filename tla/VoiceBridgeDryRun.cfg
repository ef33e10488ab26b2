SPECIFICATION FairSpec
CONSTANTS
  MaxFollowupTurns = 2
  Once = TRUE
  DryRun = TRUE
  AudioPipeline = "local"
  Transport = "cli"
  ResetEnabled = TRUE
  MayCrash = FALSE
INVARIANT FilesOutliveTheirReaders
PROPERTY OnceEnds
