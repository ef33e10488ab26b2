SPECIFICATION FairSpec
CONSTANTS
  MaxFollowupTurns = 2
  Once = FALSE
  DryRun = FALSE
  AudioPipeline = "gateway"
  Transport = "websocket"
  ResetEnabled = TRUE
  MayCrash = TRUE
INVARIANTS
  StateFollowsControl
  NoEcho
  NothingSentUnheard
  NoAudioAtRest
PROPERTIES
  LogPairsLines
  NoSilentFailure
  NoNewWorkAfterShutdown
  KeepsPromise
  ShutdownExits
  ConversationEnds
