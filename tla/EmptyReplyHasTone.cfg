SPECIFICATION Spec
CONSTANTS
  MaxFollowupTurns = 2
  Once = FALSE
  DryRun = FALSE
  AudioPipeline = "gateway"
  Transport = "websocket"
  ResetEnabled = TRUE
  MayCrash = FALSE
INVARIANT EmptyReplyIsToneless
