SPECIFICATION FloorSpec
CONSTANTS
  FrameMs = 30
  SilenceTimeoutMs = 110
  MaxRecordingMs = 260
  MinSpeechMs = 80
  SpeechGapMs = 50
  Levels = {0, 16, 48}
  MinThreshold = 8
  Margin = 8
  RiseAlpha = 2
  FallAlpha = 3
  Den = 4
  AdaptFrames = 3
  RecoverFrames = 2
  Remainder = 3
INVARIANTS
  SpeechMeansARun
  StopsAfterSilence
  SteadyNoiseIsQuiet
  SpeakerIsHeard
