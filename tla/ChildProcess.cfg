SPECIFICATION FairSpec
CONSTANTS
  Calls = {"wait_for_wakeword", "normalize_audio", "transcribe", "run_openclaw", "synthesize_and_play", "play_chime"}
  PipeCap = 2
  TextLen = 2
  MaxOutput = 3
  Strays = {"ffmpeg", "whisper", "openclaw", "piper", "player"}
INVARIANT NothingLeftRunning OutputComplete
PROPERTY NoPipeStall CallEnds
CHECK_DEADLOCK FALSE
