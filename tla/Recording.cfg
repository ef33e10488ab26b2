SPECIFICATION RFairSpec
CONSTANTS
  FrameMs = 30
  SilenceTimeoutMs = 60
  MaxRecordingMs = 90
  MinSpeechMs = 30
  SpeechGapMs = 30
  RingCapacity = 4
  ScratchLen = 2
  SampleRate = 40
  Channels = 2
  SampleFormat = "I16"
  BufferSizes = {2, 4}
  MaxSamples = 10
INVARIANTS
  InOrder
  NoneUnaccounted
  NoLostWakeup
  ChannelsAligned
  ClockFollowsAudio
PROPERTIES
  ErrorEndsRecording
  NothingBeyondTheLimit
