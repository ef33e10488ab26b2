SPECIFICATION GFairSpec
CONSTANTS
  Calls = {"chat", "talk", "tts", "probe"}
  Chunks = 2
  EventsOvertake = FALSE
  MaxEvents = 4
  MaxUnread = 1
INVARIANTS
  AnswerIsComplete
  NoWaitAfterTheEnd
PROPERTIES
  CallEnds
  HangupEndsCall
