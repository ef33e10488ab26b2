SPECIFICATION GSpec
CONSTANTS
  Calls = {"chat"}
  Chunks = 2
  EventsOvertake = TRUE
  MaxEvents = 4
  MaxUnread = 1
INVARIANTS
  AnswerIsComplete
