SPECIFICATION FairSpec
CONSTANTS
  Calls = {"wait_for_wakeword"}
  PipeCap = 1
  TextLen = 1
  MaxOutput = 1
  Strays = {"listener"}
PROPERTY JoinDoesNotBlock
CHECK_DEADLOCK FALSE
