SPECIFICATION FairSpec
CONSTANTS
  c1 = c1
  c2 = c2
  NoCall = nocall
  Calls <- OneCall
  Commands = 1
  Signals = 0
  TicksPerSecond = 1
  Timeouts <- OneTick
  MaxElapsed = 1
  Accuracy = 2
  Millis <- OneTick
PROPERTIES
  AnswerReturns
\* The program ends.
CHECK_DEADLOCK FALSE
