SPECIFICATION FairSpec
CONSTANTS
  c1 = c1
  c2 = c2
  NoCall = nocall
  Calls <- OneCall
  Commands = 2
  Signals = 1
  TicksPerSecond = 2
  Timeouts <- SomeTimeouts
  MaxElapsed = 4
  Accuracy = 2
  Millis <- SomeMillis
PROPERTIES
  CallReturns
  TerminationEnds
  TimeoutNotEarly
  WaitAccurate
\* The program ends.
CHECK_DEADLOCK FALSE
