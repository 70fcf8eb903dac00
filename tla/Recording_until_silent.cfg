SPECIFICATION FairSpec
CONSTANTS
  Main = main
  s1 = s1
  s2 = s2
  Calls <- OneCall
  Signals = 1
  Records = 1
  Millis <- SomeMillis
  FrameLens <- OneFrame
  BytesPerMilli = 2
  SilenceBytes = 4
  MaxDetection = 5
  WordSize = 32
  IntSize = 16
  WrittenCap = 8
PROPERTIES
  SilenceFlagHonoured
\* Main waits for ever when no media arrives and no stream is closed.
CHECK_DEADLOCK FALSE
