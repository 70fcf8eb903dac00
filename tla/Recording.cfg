SPECIFICATION FairSpec
CONSTANTS
  Main = main
  s1 = s1
  s2 = s2
  Calls <- TwoCalls
  Signals = 1
  Records = 2
  Millis <- ThreeMillis
  FrameLens <- LongFrame
  BytesPerMilli = 2
  SilenceBytes = 4
  MaxDetection = 4
  WordSize = 32
  IntSize = 16
  WrittenCap = 7
INVARIANTS
  TypeOK
  AssertHolds
  NoStaleWakeup
  MaxMillisHonoured
PROPERTIES
  FullLength
  ImplementsPlayer
  RecordingEnds
\* Main waits for ever when no media arrives and no stream is closed.
CHECK_DEADLOCK FALSE
