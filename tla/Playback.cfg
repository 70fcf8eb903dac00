SPECIFICATION FairSpec
CONSTANTS
  Main = main
  s1 = s1
  s2 = s2
  NULL = null
  Calls <- TwoCalls
  Plays = 3
  MaxFrames = 2
  Signals = 1
INVARIANTS
  TypeOK
  AssertHolds
  NoStaleWakeup
PROPERTIES
  PlaybackEnds
  ImplementsPlayer
\* Main waits for ever when it starts a playback after its stream was closed.
CHECK_DEADLOCK FALSE
