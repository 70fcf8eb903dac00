SPECIFICATION FairSpec
CONSTANTS
  Main = main
  s1 = s1
  s2 = s2
  NULL = null
  Calls <- TwoCalls
  Plays = 1
  MaxFrames = 1
  Signals = 1
PROPERTIES
  TerminationEndsVoice
\* Main waits for ever when it starts a playback after its stream was closed.
CHECK_DEADLOCK FALSE
