SPECIFICATION Spec
CONSTANTS
  c1 = c1
  c2 = c2
  NoCall = nocall
  Calls <- TwoCalls
  Commands = 3
  Signals = 1
  TicksPerSecond = 1
  Timeouts <- OneTick
  MaxElapsed = 1
  Accuracy = 2
  Millis <- OneTick
SYMMETRY CallSymmetry
INVARIANTS
  TypeOK
  OneLateDial
  NoStaleSuccess
  EstablishedIsLive
  TonesReachParty
\* The program ends.
CHECK_DEADLOCK FALSE
