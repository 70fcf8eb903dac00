SPECIFICATION Spec
CONSTANTS
  c1 = c1
  c2 = c2
  Calls <- TwoCalls
  NULL = NULL
  Garbage = Garbage
  Parties <- SomeParties
  Commands = 3
  Signals = 1
SYMMETRY Alike
INVARIANTS
  TypeOK
  OnlyKnownCrashes
  QuietWhenDestroyed
  WritesToOpenSession
  FilterOfOwnCalls
