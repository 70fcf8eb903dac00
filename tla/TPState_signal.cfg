SPECIFICATION FairSpec
CONSTANTS
  Main = main
  o1 = o1
  o2 = o2
  Handler = handler
  NoThread = none
  Callbacks <- MCCallbacks
  Budget <- OneCallback
  Signals = 1
  SignalHosts <- MainThread
PROPERTIES
  SignalTakesEffect
\* A handler that interrupts the holder of stateSync stops the program.
CHECK_DEADLOCK FALSE
