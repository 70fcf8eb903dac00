SPECIFICATION FairSpec
CONSTANTS
  Main = main
  o1 = o1
  o2 = o2
  Handler = handler
  NoThread = none
  Callbacks <- MCCallbacks
  Budget <- TwoCalls
  Signals = 1
  SignalHosts <- AllThreads
INVARIANTS
  TypeOK
  MutualExclusion
  NoLostWakeup
PROPERTIES
  TerminatedIsFinal
  ImplementsRegister
  CallsReturn
  TerminationReported
\* A handler that interrupts the holder of stateSync stops the program.
CHECK_DEADLOCK FALSE
