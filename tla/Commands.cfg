SPECIFICATION FairSpec
CONSTANTS
  la = la
  lb = lb
  Labels <- TwoLabels
  NoLabel = none
  Times <- SomeTimes
  CountLimit = 3
  MaxTokens = 6
INVARIANTS
  TypeOK
  SuffixesDistinct
PROPERTIES
  ImplementsScript
  RunEnds
\* A sequence ends, and so does the program.
CHECK_DEADLOCK FALSE
