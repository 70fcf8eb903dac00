SPECIFICATION Spec
CONSTANTS
  MaxLen = 4
  MaxLoopLen = 8
  Characters <- AllCharacters
  Texts <- AnyText
  Programs <- WrittenPrograms
  UIntSize = 100
  MaxDigits = 2
INVARIANTS
  TypeOK
  ReadsWhatIsWritten
  OnePerPhrase
\* A text ends, and so does its parsing.
CHECK_DEADLOCK FALSE
