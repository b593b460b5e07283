CONSTANTS
  Characters <- MCChars
  Texts <- MCTexts
  Letters <- MCLetters
  Digits <- MCDigits
  Blanks <- MCBlanks
  LineEnds <- MCLineEnds
  Clauses <- MCClauses
  ReservedWords <- MCReserved
  Operators <- MCOperators
  Functions <- MCFunctions
  AggrFunctions <- MCAggrFunctions
  QT_STRING = "quote"
  QT_IDENT = "dquote"
SPECIFICATION Spec
INVARIANTS
  TypeOK
  InOrder
  LongestMatch
  NothingLost
PROPERTIES
  SecondReading
  ReadingEnds
CHECK_DEADLOCK FALSE
