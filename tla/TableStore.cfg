SPECIFICATION Spec
CONSTANTS
  Statements <- StatementSet
  MaxStatements = 3
  IntSize = 2
  MaxString = 4
  StrayInts <- StrayIntSet
  StrayStrings <- StrayStringSet
INVARIANTS
  HeaderReadBack
  RowsSurvive
  NothingElse
  TuplesKept
  FailedLeavesNothing
CHECK_DEADLOCK FALSE
