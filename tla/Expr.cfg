SPECIFICATION Spec
CONSTANTS
  Tokens <- TokenSet
  Queries <- QuerySet
  AttrType <- Types
  Rows <- RowSet
  Stray <- StraySet
INVARIANTS
  StackOrdered
  Grouping
  StringsBuilt
  AsMeant
  BackRestored
  TypePredicts
CHECK_DEADLOCK FALSE
