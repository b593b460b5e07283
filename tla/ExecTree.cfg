CONSTANTS
  Null = Null
  NULL = Null
  Queries <- MCQueries
  Attrs <- MCAttrs
  Rows <- MCRows
SPECIFICATION Spec
INVARIANTS
  RefusedAsNamed
PROPERTIES
  AnswersMeant
  AnswerEnds
CHECK_DEADLOCK FALSE
