CONSTANTS
  Texts <- MCJumbled
  Sentences <- MCNone
  Idents <- MCIdents
  Relations <- MCRelations
  Attrs <- MCAttrs
SPECIFICATION Spec
INVARIANT
  ClausesSorted
CHECK_DEADLOCK FALSE
