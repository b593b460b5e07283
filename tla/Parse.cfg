CONSTANTS
  Texts <- MCTexts
  Sentences <- MCSentences
  Idents <- MCIdents
  Relations <- MCRelations
  Attrs <- MCAttrs
SPECIFICATION Spec
INVARIANTS
  SentencesParsed
  PlanAsTold
  ColumnsAsTold
  NothingLeftOpen
PROPERTIES
  ParseEnds
CHECK_DEADLOCK FALSE
