CONSTANTS
  Relations <- MCRelations
  Arity = 2
  IndexAttr = 0
  Keys <- MCKeys
  Garbage <- MCGarbage
  Conditions <- MCReversed
  WhichIndex = 0
SPECIFICATION ScanSpec
INVARIANTS
  SameAnswer
