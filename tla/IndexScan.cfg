CONSTANTS
  Relations <- MCRelations
  Arity = 2
  IndexAttr = 0
  Keys <- MCKeys
  Garbage <- MCGarbage
  Conditions <- MCPlain
  WhichIndex = 0
SPECIFICATION ScanSpec
INVARIANTS
  FirstOccurrence
  SameAnswer
  NoWaste
PROPERTY Shrinks
