CONSTANTS
  Relations <- MCRelations
  Arity = 2
  IndexAttr = 0
  Keys = {0}
  Garbage <- MCGarbage
  Outers <- MCOuters
  Plans <- MCPlans
  NULL <- MCNull
SPECIFICATION JoinSpec
PROPERTIES
  JoinAnswers
  Exhausted
