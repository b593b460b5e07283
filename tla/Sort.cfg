CONSTANTS
  NumAttr = 2
  Sources <- MCSources
  OrderBy <- MCOrderBy
  Desc <- MCDesc
  NULL = NULL
SPECIFICATION SortSpec
INVARIANT CountsCopies
PROPERTIES
  SortsSource
  Exhausted
