CONSTANTS
  Size = 14
  HDR = 2
  PTR = 1
  Requests <- MCRequests
  Deltas <- MCDeltas
SPECIFICATION FairSpec
INVARIANTS
  TypeOK
  StacksTiled
  FragmentMarks
  TopReclaimed
PROPERTIES
  OwnersUndisturbed
  PopEnds
