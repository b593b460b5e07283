CONSTANTS
  Size = 14
  HDR = 2
  PTR = 1
  Requests <- MCRequests
  Deltas <- MCDeltas
SPECIFICATION CallerSpec
INVARIANT NoCollision
