CONSTANTS
  Requests <- MCRequests
  Noise <- MCNoise
  VersionLength = 2
  InitCapacity = 2
  OffsetRange = 16
SPECIFICATION Spec
INVARIANTS StaysInInput MessageUnderstood AcceptedIsRequest
CHECK_DEADLOCK FALSE
