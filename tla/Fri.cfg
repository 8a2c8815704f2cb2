SPECIFICATION Spec
CONSTANTS
  Requests <- MCRequests
  MaxHeight = 4
  Bytes = bytes
  Garbage = garbage
  Wrong = wrong
  Uninitialized = uninitialized
INVARIANTS
  TypeOK
  RightProofAccepted
  AcceptedFoldsRight
  OpenedOnce
