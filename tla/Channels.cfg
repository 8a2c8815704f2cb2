SPECIFICATION Spec
CONSTANTS
  x = x
  y = y
  PublicInput = seed
  Garbage = garbage
  kDigestNumBytes = 5
  NumberBytes = 2
  Byte <- MCByte
  Data <- MCData
  Rejected <- MCRejected
  MaxDraws = 3
  PowBits = {0, 20, 45}
  MaxCalls = 5
INVARIANTS
  TypeOK
  TranscriptBound
  InStep
