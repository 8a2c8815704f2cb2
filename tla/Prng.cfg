SPECIFICATION PrngSpec
CONSTANTS
  m1 = m1
  kDigestNumBytes = 5
  Messages <- MCMessages
  RequestSizes <- MCRequestSizes
  MaxCounter = 3
  MaxMixes = 1
INVARIANTS
  PrngTypeOK
  NeverRepeats
PROPERTIES
  DependsOnAllMessages
CHECK_DEADLOCK FALSE
