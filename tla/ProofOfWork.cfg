SPECIFICATION FairSearchSpec
CONSTANTS
  Word = 16
  ThreadCount = 3
  ChunkSize = 2
  ValidSets <- MCValidSets
INVARIANTS
  SearchTypeOK
  LowestNonce
  NotFoundMeansNone
PROPERTIES
  SearchedOnce
  ProveReturns
