SPECIFICATION SearchSpec
CONSTANTS
  Word = 16
  ThreadCount = 3
  ChunkSize = 2
  ValidSets <- MCValidSets
INVARIANT FinishedSearching64Bits
