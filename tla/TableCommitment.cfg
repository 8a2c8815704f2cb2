SPECIFICATION Spec
CONSTANTS
  Tables <- MCTables
  MaxHeight = 6
  kDigestNumBytes = 20
  MaxQueries = 3
  Garbage = garbage
  WrongCell = wrong
INVARIANTS
  TypeOK
  EachCellOnce
PROPERTY ImplementsVectorCommitment
