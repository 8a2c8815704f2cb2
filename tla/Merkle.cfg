SPECIFICATION Spec
CONSTANTS
  d0 = d0
  d1 = d1
  d2 = d2
  d3 = d3
  d4 = d4
  d5 = d5
  d6 = d6
  d7 = d7
  Leaves <- MCLeaves
  Trees <- MCTrees
  MaxHeight = 3
  WrongLeaf = wrong
INVARIANTS
  TypeOK
  SegmentsDisjoint
  RootIsOfData
PROPERTIES
  ImplementsVectorCommitment
