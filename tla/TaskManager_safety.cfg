CONSTANTS
  main = main
  w1 = w1
  w2 = w2
  Main = main
  Workers <- MCWorkers
  TopCalls <- SafetyTop
  NestedCalls <- SafetyNested
  MaxGroups = 3
  Word <- MCWord
SPECIFICATION Spec
SYMMETRY Symmetry
INVARIANTS
  TypeOK
  SiblingsExact
  NoDanglingGroup
  NoLostWakeup
  WorkConserving
PROPERTY ImplementsParallelFor
