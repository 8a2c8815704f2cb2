CONSTANTS
  main = main
  w1 = w1
  w2 = w2
  Main = main
  Workers <- MCWorkers
  TopCalls <- LiveTop
  NestedCalls <- LiveNested
  MaxGroups = 2
  Word <- MCWord
SPECIFICATION FairSpec
PROPERTIES EveryCallReturns
