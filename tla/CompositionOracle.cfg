SPECIFICATION Spec
CONSTANTS
  Setups <- MCSetups
  MaxLogSize = 4
  MaxQueries = 2
  Nothing = nothing
  Uninitialized = uninitialized
INVARIANTS
  TypeOK
  CommittedInDomainOrder
  CompositionInDomainOrder
  ProverAndVerifierAgree
