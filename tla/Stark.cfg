CONSTANTS
  kModulus = 257
  WordBits = 11
  GeneratorUint = 3
  kMontgomeryR = 249
  kMontgomeryRSquared = 64
  kMontgomeryRCubed = 2
  kMontgomeryMPrime = 255
  kWordSize = 1
  kNumRounds = 2
  k_mds_matrix <- MCMdsMatrix
  k_mds_matrix_inverse <- MCMdsMatrixInverse
  k_round_constants <- MCRoundConstants
  Setups <- MCSetups
  Challenge <- MCChallenge
  Nothing = Nothing

SPECIFICATION Spec
INVARIANTS
  TypeOK
  InStep
  HonestProofAccepted
  AcceptedChainIsRight
  AcceptedValuesAreRight
  DegreesAdjusted
  FieldExact
