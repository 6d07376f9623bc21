CONSTANTS
  h1 = h1
  x = x
  y = y
  Hashes <- MCHashes
  Elements <- MCElements
  Arrays <- MCArrays
  Counts <- MCCounts
  Rate = 2
  Usize = 16
  MaxInputs = 3
SPECIFICATION Spec
PROPERTIES ChangesOnlyOnReturn FinalizeMatchesCalls ComputeAgrees
