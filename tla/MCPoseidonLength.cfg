CONSTANTS
  h1 = h1
  x = x
  y = y
  Hashes <- MCHashes
  Elements <- MCElements
  Arrays <- MCArrays
  Counts <- PositiveCounts
  Rate = 2
  Usize = 16
  MaxInputs = 2
SPECIFICATION Spec
PROPERTY WrongLengthRaises
