CONSTANTS
  s1 = s1
  s2 = s2
  m1 = m1
  m2 = m2
  n1 = n1
  n2 = n2
  identity = identity
  outside = outside
  Secrets <- MCSecrets
  Messages <- MCMessages
  Nonces <- MCNonces
  Identity = identity
  Outside = outside
  IdentityRead = TRUE
  MaxHeld = 3
  MaxWires = 2
  MaxMade = 2

SYMMETRY MCSymmetry

SPECIFICATION Spec

INVARIANTS
  VerifiedWasSigned
  OneOutput
