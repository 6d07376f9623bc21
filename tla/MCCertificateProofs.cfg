CONSTANTS
  t1 = t1
  t2 = t2
  d1 = d1
  k1 = k1
  k2 = k2
  k3 = k3
  c1 = c1
  c2 = c2
  NoSig = NoSig
  NoArg = NoArg
  P = 17
  U64 = 8
  MaxPks = 3
  MaxProofs = 1
  OverflowChecks = TRUE
  Threads <- TwoThreads
  Dirs <- MCDirs
  Sizes <- TwoSizes
  Foreign <- OtherKeys
  Keys <- MCKeys
  XCoord <- MCXCoord
  Certs <- MCCerts
  Batches <- FewBatches
  Claims <- FewClaims

SPECIFICATION FairSpec

INVARIANT AcceptedIsSigned

PROPERTY CallsReturn
