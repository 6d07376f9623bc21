CONSTANTS
  t1 = t1
  t2 = t2
  d1 = d1
  Threads <- MCThreads
  Dirs <- MCDirs
  Sizes <- MCSizes
  Foreign <- MCForeign
  Lengths <- MCLengths
  Segments <- MCSegments
  Options <- MCOptions
  UsizeRange = 256
  ProofSize <- MCProofSize
  VkSize <- MCVkSize
  AtLimit = TRUE

SPECIFICATION QueriesSpec

INVARIANTS
  SetupPairsKeys
  WritersGuarded
  SetupPassesCheck
  TypesTold

PROPERTY GuardReleased
