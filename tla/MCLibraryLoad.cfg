CONSTANTS
  t1 = t1
  t2 = t2
  t3 = t3
  FieldElement = FieldElement
  PoseidonHash = PoseidonHash
  MerklePath = MerklePath
  Threads <- MCThreads
  Wrappers <- MCWrappers
  Sized <- MCSized
  None = None
SPECIFICATION FairSpec
INVARIANTS NativeAfterLoad LoadedOnce FailureIsTotal
PROPERTY UsesEnd
