CONSTANTS
  t1 = t1
  t2 = t2
  a = a
  z = z
  Trees <- MCTrees
  Leaves <- MCLeaf
  Zero = z
  Invalid = Invalid
  Heights <- MCHeights
  MaxHeight = 2
  Indices <- MCIndices
  Null = Null
  Foreign = TRUE
  U64 = 16
SYMMETRY MCSymmetry
SPECIFICATION Spec
INVARIANTS VerifySound PathsFaithful
PROPERTY TreesIndependent
