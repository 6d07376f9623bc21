CONSTANTS
  t1 = t1
  t2 = t2
  o1 = o1
  o2 = o2
  o3 = o3
  b1 = b1
  b2 = b2
  b3 = b3
  b4 = b4
  Threads <- MCThreads
  Objs <- MCObjs3
  Boxes <- MCBoxes4
  Null = Null
  Methods <- MCMethods
  MaxLost = 1
  ListBound = 1
SYMMETRY Symmetric
SPECIFICATION Spec
INVARIANTS DropsOwnBox OneOwner RefsLive MutRefsExclusive
PROPERTIES ImplementsHandles LeaksOnlyOnException
CHECK_DEADLOCK FALSE
