CONSTANTS
  t1 = t1
  t2 = t2
  NullPointerException = NullPointerException
  JavaException = JavaException
  Threads <- MCThreads
  Raised <- MCRaised
  Runtime = Runtime
  JvmError = JvmError
  None = None
SPECIFICATION FairSpec
PROPERTIES FirstExceptionWins DefaultIffException CallsComplete
CHECK_DEADLOCK FALSE
