SPECIFICATION Spec
CONSTANTS
  s1 = s1
  s2 = s2
  s3 = s3
  e = e
  data = data
  long = long
  NoElement = NoElement
  WrongLength = WrongLength
  Null = Null
  Longer <- MCLonger
  IdOrder <- MCIds
  OtherElements <- MCOther
  BufferSize = 2
  Arguments <- MCArguments
  Ops <- MCOps
  WithProofs = TRUE
  MaxAdds = 2
INVARIANTS VerifySound ProofsComplete
PROPERTIES AtomicCalls AddsWhatWasGiven GettersAgree ExactlyOneProof
