SPECIFICATION FairSpec
CONSTANTS
  w1 = w1
  p1 = p1
  p2 = p2
  None = None
  Worker = {w1}
  Pair = {p1}
  Signed = {p1}
  Encrypted = {p1}
  Compressed = {p1}
  Own = {}
  RequireSig = TRUE
  MaxSend = 2
  MaxFault = 1
  MaxCrash = 1
INVARIANTS
  TypeOK
  NoPayloadLost
  OnlyGenuineDelivered
  OneDeliveryPerLapse
  QuarantinedForCause
PROPERTIES
  ImplementsReception
  PayloadResolved
