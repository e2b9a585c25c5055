\* A host that carries its own pairs: one site, or both halves over one runtime.
SPECIFICATION Spec
CONSTANTS
  w1 = w1
  p1 = p1
  p2 = p2
  None = None
  Worker = {w1}
  Pair = {p1}
  Signed = {p1}
  Encrypted = {p1}
  Compressed = {p1}
  Own = {p1}
  RequireSig = FALSE
  MaxSend = 1
  MaxFault = 0
  MaxCrash = 1
INVARIANT NoPayloadLost
