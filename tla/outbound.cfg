SPECIFICATION FairSpec
CONSTANTS
  v1 = v1
  v2 = v2
  w1 = w1
  w2 = w2
  s1 = s1
  s2 = s2
  c1 = c1
  c2 = c2
  d1 = d1
  None = None
  Service = {v1}
  Worker = {w1, w2}
  Home <- HomeOne
  Source = {s1, s2}
  Content = {c1}
  Place <- PlaceSame
  Compressed = {s1}
  Encrypted = {s1}
  Signing = TRUE
  Dedup = TRUE
  Archiving = TRUE
  Clashing = {}
  MaxId = 5
  MaxProduce = 2
  MaxFault = 2
  MaxCrash = 1
  MaxRevoke = 0
INVARIANTS
  TypeOK
  NoLoss
PROPERTIES
  ImplementsCustody
  PickedUp
  Settled
