\* Two services over one runtime directory, one worker each.
SPECIFICATION Spec
SYMMETRY Symmetric
CONSTANTS
  v1 = v1
  v2 = v2
  w1 = w1
  w2 = w2
  s1 = s1
  s2 = s2
  c1 = c1
  c2 = c2
  d1 = d1
  None = None
  Service = {v1, v2}
  Worker = {w1, w2}
  Home <- HomeEach
  Source = {s1, s2}
  Content = {c1, c2}
  Place <- PlaceSame
  Compressed = {}
  Encrypted = {s1}
  Signing = TRUE
  Dedup = TRUE
  Archiving = FALSE
  Clashing = {}
  MaxId = 4
  MaxProduce = 2
  MaxFault = 1
  MaxCrash = 0
  MaxRevoke = 1
INVARIANTS
  PublishedOnce
  AuditedIsPublished
