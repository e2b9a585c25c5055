SPECIFICATION Spec
CONSTANTS
  s1 = s1
  d1 = d1
  d2 = d2
  d3 = d3
  c1 = c1
  c2 = c2
  c3 = c3
  i1 = i1
  i2 = i2
  i3 = i3
  v1 = v1
  v2 = v2
  None = None
  Source <- RivalSources
  Dest <- RivalDests
  Volume <- RivalVolumes
  Call = {c1, c2, c3}
  From <- RivalFrom
  To <- RivalTo
  Version = {v1, v2}
  Inode = {i1, i2, i3}
  MaxLosses = 1
SYMMETRY Interchangeable
INVARIANTS
  TypeOK
  NoLoss
  DestinationWhole
PROPERTIES
  ImplementsRelocation
CHECK_DEADLOCK FALSE
