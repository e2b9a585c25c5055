SPECIFICATION Spec
CONSTANTS
  p1 = p1
  p2 = p2
  Process <- Both
  MaxAppends = 3
  MaxTears = 1
  MaxStops = 1
INVARIANTS
  TypeOK
  NumberedInOrder
  TearsCostOneEach
PROPERTIES
  Starts
CHECK_DEADLOCK FALSE
