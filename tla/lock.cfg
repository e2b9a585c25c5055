SPECIFICATION FairSpec
CONSTANTS
  w1 = w1
  w2 = w2
  None = None
  Worker = {w1, w2}
  Beating = {w1}
  TTL = 1
  MaxAbandoned = 2
INVARIANTS
  TypeOK
  ExclusiveUntilEvicted
  CascadeNeedsVerdict
  NoLeakedLock
PROPERTIES
  ImplementsLease
  AbandonedLockHealed
