\* The deployed code: no pipeline calls heartbeat().  Nobody dies, and the TTL is so
\* long that no lock is near it when the run ends.
SPECIFICATION Spec
CONSTANTS
  w1 = w1
  w2 = w2
  None = None
  Worker = {w1, w2}
  Beating = {}
  TTL = 9
  MaxAbandoned = 0
INVARIANT LockErrorIfHeldByLiveWorker
