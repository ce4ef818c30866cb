\* One snapshot, three requests, two concurrent Close() calls.
CONSTANTS
  Requests = {r1, r2, r3}
  Closers = {c1, c2}
  Snapshots = {s1}
  None = None
SPECIFICATION HFairSpec
INVARIANTS
  InFlightExact
  CloseOnce
  NoLostWakeup
  CleanDrain
PROPERTIES
  LoserSeesClosed
  DrainOnlyShrinks
  CloseReturns
