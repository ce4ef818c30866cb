\* One request, the watch goroutine reloading twice, and a shutdown.
CONSTANTS
  Requests = {r1}
  Closers = {w1, m1}
  Reloaders = {w1}
  Snapshots = {s1, s2, s3}
  None = None
SPECIFICATION GFairSpec
INVARIANTS
  OneOwner
PROPERTIES
  ImplementsRegister
  RequestLeavesLoop
  ReloadReturns
