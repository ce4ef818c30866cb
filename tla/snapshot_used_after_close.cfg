\* The comment of Close(): the snapshot is not used once it has drained.
CONSTANTS
  Requests = {r1, r2}
  Closers = {c1}
  Snapshots = {s1}
  None = None
SPECIFICATION HSpec
INVARIANTS
  NeverUsedAfterClose
