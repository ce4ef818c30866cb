\* A reload that is compiling while the gateway shuts down.
CONSTANTS
  Requests = {r1}
  Closers = {w1, m1}
  Reloaders = {w1}
  Snapshots = {s1, s2}
  None = None
SPECIFICATION GSpec
INVARIANTS
  ShutdownClosesAll
