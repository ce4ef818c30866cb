\* Two requests, one per window of one second.
CONSTANTS
  Requests = {r1, r2}
  Keys = {k1}
  Count = 1
  TimeWindow = 1
  MaxTime = 2
SPECIFICATION LimitSpec
INVARIANTS
  CountPerWindow
