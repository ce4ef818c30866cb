\* The watch with three revisions, two failures of the stream and failing reads;
\* two requests on one key over three windows of two seconds; the writers of an
\* old and a new snapshot, two closers, a buffer that cuts a line.
CONSTANTS
  MaxRev = 3
  MaxBreaks = 2
  LoadFaults = TRUE
  Requests = {r1, r2}
  Keys = {k1}
  Count = 2
  TimeWindow = 2
  MaxTime = 6
  Writers = {old, new}
  Closers = {c1, c2}
  Capacity = 3
  MaxLines = 3
SPECIFICATION NodeFairSpec
INVARIANTS
  BadNeverServed
  NoSilentLoss
  NoExitWithoutShutdown
  OverrunOnlyByLate
  HeadersRight
  NothingLost
  FlusherGoneBeforeClose
PROPERTIES
  NeverGoesBack
  EventuallyServed
  CloseReturns
  EventuallyFlushed
