\* One call of each kind, to up to three entries that answer in any order.
CONSTANTS
  r1 = r1
  r2 = r2
  c1 = c1
  c2 = c2
  p1 = p1
  p2 = p2
  Entry = {e1, e2, e3}
  Plain = {e3}
  Record = {r1, r2}
  Streams <- MCStreams
  Chain = {c1, c2}
  Endpoint = {p1, p2}
  Source = {"a", "b"}
  Candidates <- MCCandidates
  Err = Err
  None = None
SPECIFICATION FairSpec
CHECK_DEADLOCK FALSE
INVARIANTS
  YieldedOnce
  StreamIsComplete
  MergedExactly
  FailsOnlyIfAllFail
PROPERTY
  CallEnds
