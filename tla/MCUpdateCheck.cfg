\* A server and the one that replaces it, two requests, and a page beside them.
CONSTANTS
  q1 = q1
  NoValue = NoValue
  Nobody = Nobody
  Server = {old, new}
  PageServer = {old}
  Client = {c1, c2}
  Call = {"check", "page"}
  Key = {"update", "query"}
  Query <- MCQuery
  Value <- MCValue
  MaxTime = 1
  MaxRelease = 2
  Interval = 0
  MaxRedirects = 1
SPECIFICATION UpdateFairSpec
INVARIANT SequentialWritesMerge
INVARIANT TornOnlyByOverlap
INVARIANT RememberedIsHonest
INVARIANT NotOlderThanAsked
PROPERTY ChecksEnd
CHECK_DEADLOCK FALSE
