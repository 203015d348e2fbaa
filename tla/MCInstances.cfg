\* One server and a second one, or one that is restarted or relaunched.
CONSTANTS
  p1 = p1
  p2 = p2
  s1 = s1
  s2 = s2
  Nobody = Nobody
  Left = Left
  None = None
  Process = {p1, p2}
  Socket = {s1, s2}
  MaxTries = 1
  MaxStarts = 3
  MaxUses = 2
SPECIFICATION FairSpec
INVARIANT FilesAgree
INVARIANT SessionSocketFollowsPort
INVARIANT UncontestedPipeIsKept
PROPERTY SocketsSettle
CHECK_DEADLOCK FALSE
