CONSTANTS
  Interval = 3
  Grace = 2
  IdleTimeouts <- MCIdleTimeouts
SPECIFICATION FairSpec
INVARIANT OneProbe
INVARIANT AliveIsWatched
INVARIANT NoExitWhileConnected
PROPERTY KeepsBeating
PROPERTY IdleShutsDown
CHECK_DEADLOCK FALSE
