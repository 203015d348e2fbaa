CONSTANTS
  Interval = 3
  Grace = 2
  IdleTimeouts <- MCIdleTimeouts
SPECIFICATION FairSpec
INVARIANT ExitOnlyAfterQuiet
CHECK_DEADLOCK FALSE
