CONSTANTS
  h1 = h1
  h2 = h2
  l1 = l1
  l2 = l2
  NoHost = NoHost
  Host = {h1, h2}
  Lookup = {l1, l2}
SPECIFICATION FairSpec
CHECK_DEADLOCK FALSE
INVARIANT BestLiveWins
INVARIANT LiveStaysRegistered
PROPERTY LookupsEnd
