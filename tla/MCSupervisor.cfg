\* A server, its replacement, and the replacement of that.
CONSTANT MaxForks = 3
SPECIFICATION ParentFairSpec
INVARIANT OnlyCurrentWatched
INVARIANT NoStrayChild
PROPERTY SupersededExitIgnored
PROPERTY HandshakeSettles
PROPERTY DisposalEnds
CHECK_DEADLOCK FALSE
