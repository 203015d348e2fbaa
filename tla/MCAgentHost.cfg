CONSTANTS p1 = p1 p2 = p2 r1 = r1 r2 = r2 r3 = r3
CONSTANT Process = {p1, p2}
CONSTANT Request = {r1, r2, r3}
CONSTANT To <- TwoToOne
CONSTANT MaxLoads = 2
CONSTANT MaxRestarts = 1
CONSTANT Nobody = Nobody
SPECIFICATION FairSpec
INVARIANT OneLoadAtATime
INVARIANT NoSettledWait
INVARIANT EveryHostHasCatalogue
INVARIANT OneHostPerServer
INVARIANT UncontestedHostIsReachable
INVARIANT GivesUpAfterAllRestarts
PROPERTY EveryWaitEnds
PROPERTY HostIsReplaced
CHECK_DEADLOCK FALSE
