CONSTANT MaxForks = 2
SPECIFICATION FairSpec
PROPERTY KeepsPromise
CHECK_DEADLOCK FALSE
