CONSTANT MaxForks = 2
SPECIFICATION FairSpec
PROPERTY LivingChildKeepsParent
CHECK_DEADLOCK FALSE
