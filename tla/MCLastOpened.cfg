CONSTANTS
  t1 = t1
  f1 = f1
  f2 = f2
  w1 = w1
  None = None
  Tab = {t1}
  Folder = {f1}
  WorkspaceFile = {w1}
  CommandLine = w1
SPECIFICATION FairSpec
CHECK_DEADLOCK FALSE
INVARIANT RedirectsEnd
INVARIANT AskedIsServed
PROPERTY EveryVisitEnds
