SPECIFICATION FairSpec
CONSTANTS
  p1 = p1
  p2 = p2
  i1 = i1
  NoProc = NoProc
  NoItem = NoItem
  Proc = {p1, p2}
  Item = {i1}
  MayCrash = {p2}
  MaxEvents = 1
INVARIANTS
  SomebodyResolves
PROPERTIES
  ResolvingSettles
  CrashedIsReclaimed
  NoPendingLeak
CHECK_DEADLOCK FALSE
