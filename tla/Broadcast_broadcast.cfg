SPECIFICATION FairSpec
CONSTANTS
  n1 = n1
  n2 = n2
  c1 = c1
  c2 = c2
  NoNode = NoNode
  Room = Room
  Nobody = Nobody
  Node = {n1, n2}
  Client = {c1, c2}
  Home <- MCHome
  MayCrash = {n2}
  MaxEvents = 3
INVARIANTS
  PlaybackOfGeneration
PROPERTIES
  PlaybackNeverGoesBack
  ImplementsSharedPlayback
  PlaybackConverges
  StructureConverges
CHECK_DEADLOCK FALSE
