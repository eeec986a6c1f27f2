SPECIFICATION FairSpec
CONSTANTS
  c1 = c1
  c2 = c2
  c3 = c3
  r1 = r1
  p1 = p1
  p2 = p2
  p3 = p3
  p4 = p4
  Call = {c1, c2, c3}
  Room = {r1}
  Proc = {p1, p2, p3, p4}
  RoomOf <- AllOnOneRoom
  ProcOf <- OneCallEach
  Creators = {c1, c2}
  Touchers = {p4}
  Deleters = {p4}
  MaxAttempts = 2
INVARIANT TypeOK
PROPERTIES
  OverwritesOnlyWhatItRead
  ImplementsAtomicRoom
  EveryCallEnds
