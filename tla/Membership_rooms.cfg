SPECIFICATION Spec
CONSTANTS
  r1 = r1
  r2 = r2
  u1 = u1
  u2 = u2
  n1 = n1
  n2 = n2
  s1 = s1
  s2 = s2
  NoUser = NoUser
  Room = {r1, r2}
  User = {u1}
  Node = {n1}
  Socket = {s1, s2}
  UserOf <- OneUser
  NodeOf <- OneNode
  DefaultJoinRole = "guest"
  Mutators = {s1}
  Leavers = {s1}
  MaxJoins = 2
  MayCrash = {}
  Sweepers = {}
  DyingRooms = {}
INVARIANTS
  TypeOK
  OneRefPerSocket
  NoGhostPresence
CHECK_DEADLOCK FALSE
