SPECIFICATION Spec
CONSTANTS
  i1 = i1
  i2 = i2
  i3 = i3
  u1 = u1
  NoItem = NoItem
  Item = {i1, i2, i3}
  LocalItem = {i3}
  User = {u1}
  Sharer <- OneSharer
  Rate = {1, 2}
  Position = {0, 2}
  PlaylistLimit = 3
  Skew = 1
  MaxNow = 2
  MaxClock = 4
INVARIANTS
  TypeOK
  MediaIsCurrent
PROPERTIES
  SwitchRestarts
  OnlyItsOwnFateSwitches
  MovesAreStamped
  SmallJumps
CHECK_DEADLOCK FALSE
