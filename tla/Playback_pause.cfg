SPECIFICATION Spec
CONSTANTS
  i1 = i1
  i2 = i2
  i3 = i3
  u1 = u1
  NoItem = NoItem
  Item = {i1, i3}
  LocalItem = {i3}
  User = {u1}
  Sharer <- OneSharer
  Rate = {1}
  Position = {0}
  PlaylistLimit = 2
  Skew = 0
  MaxNow = 2
  MaxClock = 3
PROPERTIES
  PauseKeepsPlayhead
CHECK_DEADLOCK FALSE
