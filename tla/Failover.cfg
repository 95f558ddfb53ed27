\* Three elections between two nodes and a restart.
CONSTANTS
  n1 = n1
  n2 = n2
  Node = {n1, n2}
  NoNode = NoNode
  Lengths = {1, 2}
  Item <- MCItem
  Length <- MCLength
  NoItem = NoItem
  FileSize = 1
  MaxFilenum = 1
  MaxOffset = 3
  MaxEpoch = 3
  MaxRestarts = 1
SPECIFICATION FailoverSpec
INVARIANT AttachedAgrees
PROPERTY AllJoin
CHECK_DEADLOCK FALSE
