\* One server, two nodes, two tasks at a time: every task on every partition.
CONSTANTS
  n1 = n1
  n2 = n2
  n3 = n3
  Node = {n1, n2}
  NoNode = NoNode
  PState = {"ACTIVE"}
  Server = {s1}
  NoServer = NoServer
  NoTable = NoTable
  FirstTable <- AnyPair
  Offset = {0, 1}
  MaxFaults = 0
  MaxTasks = 2
  MaxEpoch = 2
SPECIFICATION Spec
SYMMETRY Symmetry
INVARIANTS PartitionOK MasterUp
