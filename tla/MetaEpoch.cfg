\* Two servers, one of which may crash once, or one floyd call may fail.
CONSTANTS
  n1 = n1
  n2 = n2
  n3 = n3
  Node = {n1}
  NoNode = NoNode
  PState = {"ACTIVE", "STUCK"}
  Server = {s1, s2}
  NoServer = NoServer
  NoTable = NoTable
  FirstTable <- AnyPair
  Offset = {0}
  MaxFaults = 1
  MaxTasks = 1
  MaxEpoch = 2
SPECIFICATION Spec
SYMMETRY Symmetry
INVARIANTS NoEpochFallback CacheNotOlder LeaderInStep
