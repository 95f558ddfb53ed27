\* Two servers; any call to floyd may fail, writes may be lost, tasks refused, and
\* the lock may run out within a round.
CONSTANTS
  s1 = s1
  s2 = s2
  Server = {s1, s2}
  NoServer = NoServer
  Timeout = 3
  RemainThreshold = 1
  LockTimeout = 1
  Gap = 1
SPECIFICATION Spec
INVARIANTS OneLeader OneUpdater
PROPERTIES NotStolen Elected
