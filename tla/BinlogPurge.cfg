\* Files are purged while two slaves read them.
CONSTANTS
  Name = {n1, n2}
  Task = {t1, t2}
  Sender = {s1, s2}
  Worker = {w1}
  NoTask = NoTask
  NoHandle = NoHandle
  Freed = Freed
  NoCall = NoCall
  MaxSequence = 2
  MaxFilenum = 2
  RemainMin = 1
SYMMETRY Symmetry
SPECIFICATION PurgeSpec
INVARIANTS LogComplete TaskFileKept TasksOnlyForSlaves
PROPERTY PurgeOnlyForward
CHECK_DEADLOCK FALSE
