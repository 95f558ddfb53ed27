\* Two workers add tasks concurrently, two senders serve them.
CONSTANTS
  Name = {n1, n2}
  Task = {t1, t2}
  Sender = {s1, s2}
  Worker = {w1, w2}
  NoTask = NoTask
  NoHandle = NoHandle
  Freed = Freed
  NoCall = NoCall
  MaxSequence = 2
  MaxFilenum = 1
SPECIFICATION FairSpec
INVARIANTS TaskOwned IndexAgrees CurrentTask
PROPERTY EveryTaskServed
CHECK_DEADLOCK FALSE
