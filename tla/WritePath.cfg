\* Two clients and the receiver, checkpoints and crashes. A batch of one key deletes
\* as del does. No symmetry, for liveness.
CONSTANTS
  w1 = w1
  w2 = w2
  k1 = k1
  v1 = v1
  rcv = rcv
  tag = tag
  nil = nil
  none = none
  Worker = {w1, w2}
  Receiver = rcv
  Value = {v1}
  NoValue = none
  Tag = tag
  NoName = nil
  Kind = {"del", "batch", "deltag", "list", "flush"}
  Key = {k1, nil}
  Tagged = {k1}
  MaxTail = 2
SPECIFICATION Spec
INVARIANTS OrderAgrees IteratorsLive StuckIsQuiet SnapshotServes
PROPERTY UpdateHappens
