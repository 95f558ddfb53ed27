\* Two possible masters, two assignments; every timer fires at once.
CONSTANTS
  Node = {m1, m2}
  NoNode = NoNode
  Self = Self
  MaxEpoch = 2
  MaxPending = 1
  RecoverLimit = 0
  StuckLimit = 0
SPECIFICATION FairSpec
INVARIANTS TrySyncPending RsyncReleased
PROPERTY AttachedAgain
CHECK_DEADLOCK FALSE
