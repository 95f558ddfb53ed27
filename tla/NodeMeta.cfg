\* Two meta servers, one table, two epochs.
CONSTANTS
  m1 = m1
  m2 = m2
  t1 = t1
  Meta = {m1, m2}
  NoMeta = NoMeta
  Table = {t1}
  Role = {"none", "master"}
  MaxEpoch = 2
  MaxTasks = 2
SPECIFICATION Spec
INVARIANTS ViewBacked PullPending
PROPERTY Converges
