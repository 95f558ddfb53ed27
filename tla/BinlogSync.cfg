\* Items of two lengths, two files, two tasks.
CONSTANTS
  i1 = i1
  i2 = i2
  Item = {i1, i2}
  NoItem = NoItem
  Length <- MCLength
  FileSize = 1
  MaxFilenum = 1
  MaxOffset = 3
  Task = {t1, t2}
  NoTask = NoTask
SYMMETRY Symmetry
SPECIFICATION Spec
INVARIANTS LabelsOK SlaveIsPrefix
PROPERTY CopySpec
CHECK_DEADLOCK FALSE
