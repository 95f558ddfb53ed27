\* One server that resigns, crashes and comes back as often as it likes, two
\* diff items fetched together.
CONSTANTS
  Server = {s1}
  NoServer = NoServer
  Diff = {d1, d2}
  NoDiff = NoDiff
  MigrateOnce = 2
  MaxCopies = 1
  MinRefer = 0
SPECIFICATION FairSpec
INVARIANTS HeadHasItems OutCounted
PROPERTY RefersReturn
