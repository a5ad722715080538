CONSTANTS
  Reqs = {r1}
  NumPages = 2
  StacksPage = 2
  MaxCommits = 1
  MaxKeys = 1
  LastSecond = 1
  NoImage = NoImage
  NoDefs = NoDefs
  NoArchive = NoArchive
  Broken = Broken
SPECIFICATION Spec
PROPERTIES
  ContainsDatabase
CHECK_DEADLOCK FALSE
