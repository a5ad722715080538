CONSTANTS
  Reqs = {r1, r2}
  NumPages = 2
  StacksPage = 2
  MaxCommits = 1
  MaxKeys = 2
  LastSecond = 2
  NoImage = NoImage
  NoDefs = NoDefs
  NoArchive = NoArchive
  Broken = Broken
SPECIFICATION Spec
INVARIANTS
  KeptBackupsOpen
  DefinitionsFollow
  DefinitionsAreCurrent
  ImagesAreStates
SYMMETRY Symmetry
VIEW View
CHECK_DEADLOCK FALSE
