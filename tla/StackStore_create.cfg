\* One client creates stacks, one after the other: is the content of a stack in its history?
CONSTANTS
  Names = {n1}
  Contents = {c0, c1}
  Found = {}
  FreshIds = {i1, i2}
  Reqs = {r1}
  Importer = Importer
  Handlers = {"create"}
  NoId = NoId
  NoName = NoName
  NoContent = NoContent
  NoReq = NoReq
SPECIFICATION Spec
INVARIANTS
  EditsAreRecorded
CHECK_DEADLOCK FALSE
