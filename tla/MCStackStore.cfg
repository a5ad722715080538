\* Every handler, two requests at a time beside the start-up import.  The second name is
\* there for the ids to meet: the clock may hand out the id that a discovery would give it.
CONSTANTS
  n1 = n1
  n2 = n2
  Names = {n1, n2}
  Contents = {c0, c1}
  Found = {c0}
  FreshIds <- ClashingIds
  Reqs = {r1, r2}
  Importer = Importer
  Handlers = {"list", "create", "update", "restore", "job", "delete"}
  NoId = NoId
  NoName = NoName
  NoContent = NoContent
  NoReq = NoReq
SPECIFICATION Spec
SYMMETRY Symmetry
INVARIANTS
  HistoryKeepsContent
  HistoryKeepsDeployments
  JobsExclude
PROPERTIES
  RegistrySpec
VIEW View
CONSTRAINTS NoMishap DeletesMeetWriters SecondNameIsCreated
CHECK_DEADLOCK FALSE
