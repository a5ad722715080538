CONSTANTS
  Stacks = {s1, s2}
  SystemStacks = {s2}
  Projects = {p1}
  p1 = p1
  c1 = c1
  c2 = c2
  Containers = {c1, c2}
  ProjectOf <- MCProjectOf
  Images = {i1}
  Volumes = {v1}
  Networks = {n1, b1}
  BuiltinNetworks = {b1}
  MaxStacksCalls = 1
  MaxContainersCalls = 1
  MaxResourcesCalls = 2
  MaxHostCalls = 2
  MaxPolls = 1
  MaxJobs = 1
  KeepEvents = 2
  MaxBackups = 2
SPECIFICATION Spec
INVARIANTS
  PanelTypeOK
  ShownBelongs
  StreamsBelong
  AcksShown
VIEW View
CHECK_DEADLOCK FALSE
