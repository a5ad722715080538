CONSTANTS
  s1 = s1
  s2 = s2
  c1 = c1
  c2 = c2
  Reqs = {r1, r2}
  Containers = {c1, c2}
  Volumes = {v1}
  Stacks = {s1, s2}
  StackOf <- MCStackOf
  MountsOf <- MCMountsOf
  MaxChanges = 2
  NoStack = NoStack
  NoReq = NoReq
  NoCache = NoCache
SPECIFICATION FairSpec
INVARIANTS
  FreshAfterAck
  TotalsAreDisjoint
PROPERTIES
  FreshReadsSpec
  RequestsEnd
CHECK_DEADLOCK FALSE
