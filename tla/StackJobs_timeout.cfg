\* One call outlasts the HTTP client: do the compose processes still exclude each other?
CONSTANTS
  Jobs = {j1, j2}
  Stacks = {s1}
  NoJob = NoJob
  NoStack = NoStack
  MaxRestarts = 0
  MaxAgentRestarts = 0
  MaxTimeouts = 1
  MaxDbErrors = 0
SPECIFICATION Spec
INVARIANTS
  ExclusiveCompose
CHECK_DEADLOCK FALSE
