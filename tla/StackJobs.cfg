\* Safety, what every job comes to with the fairness of goroutines and timers, and the
\* refinement of JobLedger, under one fault of each kind.  MaxTimeouts is the number of
\* jobs: each job makes one call, so no call is denied its timer.
CONSTANTS
  Jobs = {j1, j2}
  Stacks = {s1, s2}
  NoJob = NoJob
  NoStack = NoStack
  MaxRestarts = 1
  MaxAgentRestarts = 1
  MaxTimeouts = 2
  MaxDbErrors = 1
SPECIFICATION FairSpec
INVARIANTS
  LockMatchesWorker
  RunningRowIsLocked
  CompletedMeansDone
  FailureIsReal
  ExclusiveComposeInTime
PROPERTIES
  JobsEnd
  RowsSettle
  LedgerSpec
CHECK_DEADLOCK FALSE
