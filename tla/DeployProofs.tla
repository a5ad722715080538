---------------------------- MODULE DeployProofs ----------------------------
(***************************************************************************)
(* Proofs about Deploy, for any set of builds and of processes that run    *)
(* the script.  IInv is inductive: one lemma per action says that the      *)
(* action preserves it, and each has one step per conjunct.  They all use  *)
(* that the run that acts holds the lock, so that every other run is out.  *)
(***************************************************************************)
EXTENDS Deploy, TLAPS

\* A run at a command holds the lock and knows what the files hold; when compose
\* recreates containers, .deploy.env names a pair.
LEMMA Alone ==
  ASSUME IInv, NEW r \in Runs, pc[r] \in Active
  PROVE  /\ lock = r /\ Progress(r) /\ r # NoRun
         /\ pc[r] \in {"up", "restart"} => deployEnv \in Pairs
         /\ \A q \in Runs : q # r => pc[q] \notin Active
  BY DeployAssumption DEF IInv, LockHeld, TypeOK, Progress, Pulled, MaybePair

LEMMA RecreateType ==
  ASSUME TypeOK, deployEnv \in Pairs, NEW some \in SUBSET Services, Recreate(some)
  PROVE  images' \in [Services -> SUBSET Pairs] /\ containers' \in [Services -> MaybePair]
  BY DEF TypeOK, Recreate, MaybePair

\* A host where nothing was deployed.
LEMMA InitInvariant == Init => IInv
  BY DeployAssumption DEF Init, IInv, TypeOK, LockHeld, PairsPresent, FilesAgree,
     Active, Trapped, MaybePair

\* A run begins: the others are out, since the lock was free.
LEMMA BeginStep ==
  ASSUME IInv, NEW r \in Runs, NEW p \in Pairs, Begin(r, p)
  PROVE  IInv'
<1> USE DeployAssumption DEF MaybePair, Active, Trapped, Services, Mishaps
<1>1. \A q \in Runs : pc[q] \notin Active
  BY DEF IInv, LockHeld, Begin
<1>2. TypeOK'
  BY <1>1 DEF IInv, TypeOK, Begin, files, host
<1>3. LockHeld' /\ FilesAgree'
  BY <1>1 DEF IInv, TypeOK, LockHeld, FilesAgree, Begin, files, host
<1>4. PairsPresent'
  BY <1>1 DEF IInv, TypeOK, PairsPresent, Present, Begin, files, host
<1>5. \A q \in Runs : pc'[q] \in Active => Progress(q)'
  BY <1>1 DEF IInv, TypeOK, PairsPresent, Present, Progress, Pulled, Recorded, Pruning, Begin,
     files, host
<1>6. mishaps' = {} => \A q \in Runs : pc'[q] \in Active => Agreement(q)'
  BY <1>1 DEF IInv, TypeOK, FilesAgree, Agreement, Pulled, Begin, files, host
<1> QED
  BY <1>2, <1>3, <1>4, <1>5, <1>6 DEF IInv

\* The pull adds an image.
LEMMA PullCoreStep ==
  ASSUME IInv, NEW r \in Runs, PullCore(r)
  PROVE  IInv'
<1> USE DeployAssumption DEF MaybePair, Active, Trapped, Services, Mishaps
<1>1. pc[r] \in Active
  BY DEF PullCore
<1>2. TypeOK'
  BY <1>1, Alone DEF IInv, TypeOK, PullCore, Goto, files, host, locals
<1>3. LockHeld'
  BY <1>1, Alone DEF IInv, TypeOK, LockHeld, PullCore, Goto, files, host, locals
<1>4. PairsPresent'
  BY <1>1, Alone DEF IInv, TypeOK, PairsPresent, Present, Progress, Pulled, Recorded, Pruning,
     PullCore, Goto, files, host, locals
<1>5. \A q \in Runs : pc'[q] \in Active => Progress(q)'
  BY <1>1, Alone DEF IInv, TypeOK, PairsPresent, Present, Progress, Pulled, Recorded, Pruning,
     PullCore, Goto, files, host, locals
<1>6. FilesAgree'
  BY <1>1, Alone DEF IInv, TypeOK, FilesAgree, Agreement, Progress, Pulled, Recorded, Pruning,
     PullCore, Goto, files, host, locals
<1>7. mishaps' = {} => \A q \in Runs : pc'[q] \in Active => Agreement(q)'
  BY <1>1, Alone DEF IInv, TypeOK, FilesAgree, Agreement, Progress, Pulled, Recorded, Pruning,
     PullCore, Goto, files, host, locals
<1> QED
  BY <1>2, <1>3, <1>4, <1>5, <1>6, <1>7 DEF IInv

LEMMA PullAgentStep ==
  ASSUME IInv, NEW r \in Runs, PullAgent(r)
  PROVE  IInv'
<1> USE DeployAssumption DEF MaybePair, Active, Trapped, Services, Mishaps
<1>1. pc[r] \in Active
  BY DEF PullAgent
<1>2. TypeOK'
  BY <1>1, Alone DEF IInv, TypeOK, PullAgent, Goto, files, host, locals
<1>3. LockHeld'
  BY <1>1, Alone DEF IInv, TypeOK, LockHeld, PullAgent, Goto, files, host, locals
<1>4. PairsPresent'
  BY <1>1, Alone DEF IInv, TypeOK, PairsPresent, Present, Progress, Pulled, Recorded, Pruning,
     PullAgent, Goto, files, host, locals
<1>5. \A q \in Runs : pc'[q] \in Active => Progress(q)'
  BY <1>1, Alone DEF IInv, TypeOK, PairsPresent, Present, Progress, Pulled, Recorded, Pruning,
     PullAgent, Goto, files, host, locals
<1>6. FilesAgree'
  BY <1>1, Alone DEF IInv, TypeOK, FilesAgree, Agreement, Progress, Pulled, Recorded, Pruning,
     PullAgent, Goto, files, host, locals
<1>7. mishaps' = {} => \A q \in Runs : pc'[q] \in Active => Agreement(q)'
  BY <1>1, Alone DEF IInv, TypeOK, FilesAgree, Agreement, Progress, Pulled, Recorded, Pruning,
     PullAgent, Goto, files, host, locals
<1> QED
  BY <1>2, <1>3, <1>4, <1>5, <1>6, <1>7 DEF IInv

LEMMA WriteEnvStep ==
  ASSUME IInv, NEW r \in Runs, WriteEnv(r)
  PROVE  IInv'
<1> USE DeployAssumption DEF MaybePair, Active, Trapped, Services, Mishaps
<1>1. pc[r] \in Active
  BY DEF WriteEnv
<1>2. TypeOK'
  BY <1>1, Alone DEF IInv, TypeOK, WriteEnv, Goto, files, host, locals
<1>3. LockHeld'
  BY <1>1, Alone DEF IInv, TypeOK, LockHeld, WriteEnv, Goto, files, host, locals
<1>4. PairsPresent'
  BY <1>1, Alone DEF IInv, TypeOK, PairsPresent, Present, Progress, Pulled, Recorded, Pruning,
     WriteEnv, Goto, files, host, locals
<1>5. \A q \in Runs : pc'[q] \in Active => Progress(q)'
  BY <1>1, Alone DEF IInv, TypeOK, PairsPresent, Present, Progress, Pulled, Recorded, Pruning,
     WriteEnv, Goto, files, host, locals
<1>6. FilesAgree'
  BY <1>1, Alone DEF IInv, TypeOK, FilesAgree, Agreement, Progress, Pulled, Recorded, Pruning,
     WriteEnv, Goto, files, host, locals
<1>7. mishaps' = {} => \A q \in Runs : pc'[q] \in Active => Agreement(q)'
  BY <1>1, Alone DEF IInv, TypeOK, FilesAgree, Agreement, Progress, Pulled, Recorded, Pruning,
     WriteEnv, Goto, files, host, locals
<1> QED
  BY <1>2, <1>3, <1>4, <1>5, <1>6, <1>7 DEF IInv

LEMMA UpStep ==
  ASSUME IInv, NEW r \in Runs, Up(r)
  PROVE  IInv'
<1> USE DeployAssumption DEF MaybePair, Active, Trapped, Services, Mishaps
<1>1. pc[r] \in Active
  BY DEF Up
<1>2. TypeOK'
  <2>1. Recreate(Services) /\ deployEnv \in Pairs
    BY <1>1, Alone DEF Up
  <2>2. images' \in [Services -> SUBSET Pairs] /\ containers' \in [Services -> MaybePair]
    BY <2>1, RecreateType DEF IInv
  <2> QED
    BY <2>2, <1>1, Alone DEF IInv, TypeOK, Up, Goto, files, host, locals
<1>3. LockHeld'
  BY <1>1, Alone DEF IInv, TypeOK, LockHeld, Up, Goto, files, host, locals, Recreate
<1>4. PairsPresent'
  BY <1>1, Alone DEF IInv, TypeOK, PairsPresent, Present, Progress, Pulled, Recorded, Pruning,
     Up, Goto, files, host, locals, Recreate
<1>5. \A q \in Runs : pc'[q] \in Active => Progress(q)'
  BY <1>1, Alone DEF IInv, TypeOK, PairsPresent, Present, Progress, Pulled, Recorded, Pruning,
     Up, Goto, files, host, locals, Recreate
<1>6. FilesAgree'
  BY <1>1, Alone DEF IInv, TypeOK, FilesAgree, Agreement, Progress, Pulled, Recorded, Pruning,
     Up, Goto, files, host, locals, Recreate
<1>7. mishaps' = {} => \A q \in Runs : pc'[q] \in Active => Agreement(q)'
  BY <1>1, Alone DEF IInv, TypeOK, FilesAgree, Agreement, Progress, Pulled, Recorded, Pruning,
     Up, Goto, files, host, locals, Recreate
<1> QED
  BY <1>2, <1>3, <1>4, <1>5, <1>6, <1>7 DEF IInv

\* Whatever compose has recreated, it recreated from .deploy.env.
LEMMA UpFailsStep ==
  ASSUME IInv, NEW r \in Runs, UpFails(r)
  PROVE  IInv'
<1> USE DeployAssumption DEF MaybePair, Active, Trapped, Services, Mishaps
<1>1. pc[r] \in Active
  BY DEF UpFails
<1>2. TypeOK'
  <2>1. (\E some \in SUBSET Services : Recreate(some)) /\ deployEnv \in Pairs
    BY <1>1, Alone DEF UpFails
  <2>2. images' \in [Services -> SUBSET Pairs] /\ containers' \in [Services -> MaybePair]
    BY <2>1, RecreateType DEF IInv
  <2> QED
    BY <2>2, <1>1, Alone DEF IInv, TypeOK, UpFails, Goto, files, host, locals
<1>3. LockHeld'
  BY <1>1, Alone DEF IInv, TypeOK, LockHeld, UpFails, Goto, files, host, locals, Recreate
<1>4. PairsPresent'
  BY <1>1, Alone DEF IInv, TypeOK, PairsPresent, Present, Progress, Pulled, Recorded, Pruning,
     UpFails, Goto, files, host, locals, Recreate
<1>5. \A q \in Runs : pc'[q] \in Active => Progress(q)'
  BY <1>1, Alone DEF IInv, TypeOK, PairsPresent, Present, Progress, Pulled, Recorded, Pruning,
     UpFails, Goto, files, host, locals, Recreate
<1>6. FilesAgree'
  BY <1>1, Alone DEF IInv, TypeOK, FilesAgree, Agreement, Progress, Pulled, Recorded, Pruning,
     UpFails, Goto, files, host, locals, Recreate
<1>7. mishaps' = {} => \A q \in Runs : pc'[q] \in Active => Agreement(q)'
  BY <1>1, Alone DEF IInv, TypeOK, FilesAgree, Agreement, Progress, Pulled, Recorded, Pruning,
     UpFails, Goto, files, host, locals, Recreate
<1> QED
  BY <1>2, <1>3, <1>4, <1>5, <1>6, <1>7 DEF IInv

LEMMA CheckStep ==
  ASSUME IInv, NEW r \in Runs, Check(r)
  PROVE  IInv'
<1> USE DeployAssumption DEF MaybePair, Active, Trapped, Services, Mishaps
<1>1. pc[r] \in Active
  BY DEF Check
<1>2. TypeOK'
  BY <1>1, Alone DEF IInv, TypeOK, Check, Goto, files, host, locals
<1>3. LockHeld'
  BY <1>1, Alone DEF IInv, TypeOK, LockHeld, Check, Goto, files, host, locals
<1>4. PairsPresent'
  BY <1>1, Alone DEF IInv, TypeOK, PairsPresent, Present, Progress, Pulled, Recorded, Pruning,
     Check, Goto, files, host, locals
<1>5. \A q \in Runs : pc'[q] \in Active => Progress(q)'
  BY <1>1, Alone DEF IInv, TypeOK, PairsPresent, Present, Progress, Pulled, Recorded, Pruning,
     Check, Goto, files, host, locals
<1>6. FilesAgree'
  BY <1>1, Alone DEF IInv, TypeOK, FilesAgree, Agreement, Progress, Pulled, Recorded, Pruning,
     Check, Goto, files, host, locals
<1>7. mishaps' = {} => \A q \in Runs : pc'[q] \in Active => Agreement(q)'
  BY <1>1, Alone DEF IInv, TypeOK, FilesAgree, Agreement, Progress, Pulled, Recorded, Pruning,
     Check, Goto, files, host, locals
<1> QED
  BY <1>2, <1>3, <1>4, <1>5, <1>6, <1>7 DEF IInv

LEMMA CheckFailsStep ==
  ASSUME IInv, NEW r \in Runs, CheckFails(r)
  PROVE  IInv'
<1> USE DeployAssumption DEF MaybePair, Active, Trapped, Services, Mishaps
<1>1. pc[r] \in Active
  BY DEF CheckFails
<1>2. TypeOK'
  BY <1>1, Alone DEF IInv, TypeOK, CheckFails, Exit, files, host, locals
<1>3. LockHeld'
  BY <1>1, Alone DEF IInv, TypeOK, LockHeld, CheckFails, Exit, files, host, locals
<1>4. PairsPresent'
  BY <1>1, Alone DEF IInv, TypeOK, PairsPresent, Present, Progress, Pulled, Recorded, Pruning,
     CheckFails, Exit, files, host, locals
<1>5. \A q \in Runs : pc'[q] \in Active => Progress(q)'
  BY <1>1, Alone DEF IInv, TypeOK, PairsPresent, Present, Progress, Pulled, Recorded, Pruning,
     CheckFails, Exit, files, host, locals
<1>6. FilesAgree'
  BY <1>1, Alone DEF IInv, TypeOK, FilesAgree, Agreement, Progress, Pulled, Recorded, Pruning,
     CheckFails, Exit, files, host, locals
<1>7. mishaps' = {} => \A q \in Runs : pc'[q] \in Active => Agreement(q)'
  BY <1>1, Alone DEF IInv, TypeOK, FilesAgree, Agreement, Progress, Pulled, Recorded, Pruning,
     CheckFails, Exit, files, host, locals
<1> QED
  BY <1>2, <1>3, <1>4, <1>5, <1>6, <1>7 DEF IInv

LEMMA RecordPreviousStep ==
  ASSUME IInv, NEW r \in Runs, RecordPrevious(r)
  PROVE  IInv'
<1> USE DeployAssumption DEF MaybePair, Active, Trapped, Services, Mishaps
<1>1. pc[r] \in Active
  BY DEF RecordPrevious
<1>2. TypeOK'
  BY <1>1, Alone DEF IInv, TypeOK, RecordPrevious, Goto, files, host, locals
<1>3. LockHeld'
  BY <1>1, Alone DEF IInv, TypeOK, LockHeld, RecordPrevious, Goto, files, host, locals
<1>4. PairsPresent'
  BY <1>1, Alone DEF IInv, TypeOK, PairsPresent, Present, Progress, Pulled, Recorded, Pruning,
     RecordPrevious, Goto, files, host, locals
<1>5. \A q \in Runs : pc'[q] \in Active => Progress(q)'
  BY <1>1, Alone DEF IInv, TypeOK, PairsPresent, Present, Progress, Pulled, Recorded, Pruning,
     RecordPrevious, Goto, files, host, locals
<1>6. FilesAgree'
  BY <1>1, Alone DEF IInv, TypeOK, FilesAgree, Agreement, Progress, Pulled, Recorded, Pruning,
     RecordPrevious, Goto, files, host, locals
<1>7. mishaps' = {} => \A q \in Runs : pc'[q] \in Active => Agreement(q)'
  BY <1>1, Alone DEF IInv, TypeOK, FilesAgree, Agreement, Progress, Pulled, Recorded, Pruning,
     RecordPrevious, Goto, files, host, locals
<1> QED
  BY <1>2, <1>3, <1>4, <1>5, <1>6, <1>7 DEF IInv

LEMMA RecordActiveStep ==
  ASSUME IInv, NEW r \in Runs, RecordActive(r)
  PROVE  IInv'
<1> USE DeployAssumption DEF MaybePair, Active, Trapped, Services, Mishaps
<1>1. pc[r] \in Active
  BY DEF RecordActive
<1>2. TypeOK'
  BY <1>1, Alone DEF IInv, TypeOK, RecordActive, Goto, files, host, locals
<1>3. LockHeld'
  BY <1>1, Alone DEF IInv, TypeOK, LockHeld, RecordActive, Goto, files, host, locals
<1>4. PairsPresent'
  BY <1>1, Alone DEF IInv, TypeOK, PairsPresent, Present, Progress, Pulled, Recorded, Pruning,
     RecordActive, Goto, files, host, locals
<1>5. \A q \in Runs : pc'[q] \in Active => Progress(q)'
  BY <1>1, Alone DEF IInv, TypeOK, PairsPresent, Present, Progress, Pulled, Recorded, Pruning,
     RecordActive, Goto, files, host, locals
<1>6. FilesAgree'
  BY <1>1, Alone DEF IInv, TypeOK, FilesAgree, Agreement, Progress, Pulled, Recorded, Pruning,
     RecordActive, Goto, files, host, locals
<1>7. mishaps' = {} => \A q \in Runs : pc'[q] \in Active => Agreement(q)'
  BY <1>1, Alone DEF IInv, TypeOK, FilesAgree, Agreement, Progress, Pulled, Recorded, Pruning,
     RecordActive, Goto, files, host, locals
<1> QED
  BY <1>2, <1>3, <1>4, <1>5, <1>6, <1>7 DEF IInv

LEMMA SucceedStep ==
  ASSUME IInv, NEW r \in Runs, Succeed(r)
  PROVE  IInv'
<1> USE DeployAssumption DEF MaybePair, Active, Trapped, Services, Mishaps
<1>1. pc[r] \in Active
  BY DEF Succeed
<1>2. TypeOK'
  BY <1>1, Alone DEF IInv, TypeOK, Succeed, Goto, files, host, locals
<1>3. LockHeld'
  BY <1>1, Alone DEF IInv, TypeOK, LockHeld, Succeed, Goto, files, host, locals
<1>4. PairsPresent'
  BY <1>1, Alone DEF IInv, TypeOK, PairsPresent, Present, Progress, Pulled, Recorded, Pruning,
     Succeed, Goto, files, host, locals
<1>5. \A q \in Runs : pc'[q] \in Active => Progress(q)'
  BY <1>1, Alone DEF IInv, TypeOK, PairsPresent, Present, Progress, Pulled, Recorded, Pruning,
     Succeed, Goto, files, host, locals
<1>6. FilesAgree'
  BY <1>1, Alone DEF IInv, TypeOK, FilesAgree, Agreement, Progress, Pulled, Recorded, Pruning,
     Succeed, Goto, files, host, locals
<1>7. mishaps' = {} => \A q \in Runs : pc'[q] \in Active => Agreement(q)'
  BY <1>1, Alone DEF IInv, TypeOK, FilesAgree, Agreement, Progress, Pulled, Recorded, Pruning,
     Succeed, Goto, files, host, locals
<1> QED
  BY <1>2, <1>3, <1>4, <1>5, <1>6, <1>7 DEF IInv

LEMMA UntrapStep ==
  ASSUME IInv, NEW r \in Runs, Untrap(r)
  PROVE  IInv'
<1> USE DeployAssumption DEF MaybePair, Active, Trapped, Services, Mishaps
<1>1. pc[r] \in Active
  BY DEF Untrap
<1>2. TypeOK'
  BY <1>1, Alone DEF IInv, TypeOK, Untrap, Goto, files, host, locals
<1>3. LockHeld'
  BY <1>1, Alone DEF IInv, TypeOK, LockHeld, Untrap, Goto, files, host, locals
<1>4. PairsPresent'
  BY <1>1, Alone DEF IInv, TypeOK, PairsPresent, Present, Progress, Pulled, Recorded, Pruning,
     Untrap, Goto, files, host, locals
<1>5. \A q \in Runs : pc'[q] \in Active => Progress(q)'
  BY <1>1, Alone DEF IInv, TypeOK, PairsPresent, Present, Progress, Pulled, Recorded, Pruning,
     Untrap, Goto, files, host, locals
<1>6. FilesAgree'
  BY <1>1, Alone DEF IInv, TypeOK, FilesAgree, Agreement, Progress, Pulled, Recorded, Pruning,
     Untrap, Goto, files, host, locals
<1>7. mishaps' = {} => \A q \in Runs : pc'[q] \in Active => Agreement(q)'
  BY <1>1, Alone DEF IInv, TypeOK, FilesAgree, Agreement, Progress, Pulled, Recorded, Pruning,
     Untrap, Goto, files, host, locals
<1> QED
  BY <1>2, <1>3, <1>4, <1>5, <1>6, <1>7 DEF IInv

\* The pruning spares what the files name.
LEMMA PruneCoreStep ==
  ASSUME IInv, NEW r \in Runs, PruneCore(r)
  PROVE  IInv'
<1> USE DeployAssumption DEF MaybePair, Active, Trapped, Services, Mishaps
<1>1. pc[r] \in Active
  BY DEF PruneCore
<1>2. TypeOK'
  BY <1>1, Alone DEF IInv, TypeOK, PruneCore, Goto, files, host, locals, Unprotected
<1>3. LockHeld'
  BY <1>1, Alone DEF IInv, TypeOK, LockHeld, PruneCore, Goto, files, host, locals, Unprotected
<1>4. PairsPresent'
  BY <1>1, Alone DEF IInv, TypeOK, PairsPresent, Present, Progress, Pulled, Recorded, Pruning,
     PruneCore, Goto, files, host, locals, Unprotected
<1>5. \A q \in Runs : pc'[q] \in Active => Progress(q)'
  BY <1>1, Alone DEF IInv, TypeOK, PairsPresent, Present, Progress, Pulled, Recorded, Pruning,
     PruneCore, Goto, files, host, locals, Unprotected
<1>6. FilesAgree'
  BY <1>1, Alone DEF IInv, TypeOK, FilesAgree, Agreement, Progress, Pulled, Recorded, Pruning,
     PruneCore, Goto, files, host, locals, Unprotected
<1>7. mishaps' = {} => \A q \in Runs : pc'[q] \in Active => Agreement(q)'
  BY <1>1, Alone DEF IInv, TypeOK, FilesAgree, Agreement, Progress, Pulled, Recorded, Pruning,
     PruneCore, Goto, files, host, locals, Unprotected
<1> QED
  BY <1>2, <1>3, <1>4, <1>5, <1>6, <1>7 DEF IInv

LEMMA PruneAgentStep ==
  ASSUME IInv, NEW r \in Runs, PruneAgent(r)
  PROVE  IInv'
<1> USE DeployAssumption DEF MaybePair, Active, Trapped, Services, Mishaps
<1>1. pc[r] \in Active
  BY DEF PruneAgent
<1>2. TypeOK'
  BY <1>1, Alone DEF IInv, TypeOK, PruneAgent, Goto, files, host, locals, Unprotected
<1>3. LockHeld'
  BY <1>1, Alone DEF IInv, TypeOK, LockHeld, PruneAgent, Goto, files, host, locals, Unprotected
<1>4. PairsPresent'
  BY <1>1, Alone DEF IInv, TypeOK, PairsPresent, Present, Progress, Pulled, Recorded, Pruning,
     PruneAgent, Goto, files, host, locals, Unprotected
<1>5. \A q \in Runs : pc'[q] \in Active => Progress(q)'
  BY <1>1, Alone DEF IInv, TypeOK, PairsPresent, Present, Progress, Pulled, Recorded, Pruning,
     PruneAgent, Goto, files, host, locals, Unprotected
<1>6. FilesAgree'
  BY <1>1, Alone DEF IInv, TypeOK, FilesAgree, Agreement, Progress, Pulled, Recorded, Pruning,
     PruneAgent, Goto, files, host, locals, Unprotected
<1>7. mishaps' = {} => \A q \in Runs : pc'[q] \in Active => Agreement(q)'
  BY <1>1, Alone DEF IInv, TypeOK, FilesAgree, Agreement, Progress, Pulled, Recorded, Pruning,
     PruneAgent, Goto, files, host, locals, Unprotected
<1> QED
  BY <1>2, <1>3, <1>4, <1>5, <1>6, <1>7 DEF IInv

\* What dangles is used by no container, and the containers run the pair that the files
\* name.
LEMMA PruneDanglingStep ==
  ASSUME IInv, NEW r \in Runs, PruneDangling(r)
  PROVE  IInv'
<1> USE DeployAssumption DEF MaybePair, Active, Trapped, Services, Mishaps
<1>1. pc[r] \in Active
  BY DEF PruneDangling
<1>2. TypeOK'
  BY <1>1, Alone DEF IInv, TypeOK, PruneDangling, Exit, files, host, locals
<1>3. LockHeld'
  BY <1>1, Alone DEF IInv, TypeOK, LockHeld, PruneDangling, Exit, files, host, locals
<1>4. PairsPresent'
  BY <1>1, Alone DEF IInv, TypeOK, PairsPresent, Present, Progress, Pulled, Recorded, Pruning,
     PruneDangling, Exit, files, host, locals
<1>5. \A q \in Runs : pc'[q] \in Active => Progress(q)'
  BY <1>1, Alone DEF IInv, TypeOK, PairsPresent, Present, Progress, Pulled, Recorded, Pruning,
     PruneDangling, Exit, files, host, locals
<1>6. FilesAgree'
  BY <1>1, Alone DEF IInv, TypeOK, FilesAgree, Agreement, Progress, Pulled, Recorded, Pruning,
     PruneDangling, Exit, files, host, locals
<1>7. mishaps' = {} => \A q \in Runs : pc'[q] \in Active => Agreement(q)'
  BY <1>1, Alone DEF IInv, TypeOK, FilesAgree, Agreement, Progress, Pulled, Recorded, Pruning,
     PruneDangling, Exit, files, host, locals
<1> QED
  BY <1>2, <1>3, <1>4, <1>5, <1>6, <1>7 DEF IInv

\* A file that is emptied names no pair.
LEMMA WriteFailsStep ==
  ASSUME IInv, NEW r \in Runs, WriteFails(r)
  PROVE  IInv'
<1> USE DeployAssumption DEF MaybePair, Active, Trapped, Services, Mishaps
<1>1. pc[r] \in Active
  BY DEF WriteFails
<1>2. TypeOK'
  BY <1>1, Alone DEF IInv, TypeOK, WriteFails, Goto, Truncate, Restores, files, host, locals
<1>3. LockHeld'
  BY <1>1, Alone DEF IInv, TypeOK, LockHeld, WriteFails, Goto, Truncate, Restores, files, host,
     locals
<1>4. PairsPresent'
  BY <1>1, Alone DEF IInv, TypeOK, PairsPresent, Present, Progress, Pulled, Recorded, Pruning,
     WriteFails, Goto, Truncate, Restores, files, host, locals
<1>5. \A q \in Runs : pc'[q] \in Active => Progress(q)'
  BY <1>1, Alone DEF IInv, TypeOK, PairsPresent, Present, Progress, Pulled, Recorded, Pruning,
     WriteFails, Goto, Truncate, Restores, files, host, locals
<1>6. FilesAgree'
  BY <1>1, Alone DEF IInv, TypeOK, FilesAgree, Agreement, Progress, Pulled, Recorded, Pruning,
     WriteFails, Goto, Truncate, Restores, files, host, locals
<1>7. mishaps' = {} => \A q \in Runs : pc'[q] \in Active => Agreement(q)'
  BY <1>1, Alone DEF IInv, TypeOK, FilesAgree, Agreement, Progress, Pulled, Recorded, Pruning,
     WriteFails, Goto, Truncate, Restores, files, host, locals
<1> QED
  BY <1>2, <1>3, <1>4, <1>5, <1>6, <1>7 DEF IInv

LEMMA RestoreEnvFailsStep ==
  ASSUME IInv, NEW r \in Runs, RestoreEnvFails(r)
  PROVE  IInv'
<1> USE DeployAssumption DEF MaybePair, Active, Trapped, Services, Mishaps
<1>1. pc[r] \in Active
  BY DEF RestoreEnvFails
<1>2. TypeOK'
  BY <1>1, Alone DEF IInv, TypeOK, RestoreEnvFails, Exit, Truncate, Restores, files, host, locals
<1>3. LockHeld'
  BY <1>1, Alone DEF IInv, TypeOK, LockHeld, RestoreEnvFails, Exit, Truncate, Restores, files,
     host, locals
<1>4. PairsPresent'
  BY <1>1, Alone DEF IInv, TypeOK, PairsPresent, Present, Progress, Pulled, Recorded, Pruning,
     RestoreEnvFails, Exit, Truncate, Restores, files, host, locals
<1>5. \A q \in Runs : pc'[q] \in Active => Progress(q)'
  BY <1>1, Alone DEF IInv, TypeOK, PairsPresent, Present, Progress, Pulled, Recorded, Pruning,
     RestoreEnvFails, Exit, Truncate, Restores, files, host, locals
<1>6. FilesAgree'
  BY <1>1, Alone DEF IInv, TypeOK, FilesAgree, Agreement, Progress, Pulled, Recorded, Pruning,
     RestoreEnvFails, Exit, Truncate, Restores, files, host, locals
<1>7. mishaps' = {} => \A q \in Runs : pc'[q] \in Active => Agreement(q)'
  BY <1>1, Alone DEF IInv, TypeOK, FilesAgree, Agreement, Progress, Pulled, Recorded, Pruning,
     RestoreEnvFails, Exit, Truncate, Restores, files, host, locals
<1> QED
  BY <1>2, <1>3, <1>4, <1>5, <1>6, <1>7 DEF IInv

\* The handler finds the files as the command has left them.
LEMMA TrapStep ==
  ASSUME IInv, NEW r \in Runs, Trap(r)
  PROVE  IInv'
<1> USE DeployAssumption DEF MaybePair, Active, Trapped, Services, Mishaps
<1>1. pc[r] \in Active
  BY DEF Trap
<1>2. TypeOK'
  BY <1>1, Alone DEF IInv, TypeOK, Trap, Goto, files, host, locals
<1>3. LockHeld'
  BY <1>1, Alone DEF IInv, TypeOK, LockHeld, Trap, Goto, files, host, locals
<1>4. PairsPresent'
  BY <1>1, Alone DEF IInv, TypeOK, PairsPresent, Present, Progress, Pulled, Recorded, Pruning,
     Trap, Goto, files, host, locals
<1>5. \A q \in Runs : pc'[q] \in Active => Progress(q)'
  BY <1>1, Alone DEF IInv, TypeOK, PairsPresent, Present, Progress, Pulled, Recorded, Pruning,
     Trap, Goto, files, host, locals
<1>6. FilesAgree'
  BY <1>1, Alone DEF IInv, TypeOK, FilesAgree, Agreement, Progress, Pulled, Recorded, Pruning,
     Trap, Goto, files, host, locals
<1>7. mishaps' = {} => \A q \in Runs : pc'[q] \in Active => Agreement(q)'
  <2> SUFFICES ASSUME mishaps' = {}, NEW q \in Runs, pc'[q] \in Active
               PROVE  Agreement(q)'
    OBVIOUS
  <2>1. q = r /\ mishaps = {} /\ pc[r] # "succeed" /\ pc'[r] = "rollback"
    BY <1>1, Alone DEF IInv, TypeOK, Trap, Goto
  <2>2. Agreement(r) /\ Progress(r)
    BY <1>1, <2>1, Alone DEF IInv
  <2>3. prevConfig[r] = prevState[r] /\ (~succeeded[r] => imagesState = prevState[r])
    BY <2>1, <2>2 DEF Agreement, Progress, Trap
  <2>4. succeeded[r] =>
           /\ imagesState = new[r] /\ deployEnv = new[r]
           /\ \A s \in Services : containers[s] = new[r]
    BY <2>2, <2>1 DEF Agreement, Progress, Pulled, Recorded, Pruning, Trap
  <2> QED
    BY <2>1, <2>3, <2>4 DEF Agreement, Pulled, Trap, files, host, locals
<1> QED
  BY <1>2, <1>3, <1>4, <1>5, <1>6, <1>7 DEF IInv

\* The file gets back what the run has found.
LEMMA RestoreEnvStep ==
  ASSUME IInv, NEW r \in Runs, RestoreEnv(r)
  PROVE  IInv'
<1> USE DeployAssumption DEF MaybePair, Active, Trapped, Services, Mishaps
<1>1. pc[r] \in Active
  BY DEF RestoreEnv, Restores
<1>2. TypeOK'
  BY <1>1, Alone DEF IInv, TypeOK, RestoreEnv, Restores, Goto, files, host, locals
<1>3. LockHeld'
  BY <1>1, Alone DEF IInv, TypeOK, LockHeld, RestoreEnv, Restores, Goto, files, host, locals
<1>4. PairsPresent'
  BY <1>1, Alone DEF IInv, TypeOK, PairsPresent, Present, Progress, Pulled, Recorded, Pruning,
     RestoreEnv, Restores, Goto, files, host, locals
<1>5. \A q \in Runs : pc'[q] \in Active => Progress(q)'
  BY <1>1, Alone DEF IInv, TypeOK, PairsPresent, Present, Progress, Pulled, Recorded, Pruning,
     RestoreEnv, Restores, Goto, files, host, locals
<1>6. FilesAgree'
  BY <1>1, Alone DEF IInv, TypeOK, FilesAgree, Agreement, Progress, Pulled, Recorded, Pruning,
     RestoreEnv, Restores, Goto, files, host, locals
<1>7. mishaps' = {} => \A q \in Runs : pc'[q] \in Active => Agreement(q)'
  BY <1>1, Alone DEF IInv, TypeOK, FilesAgree, Agreement, Progress, Pulled, Recorded, Pruning,
     RestoreEnv, Restores, Goto, files, host, locals
<1> QED
  BY <1>2, <1>3, <1>4, <1>5, <1>6, <1>7 DEF IInv

LEMMA RemoveEnvStep ==
  ASSUME IInv, NEW r \in Runs, RemoveEnv(r)
  PROVE  IInv'
<1> USE DeployAssumption DEF MaybePair, Active, Trapped, Services, Mishaps
<1>1. pc[r] \in Active
  BY DEF RemoveEnv
<1>2. TypeOK'
  BY <1>1, Alone DEF IInv, TypeOK, RemoveEnv, Exit, files, host, locals
<1>3. LockHeld'
  BY <1>1, Alone DEF IInv, TypeOK, LockHeld, RemoveEnv, Exit, files, host, locals
<1>4. PairsPresent'
  BY <1>1, Alone DEF IInv, TypeOK, PairsPresent, Present, Progress, Pulled, Recorded, Pruning,
     RemoveEnv, Exit, files, host, locals
<1>5. \A q \in Runs : pc'[q] \in Active => Progress(q)'
  BY <1>1, Alone DEF IInv, TypeOK, PairsPresent, Present, Progress, Pulled, Recorded, Pruning,
     RemoveEnv, Exit, files, host, locals
<1>6. FilesAgree'
  BY <1>1, Alone DEF IInv, TypeOK, FilesAgree, Agreement, Progress, Pulled, Recorded, Pruning,
     RemoveEnv, Exit, files, host, locals
<1>7. mishaps' = {} => \A q \in Runs : pc'[q] \in Active => Agreement(q)'
  BY <1>1, Alone DEF IInv, TypeOK, FilesAgree, Agreement, Progress, Pulled, Recorded, Pruning,
     RemoveEnv, Exit, files, host, locals
<1> QED
  BY <1>2, <1>3, <1>4, <1>5, <1>6, <1>7 DEF IInv

LEMMA NoRollbackStep ==
  ASSUME IInv, NEW r \in Runs, NoRollback(r)
  PROVE  IInv'
<1> USE DeployAssumption DEF MaybePair, Active, Trapped, Services, Mishaps
<1>1. pc[r] \in Active
  BY DEF NoRollback
<1>2. TypeOK'
  BY <1>1, Alone DEF IInv, TypeOK, NoRollback, Exit, files, host, locals
<1>3. LockHeld'
  BY <1>1, Alone DEF IInv, TypeOK, LockHeld, NoRollback, Exit, files, host, locals
<1>4. PairsPresent'
  BY <1>1, Alone DEF IInv, TypeOK, PairsPresent, Present, Progress, Pulled, Recorded, Pruning,
     NoRollback, Exit, files, host, locals
<1>5. \A q \in Runs : pc'[q] \in Active => Progress(q)'
  BY <1>1, Alone DEF IInv, TypeOK, PairsPresent, Present, Progress, Pulled, Recorded, Pruning,
     NoRollback, Exit, files, host, locals
<1>6. FilesAgree'
  BY <1>1, Alone DEF IInv, TypeOK, FilesAgree, Agreement, Progress, Pulled, Recorded, Pruning,
     NoRollback, Exit, files, host, locals
<1>7. mishaps' = {} => \A q \in Runs : pc'[q] \in Active => Agreement(q)'
  BY <1>1, Alone DEF IInv, TypeOK, FilesAgree, Agreement, Progress, Pulled, Recorded, Pruning,
     NoRollback, Exit, files, host, locals
<1> QED
  BY <1>2, <1>3, <1>4, <1>5, <1>6, <1>7 DEF IInv

LEMMA RestartStep ==
  ASSUME IInv, NEW r \in Runs, Restart(r)
  PROVE  IInv'
<1> USE DeployAssumption DEF MaybePair, Active, Trapped, Services, Mishaps
<1>1. pc[r] \in Active
  BY DEF Restart
<1>2. TypeOK'
  <2>1. Recreate(Services) /\ deployEnv \in Pairs
    BY <1>1, Alone DEF Restart
  <2>2. images' \in [Services -> SUBSET Pairs] /\ containers' \in [Services -> MaybePair]
    BY <2>1, RecreateType DEF IInv
  <2> QED
    BY <2>2, <1>1, Alone DEF IInv, TypeOK, Restart, Exit, files, host, locals
<1>3. LockHeld'
  BY <1>1, Alone DEF IInv, TypeOK, LockHeld, Restart, Exit, files, host, locals, Recreate
<1>4. PairsPresent'
  BY <1>1, Alone DEF IInv, TypeOK, PairsPresent, Present, Progress, Pulled, Recorded, Pruning,
     Restart, Exit, files, host, locals, Recreate
<1>5. \A q \in Runs : pc'[q] \in Active => Progress(q)'
  BY <1>1, Alone DEF IInv, TypeOK, PairsPresent, Present, Progress, Pulled, Recorded, Pruning,
     Restart, Exit, files, host, locals, Recreate
<1>6. FilesAgree'
  BY <1>1, Alone DEF IInv, TypeOK, FilesAgree, Agreement, Progress, Pulled, Recorded, Pruning,
     Restart, Exit, files, host, locals, Recreate
<1>7. mishaps' = {} => \A q \in Runs : pc'[q] \in Active => Agreement(q)'
  BY <1>1, Alone DEF IInv, TypeOK, FilesAgree, Agreement, Progress, Pulled, Recorded, Pruning,
     Restart, Exit, files, host, locals, Recreate
<1> QED
  BY <1>2, <1>3, <1>4, <1>5, <1>6, <1>7 DEF IInv

LEMMA RestartFailsStep ==
  ASSUME IInv, NEW r \in Runs, RestartFails(r)
  PROVE  IInv'
<1> USE DeployAssumption DEF MaybePair, Active, Trapped, Services, Mishaps
<1>1. pc[r] \in Active
  BY DEF RestartFails
<1>2. TypeOK'
  <2>1. (\E some \in SUBSET Services : Recreate(some)) /\ deployEnv \in Pairs
    BY <1>1, Alone DEF RestartFails
  <2>2. images' \in [Services -> SUBSET Pairs] /\ containers' \in [Services -> MaybePair]
    BY <2>1, RecreateType DEF IInv
  <2> QED
    BY <2>2, <1>1, Alone DEF IInv, TypeOK, RestartFails, Exit, files, host, locals
<1>3. LockHeld'
  BY <1>1, Alone DEF IInv, TypeOK, LockHeld, RestartFails, Exit, files, host, locals, Recreate
<1>4. PairsPresent'
  BY <1>1, Alone DEF IInv, TypeOK, PairsPresent, Present, Progress, Pulled, Recorded, Pruning,
     RestartFails, Exit, files, host, locals, Recreate
<1>5. \A q \in Runs : pc'[q] \in Active => Progress(q)'
  BY <1>1, Alone DEF IInv, TypeOK, PairsPresent, Present, Progress, Pulled, Recorded, Pruning,
     RestartFails, Exit, files, host, locals, Recreate
<1>6. FilesAgree'
  BY <1>1, Alone DEF IInv, TypeOK, FilesAgree, Agreement, Progress, Pulled, Recorded, Pruning,
     RestartFails, Exit, files, host, locals, Recreate
<1>7. mishaps' = {} => \A q \in Runs : pc'[q] \in Active => Agreement(q)'
  BY <1>1, Alone DEF IInv, TypeOK, FilesAgree, Agreement, Progress, Pulled, Recorded, Pruning,
     RestartFails, Exit, files, host, locals, Recreate
<1> QED
  BY <1>2, <1>3, <1>4, <1>5, <1>6, <1>7 DEF IInv

\* A killed run leaves files that name pairs on the host.
LEMMA KillStep ==
  ASSUME IInv, NEW r \in Runs, Kill(r)
  PROVE  IInv'
<1> USE DeployAssumption DEF MaybePair, Active, Trapped, Services, Mishaps
<1>1. pc[r] \in Active
  BY DEF Kill
<1>2. TypeOK'
  <2>2. images' \in [Services -> SUBSET Pairs] /\ containers' \in [Services -> MaybePair]
    <3>1. CASE pc[r] \in {"up", "restart"}
      BY <3>1, <1>1, Alone, RecreateType DEF IInv, Kill
    <3>2. CASE pc[r] \notin {"up", "restart"}
      BY <3>2 DEF IInv, TypeOK, Kill, host
    <3> QED
      BY <3>1, <3>2
  <2> QED
    BY <2>2, <1>1, Alone DEF IInv, TypeOK, Kill, Exit, Truncate, Restores, files, host, locals
<1>3. LockHeld'
  BY <1>1, Alone DEF IInv, TypeOK, LockHeld, Kill, Exit, Truncate, Restores, files, host, locals,
     Recreate
<1>4. PairsPresent'
  BY <1>1, Alone DEF IInv, TypeOK, PairsPresent, Present, Progress, Pulled, Recorded, Pruning,
     Kill, Exit, Truncate, Restores, files, host, locals, Recreate
<1>5. \A q \in Runs : pc'[q] \in Active => Progress(q)'
  BY <1>1, Alone DEF IInv, TypeOK, PairsPresent, Present, Progress, Pulled, Recorded, Pruning,
     Kill, Exit, Truncate, Restores, files, host, locals, Recreate
<1>6. FilesAgree'
  BY <1>1, Alone DEF IInv, TypeOK, FilesAgree, Agreement, Progress, Pulled, Recorded, Pruning,
     Kill, Exit, Truncate, Restores, files, host, locals, Recreate
<1>7. mishaps' = {} => \A q \in Runs : pc'[q] \in Active => Agreement(q)'
  BY <1>1, Alone DEF IInv, TypeOK, FilesAgree, Agreement, Progress, Pulled, Recorded, Pruning,
     Kill, Exit, Truncate, Restores, files, host, locals, Recreate
<1> QED
  BY <1>2, <1>3, <1>4, <1>5, <1>6, <1>7 DEF IInv

\* IInv holds in every reachable state.
THEOREM Invariant == Spec => []IInv
<1>1. Init => IInv
  BY InitInvariant
<1>2. IInv /\ [Next]_vars => IInv'
  <2> SUFFICES ASSUME IInv, [Next]_vars
               PROVE  IInv'
    OBVIOUS
  <2>1. CASE UNCHANGED vars
    BY <2>1 DEF vars, files, host, locals, IInv, TypeOK, LockHeld, PairsPresent, Present,
       Progress, FilesAgree, Agreement
  <2>2. ASSUME NEW r \in Runs, Forward(r)
        PROVE  IInv'
    BY <2>2, BeginStep, PullCoreStep, PullAgentStep, WriteEnvStep, UpStep, UpFailsStep, CheckStep,
       CheckFailsStep, RecordPreviousStep, RecordActiveStep, SucceedStep, UntrapStep,
       PruneCoreStep, PruneAgentStep, PruneDanglingStep DEF Forward
  <2>3. ASSUME NEW r \in Runs, Back(r)
        PROVE  IInv'
    BY <2>3, TrapStep, WriteFailsStep, RestoreEnvStep, RemoveEnvStep, RestoreEnvFailsStep,
       NoRollbackStep, RestartStep, RestartFailsStep, KillStep DEF Back
  <2> QED
    BY <2>1, <2>2, <2>3 DEF Next
<1> QED
  BY <1>1, <1>2, PTL DEF Spec

\* Nobody takes a step beside a run at work.
LEMMA ActorIsAlone ==
  ASSUME IInv, NEW r \in Runs, pc[r] \in Active, NEW q \in Runs, Forward(q) \/ Back(q)
  PROVE  q = r
<1>1. \A p \in Runs : p # r => pc[p] \notin Active
  BY Alone
<1>2. lock # NoRun
  BY Alone
<1>3. pc[q] \in Active
  <2>1. CASE Forward(q)
    BY <1>2, <2>1 DEF Forward, Begin, PullCore, PullAgent, WriteEnv, Up, UpFails, Check,
       CheckFails, RecordPrevious, RecordActive, Succeed, Untrap, PruneCore, PruneAgent,
       PruneDangling,
       Active, Trapped
  <2>2. CASE Back(q)
    BY <2>2 DEF Back, Trap, WriteFails, RestoreEnv, Restores, RemoveEnv, RestoreEnvFails,
       NoRollback, Restart, RestartFails, Kill,
       Active, Trapped
  <2> QED
    BY <2>1, <2>2
<1> QED
  BY <1>1, <1>3

\* TypeOK, for any builds and processes: among others a run at a command holds
\* the lock.
THEOREM TypeCorrect == Spec => []TypeOK
<1>1. IInv => TypeOK
  BY DEF IInv
<1> QED
  BY <1>1, Invariant, PTL

\* PairsPresent: the pruning after a deployment (deploy.sh:136-140) takes no image that
\* .deploy.env or .deployed-images names, and none that a run may have to go back to, however
\* many runs have been killed.
THEOREM PairsStayPresent == Spec => []PairsPresent
<1>1. IInv => PairsPresent
  BY DEF IInv
<1> QED
  BY <1>1, Invariant, PTL

\* FilesAgree: after any number of deployments that succeed or roll back, the files
\* agree with each other and with the containers.
THEOREM FilesStayTruthful == Spec => []FilesAgree
<1>1. IInv => FilesAgree
  BY DEF IInv
<1> QED
  BY <1>1, Invariant, PTL

\* ActiveIsNotForgotten: only the command of RecordActive writes .deployed-images, or empties
\* it, after that of RecordPrevious has saved what it holds.
THEOREM ActiveIsSaved == Spec => ActiveIsNotForgotten
<1>1. ASSUME IInv, [Next]_vars
      PROVE  [imagesState' # imagesState /\ imagesState # NoPair => previousImages = imagesState]_vars
  <2>1. ASSUME NEW r \in Runs, pc[r] = "record_active"
        PROVE  imagesState = prevState[r] /\ (imagesState # NoPair => previousImages = imagesState)
    <3>1. Progress(r)
      BY <1>1, <2>1 DEF IInv, Active, Trapped
    <3> QED
      BY <2>1, <3>1 DEF Progress, Trapped
  <2>2. ASSUME NEW r \in Runs, Forward(r), pc[r] # "record_active"
        PROVE  imagesState' = imagesState
    BY <2>2 DEF Forward, Begin, PullCore, PullAgent, WriteEnv, Up, UpFails, Check, CheckFails,
       RecordPrevious, RecordActive, Succeed, Untrap, PruneCore, PruneAgent, PruneDangling, files
  <2>3. ASSUME NEW r \in Runs, Back(r), pc[r] # "record_active"
        PROVE  imagesState' = imagesState
    BY <2>3 DEF Back, Trap, WriteFails, RestoreEnv, RemoveEnv, RestoreEnvFails, NoRollback,
       Restart, RestartFails, Kill, Truncate, files
  <2>4. CASE UNCHANGED vars
    BY <2>4 DEF vars, files
  <2> QED
    BY <1>1, <2>1, <2>2, <2>3, <2>4 DEF Next
<1> QED
  BY <1>1, Invariant, PTL DEF Spec, ActiveIsNotForgotten

\* TrappedFailuresRestore: a run that ends in restart has written what it found, one that
\* ends in rollback has found none, and one that ends in the pruning has succeeded.
THEOREM FailuresRestore == Spec => TrappedFailuresRestore
<1>1. ASSUME IInv, [Next]_vars, NEW r \in Runs,
             pc[r] \in Active, pc'[r] = "out", ~succeeded[r],
             ~CheckFails(r), ~RestoreEnvFails(r), ~Kill(r)
      PROVE  deployEnv' = prevConfig[r]
  <2>1. pc[r] # "out" /\ ~UNCHANGED vars
    BY <1>1 DEF Active, Trapped, vars
  <2>2. PICK q \in Runs : Forward(q) \/ Back(q)
    BY <1>1, <2>1 DEF Next
  <2>3. q = r
    BY <1>1, <2>1, <2>2, ActorIsAlone DEF IInv, TypeOK
  <2>4. \/ PruneDangling(r) \/ RemoveEnv(r) \/ NoRollback(r) \/ Restart(r) \/ RestartFails(r)
    <3>1. CASE Forward(r)
      <4>1. pc \in [Runs -> Active \cup {"out"}]
        BY <1>1 DEF IInv, TypeOK
      <4>2. \A p \in Pairs : ~Begin(r, p)
        BY <2>1 DEF Begin
      <4>3. ~PullCore(r) /\ ~PullAgent(r) /\ ~WriteEnv(r) /\ ~Up(r) /\ ~UpFails(r)
        BY <1>1, <4>1 DEF PullCore, PullAgent, WriteEnv, Up, UpFails, Goto
      <4>4. ~Check(r) /\ ~RecordPrevious(r) /\ ~RecordActive(r) /\ ~Succeed(r) /\ ~Untrap(r)
        BY <1>1, <4>1 DEF Check, RecordPrevious, RecordActive, Succeed, Untrap, Goto
      <4>5. ~PruneCore(r) /\ ~PruneAgent(r)
        BY <1>1, <4>1 DEF PruneCore, PruneAgent, Goto
      <4> QED
        BY <1>1, <3>1, <4>2, <4>3, <4>4, <4>5 DEF Forward
    <3>2. CASE Back(r)
      <4>1. ~Trap(r) /\ ~WriteFails(r) /\ ~RestoreEnv(r)
        BY <1>1 DEF Trap, WriteFails, RestoreEnv, Goto, IInv, TypeOK
      <4> QED
        BY <1>1, <3>2, <4>1 DEF Back
    <3> QED
      BY <2>2, <2>3, <3>1, <3>2
  <2>5. Progress(r)
    BY <1>1 DEF IInv
  <2>6. CASE PruneDangling(r)
    BY <1>1, <2>5, <2>6 DEF PruneDangling, Progress, Pruning
  <2>7. CASE RemoveEnv(r)
    BY <2>7 DEF RemoveEnv
  <2>8. CASE NoRollback(r)
    BY <1>1, <2>8 DEF NoRollback
  <2>9. CASE Restart(r) \/ RestartFails(r)
    BY <2>5, <2>9 DEF Restart, RestartFails, Progress, files
  <2> QED
    BY <2>4, <2>6, <2>7, <2>8, <2>9
<1>2. IInv /\ [Next]_vars =>
        [\A r \in Runs :
           /\ pc[r] \in Active /\ pc'[r] = "out"
           /\ ~succeeded[r] /\ ~CheckFails(r) /\ ~RestoreEnvFails(r) /\ ~Kill(r)
           => deployEnv' = prevConfig[r]]_vars
  BY <1>1
<1> QED
  BY <1>2, Invariant, PTL DEF Spec, TrappedFailuresRestore

\* RunsWindDown: the step is the run's own, because it holds the lock, and every command
\* goes on to one that has fewer after it; a trap goes to the rollback, which sets none.
THEOREM RunsEnd == Spec => RunsWindDown
<1>1. ASSUME IInv, NEW r \in Runs, pc[r] \in Active, NEW q \in Runs, Forward(q) \/ Back(q)
      PROVE  CommandsLeft(r)' < CommandsLeft(r)
  <2>1. q = r
    BY <1>1, ActorIsAlone
  <2>2. CASE Forward(r)
    BY <1>1, <2>2, Alone DEF Forward, Begin, PullCore, PullAgent, WriteEnv, Up, UpFails, Check,
       CheckFails, RecordPrevious, RecordActive, Succeed, Untrap, PruneCore, PruneAgent,
       PruneDangling,
       Goto, Exit, IInv, TypeOK, CommandsLeft, Active, Trapped
  <2>3. CASE Back(r)
    BY <1>1, <2>3 DEF Back, Trap, WriteFails, RestoreEnv, Restores, RemoveEnv, RestoreEnvFails,
       NoRollback, Restart, RestartFails,
       Kill, Goto, Exit, IInv, TypeOK, CommandsLeft, Active, Trapped
  <2> QED
    BY <1>1, <2>1, <2>2, <2>3
<1>2. IInv /\ [Next]_vars =>
        [\A r \in Runs : pc[r] \in Active => CommandsLeft(r)' < CommandsLeft(r)]_vars
  BY <1>1 DEF Next
<1> QED
  BY <1>2, Invariant, PTL DEF Spec, RunsWindDown

-----------------------------------------------------------------------------
(* The refinement of Releases *)

\* While the images stay, so does the stock.
LEMMA StockStays ==
  ASSUME UNCHANGED images
  PROVE  UNCHANGED {p \in Pairs : Present(p)}
BY DEF Present

\* A pull adds at most the pair of the run to the stock.
LEMMA PullStocks ==
  ASSUME IInv, NEW r \in Runs, PullCore(r) \/ PullAgent(r)
  PROVE  Release!Stock(new[r]) \/ UNCHANGED Release!releaseVars
<1> DEFINE stock == {p \in Pairs : Present(p)}
<1>1. new[r] \in Pairs
  BY DEF IInv, TypeOK, PullCore, PullAgent, Active, Trapped
<1>2. /\ \A s \in Services : images'[s] = images[s] \/ images'[s] = images[s] \cup {new[r]}
      /\ UNCHANGED <<files, containers>>
  BY DEF IInv, TypeOK, PullCore, PullAgent, Services
<1>3. stock' \subseteq stock \cup {new[r]} /\ stock \subseteq stock'
  BY <1>2 DEF Present
<1>4. stock' = stock \/ stock' = stock \cup {new[r]}
  BY <1>3
<1> HIDE DEF stock
<1>5. QED
  BY <1>2, <1>4 DEF files, Release!Stock, Release!releaseVars, stock

\* Containers are made from the pair of .deploy.env, whose images are there already.
LEMMA RecreateStarts ==
  ASSUME IInv, deployEnv \in Pairs, UNCHANGED files, NEW some \in SUBSET Services, Recreate(some)
  PROVE  Release!Start(some)
<1>1. Present(deployEnv) /\ deployEnv # NoPair
  BY DeployAssumption DEF IInv, PairsPresent
<1>2. images' = images
  BY <1>1 DEF IInv, TypeOK, Recreate, Present
<1>3. UNCHANGED {p \in Pairs : Present(p)}
  BY <1>2, StockStays
<1>4. deployEnv \in {p \in Pairs : Present(p)}
  BY <1>1
<1>5. QED
  BY <1>3, <1>4 DEF Recreate, Release!Start, files

\* What is pruned of one service is neither to run nor active.
LEMMA PrunedIsUnnamed ==
  ASSUME IInv, NEW r \in Runs, NEW s \in Services, pc[r] \in {"prune_core", "prune_agent"},
         images' = [images EXCEPT ![s] = @ \ Unprotected(r, s)], UNCHANGED <<files, containers>>
  PROVE  \E pruned \in SUBSET Pairs : Release!Prune(pruned)
<1> DEFINE stock == {p \in Pairs : Present(p)}
<1> DEFINE pruned == stock \cap Unprotected(r, s)
<1>1. Progress(r) /\ new[r] \in Pairs
  BY DEF IInv, TypeOK, Active
<1>2. deployEnv = new[r] /\ imagesState = new[r]
  BY <1>1 DEF Progress, Pulled, Recorded, Pruning
<1>3. pruned \cap {deployEnv, imagesState} = {}
  BY <1>2, DeployAssumption DEF Unprotected
<1>4. stock' = stock \ pruned
  <2>1. /\ images'[s] = images[s] \ Unprotected(r, s)
        /\ \A t \in Services \ {s} : images'[t] = images[t]
    BY DEF IInv, TypeOK
  <2>2. QED
    BY <2>1 DEF Present
<1> HIDE DEF stock
<1>5. Release!Prune(pruned)
  BY <1>3, <1>4 DEF Release!Prune, files, stock
<1>6. pruned \in SUBSET Pairs
  BY DEF stock
<1>7. QED
  BY <1>5, <1>6

\* Nor is what dangles, since both services run the pair that is.
LEMMA DanglingIsUnnamed ==
  ASSUME IInv, NEW r \in Runs, PruneDangling(r)
  PROVE  \E pruned \in SUBSET Pairs : Release!Prune(pruned)
<1> DEFINE stock == {p \in Pairs : Present(p)}
<1> DEFINE pruned == stock \ stock'
<1>1. Progress(r) /\ new[r] \in Pairs
  BY DEF IInv, TypeOK, PruneDangling, Active
<1>2. /\ deployEnv = new[r] /\ imagesState = new[r] /\ Present(new[r])
      /\ \A s \in Services : containers[s] = new[r]
  BY <1>1 DEF PruneDangling, Progress, Pulled, Recorded, Pruning
<1>3. \A s \in Services : images'[s] \subseteq images[s] /\ new[r] \in images'[s]
  BY <1>2 DEF PruneDangling, Present
<1>4. stock' \subseteq stock /\ new[r] \in stock'
  BY <1>1, <1>3 DEF Present
<1>5. stock' = stock \ pruned /\ pruned \cap {deployEnv,
imagesState} = {} /\ pruned \in SUBSET Pairs
  BY <1>2, <1>4
<1> HIDE DEF pruned
<1>6. Release!Prune(pruned)
  BY <1>5 DEF PruneDangling, files, Release!Prune
<1>7. QED
  BY <1>5, <1>6

\* A file that is emptied loses its pair; the active one is saved by then.
LEMMA TruncateForgets ==
  ASSUME IInv, NEW r \in Runs, pc[r] \in Active, Truncate(r), UNCHANGED host
  PROVE  \/ \E p \in Pairs \cup {NoPair} : Release!Configure(p)
         \/ Release!ForgetPrevious \/ Release!ForgetActive
<1>1. UNCHANGED <<images, containers>> /\ UNCHANGED {p \in Pairs : Present(p)}
  BY StockStays DEF host
<1>2. CASE pc[r] = "write_env" \/ Restores(r)
  BY <1>1, <1>2 DEF Truncate, Restores, Release!Configure
<1>3. CASE pc[r] = "record_previous"
  BY <1>1, <1>3 DEF Truncate, Restores, Release!ForgetPrevious
<1>4. CASE pc[r] = "record_active"
  <2>1. Progress(r)
    BY DEF IInv
  <2>2. imagesState \in {NoPair, previousImages}
    BY <1>4, <2>1 DEF Progress, Trapped
  <2>3. QED
    BY <1>1, <1>4, <2>2 DEF Truncate, Restores, Release!ForgetActive
<1>5. QED
  BY <1>2, <1>3, <1>4 DEF Truncate

\* A run that restores .deploy.env names a pair that is there.
LEMMA WritesConfigure ==
  ASSUME IInv, NEW r \in Runs, WriteEnv(r) \/ RestoreEnv(r) \/ RemoveEnv(r)
  PROVE  \E p \in Pairs \cup {NoPair} : Release!Configure(p)
<1>1. /\ Progress(r) /\ new[r] \in Pairs /\ prevConfig[r] \in MaybePair
      /\ ~succeeded[r] /\ prevConfig[r] # NoPair => Present(prevConfig[r])
  BY DEF IInv, TypeOK, PairsPresent, WriteEnv, RestoreEnv, Restores, RemoveEnv, Active, Trapped
<1>2. PICK p \in MaybePair : deployEnv' = p /\ (p = NoPair \/ Present(p))
  BY <1>1 DEF WriteEnv, RestoreEnv, Restores, RemoveEnv, Progress, Pulled, MaybePair
<1>3. p \in {q \in Pairs : Present(q)} \cup {NoPair}
  BY <1>2 DEF MaybePair
<1>4. UNCHANGED <<imagesState, previousImages, images, containers>>
  BY DEF WriteEnv, RestoreEnv, RemoveEnv, host
<1>5. UNCHANGED {q \in Pairs : Present(q)}
  BY <1>4, StockStays
<1>6. Release!Configure(p)
  BY <1>2, <1>3, <1>4, <1>5 DEF Release!Configure
<1>7. QED
  BY <1>2, <1>6 DEF MaybePair

\* The files of the last deployments are written in the order that Releases asks for.
LEMMA RecordsPromote ==
  ASSUME IInv, NEW r \in Runs
  PROVE  /\ RecordPrevious(r) => Release!Save \/ UNCHANGED Release!releaseVars
         /\ RecordActive(r) => Release!Promote
<1>1. ASSUME RecordPrevious(r) PROVE Release!Save \/ UNCHANGED Release!releaseVars
  <2>1. UNCHANGED <<deployEnv, imagesState, images, containers>> /\ imagesState = prevState[r]
    BY <1>1 DEF IInv, RecordPrevious, host, Active, Trapped, Progress
  <2>2. UNCHANGED {p \in Pairs : Present(p)}
    BY <2>1, StockStays
  <2>3. previousImages' = IF imagesState # NoPair THEN imagesState ELSE previousImages
    BY <1>1, <2>1 DEF RecordPrevious
  <2>4. QED
    BY <2>1, <2>2, <2>3 DEF Release!Save, Release!releaseVars
<1>2. ASSUME RecordActive(r) PROVE Release!Promote
  <2>1. Progress(r) /\ pc[r] = "record_active" /\ new[r] \in Pairs
    BY <1>2 DEF IInv, TypeOK, RecordActive, Active, Trapped
  <2>2. /\ deployEnv = new[r] /\ Present(new[r]) /\ \A s \in Services : containers[s] = new[r]
        /\ imagesState \in {NoPair, previousImages}
    BY <2>1 DEF Progress, Pulled, Trapped
  <2>3. UNCHANGED <<deployEnv, previousImages, images, containers>> /\ imagesState' = new[r]
    BY <1>2 DEF RecordActive, host
  <2>4. UNCHANGED {p \in Pairs : Present(p)}
    BY <2>3, StockStays
  <2>5. deployEnv \in {p \in Pairs : Present(p)}
    BY <2>1, <2>2
  <2>6. QED
    BY <2>2, <2>3, <2>4, <2>5 DEF Release!Promote
<1>3. QED
  BY <1>1, <1>2

\* Every other command leaves the files and the host as they are.
LEMMA OthersStutter ==
  ASSUME UNCHANGED <<files, host>>
  PROVE  UNCHANGED Release!releaseVars
<1>1. UNCHANGED {p \in Pairs : Present(p)}
  BY StockStays DEF host
<1>2. QED
  BY <1>1 DEF files, host, Release!releaseVars

\* ReleaseSpec: whatever fails and is killed, the script does to the host only what
\* Releases allows.  A pair becomes active only while it runs on both services.
THEOREM ImplementsReleases == Spec => ReleaseSpec
<1>1. Init => Release!Init
  <2> SUFFICES ASSUME Init PROVE Release!Init
    OBVIOUS
  <2>1. {p \in Pairs : Present(p)} = {}
    BY DEF Init, Present, Services
  <2>2. QED
    BY <2>1 DEF Init, Release!Init
<1>2. ASSUME IInv, [Next]_vars
      PROVE  Release!Next \/ UNCHANGED Release!releaseVars
  <2>1. ASSUME NEW r \in Runs, Forward(r)
        PROVE  Release!Next \/ UNCHANGED Release!releaseVars
    <3>1. CASE PullCore(r) \/ PullAgent(r)
      <4>1. new[r] \in Pairs
        BY <1>2, <3>1 DEF IInv, TypeOK, PullCore, PullAgent, Active, Trapped
      <4>2. QED
        BY <1>2, <3>1, <4>1, PullStocks DEF Release!Next
    <3>2. CASE WriteEnv(r)
      BY <1>2, <3>2, WritesConfigure DEF Release!Next
    <3>3. CASE Up(r) \/ UpFails(r)
      <4>1. PICK some \in SUBSET Services : Recreate(some)
        BY <3>3 DEF Up, UpFails
      <4>2. deployEnv \in Pairs /\ UNCHANGED files
        BY <1>2, <3>3, Alone DEF Up, UpFails, Active, Trapped
      <4>3. QED
        BY <1>2, <4>1, <4>2, RecreateStarts DEF Release!Next
    <3>4. CASE RecordPrevious(r) \/ RecordActive(r)
      BY <1>2, <3>4, RecordsPromote DEF Release!Next
    <3>5. CASE PruneCore(r) \/ PruneAgent(r)
      <4>1. \E s \in Services : images' = [images EXCEPT ![s] = @ \ Unprotected(r, s)]
        BY <3>5 DEF PruneCore, PruneAgent, PruneDangling, Services
      <4>2. pc[r] \in {"prune_core", "prune_agent"} /\ UNCHANGED <<files, containers>>
        BY <3>5 DEF PruneCore, PruneAgent
      <4>3. QED
        BY <1>2, <4>1, <4>2, PrunedIsUnnamed DEF Release!Next
    <3>6. CASE PruneDangling(r)
      BY <1>2, <3>6, DanglingIsUnnamed DEF Release!Next
    <3>7. CASE \/ \E p \in Pairs : Begin(r, p)
               \/ Check(r) \/ CheckFails(r) \/ Succeed(r) \/ Untrap(r)
      BY <3>7, OthersStutter DEF Begin, Check, CheckFails, Succeed, Untrap
    <3>8. QED
      BY <2>1, <3>1, <3>2, <3>3, <3>4, <3>5, <3>6, <3>7 DEF Forward
  <2>2. ASSUME NEW r \in Runs, Back(r)
        PROVE  Release!Next \/ UNCHANGED Release!releaseVars
    <3>1. CASE RestoreEnv(r) \/ RemoveEnv(r)
      BY <1>2, <3>1, WritesConfigure DEF Release!Next
    <3>2. CASE Restart(r) \/ RestartFails(r) \/ (Kill(r) /\ pc[r] \in {"up", "restart"})
      <4>1. PICK some \in SUBSET Services : Recreate(some)
        BY <3>2 DEF Restart, RestartFails, Kill
      <4>2. deployEnv \in Pairs /\ UNCHANGED files
        BY <1>2, <3>2, Alone DEF Restart, RestartFails, Kill, Truncate, Restores, Active, Trapped
      <4>3. QED
        BY <1>2, <4>1, <4>2, RecreateStarts DEF Release!Next
    <3>3. CASE \/ Trap(r) \/ NoRollback(r)
               \/ (RestoreEnvFails(r) /\ UNCHANGED files)
               \/ (Kill(r) /\ pc[r] \notin {"up", "restart"} /\ UNCHANGED files)
      BY <3>3, OthersStutter DEF Trap, NoRollback, RestoreEnvFails, Kill
    <3>4. CASE \/ WriteFails(r)
               \/ (RestoreEnvFails(r) /\ Truncate(r))
               \/ (Kill(r) /\ pc[r] \notin {"up", "restart"} /\ Truncate(r))
      <4>1. pc[r] \in Active /\ Truncate(r) /\ UNCHANGED host
        BY <3>4 DEF WriteFails, RestoreEnvFails, Kill, Active
      <4>2. QED
        BY <1>2, <4>1, TruncateForgets DEF Release!Next
    <3>5. QED
      BY <2>2, <3>1, <3>2, <3>3, <3>4 DEF Back, Kill, RestoreEnvFails
  <2>3. CASE UNCHANGED vars
    BY <2>3, OthersStutter DEF vars
  <2>4. QED
    BY <1>2, <2>1, <2>2, <2>3 DEF Next
<1>3. IInv /\ [Next]_vars => [Release!Next]_(Release!releaseVars)
  BY <1>2
<1> QED
  BY <1>1, <1>3, Invariant, PTL DEF Spec, ReleaseSpec, Release!Spec
=============================================================================
