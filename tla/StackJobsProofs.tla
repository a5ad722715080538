-------------------------- MODULE StackJobsProofs --------------------------
(***************************************************************************)
(* What StackJobs guarantees for every set of jobs and stacks and every    *)
(* bound on the faults.  Nearly all of it follows from the inductive       *)
(* invariant IInv of StackJobs: one lemma below for each of its conjuncts, *)
(* then the theorems that read the properties off it.                      *)
(***************************************************************************)
EXTENDS StackJobs, FiniteSetTheorems, TLAPS

\* Counting one more fault keeps the counters natural numbers.
LEMMA FaultCounts ==
  ASSUME faults \in [FaultKinds -> Nat], NEW k \in FaultKinds, Fault(k)
  PROVE  faults' \in [FaultKinds -> Nat]
BY DEF Fault

\* Every variable starts out empty, so the invariant holds at first.
LEMMA InitInvariant == Init => IInv
<1>1. Init => /\ TypeOK /\ VerdictKnown /\ Ownership /\ Bookkeeping /\ NoOrphanRow
              /\ Provenance /\ NoOrphanCall
  BY JobsAssumption
     DEF Init, TypeOK, VerdictKnown, Ownership, Bookkeeping, NoOrphanRow, Provenance,
         NoOrphanCall, Holding, RowStatus, Terminal, WorkerStates, OpStates, FaultKinds
<1>2. Init => FailuresHaveCause /\ SentAreSubmitted /\ RegisteredWhileRunning
  BY DEF Init, FailuresHaveCause, SentAreSubmitted, RegisteredWhileRunning, Connected
<1>3. Init => AbandonedAreCounted
  <2>1. Init => \A s \in Stacks : Abandoned(s) = {}
    BY DEF Init, Abandoned, Working
  <2>2. QED
    BY <2>1, FS_EmptySet DEF Init, AbandonedAreCounted, FaultKinds
<1>4. QED
  BY <1>1, <1>2, <1>3 DEF IInv

\* Each step keeps the types.  UpdateJob needs to know that there is a verdict.
LEMMA TypeStep ==
  ASSUME TypeOK, VerdictKnown, [Next]_vars
  PROVE  TypeOK'
<1> USE DEF TypeOK, RowStatus, Terminal, WorkerStates, OpStates, FaultKinds,
        VerdictKnown, Connected, coreVars, agentVars
<1>1. ASSUME NEW j \in Jobs, NEW s \in Stacks, SubmitComposeJob(j, s) PROVE TypeOK'
  BY <1>1 DEF SubmitComposeJob
<1>2. ASSUME NEW j \in Jobs, CreateJob(j) PROVE TypeOK'
  BY <1>2 DEF CreateJob
<1>3. ASSUME NEW j \in Jobs, CreateJobFails(j) PROVE TypeOK'
  BY <1>3, FaultCounts DEF CreateJobFails
<1>4. ASSUME NEW j \in Jobs, SendRequest(j) PROVE TypeOK'
  BY <1>4 DEF SendRequest
<1>5. ASSUME NEW j \in Jobs, ReceiveAnswer(j) PROVE TypeOK'
  BY <1>5 DEF ReceiveAnswer
<1>6. ASSUME NEW j \in Jobs, CallFails(j) PROVE TypeOK'
  BY <1>6 DEF CallFails
<1>7. ASSUME NEW j \in Jobs, CallTimesOut(j) PROVE TypeOK'
  BY <1>7, FaultCounts DEF CallTimesOut
<1>8. ASSUME NEW j \in Jobs, UpdateJob(j) PROVE TypeOK'
  BY <1>8 DEF UpdateJob
<1>9. ASSUME NEW j \in Jobs, UpdateJobFails(j) PROVE TypeOK'
  BY <1>9, FaultCounts DEF UpdateJobFails
<1>10. ASSUME NEW j \in Jobs, Unlock(j) PROVE TypeOK'
  BY <1>10 DEF Unlock
<1>11. ASSUME NEW j \in Jobs, Deregister(j) PROVE TypeOK'
  BY <1>11 DEF Deregister
<1>12. ASSUME NEW j \in Jobs, AgentStep(j) PROVE TypeOK'
  <2>1. CASE Accept(j)
    BY <2>1 DEF Accept
  <2>2. CASE Reject(j)
    BY <2>2 DEF Reject
  <2>3. CASE StartCompose(j)
    BY <2>3 DEF StartCompose
  <2>4. CASE ComposeExits(j)
    BY <2>4 DEF ComposeExits
  <2>5. CASE DropAnswer(j)
    BY <2>5 DEF DropAnswer
  <2>6. QED
    BY <1>12, <2>1, <2>2, <2>3, <2>4, <2>5 DEF AgentStep
<1>13. CASE CoreRestart
  BY <1>13, FaultCounts DEF CoreRestart
<1>14. CASE AgentRestart
  BY <1>14, FaultCounts DEF AgentRestart
<1>15. CASE UNCHANGED vars
  BY <1>15 DEF vars
<1>16. QED
  BY <1>1, <1>2, <1>3, <1>4, <1>5, <1>6, <1>7, <1>8, <1>9,
     <1>10, <1>11, <1>12, <1>13, <1>14, <1>15 DEF Next, WorkerStep

\* Whoever sends a goroutine on to UpdateJob has set its verdict.
LEMMA VerdictStep ==
  ASSUME TypeOK, VerdictKnown, [Next]_vars
  PROVE  VerdictKnown'
<1> USE DEF TypeOK, RowStatus, Terminal, WorkerStates, OpStates, FaultKinds,
        VerdictKnown, Connected, coreVars, agentVars
<1>1. ASSUME NEW j \in Jobs, NEW s \in Stacks, SubmitComposeJob(j, s) PROVE VerdictKnown'
  BY <1>1 DEF SubmitComposeJob
<1>2. ASSUME NEW j \in Jobs, CreateJob(j) PROVE VerdictKnown'
  BY <1>2 DEF CreateJob
<1>3. ASSUME NEW j \in Jobs, CreateJobFails(j) PROVE VerdictKnown'
  BY <1>3 DEF CreateJobFails
<1>4. ASSUME NEW j \in Jobs, SendRequest(j) PROVE VerdictKnown'
  BY <1>4 DEF SendRequest
<1>5. ASSUME NEW j \in Jobs, ReceiveAnswer(j) PROVE VerdictKnown'
  BY <1>5 DEF ReceiveAnswer
<1>6. ASSUME NEW j \in Jobs, CallFails(j) PROVE VerdictKnown'
  BY <1>6 DEF CallFails
<1>7. ASSUME NEW j \in Jobs, CallTimesOut(j) PROVE VerdictKnown'
  BY <1>7 DEF CallTimesOut
<1>8. ASSUME NEW j \in Jobs, UpdateJob(j) PROVE VerdictKnown'
  BY <1>8 DEF UpdateJob
<1>9. ASSUME NEW j \in Jobs, UpdateJobFails(j) PROVE VerdictKnown'
  BY <1>9 DEF UpdateJobFails
<1>10. ASSUME NEW j \in Jobs, Unlock(j) PROVE VerdictKnown'
  BY <1>10 DEF Unlock
<1>11. ASSUME NEW j \in Jobs, Deregister(j) PROVE VerdictKnown'
  BY <1>11 DEF Deregister
<1>12. ASSUME NEW j \in Jobs, AgentStep(j) PROVE VerdictKnown'
  BY <1>12 DEF AgentStep, Accept, Reject, StartCompose, ComposeExits, DropAnswer
<1>13. CASE CoreRestart
  BY <1>13 DEF CoreRestart
<1>14. CASE AgentRestart
  BY <1>14 DEF AgentRestart
<1>15. CASE UNCHANGED vars
  BY <1>15 DEF vars
<1>16. QED
  BY <1>1, <1>2, <1>3, <1>4, <1>5, <1>6, <1>7, <1>8, <1>9,
     <1>10, <1>11, <1>12, <1>13, <1>14, <1>15 DEF Next, WorkerStep

\* The mutex moves with the goroutine: only TryLock on a free mutex adds a holder
\* and only the holder takes itself out.
LEMMA OwnershipStep ==
  ASSUME TypeOK, Ownership, [Next]_vars
  PROVE  Ownership'
<1> USE DEF TypeOK, RowStatus, Terminal, WorkerStates, OpStates, FaultKinds,
        Ownership, Holding, Connected, coreVars, agentVars
<1>1. ASSUME NEW j \in Jobs, NEW s \in Stacks, SubmitComposeJob(j, s) PROVE Ownership'
  BY <1>1, JobsAssumption DEF SubmitComposeJob
<1>2. ASSUME NEW j \in Jobs, CreateJob(j) PROVE Ownership'
  BY <1>2 DEF CreateJob
<1>3. ASSUME NEW j \in Jobs, CreateJobFails(j) PROVE Ownership'
  BY <1>3, JobsAssumption DEF CreateJobFails
<1>4. ASSUME NEW j \in Jobs, SendRequest(j) PROVE Ownership'
  BY <1>4 DEF SendRequest
<1>5. ASSUME NEW j \in Jobs, ReceiveAnswer(j) PROVE Ownership'
  BY <1>5 DEF ReceiveAnswer
<1>6. ASSUME NEW j \in Jobs, CallFails(j) PROVE Ownership'
  BY <1>6 DEF CallFails
<1>7. ASSUME NEW j \in Jobs, CallTimesOut(j) PROVE Ownership'
  BY <1>7 DEF CallTimesOut
<1>8. ASSUME NEW j \in Jobs, UpdateJob(j) PROVE Ownership'
  BY <1>8 DEF UpdateJob
<1>9. ASSUME NEW j \in Jobs, UpdateJobFails(j) PROVE Ownership'
  BY <1>9 DEF UpdateJobFails
<1>10. ASSUME NEW j \in Jobs, Unlock(j) PROVE Ownership'
  BY <1>10, JobsAssumption DEF Unlock
<1>11. ASSUME NEW j \in Jobs, Deregister(j) PROVE Ownership'
  BY <1>11 DEF Deregister
<1>12. ASSUME NEW j \in Jobs, AgentStep(j) PROVE Ownership'
  BY <1>12 DEF AgentStep, Accept, Reject, StartCompose, ComposeExits, DropAnswer
<1>13. CASE CoreRestart
  BY <1>13, JobsAssumption DEF CoreRestart
<1>14. CASE AgentRestart
  BY <1>14 DEF AgentRestart
<1>15. CASE UNCHANGED vars
  BY <1>15 DEF vars
<1>16. QED
  BY <1>1, <1>2, <1>3, <1>4, <1>5, <1>6, <1>7, <1>8, <1>9,
     <1>10, <1>11, <1>12, <1>13, <1>14, <1>15 DEF Next, WorkerStep

\* The row is inserted on entering ComposeAction and settled on leaving UpdateJob.
LEMMA BookkeepingStep ==
  ASSUME TypeOK, Bookkeeping, [Next]_vars
  PROVE  Bookkeeping'
<1> USE DEF TypeOK, RowStatus, Terminal, WorkerStates, OpStates, FaultKinds,
        Bookkeeping, Connected, coreVars, agentVars
<1>1. ASSUME NEW j \in Jobs, NEW s \in Stacks, SubmitComposeJob(j, s) PROVE Bookkeeping'
  BY <1>1 DEF SubmitComposeJob
<1>2. ASSUME NEW j \in Jobs, CreateJob(j) PROVE Bookkeeping'
  BY <1>2 DEF CreateJob
<1>3. ASSUME NEW j \in Jobs, CreateJobFails(j) PROVE Bookkeeping'
  BY <1>3 DEF CreateJobFails
<1>4. ASSUME NEW j \in Jobs, SendRequest(j) PROVE Bookkeeping'
  BY <1>4 DEF SendRequest
<1>5. ASSUME NEW j \in Jobs, ReceiveAnswer(j) PROVE Bookkeeping'
  BY <1>5 DEF ReceiveAnswer
<1>6. ASSUME NEW j \in Jobs, CallFails(j) PROVE Bookkeeping'
  BY <1>6 DEF CallFails
<1>7. ASSUME NEW j \in Jobs, CallTimesOut(j) PROVE Bookkeeping'
  BY <1>7 DEF CallTimesOut
<1>8. ASSUME NEW j \in Jobs, UpdateJob(j) PROVE Bookkeeping'
  BY <1>8 DEF UpdateJob
<1>9. ASSUME NEW j \in Jobs, UpdateJobFails(j) PROVE Bookkeeping'
  BY <1>9 DEF UpdateJobFails
<1>10. ASSUME NEW j \in Jobs, Unlock(j) PROVE Bookkeeping'
  BY <1>10 DEF Unlock
<1>11. ASSUME NEW j \in Jobs, Deregister(j) PROVE Bookkeeping'
  BY <1>11 DEF Deregister
<1>12. ASSUME NEW j \in Jobs, AgentStep(j) PROVE Bookkeeping'
  BY <1>12 DEF AgentStep, Accept, Reject, StartCompose, ComposeExits, DropAnswer
<1>13. CASE CoreRestart
  BY <1>13 DEF CoreRestart
<1>14. CASE AgentRestart
  BY <1>14 DEF AgentRestart
<1>15. CASE UNCHANGED vars
  BY <1>15 DEF vars
<1>16. QED
  BY <1>1, <1>2, <1>3, <1>4, <1>5, <1>6, <1>7, <1>8, <1>9,
     <1>10, <1>11, <1>12, <1>13, <1>14, <1>15 DEF Next, WorkerStep

\* Only a restart or a failing write leaves a running row without a goroutine.
LEMMA NoOrphanRowStep ==
  ASSUME TypeOK, VerdictKnown, Bookkeeping, NoOrphanRow, [Next]_vars
  PROVE  NoOrphanRow'
<1> USE DEF TypeOK, RowStatus, Terminal, WorkerStates, OpStates, FaultKinds,
        VerdictKnown, Bookkeeping, NoOrphanRow, Connected, coreVars, agentVars, Fault
<1>1. ASSUME NEW j \in Jobs, NEW s \in Stacks, SubmitComposeJob(j, s) PROVE NoOrphanRow'
  BY <1>1 DEF SubmitComposeJob
<1>2. ASSUME NEW j \in Jobs, CreateJob(j) PROVE NoOrphanRow'
  BY <1>2 DEF CreateJob
<1>3. ASSUME NEW j \in Jobs, CreateJobFails(j) PROVE NoOrphanRow'
  BY <1>3 DEF CreateJobFails
<1>4. ASSUME NEW j \in Jobs, SendRequest(j) PROVE NoOrphanRow'
  BY <1>4 DEF SendRequest
<1>5. ASSUME NEW j \in Jobs, ReceiveAnswer(j) PROVE NoOrphanRow'
  BY <1>5 DEF ReceiveAnswer
<1>6. ASSUME NEW j \in Jobs, CallFails(j) PROVE NoOrphanRow'
  BY <1>6 DEF CallFails
<1>7. ASSUME NEW j \in Jobs, CallTimesOut(j) PROVE NoOrphanRow'
  BY <1>7 DEF CallTimesOut
<1>8. ASSUME NEW j \in Jobs, UpdateJob(j) PROVE NoOrphanRow'
  BY <1>8 DEF UpdateJob
<1>9. ASSUME NEW j \in Jobs, UpdateJobFails(j) PROVE NoOrphanRow'
  BY <1>9 DEF UpdateJobFails
<1>10. ASSUME NEW j \in Jobs, Unlock(j) PROVE NoOrphanRow'
  BY <1>10 DEF Unlock
<1>11. ASSUME NEW j \in Jobs, Deregister(j) PROVE NoOrphanRow'
  BY <1>11 DEF Deregister
<1>12. ASSUME NEW j \in Jobs, AgentStep(j) PROVE NoOrphanRow'
  BY <1>12 DEF AgentStep, Accept, Reject, StartCompose, ComposeExits, DropAnswer
<1>13. CASE CoreRestart
  BY <1>13 DEF CoreRestart
<1>14. CASE AgentRestart
  BY <1>14 DEF AgentRestart
<1>15. CASE UNCHANGED vars
  BY <1>15 DEF vars
<1>16. QED
  BY <1>1, <1>2, <1>3, <1>4, <1>5, <1>6, <1>7, <1>8, <1>9,
     <1>10, <1>11, <1>12, <1>13, <1>14, <1>15 DEF Next, WorkerStep

\* A verdict is the exit of the job's own process, and an exit is final.
LEMMA ProvenanceStep ==
  ASSUME TypeOK, Provenance, [Next]_vars
  PROVE  Provenance'
<1> USE DEF TypeOK, RowStatus, Terminal, WorkerStates, OpStates, FaultKinds,
        Provenance, Connected, coreVars, agentVars
<1>1. ASSUME NEW j \in Jobs, NEW s \in Stacks, SubmitComposeJob(j, s) PROVE Provenance'
  BY <1>1 DEF SubmitComposeJob
<1>2. ASSUME NEW j \in Jobs, CreateJob(j) PROVE Provenance'
  BY <1>2 DEF CreateJob
<1>3. ASSUME NEW j \in Jobs, CreateJobFails(j) PROVE Provenance'
  BY <1>3 DEF CreateJobFails
<1>4. ASSUME NEW j \in Jobs, SendRequest(j) PROVE Provenance'
  BY <1>4 DEF SendRequest
<1>5. ASSUME NEW j \in Jobs, ReceiveAnswer(j) PROVE Provenance'
  BY <1>5 DEF ReceiveAnswer
<1>6. ASSUME NEW j \in Jobs, CallFails(j) PROVE Provenance'
  BY <1>6 DEF CallFails
<1>7. ASSUME NEW j \in Jobs, CallTimesOut(j) PROVE Provenance'
  BY <1>7 DEF CallTimesOut
<1>8. ASSUME NEW j \in Jobs, UpdateJob(j) PROVE Provenance'
  BY <1>8 DEF UpdateJob
<1>9. ASSUME NEW j \in Jobs, UpdateJobFails(j) PROVE Provenance'
  BY <1>9 DEF UpdateJobFails
<1>10. ASSUME NEW j \in Jobs, Unlock(j) PROVE Provenance'
  BY <1>10 DEF Unlock
<1>11. ASSUME NEW j \in Jobs, Deregister(j) PROVE Provenance'
  BY <1>11 DEF Deregister
<1>12. ASSUME NEW j \in Jobs, AgentStep(j) PROVE Provenance'
  <2>1. CASE Accept(j)
    BY <2>1 DEF Accept
  <2>2. CASE Reject(j)
    BY <2>2 DEF Reject
  <2>3. CASE StartCompose(j)
    BY <2>3 DEF StartCompose
  <2>4. CASE ComposeExits(j)
    BY <2>4 DEF ComposeExits
  <2>5. CASE DropAnswer(j)
    BY <2>5 DEF DropAnswer
  <2>6. QED
    BY <1>12, <2>1, <2>2, <2>3, <2>4, <2>5 DEF AgentStep
<1>13. CASE CoreRestart
  BY <1>13 DEF CoreRestart
<1>14. CASE AgentRestart
  BY <1>14 DEF AgentRestart
<1>15. CASE UNCHANGED vars
  BY <1>15 DEF vars
<1>16. QED
  BY <1>1, <1>2, <1>3, <1>4, <1>5, <1>6, <1>7, <1>8, <1>9,
     <1>10, <1>11, <1>12, <1>13, <1>14, <1>15 DEF Next, WorkerStep

\* Only a timeout or a restart of the core lets go of a request the agent works for.
LEMMA NoOrphanCallStep ==
  ASSUME TypeOK, NoOrphanCall, [Next]_vars
  PROVE  NoOrphanCall'
<1> USE DEF TypeOK, RowStatus, Terminal, WorkerStates, OpStates, FaultKinds,
        NoOrphanCall, Connected, coreVars, agentVars, Fault
<1>1. ASSUME NEW j \in Jobs, NEW s \in Stacks, SubmitComposeJob(j, s) PROVE NoOrphanCall'
  BY <1>1 DEF SubmitComposeJob
<1>2. ASSUME NEW j \in Jobs, CreateJob(j) PROVE NoOrphanCall'
  BY <1>2 DEF CreateJob
<1>3. ASSUME NEW j \in Jobs, CreateJobFails(j) PROVE NoOrphanCall'
  BY <1>3 DEF CreateJobFails
<1>4. ASSUME NEW j \in Jobs, SendRequest(j) PROVE NoOrphanCall'
  BY <1>4 DEF SendRequest
<1>5. ASSUME NEW j \in Jobs, ReceiveAnswer(j) PROVE NoOrphanCall'
  BY <1>5 DEF ReceiveAnswer
<1>6. ASSUME NEW j \in Jobs, CallFails(j) PROVE NoOrphanCall'
  BY <1>6 DEF CallFails
<1>7. ASSUME NEW j \in Jobs, CallTimesOut(j) PROVE NoOrphanCall'
  BY <1>7 DEF CallTimesOut
<1>8. ASSUME NEW j \in Jobs, UpdateJob(j) PROVE NoOrphanCall'
  BY <1>8 DEF UpdateJob
<1>9. ASSUME NEW j \in Jobs, UpdateJobFails(j) PROVE NoOrphanCall'
  BY <1>9 DEF UpdateJobFails
<1>10. ASSUME NEW j \in Jobs, Unlock(j) PROVE NoOrphanCall'
  BY <1>10 DEF Unlock
<1>11. ASSUME NEW j \in Jobs, Deregister(j) PROVE NoOrphanCall'
  BY <1>11 DEF Deregister
<1>12. ASSUME NEW j \in Jobs, AgentStep(j) PROVE NoOrphanCall'
  BY <1>12 DEF AgentStep, Accept, Reject, StartCompose, ComposeExits, DropAnswer
<1>13. CASE CoreRestart
  BY <1>13 DEF CoreRestart
<1>14. CASE AgentRestart
  BY <1>14 DEF AgentRestart
<1>15. CASE UNCHANGED vars
  BY <1>15 DEF vars
<1>16. QED
  BY <1>1, <1>2, <1>3, <1>4, <1>5, <1>6, <1>7, <1>8, <1>9,
     <1>10, <1>11, <1>12, <1>13, <1>14, <1>15 DEF Next, WorkerStep

\* The agent's answer is the only end of a call that is neither late nor cut off.
LEMMA FailuresHaveCauseStep ==
  ASSUME TypeOK, VerdictKnown, Bookkeeping, Provenance, SentAreSubmitted, FailuresHaveCause,
         [Next]_vars
  PROVE  FailuresHaveCause'
<1> USE DEF TypeOK, RowStatus, Terminal, WorkerStates, OpStates, FaultKinds,
        FailuresHaveCause, VerdictKnown, Bookkeeping, Provenance, SentAreSubmitted, Connected,
        coreVars, agentVars, Fault
<1>1. ASSUME NEW j \in Jobs, NEW s \in Stacks, SubmitComposeJob(j, s) PROVE FailuresHaveCause'
  BY <1>1 DEF SubmitComposeJob
<1>2. ASSUME NEW j \in Jobs, CreateJob(j) PROVE FailuresHaveCause'
  BY <1>2 DEF CreateJob
<1>3. ASSUME NEW j \in Jobs, CreateJobFails(j) PROVE FailuresHaveCause'
  BY <1>3 DEF CreateJobFails
<1>4. ASSUME NEW j \in Jobs, SendRequest(j) PROVE FailuresHaveCause'
  BY <1>4 DEF SendRequest
<1>5. ASSUME NEW j \in Jobs, ReceiveAnswer(j) PROVE FailuresHaveCause'
  BY <1>5 DEF ReceiveAnswer
<1>6. ASSUME NEW j \in Jobs, CallFails(j) PROVE FailuresHaveCause'
  BY <1>6 DEF CallFails
<1>7. ASSUME NEW j \in Jobs, CallTimesOut(j) PROVE FailuresHaveCause'
  BY <1>7 DEF CallTimesOut
<1>8. ASSUME NEW j \in Jobs, UpdateJob(j) PROVE FailuresHaveCause'
  BY <1>8 DEF UpdateJob
<1>9. ASSUME NEW j \in Jobs, UpdateJobFails(j) PROVE FailuresHaveCause'
  BY <1>9 DEF UpdateJobFails
<1>10. ASSUME NEW j \in Jobs, Unlock(j) PROVE FailuresHaveCause'
  BY <1>10 DEF Unlock
<1>11. ASSUME NEW j \in Jobs, Deregister(j) PROVE FailuresHaveCause'
  BY <1>11 DEF Deregister
<1>12. ASSUME NEW j \in Jobs, AgentStep(j) PROVE FailuresHaveCause'
  <2>1. CASE Accept(j)
    BY <2>1 DEF Accept
  <2>2. CASE Reject(j)
    BY <2>2 DEF Reject
  <2>3. CASE StartCompose(j)
    BY <2>3 DEF StartCompose
  <2>4. CASE ComposeExits(j)
    BY <2>4 DEF ComposeExits
  <2>5. CASE DropAnswer(j)
    BY <2>5 DEF DropAnswer
  <2>6. QED
    BY <1>12, <2>1, <2>2, <2>3, <2>4, <2>5 DEF AgentStep
<1>13. CASE CoreRestart
  BY <1>13 DEF CoreRestart
<1>14. CASE AgentRestart
  BY <1>14 DEF AgentRestart
<1>15. CASE UNCHANGED vars
  BY <1>15 DEF vars
<1>16. QED
  BY <1>1, <1>2, <1>3, <1>4, <1>5, <1>6, <1>7, <1>8, <1>9,
     <1>10, <1>11, <1>12, <1>13, <1>14, <1>15 DEF Next, WorkerStep

\* Only a goroutine sends a request, and an id is used once.
LEMMA SentAreSubmittedStep ==
  ASSUME TypeOK, SentAreSubmitted, [Next]_vars
  PROVE  SentAreSubmitted'
<1> USE DEF TypeOK, RowStatus, Terminal, WorkerStates, OpStates, FaultKinds,
        SentAreSubmitted, Connected, coreVars, agentVars
<1>1. ASSUME NEW j \in Jobs, NEW s \in Stacks, SubmitComposeJob(j, s) PROVE SentAreSubmitted'
  BY <1>1 DEF SubmitComposeJob
<1>2. ASSUME NEW j \in Jobs, CreateJob(j) PROVE SentAreSubmitted'
  BY <1>2 DEF CreateJob
<1>3. ASSUME NEW j \in Jobs, CreateJobFails(j) PROVE SentAreSubmitted'
  BY <1>3 DEF CreateJobFails
<1>4. ASSUME NEW j \in Jobs, SendRequest(j) PROVE SentAreSubmitted'
  BY <1>4 DEF SendRequest
<1>5. ASSUME NEW j \in Jobs, ReceiveAnswer(j) PROVE SentAreSubmitted'
  BY <1>5 DEF ReceiveAnswer
<1>6. ASSUME NEW j \in Jobs, CallFails(j) PROVE SentAreSubmitted'
  BY <1>6 DEF CallFails
<1>7. ASSUME NEW j \in Jobs, CallTimesOut(j) PROVE SentAreSubmitted'
  BY <1>7 DEF CallTimesOut
<1>8. ASSUME NEW j \in Jobs, UpdateJob(j) PROVE SentAreSubmitted'
  BY <1>8 DEF UpdateJob
<1>9. ASSUME NEW j \in Jobs, UpdateJobFails(j) PROVE SentAreSubmitted'
  BY <1>9 DEF UpdateJobFails
<1>10. ASSUME NEW j \in Jobs, Unlock(j) PROVE SentAreSubmitted'
  BY <1>10 DEF Unlock
<1>11. ASSUME NEW j \in Jobs, Deregister(j) PROVE SentAreSubmitted'
  BY <1>11 DEF Deregister
<1>12. ASSUME NEW j \in Jobs, AgentStep(j) PROVE SentAreSubmitted'
  BY <1>12 DEF AgentStep, Accept, Reject, StartCompose, ComposeExits, DropAnswer
<1>13. CASE CoreRestart
  BY <1>13 DEF CoreRestart
<1>14. CASE AgentRestart
  BY <1>14 DEF AgentRestart
<1>15. CASE UNCHANGED vars
  BY <1>15 DEF vars
<1>16. QED
  BY <1>1, <1>2, <1>3, <1>4, <1>5, <1>6, <1>7, <1>8, <1>9,
     <1>10, <1>11, <1>12, <1>13, <1>14, <1>15 DEF Next, WorkerStep

\* The two ends of the goroutine enter and remove its cancel function.
LEMMA RegisteredWhileRunningStep ==
  ASSUME TypeOK, RegisteredWhileRunning, [Next]_vars
  PROVE  RegisteredWhileRunning'
<1> USE DEF TypeOK, RowStatus, Terminal, WorkerStates, OpStates, FaultKinds,
        RegisteredWhileRunning, Connected, coreVars, agentVars
<1>1. ASSUME NEW j \in Jobs, NEW s \in Stacks, SubmitComposeJob(j, s) PROVE RegisteredWhileRunning'
  BY <1>1 DEF SubmitComposeJob
<1>2. ASSUME NEW j \in Jobs, CreateJob(j) PROVE RegisteredWhileRunning'
  BY <1>2 DEF CreateJob
<1>3. ASSUME NEW j \in Jobs, CreateJobFails(j) PROVE RegisteredWhileRunning'
  BY <1>3 DEF CreateJobFails
<1>4. ASSUME NEW j \in Jobs, SendRequest(j) PROVE RegisteredWhileRunning'
  BY <1>4 DEF SendRequest
<1>5. ASSUME NEW j \in Jobs, ReceiveAnswer(j) PROVE RegisteredWhileRunning'
  BY <1>5 DEF ReceiveAnswer
<1>6. ASSUME NEW j \in Jobs, CallFails(j) PROVE RegisteredWhileRunning'
  BY <1>6 DEF CallFails
<1>7. ASSUME NEW j \in Jobs, CallTimesOut(j) PROVE RegisteredWhileRunning'
  BY <1>7 DEF CallTimesOut
<1>8. ASSUME NEW j \in Jobs, UpdateJob(j) PROVE RegisteredWhileRunning'
  BY <1>8 DEF UpdateJob
<1>9. ASSUME NEW j \in Jobs, UpdateJobFails(j) PROVE RegisteredWhileRunning'
  BY <1>9 DEF UpdateJobFails
<1>10. ASSUME NEW j \in Jobs, Unlock(j) PROVE RegisteredWhileRunning'
  BY <1>10 DEF Unlock
<1>11. ASSUME NEW j \in Jobs, Deregister(j) PROVE RegisteredWhileRunning'
  BY <1>11 DEF Deregister
<1>12. ASSUME NEW j \in Jobs, AgentStep(j) PROVE RegisteredWhileRunning'
  BY <1>12 DEF AgentStep, Accept, Reject, StartCompose, ComposeExits, DropAnswer
<1>13. CASE CoreRestart
  BY <1>13 DEF CoreRestart
<1>14. CASE AgentRestart
  BY <1>14 DEF AgentRestart
<1>15. CASE UNCHANGED vars
  BY <1>15 DEF vars
<1>16. QED
  BY <1>1, <1>2, <1>3, <1>4, <1>5, <1>6, <1>7, <1>8, <1>9,
     <1>10, <1>11, <1>12, <1>13, <1>14, <1>15 DEF Next, WorkerStep

\* A set that gains one element at most.
LEMMA OneMore ==
  ASSUME NEW S, IsFiniteSet(S), NEW x, NEW T, T \subseteq S \cup {x}
  PROVE  /\ IsFiniteSet(T)
         /\ Cardinality(S) \in Nat /\ Cardinality(T) \in Nat
         /\ Cardinality(T) <= Cardinality(S) + 1
<1>1. IsFiniteSet(S \cup {x}) /\ Cardinality(S \cup {x}) <= Cardinality(S) + 1
  <2>1. /\ IsFiniteSet(S \cup {x})
        /\ Cardinality(S \cup {x}) = IF x \in S THEN Cardinality(S) ELSE Cardinality(S) + 1
    BY FS_AddElement
  <2>2. QED
    BY <2>1, FS_CardinalityType
<1>2. IsFiniteSet(T) /\ Cardinality(T) <= Cardinality(S \cup {x})
  BY <1>1, FS_Subset
<1>3. QED
  BY <1>1, <1>2, FS_CardinalityType

\* Apart from a timeout and a restart of the core, no step lets go of a request.
LEMMA AbandonedShrinks ==
  ASSUME TypeOK, SentAreSubmitted, NEW t \in Stacks,
         \/ \E j \in Jobs, s \in Stacks : SubmitComposeJob(j, s)
         \/ \E j \in Jobs : (WorkerStep(j) /\ ~CallTimesOut(j)) \/ AgentStep(j)
         \/ AgentRestart
         \/ UNCHANGED vars
  PROVE  Abandoned(t)' \subseteq Abandoned(t)
<1> USE DEF TypeOK, WorkerStates, OpStates, Abandoned, Working, Connected, coreVars, agentVars
<1>1. ASSUME NEW j \in Jobs, NEW s \in Stacks, SubmitComposeJob(j, s)
      PROVE  Abandoned(t)' \subseteq Abandoned(t)
  BY <1>1 DEF SubmitComposeJob, SentAreSubmitted
<1>2. ASSUME NEW j \in Jobs,
             \/ CreateJob(j) \/ CreateJobFails(j) \/ UpdateJob(j) \/ UpdateJobFails(j)
             \/ Unlock(j) \/ Deregister(j)
      PROVE  Abandoned(t)' \subseteq Abandoned(t)
  BY <1>2 DEF CreateJob, CreateJobFails, UpdateJob, UpdateJobFails, Unlock, Deregister
<1>3. ASSUME NEW j \in Jobs, SendRequest(j) \/ ReceiveAnswer(j) \/ CallFails(j)
      PROVE  Abandoned(t)' \subseteq Abandoned(t)
  BY <1>3 DEF SendRequest, ReceiveAnswer, CallFails
<1>4. ASSUME NEW j \in Jobs, AgentStep(j)
      PROVE  Abandoned(t)' \subseteq Abandoned(t)
  BY <1>4 DEF AgentStep, Accept, Reject, StartCompose, ComposeExits, DropAnswer
<1>5. ASSUME AgentRestart \/ UNCHANGED vars
      PROVE  Abandoned(t)' \subseteq Abandoned(t)
  BY <1>5 DEF AgentRestart, vars
<1>6. QED
  BY <1>1, <1>2, <1>3, <1>4, <1>5 DEF WorkerStep

\* A timeout lets go of one request, a restart of the core of one for each stack: the one
\* whose goroutine holds the mutex.
LEMMA AbandonedGrows ==
  ASSUME TypeOK, Ownership, NEW t \in Stacks,
         (\E j \in Jobs : CallTimesOut(j)) \/ CoreRestart
  PROVE  \E x : Abandoned(t)' \subseteq Abandoned(t) \cup {x}
<1> USE DEF TypeOK, WorkerStates, Abandoned, Working, Connected, agentVars
<1>1. ASSUME NEW j \in Jobs, CallTimesOut(j)
      PROVE  Abandoned(t)' \subseteq Abandoned(t) \cup {j}
  BY <1>1 DEF CallTimesOut
<1>2. ASSUME CoreRestart
      PROVE  Abandoned(t)' \subseteq Abandoned(t) \cup {stackLocks[t]}
  BY <1>2 DEF CoreRestart, Ownership, Holding
<1>3. QED
  BY <1>1, <1>2

\* The faults that let go of requests are counted, and no counter goes down.
LEMMA FaultsGrow ==
  ASSUME TypeOK, [Next]_vars
  PROVE  LET lost == faults["timeout"] + faults["restart"]
         IN  /\ lost \in Nat /\ lost' \in Nat /\ lost <= lost'
             /\ (\E j \in Jobs : CallTimesOut(j)) \/ CoreRestart => lost' = lost + 1
<1> USE DEF TypeOK, FaultKinds, Fault
<1>1. ASSUME NEW j \in Jobs, CallTimesOut(j)
      PROVE  faults' = [faults EXCEPT !["timeout"] = @ + 1]
  BY <1>1 DEF CallTimesOut
<1>2. ASSUME CoreRestart PROVE faults' = [faults EXCEPT !["restart"] = @ + 1]
  BY <1>2 DEF CoreRestart
<1>3. ASSUME NEW j \in Jobs, WorkerStep(j) \/ AgentStep(j), ~CallTimesOut(j)
      PROVE  \/ UNCHANGED faults
             \/ faults' = [faults EXCEPT !["db_error"] = @ + 1]
  BY <1>3 DEF WorkerStep, AgentStep, CreateJob, CreateJobFails, SendRequest, ReceiveAnswer,
              CallFails, UpdateJob, UpdateJobFails, Unlock, Deregister,
              Accept, Reject, StartCompose, ComposeExits, DropAnswer
<1>4. ASSUME AgentRestart PROVE faults' = [faults EXCEPT !["agent_restart"] = @ + 1]
  BY <1>4 DEF AgentRestart
<1>5. \/ UNCHANGED faults
      \/ \E k \in FaultKinds : faults' = [faults EXCEPT ![k] = @ + 1]
  BY <1>1, <1>2, <1>3, <1>4 DEF Next, SubmitComposeJob, vars
<1>6. QED
  BY <1>1, <1>2, <1>5

\* The abandoned requests of a stack are as many as the faults that let go of one, at most.
LEMMA AbandonedAreCountedStep ==
  ASSUME TypeOK, SentAreSubmitted, Ownership, AbandonedAreCounted, [Next]_vars
  PROVE  AbandonedAreCounted'
<1> DEFINE lost == faults["timeout"] + faults["restart"]
<1>1. lost \in Nat /\ lost' \in Nat /\ lost <= lost'
  BY FaultsGrow
<1>2. SUFFICES ASSUME NEW t \in Stacks
               PROVE  IsFiniteSet(Abandoned(t)') /\ Cardinality(Abandoned(t)') <= lost'
  BY DEF AbandonedAreCounted
<1>3. IsFiniteSet(Abandoned(t)) /\ Cardinality(Abandoned(t)) <= lost
  BY DEF AbandonedAreCounted
<1>4. CASE (\E j \in Jobs : CallTimesOut(j)) \/ CoreRestart
  <2>1. PICK x : Abandoned(t)' \subseteq Abandoned(t) \cup {x}
    BY <1>4, AbandonedGrows
  <2>2. lost' = lost + 1
    BY <1>4, FaultsGrow
  <2>3. QED
    BY <1>1, <1>3, <2>1, <2>2, OneMore
<1>5. CASE ~((\E j \in Jobs : CallTimesOut(j)) \/ CoreRestart)
  <2>1. Abandoned(t)' \subseteq Abandoned(t)
    BY <1>5, AbandonedShrinks DEF Next
  <2>2. /\ IsFiniteSet(Abandoned(t)')
        /\ Cardinality(Abandoned(t)') <= Cardinality(Abandoned(t))
    BY <1>3, <2>1, FS_Subset
  <2>3. Cardinality(Abandoned(t)) \in Nat /\ Cardinality(Abandoned(t)') \in Nat
    BY <1>3, <2>2, FS_CardinalityType
  <2>4. QED
    BY <1>1, <1>3, <2>2, <2>3
<1>6. QED
  BY <1>4, <1>5

\* The invariant holds in every reachable state.
THEOREM Invariant == Spec => []IInv
<1>1. IInv /\ [Next]_vars => IInv'
  BY TypeStep, VerdictStep, OwnershipStep, BookkeepingStep, NoOrphanRowStep, ProvenanceStep,
     NoOrphanCallStep, FailuresHaveCauseStep, SentAreSubmittedStep, RegisteredWhileRunningStep,
     AbandonedAreCountedStep DEF IInv
<1>2. QED
  BY InitInvariant, <1>1, PTL DEF Spec

\* Type correctness of the mutex table, the jobs table, the goroutines and the
\* agent's requests.
THEOREM TypeCorrect == Spec => []TypeOK
<1>1. IInv => TypeOK
  BY DEF IInv
<1>2. QED
  BY Invariant, <1>1, PTL

\* TryLock and the deferred Unlock make the mutex exclusive per stack, and no
\* path through SubmitComposeJob leaves it locked behind (manager.go:46-74).
THEOREM LockSafety == Spec => []LockMatchesWorker
<1>1. IInv => LockMatchesWorker
  BY DEF IInv, Ownership, LockMatchesWorker, TypeOK
<1>2. QED
  BY Invariant, <1>1, PTL

\* Without restarts and failing writes, a running row always belongs to the
\* holder of its stack's mutex (manager.go:71, 100).
THEOREM RunningRowsAreLocked == Spec => []RunningRowIsLocked
<1>1. IInv => RunningRowIsLocked
  BY DEF IInv, Ownership, NoOrphanRow, RunningRowIsLocked, Holding
<1>2. QED
  BY Invariant, <1>1, PTL

\* A job is recorded as completed only after its own compose process succeeded,
\* under every fault of the model (manager.go:88-98).
THEOREM CompletionIsTruthful == Spec => []CompletedMeansDone
<1>1. IInv => CompletedMeansDone
  BY DEF IInv, Provenance, CompletedMeansDone
<1>2. QED
  BY Invariant, <1>1, PTL

\* While no call outlasts the HTTP client and the core stays up, the agent runs
\* at most one compose process per stack (client.go:54, handler.go:595).
THEOREM ComposeExclusion == Spec => []ExclusiveComposeInTime
<1>1. IInv => ExclusiveComposeInTime
  BY DEF IInv, Ownership, NoOrphanCall, ExclusiveComposeInTime, ExclusiveCompose, Holding
<1>2. QED
  BY Invariant, <1>1, PTL

\* A job is recorded as failed only if its compose process did not succeed, unless a call
\* outlasts the client or the agent restarts (manager.go:76-98, client.go:54).
THEOREM FailuresAreReal == Spec => []FailureIsReal
<1>1. IInv => FailureIsReal
  BY DEF IInv, FailuresHaveCause, FailureIsReal
<1>2. QED
  BY Invariant, <1>1, PTL

\* RegisteredWhileRunning: runningJobs holds the jobs whose goroutines run, under every
\* fault of the model (manager.go:61-74).
THEOREM RegistrationIsExact == Spec => []RegisteredWhileRunning
<1>1. IInv => RegisteredWhileRunning
  BY DEF IInv
<1>2. QED
  BY Invariant, <1>1, PTL

\* ExcessIsCounted: however often calls time out and the core restarts, a stack has no more
\* than one compose process beyond those that these faults account for: the one whose
\* goroutine holds the mutex.
THEOREM ExcessIsBounded == Spec => []ExcessIsCounted
<1>1. ASSUME IInv, NEW s \in Stacks
      PROVE  /\ IsFiniteSet(Executing(s))
             /\ Cardinality(Executing(s)) <= 1 + faults["timeout"] + faults["restart"]
  <2>1. /\ IsFiniteSet(Abandoned(s))
        /\ Cardinality(Abandoned(s)) <= faults["timeout"] + faults["restart"]
    BY <1>1 DEF IInv, AbandonedAreCounted
  <2>2. Executing(s) \subseteq Abandoned(s) \cup {stackLocks[s]}
    BY <1>1 DEF IInv, Ownership, Holding, Executing, Abandoned, Working, Connected
  <2>3. /\ IsFiniteSet(Executing(s))
        /\ Cardinality(Abandoned(s)) \in Nat /\ Cardinality(Executing(s)) \in Nat
        /\ Cardinality(Executing(s)) <= Cardinality(Abandoned(s)) + 1
    BY <2>1, <2>2, OneMore
  <2>4. faults["timeout"] \in Nat /\ faults["restart"] \in Nat
    BY <1>1 DEF IInv, TypeOK, FaultKinds
  <2>5. QED
    BY <2>1, <2>3, <2>4
<1>2. IInv => ExcessIsCounted
  BY <1>1 DEF ExcessIsCounted
<1>3. QED
  BY Invariant, <1>2, PTL

\* JobsWindDown: no step of the core, of the agent or of a fault takes a job or its request
\* back, so a job has eleven steps at most and JobsEnd rests on the fairness alone.
THEOREM JobsAreBounded == Spec => JobsWindDown
<1> DEFINE Down(j) == StepsLeft(j)' < StepsLeft(j) \/ UNCHANGED <<worker[j], op[j]>>
<1>1. ASSUME TypeOK, [Next]_vars PROVE \A i \in Jobs : Down(i)
  <2> USE DEF TypeOK, WorkerStates, OpStates, Connected, coreVars, agentVars
  <2>1. ASSUME NEW j \in Jobs, NEW s \in Stacks, SubmitComposeJob(j, s)
        PROVE  \A i \in Jobs : Down(i)
    BY <1>1, <2>1 DEF SubmitComposeJob, StepsLeft
  <2>2. ASSUME NEW j \in Jobs,
               \/ CreateJob(j) \/ CreateJobFails(j) \/ UpdateJob(j) \/ UpdateJobFails(j)
               \/ Unlock(j) \/ Deregister(j)
        PROVE  \A i \in Jobs : Down(i)
    <3>1. op' = op /\ \A i \in Jobs \ {j} : worker'[i] = worker[i]
      BY <1>1, <2>2 DEF CreateJob, CreateJobFails, UpdateJob, UpdateJobFails, Unlock, Deregister
    <3>2. <<worker[j], worker'[j]>> \in
            {<<"locked", "calling">>, <<"locked", "gone">>, <<"settling", "recorded">>,
             <<"recorded", "unlocked">>, <<"unlocked", "gone">>}
      BY <1>1, <2>2 DEF CreateJob, CreateJobFails, UpdateJob, UpdateJobFails, Unlock, Deregister
    <3>3. StepsLeft(j)' < StepsLeft(j)
      BY <1>1, <3>1, <3>2 DEF StepsLeft
    <3>4. QED
      BY <3>1, <3>3
  <2>3. ASSUME NEW j \in Jobs,
               \/ SendRequest(j) \/ ReceiveAnswer(j) \/ CallFails(j) \/ CallTimesOut(j)
        PROVE  \A i \in Jobs : Down(i)
    BY <1>1, <2>3 DEF SendRequest, ReceiveAnswer, CallFails, CallTimesOut, StepsLeft
  <2>4. ASSUME NEW j \in Jobs, AgentStep(j) PROVE \A i \in Jobs : Down(i)
    <3>1. worker' = worker /\ \A i \in Jobs \ {j} : op'[i] = op[i]
      BY <1>1, <2>4 DEF AgentStep, Accept, Reject, StartCompose, ComposeExits, DropAnswer
    <3>2. <<op[j], op'[j]>> \in
            {<<"sent", "handling">>, <<"handling", "exited">>, <<"handling", "executing">>,
             <<"executing", "exited">>, <<"exited", "closed">>}
      BY <1>1, <2>4 DEF AgentStep, Accept, Reject, StartCompose, ComposeExits, DropAnswer
    <3>3. StepsLeft(j)' < StepsLeft(j)
      BY <1>1, <3>1, <3>2 DEF StepsLeft
    <3>4. QED
      BY <3>1, <3>3
  <2>5. CASE CoreRestart
    BY <1>1, <2>5 DEF CoreRestart, StepsLeft
  <2>6. CASE AgentRestart
    BY <1>1, <2>6 DEF AgentRestart, StepsLeft
  <2>7. CASE UNCHANGED vars
    BY <2>7 DEF vars
  <2>8. QED
    BY <1>1, <2>1, <2>2, <2>3, <2>4, <2>5, <2>6, <2>7 DEF Next, WorkerStep
<1>2. TypeOK /\ [Next]_vars => [\A j \in Jobs : Down(j)]_vars
  BY <1>1
<1>3. QED
  BY TypeCorrect, <1>2, PTL DEF Spec, JobsWindDown

\* A settled row is final and a running row only ever settles (repos.go:244-263).
THEOREM SettlingIsFinal == Spec => SettledRowsStay
<1> DEFINE Stays ==
      \A j \in Jobs :
        /\ row[j] \in Terminal => row'[j] = row[j]
        /\ row[j] = "running" => row'[j] \in {"running"} \cup Terminal
<1>1. IInv /\ [Next]_vars => [Stays]_row
  <2> SUFFICES ASSUME IInv, [Next]_vars PROVE Stays \/ UNCHANGED row
    OBVIOUS
  <2> USE DEF IInv, TypeOK, RowStatus, Terminal, Bookkeeping, VerdictKnown
  <2>1. ASSUME NEW j \in Jobs, CreateJob(j) PROVE Stays
    BY <2>1 DEF CreateJob
  <2>2. ASSUME NEW j \in Jobs, UpdateJob(j) PROVE Stays
    BY <2>2 DEF UpdateJob
  <2>3. CASE UNCHANGED row
    BY <2>3
  <2>4. \/ \E j \in Jobs : CreateJob(j) \/ UpdateJob(j)
        \/ UNCHANGED row
    BY DEF Next, WorkerStep, AgentStep, vars, SubmitComposeJob, CreateJobFails, SendRequest,
           ReceiveAnswer, CallFails, CallTimesOut, UpdateJobFails, Unlock, Deregister,
           CoreRestart, Accept, Reject, StartCompose, ComposeExits, DropAnswer, AgentRestart
  <2>5. QED
    BY <2>1, <2>2, <2>3, <2>4
<1>2. QED
  BY Invariant, <1>1, PTL DEF Spec, SettledRowsStay

\* StackJobs implements JobLedger: every step of the goroutines, the agent and
\* the faults is a step of the ledger or leaves it alone.
THEOREM ImplementsLedger == Spec => LedgerSpec
<1> DEFINE used == {j \in Jobs : worker[j] # "idle"}
<1>1. Init => Ledger!Init
  BY DEF Init, Ledger!Init
<1>2. IInv /\ [Next]_vars => [Ledger!Next]_(Ledger!ledgerVars)
  <2> SUFFICES ASSUME IInv, [Next]_vars
               PROVE  Ledger!Next \/ UNCHANGED <<stackLocks, used, row>>
    BY DEF Ledger!ledgerVars
  <2> USE DEF IInv, TypeOK, WorkerStates
  <2>1. ASSUME NEW j \in Jobs, NEW s \in Stacks, SubmitComposeJob(j, s)
        PROVE  Ledger!Next
    <3>1. used' = used \cup {j} /\ j \notin used
      BY <2>1 DEF SubmitComposeJob
    <3>2. Ledger!Acquire(j, s)
      BY <2>1, <3>1 DEF SubmitComposeJob, Ledger!Acquire
    <3>3. QED
      BY <3>2 DEF Ledger!Next
  <2>2. ASSUME NEW j \in Jobs, WorkerStep(j)
        PROVE  used' = used
    BY <2>2 DEF WorkerStep, CreateJob, CreateJobFails, SendRequest, ReceiveAnswer, CallFails,
                CallTimesOut, UpdateJob, UpdateJobFails, Unlock, Deregister, Connected, coreVars
  <2>3. ASSUME NEW j \in Jobs, CreateJob(j)
        PROVE  Ledger!Next
    <3>1. target[j] \in Stacks /\ Ledger!Enter(j, target[j])
      BY <2>2, <2>3 DEF CreateJob, WorkerStep, Ledger!Enter, Ownership, Bookkeeping, Holding
    <3>2. QED
      BY <3>1 DEF Ledger!Next
  <2>4. ASSUME NEW j \in Jobs, UpdateJob(j)
        PROVE  Ledger!Next
    <3>1. target[j] \in Stacks /\ stackLocks[target[j]] = j /\ row[j] = "running"
      BY <2>4 DEF UpdateJob, Ownership, Bookkeeping, Holding
    <3>2. verdict[j] \in Ledger!Verdicts
      BY <2>4 DEF UpdateJob, VerdictKnown, Terminal, Ledger!Verdicts
    <3>3. Ledger!Settle(j, target[j])
      BY <2>2, <2>4, <3>1, <3>2 DEF UpdateJob, WorkerStep, Ledger!Settle
    <3>4. QED
      BY <3>1, <3>3 DEF Ledger!Next
  <2>5. ASSUME NEW j \in Jobs, CreateJobFails(j) \/ Unlock(j)
        PROVE  Ledger!Next
    <3>1. target[j] \in Stacks /\ stackLocks[target[j]] = j
      BY <2>5 DEF CreateJobFails, Unlock, Ownership, Holding
    <3>2. Ledger!Release(j, target[j])
      BY <2>2, <2>5, <3>1 DEF CreateJobFails, Unlock, WorkerStep, Ledger!Release
    <3>3. QED
      BY <3>1, <3>2 DEF Ledger!Next
  <2>6. ASSUME NEW j \in Jobs,
               \/ SendRequest(j) \/ ReceiveAnswer(j) \/ CallFails(j) \/ CallTimesOut(j)
               \/ UpdateJobFails(j) \/ Deregister(j)
        PROVE  UNCHANGED <<stackLocks, used, row>>
    BY <2>2, <2>6 DEF WorkerStep, SendRequest, ReceiveAnswer, CallFails, CallTimesOut,
                      UpdateJobFails, Deregister, coreVars
  <2>7. ASSUME NEW j \in Jobs, AgentStep(j)
        PROVE  UNCHANGED <<stackLocks, used, row>>
    BY <2>7 DEF AgentStep, Accept, Reject, StartCompose, ComposeExits, DropAnswer, coreVars
  <2>8. CASE CoreRestart
    <3>1. used' = used
      BY <2>8 DEF CoreRestart
    <3>2. Ledger!Forget
      BY <2>8, <3>1 DEF CoreRestart, Ledger!Forget
    <3>3. QED
      BY <3>2 DEF Ledger!Next
  <2>9. CASE AgentRestart
    BY <2>9 DEF AgentRestart, coreVars
  <2>10. CASE UNCHANGED vars
    BY <2>10 DEF vars
  <2>11. QED
    BY <2>1, <2>3, <2>4, <2>5, <2>6, <2>7, <2>8, <2>9, <2>10 DEF Next, WorkerStep
<1>3. QED
  BY Invariant, <1>1, <1>2, PTL DEF Spec, LedgerSpec, Ledger!Spec
=============================================================================
