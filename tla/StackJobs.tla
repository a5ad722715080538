----------------------------- MODULE StackJobs -----------------------------
(***************************************************************************)
(* Compose jobs, from SubmitComposeJob in panel-core to the docker compose *)
(* process that panel-agent runs for them.                                 *)
(*                                                                         *)
(* panel-core: internal/jobs/manager.go keeps one mutex per stack id and   *)
(* one goroutine per job; internal/database/repos.go keeps the jobs table. *)
(* The mutexes and goroutines die with the process, the table does not.    *)
(*                                                                         *)
(* panel-agent: internal/agent/handler.go serves the goroutine's request   *)
(* and runs compose under the request's context.  The agent keeps no lock  *)
(* of its own: it relies on the core.                                      *)
(*                                                                         *)
(* The two meet in one HTTP request per job.  The client gives up after    *)
(* 120 s (internal/agent/client.go), well before the job's own deadline of *)
(* 15 minutes, and the agent learns of it only when its server notices the *)
(* closed connection.                                                      *)
(***************************************************************************)
EXTENDS Naturals, FiniteSets

CONSTANTS
  Stacks,            \* ids of rows of the stacks table
  Jobs,              \* job ids the clock can hand out; bounds the submissions
  NoJob,             \* holder of a mutex nobody holds
  NoStack,           \* stack of a job that was never submitted
  MaxRestarts,       \* bound on restarts of panel-core
  MaxAgentRestarts,  \* bound on restarts of panel-agent
  MaxTimeouts,       \* bound on requests the HTTP client gives up on
  MaxDbErrors        \* bound on failing writes of the jobs table

ASSUME JobsAssumption ==
  /\ NoJob \notin Jobs
  /\ NoStack \notin Stacks
  /\ {MaxRestarts, MaxAgentRestarts, MaxTimeouts, MaxDbErrors} \subseteq Nat

VARIABLES
  stackLocks,   \* Manager.stackLocks: who holds the mutex of each stack
  runningJobs,  \* Manager.runningJobs: jobs whose cancel function is stored
  row,          \* status column of the jobs table
  target,       \* StackID of the job, in its goroutine and in its row
  worker,       \* where the submitting handler or the goroutine of a job is
  verdict,      \* what the goroutine learnt from ComposeAction
  op,           \* where the agent is with the request of a job
  exit,         \* how the compose process of a job ended
  faults        \* how often each kind of fault has happened

coreVars  == <<stackLocks, runningJobs, worker, verdict>>
agentVars == <<op, exit>>
vars == <<stackLocks, runningJobs, row, target, worker, verdict, op, exit, faults>>

-----------------------------------------------------------------------------
(* Types *)

Terminal == {"completed", "failed"}
RowStatus == {"absent", "running"} \cup Terminal

\* idle      the id is not in use
\* locked    TryLock succeeded, CreateJob is next
\* calling   the goroutine waits in ComposeAction
\* settling  ComposeAction returned, UpdateJob is next
\* recorded  UpdateJob returned, the deferred Unlock is next
\* unlocked  the mutex is free, runningJobs.Delete and cancel are next
\* gone      nothing is left to do
WorkerStates == {"idle", "locked", "calling", "settling", "recorded", "unlocked", "gone"}

\* none       no request was sent
\* sent       the request is on the socket
\* handling   handleComposeAction decodes, validates and saves
\* executing  the compose process runs
\* exited     cmd.Run returned, or a check before it failed
\* closed     the handler returned, or the agent died
OpStates == {"none", "sent", "handling", "executing", "exited", "closed"}

FaultKinds == {"restart", "agent_restart", "timeout", "db_error"}

TypeOK ==
  /\ stackLocks \in [Stacks -> Jobs \cup {NoJob}]
  /\ runningJobs \in SUBSET Jobs
  /\ row \in [Jobs -> RowStatus]
  /\ target \in [Jobs -> Stacks \cup {NoStack}]
  /\ worker \in [Jobs -> WorkerStates]
  /\ verdict \in [Jobs -> {"none"} \cup Terminal]
  /\ op \in [Jobs -> OpStates]
  /\ exit \in [Jobs -> {"none", "ok", "error"}]
  /\ faults \in [FaultKinds -> Nat]

\* The states in which a job holds the mutex of its stack.
Holding == {"locked", "calling", "settling", "recorded"}

\* The request of job j still has a client: its goroutine is in ComposeAction.
Connected(j) == worker[j] = "calling"

\* One more fault of kind k.
Fault(k) == faults' = [faults EXCEPT ![k] = @ + 1]

-----------------------------------------------------------------------------
Init ==
  /\ stackLocks = [s \in Stacks |-> NoJob]
  /\ runningJobs = {}
  /\ row = [j \in Jobs |-> "absent"]
  /\ target = [j \in Jobs |-> NoStack]
  /\ worker = [j \in Jobs |-> "idle"]
  /\ verdict = [j \in Jobs |-> "none"]
  /\ op = [j \in Jobs |-> "none"]
  /\ exit = [j \in Jobs |-> "none"]
  /\ faults = [k \in FaultKinds |-> 0]

-----------------------------------------------------------------------------
(* Mutants: one mistake each.  No specification uses them; a run's property is *)
(* known to notice the mistake when the action it spoils is replaced by it.    *)

\* The result of TryLock is ignored.
SubmitWithoutTryLock(j, s) ==
  /\ worker[j] = "idle"
  /\ stackLocks' = [stackLocks EXCEPT ![s] = j]
  /\ target' = [target EXCEPT ![j] = s]
  /\ worker' = [worker EXCEPT ![j] = "locked"]
  /\ UNCHANGED <<runningJobs, row, verdict, agentVars, faults>>

\* The error path of CreateJob returns without unlocking.
CreateJobFailsLocked(j) ==
  /\ worker[j] = "locked"
  /\ faults["db_error"] < MaxDbErrors
  /\ Fault("db_error")
  /\ worker' = [worker EXCEPT ![j] = "gone"]
  /\ UNCHANGED <<stackLocks, runningJobs, row, target, verdict, agentVars>>

\* Any answer of the agent counts as success: res.Success is not looked at.
ReceiveAnswerUnchecked(j) ==
  /\ Connected(j)
  /\ op[j] = "exited"
  /\ verdict' = [verdict EXCEPT ![j] = "completed"]
  /\ worker' = [worker EXCEPT ![j] = "settling"]
  /\ op' = [op EXCEPT ![j] = "closed"]
  /\ UNCHANGED <<stackLocks, runningJobs, row, target, exit, faults>>

\* The mutex is unlocked as soon as the answer is there, before UpdateJob.
ReceiveAnswerUnlocks(j) ==
  /\ Connected(j)
  /\ op[j] = "exited"
  /\ verdict' = [verdict EXCEPT ![j] = IF exit[j] = "ok" THEN "completed" ELSE "failed"]
  /\ worker' = [worker EXCEPT ![j] = "settling"]
  /\ op' = [op EXCEPT ![j] = "closed"]
  /\ stackLocks' = [stackLocks EXCEPT ![target[j]] = NoJob]
  /\ UNCHANGED <<runningJobs, row, target, exit, faults>>

\* The job runs under the context of the request that submitted it, which is over once
\* the submission is answered: the call ends early, whatever the agent does.
CallEndsWithRequest(j) ==
  /\ Connected(j)
  /\ verdict' = [verdict EXCEPT ![j] = "failed"]
  /\ worker' = [worker EXCEPT ![j] = "settling"]
  /\ UNCHANGED <<stackLocks, runningJobs, row, target, agentVars, faults>>

\* A client without a timeout.
CallNeverTimesOut(j) ==
  /\ Connected(j)
  /\ FALSE
  /\ UNCHANGED vars

\* The goroutine returns before UpdateJob; the deferred function still runs.
UnlockWithoutUpdate(j) ==
  /\ worker[j] = "settling"
  /\ stackLocks' = [stackLocks EXCEPT ![target[j]] = NoJob]
  /\ worker' = [worker EXCEPT ![j] = "unlocked"]
  /\ UNCHANGED <<runningJobs, row, target, verdict, agentVars, faults>>

-----------------------------------------------------------------------------
(* panel-core *)

\* SubmitComposeJob gets past TryLock.  A submission that finds the mutex
\* taken returns ErrStackLocked and changes nothing.
SubmitComposeJob(j, s) ==
  /\ worker[j] = "idle"
  /\ stackLocks[s] = NoJob
  /\ stackLocks' = [stackLocks EXCEPT ![s] = j]
  /\ target' = [target EXCEPT ![j] = s]
  /\ worker' = [worker EXCEPT ![j] = "locked"]
  /\ UNCHANGED <<runningJobs, row, verdict, agentVars, faults>>

\* CreateJob inserts the row as running; cancel is stored, the goroutine starts.
CreateJob(j) ==
  /\ worker[j] = "locked"
  /\ row' = [row EXCEPT ![j] = "running"]
  /\ runningJobs' = runningJobs \cup {j}
  /\ worker' = [worker EXCEPT ![j] = "calling"]
  /\ UNCHANGED <<stackLocks, target, verdict, agentVars, faults>>

\* CreateJob fails: the mutex is unlocked and the handler answers 500.
CreateJobFails(j) ==
  /\ worker[j] = "locked"
  /\ faults["db_error"] < MaxDbErrors
  /\ Fault("db_error")
  /\ stackLocks' = [stackLocks EXCEPT ![target[j]] = NoJob]
  /\ worker' = [worker EXCEPT ![j] = "gone"]
  /\ UNCHANGED <<runningJobs, row, target, verdict, agentVars>>

\* doJSON connects to the agent's socket and writes the request.
SendRequest(j) ==
  /\ Connected(j)
  /\ op[j] = "none"
  /\ op' = [op EXCEPT ![j] = "sent"]
  /\ UNCHANGED <<coreVars, row, target, exit, faults>>

\* ComposeAction returns the agent's answer: an HTTP error or Success = false
\* is a failure, Success = true a completion.
ReceiveAnswer(j) ==
  /\ Connected(j)
  /\ op[j] = "exited"
  /\ verdict' = [verdict EXCEPT ![j] = IF exit[j] = "ok" THEN "completed" ELSE "failed"]
  /\ worker' = [worker EXCEPT ![j] = "settling"]
  /\ op' = [op EXCEPT ![j] = "closed"]
  /\ UNCHANGED <<stackLocks, runningJobs, row, target, exit, faults>>

\* ComposeAction returns an error because there is nobody to talk to: the
\* socket refused the connection, or the agent died with the request.
CallFails(j) ==
  /\ Connected(j)
  /\ op[j] \in {"none", "closed"}
  /\ verdict' = [verdict EXCEPT ![j] = "failed"]
  /\ worker' = [worker EXCEPT ![j] = "settling"]
  /\ UNCHANGED <<stackLocks, runningJobs, row, target, agentVars, faults>>

\* The 120 s of the HTTP client pass before the answer: ComposeAction returns
\* an error and closes the connection, whatever the agent is doing.
CallTimesOut(j) ==
  /\ Connected(j)
  /\ op[j] \in {"sent", "handling", "executing", "exited"}
  /\ faults["timeout"] < MaxTimeouts
  /\ Fault("timeout")
  /\ verdict' = [verdict EXCEPT ![j] = "failed"]
  /\ worker' = [worker EXCEPT ![j] = "settling"]
  /\ UNCHANGED <<stackLocks, runningJobs, row, target, agentVars>>

\* UpdateJob writes the final status of the job.
UpdateJob(j) ==
  /\ worker[j] = "settling"
  /\ row' = [row EXCEPT ![j] = verdict[j]]
  /\ worker' = [worker EXCEPT ![j] = "recorded"]
  /\ UNCHANGED <<stackLocks, runningJobs, target, verdict, agentVars, faults>>

\* UpdateJob fails and its error is dropped: the row stays as it was.
UpdateJobFails(j) ==
  /\ worker[j] = "settling"
  /\ faults["db_error"] < MaxDbErrors
  /\ Fault("db_error")
  /\ worker' = [worker EXCEPT ![j] = "recorded"]
  /\ UNCHANGED <<stackLocks, runningJobs, row, target, verdict, agentVars>>

\* The deferred function, first statement: the mutex is unlocked.
Unlock(j) ==
  /\ worker[j] = "recorded"
  /\ stackLocks' = [stackLocks EXCEPT ![target[j]] = NoJob]
  /\ worker' = [worker EXCEPT ![j] = "unlocked"]
  /\ UNCHANGED <<runningJobs, row, target, verdict, agentVars, faults>>

\* The deferred function, the rest: the job leaves runningJobs.
Deregister(j) ==
  /\ worker[j] = "unlocked"
  /\ runningJobs' = runningJobs \ {j}
  /\ worker' = [worker EXCEPT ![j] = "gone"]
  /\ UNCHANGED <<stackLocks, row, target, verdict, agentVars, faults>>

\* panel-core stops, on SIGTERM or otherwise, and starts again.  Shutdown waits
\* for HTTP handlers, not for jobs; nothing reads the jobs table at start.
CoreRestart ==
  /\ faults["restart"] < MaxRestarts
  /\ Fault("restart")
  /\ stackLocks' = [s \in Stacks |-> NoJob]
  /\ runningJobs' = {}
  /\ worker' = [j \in Jobs |-> IF worker[j] = "idle" THEN "idle" ELSE "gone"]
  /\ verdict' = [j \in Jobs |-> "none"]
  /\ UNCHANGED <<row, target, agentVars>>

-----------------------------------------------------------------------------
(* panel-agent *)

\* The server hands the request to handleComposeAction.  A request whose
\* client has gone is still read from the socket.
Accept(j) ==
  /\ op[j] = "sent"
  /\ op' = [op EXCEPT ![j] = "handling"]
  /\ UNCHANGED <<coreVars, row, target, exit, faults>>

\* An unusable name, content that is not compose YAML, a failing save, or a
\* context that is over before compose is started.
Reject(j) ==
  /\ op[j] = "handling"
  /\ op' = [op EXCEPT ![j] = "exited"]
  /\ exit' = [exit EXCEPT ![j] = "error"]
  /\ UNCHANGED <<coreVars, row, target, faults>>

\* ExecuteInDir starts docker compose.  The request's context stops it only
\* once the server has noticed that the client is gone.
StartCompose(j) ==
  /\ op[j] = "handling"
  /\ op' = [op EXCEPT ![j] = "executing"]
  /\ UNCHANGED <<coreVars, row, target, exit, faults>>

\* cmd.Run returns: compose succeeded, failed, or was killed by the context.
ComposeExits(j) ==
  /\ op[j] = "executing"
  /\ op' = [op EXCEPT ![j] = "exited"]
  /\ \E e \in {"ok", "error"} : exit' = [exit EXCEPT ![j] = e]
  /\ UNCHANGED <<coreVars, row, target, faults>>

\* The answer of a request whose client has gone is written to nobody.
DropAnswer(j) ==
  /\ op[j] = "exited"
  /\ ~Connected(j)
  /\ op' = [op EXCEPT ![j] = "closed"]
  /\ UNCHANGED <<coreVars, row, target, exit, faults>>

\* panel-agent's container restarts, and its compose processes with it.
AgentRestart ==
  /\ faults["agent_restart"] < MaxAgentRestarts
  /\ Fault("agent_restart")
  /\ op' = [j \in Jobs |-> IF op[j] = "none" THEN "none" ELSE "closed"]
  /\ exit' = [j \in Jobs |-> IF op[j] = "executing" THEN "error" ELSE exit[j]]
  /\ UNCHANGED <<coreVars, row, target>>

-----------------------------------------------------------------------------
\* The steps of the submitting handler and of the goroutine it starts.
WorkerStep(j) ==
  \/ CreateJob(j) \/ CreateJobFails(j)
  \/ SendRequest(j) \/ ReceiveAnswer(j) \/ CallFails(j) \/ CallTimesOut(j)
  \/ UpdateJob(j) \/ UpdateJobFails(j) \/ Unlock(j) \/ Deregister(j)

\* The steps the agent takes for the request of job j.
AgentStep(j) ==
  Accept(j) \/ Reject(j) \/ StartCompose(j) \/ ComposeExits(j) \/ DropAnswer(j)

Next ==
  \/ \E j \in Jobs, s \in Stacks : SubmitComposeJob(j, s)
  \/ \E j \in Jobs : WorkerStep(j)
  \/ \E j \in Jobs : AgentStep(j)
  \/ CoreRestart
  \/ AgentRestart

Spec == Init /\ [][Next]_vars

\* The goroutine and the timer of its HTTP client run.  Nothing is assumed of
\* the agent, of the compose process or of the users: the timer covers them.
FairSpec == Spec /\ \A j \in Jobs : WF_vars(WorkerStep(j))

-----------------------------------------------------------------------------
(* Properties *)

\* Two jobs of one stack are never both between TryLock and Unlock, and a
\* mutex is never left locked by a job that is over (manager.go:46-49, 62, 71).
LockMatchesWorker ==
  /\ \A i, j \in Jobs :
       /\ {worker[i], worker[j]} \subseteq Holding
       /\ target[i] = target[j]
       => i = j
  /\ \A s \in Stacks : stackLocks[s] # NoJob =>
       /\ worker[stackLocks[s]] \in Holding
       /\ target[stackLocks[s]] = s

\* As long as the core has not restarted and the table could be written, a row
\* that says running belongs to the job that holds its stack's mutex: the row is
\* settled before the mutex is released (manager.go:71, 100).
RunningRowIsLocked ==
  faults["restart"] = 0 /\ faults["db_error"] = 0 =>
    \A j \in Jobs : row[j] = "running" => stackLocks[target[j]] = j

\* A row says completed only if the compose process of that very job succeeded,
\* through timeouts, restarts of either side and late answers (manager.go:88-98).
CompletedMeansDone ==
  \A j \in Jobs : row[j] = "completed" => exit[j] = "ok"

\* A row says failed only if the compose process of that job did not succeed, while no
\* call outlasts the HTTP client and the agent stays up, whatever the core and the table
\* do: nothing but the agent's answer ends a call (manager.go:76-98, client.go:54).
FailureIsReal ==
  faults["timeout"] = 0 /\ faults["agent_restart"] = 0 =>
    \A j \in Jobs : row[j] = "failed" => exit[j] # "ok"

\* The agent never runs two compose processes for one stack.
ExclusiveCompose ==
  \A i, j \in Jobs :
    /\ op[i] = "executing" /\ op[j] = "executing"
    /\ target[i] = target[j]
    => i = j

\* The core's mutex does keep the agent's compose processes apart while no call
\* outlasts the HTTP client and the core does not restart, whatever the agent
\* and the table do (client.go:54, manager.go:76, handler.go:595).
ExclusiveComposeInTime ==
  faults["timeout"] = 0 /\ faults["restart"] = 0 => ExclusiveCompose

\* The requests of stack s that the agent has not closed, and those of them that run.
Working(s) ==
  {j \in Jobs : target[j] = s /\ op[j] \in {"sent", "handling", "executing", "exited"}}
Executing(s) == {j \in Working(s) : op[j] = "executing"}

\* In general a stack has one compose process, and one more at most for every call that
\* outlasted the client and every restart of the core (client.go:54, manager.go:46-49).
ExcessIsCounted ==
  \A s \in Stacks :
    /\ IsFiniteSet(Executing(s))
    /\ Cardinality(Executing(s)) <= 1 + faults["timeout"] + faults["restart"]

\* A job is in runningJobs from the insert of its row to the last statement of its
\* goroutine; no path leaves an entry behind (manager.go:61-74).
RegisteredWhileRunning ==
  \A j \in Jobs :
    j \in runningJobs <=> worker[j] \in {"calling", "settling", "recorded", "unlocked"}

\* A settled row never changes again and a row never disappears, across
\* restarts and answers that come late (repos.go:244-263).
SettledRowsStay ==
  [][\A j \in Jobs :
       /\ row[j] \in Terminal => row'[j] = row[j]
       /\ row[j] = "running" => row'[j] \in {"running"} \cup Terminal]_row

\* The steps that job j has left at most, those of the agent for its request included.
StepsLeft(j) ==
  LET core == CASE worker[j] = "idle" -> 6
                [] worker[j] = "locked" -> 5
                [] worker[j] = "calling" -> 4
                [] worker[j] = "settling" -> 3
                [] worker[j] = "recorded" -> 2
                [] worker[j] = "unlocked" -> 1
                [] OTHER -> 0
      agent == CASE op[j] = "none" -> 5
                 [] op[j] = "sent" -> 4
                 [] op[j] = "handling" -> 3
                 [] op[j] = "executing" -> 2
                 [] op[j] = "exited" -> 1
                 [] OTHER -> 0
  IN  core + agent

\* Whatever happens to a job or its request, by itself or by a restart of either side,
\* brings both nearer to their ends; neither is ever begun again (manager.go:44-102).
JobsWindDown ==
  [][\A j \in Jobs :
       StepsLeft(j)' < StepsLeft(j) \/ UNCHANGED <<worker[j], op[j]>>]_vars

\* Every submission that takes the mutex gives it back, and its entry in
\* runningJobs with it, even if the agent never answers (manager.go:66-74).
JobsEnd ==
  \A j \in Jobs : worker[j] = "locked" ~> worker[j] = "gone" /\ j \notin runningJobs

\* A running row is settled, unless the core restarts or the table fails.
RowsSettle ==
  \A j \in Jobs : row[j] = "running" ~>
    \/ row[j] \in Terminal
    \/ faults["restart"] > 0
    \/ faults["db_error"] > 0

-----------------------------------------------------------------------------
(* The inductive invariant behind the properties. *)

\* The mutex table and the goroutines tell the same story, read from either side.
Ownership ==
  /\ \A j \in Jobs : worker[j] \in Holding =>
       target[j] \in Stacks /\ stackLocks[target[j]] = j
  /\ \A s \in Stacks : stackLocks[s] # NoJob =>
       worker[stackLocks[s]] \in Holding /\ target[stackLocks[s]] = s

\* What the row of a job says at each stage of its goroutine.
Bookkeeping ==
  \A j \in Jobs :
    /\ worker[j] \in {"idle", "locked"} => row[j] = "absent"
    /\ worker[j] \in {"calling", "settling"} => row[j] = "running"

\* A goroutine about to write its row knows what to write.
VerdictKnown == \A j \in Jobs : worker[j] = "settling" => verdict[j] \in Terminal

\* Without restarts and failing writes only a goroutine at work has a running row.
NoOrphanRow ==
  faults["restart"] = 0 /\ faults["db_error"] = 0 =>
    \A j \in Jobs : row[j] = "running" => worker[j] \in {"calling", "settling"}

\* Success is only ever learnt from a compose process that has exited.
Provenance ==
  \A j \in Jobs :
    /\ verdict[j] = "completed" => exit[j] = "ok"
    /\ row[j] = "completed" => exit[j] = "ok"
    /\ exit[j] = "ok" => op[j] \in {"exited", "closed"}

\* Without timeouts and restarts the agent only works for goroutines that wait.
NoOrphanCall ==
  faults["timeout"] = 0 /\ faults["restart"] = 0 =>
    \A j \in Jobs :
      op[j] \in {"sent", "handling", "executing", "exited"} => worker[j] = "calling"

\* Without timeouts and restarts of the agent, a verdict of failure is the agent's or is
\* given on a request that was never sent.
FailuresHaveCause ==
  faults["timeout"] = 0 /\ faults["agent_restart"] = 0 =>
    \A j \in Jobs :
      /\ Connected(j) => op[j] # "closed"
      /\ verdict[j] = "failed" \/ row[j] = "failed" =>
           worker[j] # "calling" /\ op[j] \in {"none", "closed"} /\ exit[j] # "ok"

\* The requests of stack s that the agent works on for nobody.
Abandoned(s) == {j \in Working(s) : ~Connected(j)}

\* Each of them was let go of by a timeout, or with the others by a restart.
AbandonedAreCounted ==
  \A s \in Stacks :
    /\ IsFiniteSet(Abandoned(s))
    /\ Cardinality(Abandoned(s)) <= faults["timeout"] + faults["restart"]

\* A request is sent by the goroutine, and a verdict comes from its end.
SentAreSubmitted ==
  \A j \in Jobs :
    /\ worker[j] \in {"idle", "locked"} => op[j] = "none"
    /\ worker[j] \in {"idle", "locked", "calling"} => verdict[j] = "none"

IInv ==
  /\ TypeOK
  /\ VerdictKnown
  /\ Ownership
  /\ Bookkeeping
  /\ NoOrphanRow
  /\ Provenance
  /\ NoOrphanCall
  /\ FailuresHaveCause
  /\ AbandonedAreCounted
  /\ SentAreSubmitted
  /\ RegisteredWhileRunning

-----------------------------------------------------------------------------
(* Refinement *)

\* The jobs subsystem keeps the promise of JobLedger: the mutex is the owner
\* and the jobs table the ledger.
Ledger == INSTANCE JobLedger WITH
  owner  <- stackLocks,
  used   <- {j \in Jobs : worker[j] # "idle"},
  ledger <- row
LedgerSpec == Ledger!Spec
=============================================================================
