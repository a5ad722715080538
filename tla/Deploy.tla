------------------------------- MODULE Deploy -------------------------------
(***************************************************************************)
(* deploy.sh on the VPS: it replaces the pair of images that runs, one for *)
(* the agent and one for the core, and goes back to the pair before when   *)
(* something fails.  A run of the script keeps no state but three files:   *)
(*                                                                         *)
(*   .deploy.env       the pair that docker compose is to run              *)
(*   .deployed-images  the pair of the last deployment that succeeded      *)
(*   .previous-images  the pair of the one before                          *)
(*                                                                         *)
(* Every command is a step, and the script may be killed between any two:  *)
(* it writes to an SSH session that may be lost, and SIGPIPE is not        *)
(* trapped.  A file that is written is emptied first; one that is empty is *)
(* read as one that is not there.  A pair is one build; two builds have no *)
(* image in common.                                                        *)
(***************************************************************************)
EXTENDS Naturals, TLC

CONSTANTS
  Pairs,   \* the builds: what NEW_CORE and NEW_AGENT name together
  NoPair,  \* a file that does not exist, or is empty
  Runs,    \* processes that run the script, one invocation after another
  NoRun    \* nobody holds the lock

ASSUME DeployAssumption == NoPair \notin Pairs /\ NoRun \notin Runs

Services == {"agent", "core"}
MaybePair == Pairs \cup {NoPair}

\* Where the traps are set, and where the script still works.
Trapped == {"pull_core", "pull_agent", "write_env", "up", "check",
            "record_previous", "record_active", "succeed", "untrap"}
Active == Trapped \cup {"prune_core", "prune_agent", "prune_dangling", "rollback", "restart"}

VARIABLES
  deployEnv,      \* .deploy.env
  imagesState,    \* .deployed-images
  previousImages, \* .previous-images
  images,         \* images[s]: the pairs whose image for service s is on the host
  containers,     \* containers[s]: the pair that service s was created from
  lock,           \* who holds the lock of .deploy.lock
  pc,             \* pc[r]: the command that run r is at
  new,            \* the arguments of run r
  prevConfig,     \* PREVIOUS_CONFIG
  prevState,      \* PREVIOUS_STATE
  succeeded,      \* DEPLOY_SUCCEEDED
  mishaps         \* what has gone wrong that the script does not make good

files == <<deployEnv, imagesState, previousImages>>
host == <<images, containers>>
locals == <<new, prevConfig, prevState, succeeded>>
vars == <<files, host, lock, pc, locals, mishaps>>

Mishaps == {"killed", "unhealthy", "not_restarted", "late_signal", "unwritten"}

TypeOK ==
  /\ {deployEnv, imagesState, previousImages} \subseteq MaybePair
  /\ images \in [Services -> SUBSET Pairs]
  /\ containers \in [Services -> MaybePair]
  /\ lock \in Runs \cup {NoRun}
  /\ pc \in [Runs -> Active \cup {"out"}]
  /\ {new, prevConfig, prevState} \subseteq [Runs -> MaybePair]
  /\ succeeded \in [Runs -> BOOLEAN]
  /\ mishaps \subseteq Mishaps
  /\ \A r \in Runs : pc[r] \in Active => new[r] \in Pairs /\ lock = r

\* A host where nothing was deployed yet.
Init ==
  /\ deployEnv = NoPair
  /\ imagesState = NoPair
  /\ previousImages = NoPair
  /\ images = [s \in Services |-> {}]
  /\ containers = [s \in Services |-> NoPair]
  /\ lock = NoRun
  /\ pc = [r \in Runs |-> "out"]
  /\ new = [r \in Runs |-> NoPair]
  /\ prevConfig = [r \in Runs |-> NoPair]
  /\ prevState = [r \in Runs |-> NoPair]
  /\ succeeded = [r \in Runs |-> FALSE]
  /\ mishaps = {}

\* Run r goes on, or ends: its lock and its variables go.
Goto(r, label) == pc' = [pc EXCEPT ![r] = label] /\ UNCHANGED lock
Exit(r) ==
  /\ pc' = [pc EXCEPT ![r] = "out"]
  /\ lock' = NoRun
  /\ new' = [new EXCEPT ![r] = NoPair]
  /\ prevConfig' = [prevConfig EXCEPT ![r] = NoPair]
  /\ prevState' = [prevState EXCEPT ![r] = NoPair]
  /\ succeeded' = [succeeded EXCEPT ![r] = FALSE]

\* docker compose makes the containers of some services from the pair of
\* .deploy.env, whose images it pulls where they are missing.
Recreate(some) ==
  /\ containers' = [s \in Services |-> IF s \in some THEN deployEnv ELSE containers[s]]
  /\ images' = [s \in Services |-> IF s \in some THEN images[s] \cup {deployEnv} ELSE images[s]]

\* Run r is about to write back the configuration that it has found.
Restores(r) == pc[r] = "rollback" /\ ~succeeded[r] /\ prevConfig[r] # NoPair

\* The redirection of the command that run r is at has emptied its file, and no more.
Truncate(r) ==
  \/ /\ pc[r] = "write_env" \/ Restores(r)
     /\ deployEnv' = NoPair
     /\ UNCHANGED <<imagesState, previousImages>>
  \/ /\ pc[r] = "record_previous" /\ prevState[r] # NoPair
     /\ previousImages' = NoPair
     /\ UNCHANGED <<deployEnv, imagesState>>
  \/ /\ pc[r] = "record_active"
     /\ imagesState' = NoPair
     /\ UNCHANGED <<deployEnv, previousImages>>

-----------------------------------------------------------------------------
(* Mutants: one mistake each, used by no specification. *)

\* The failure of compose is ignored, as it is for the tunnel.
UpFailsUnnoticed(r) ==
  /\ pc[r] = "up"
  /\ \E some \in SUBSET Services : Recreate(some)
  /\ Goto(r, "check")
  /\ UNCHANGED <<files, locals, mishaps>>

\* The failure of a pull is ignored.
PullAgentUnchecked(r) ==
  /\ pc[r] = "pull_agent"
  /\ images' \in {images, [images EXCEPT !["agent"] = @ \cup {new[r]}]}
  /\ Goto(r, "write_env")
  /\ UNCHANGED <<files, containers, locals, mishaps>>

\* The rollback restarts the containers and leaves .deploy.env.
RestartOnly(r) ==
  /\ pc[r] = "rollback"
  /\ ~succeeded[r]
  /\ prevConfig[r] # NoPair
  /\ Goto(r, "restart")
  /\ UNCHANGED <<files, host, locals, mishaps>>

\* .previous-images is written from the arguments.
RecordPreviousNew(r) ==
  /\ pc[r] = "record_previous"
  /\ previousImages' = new[r]
  /\ Goto(r, "record_active")
  /\ UNCHANGED <<deployEnv, imagesState, host, locals, mishaps>>

-----------------------------------------------------------------------------
(* The way forward *)

\* The arguments are well formed, the lock is free; the files are read.
Begin(r, p) ==
  /\ pc[r] = "out"
  /\ lock = NoRun
  /\ lock' = r
  /\ pc' = [pc EXCEPT ![r] = "pull_core"]
  /\ new' = [new EXCEPT ![r] = p]
  /\ prevConfig' = [prevConfig EXCEPT ![r] = deployEnv]
  /\ prevState' = [prevState EXCEPT ![r] = imagesState]
  /\ succeeded' = [succeeded EXCEPT ![r] = FALSE]
  /\ UNCHANGED <<files, host, mishaps>>

PullCore(r) ==
  /\ pc[r] = "pull_core"
  /\ images' = [images EXCEPT !["core"] = @ \cup {new[r]}]
  /\ Goto(r, "pull_agent")
  /\ UNCHANGED <<files, containers, locals, mishaps>>

PullAgent(r) ==
  /\ pc[r] = "pull_agent"
  /\ images' = [images EXCEPT !["agent"] = @ \cup {new[r]}]
  /\ Goto(r, "write_env")
  /\ UNCHANGED <<files, containers, locals, mishaps>>

WriteEnv(r) ==
  /\ pc[r] = "write_env"
  /\ deployEnv' = new[r]
  /\ Goto(r, "up")
  /\ UNCHANGED <<imagesState, previousImages, host, locals, mishaps>>

\* Both services are new and healthy.
Up(r) ==
  /\ pc[r] = "up"
  /\ Recreate(Services)
  /\ Goto(r, "check")
  /\ UNCHANGED <<files, locals, mishaps>>

\* Some may be new when the command fails or its time is over.
UpFails(r) ==
  /\ pc[r] = "up"
  /\ \E some \in SUBSET Services : Recreate(some)
  /\ Goto(r, "rollback")
  /\ UNCHANGED <<files, locals, mishaps>>

\* Both services are still healthy.
Check(r) ==
  /\ pc[r] = "check"
  /\ Goto(r, "record_previous")
  /\ UNCHANGED <<files, host, locals, mishaps>>

\* One is not: die exits the shell, and an exit does not raise ERR.
CheckFails(r) ==
  /\ pc[r] = "check"
  /\ Exit(r)
  /\ mishaps' = mishaps \cup {"unhealthy"}
  /\ UNCHANGED <<files, host>>

RecordPrevious(r) ==
  /\ pc[r] = "record_previous"
  /\ previousImages' = IF prevState[r] # NoPair THEN prevState[r] ELSE previousImages
  /\ Goto(r, "record_active")
  /\ UNCHANGED <<deployEnv, imagesState, host, locals, mishaps>>

RecordActive(r) ==
  /\ pc[r] = "record_active"
  /\ imagesState' = new[r]
  /\ Goto(r, "succeed")
  /\ UNCHANGED <<deployEnv, previousImages, host, locals, mishaps>>

Succeed(r) ==
  /\ pc[r] = "succeed"
  /\ succeeded' = [succeeded EXCEPT ![r] = TRUE]
  /\ Goto(r, "untrap")
  /\ UNCHANGED <<files, host, new, prevConfig, prevState, mishaps>>

Untrap(r) ==
  /\ pc[r] = "untrap"
  /\ Goto(r, "prune_core")
  /\ UNCHANGED <<files, host, locals, mishaps>>

\* The images of service s that prune_repository_images removes: none if one
\* that it must protect is not there, and none that a container uses.
Unprotected(r, s) ==
  LET protected == {new[r], prevState[r]} \ {NoPair}
  IN IF protected \subseteq images[s] THEN images[s] \ (protected \cup {containers[s]}) ELSE {}

PruneCore(r) ==
  /\ pc[r] = "prune_core"
  /\ images' = [images EXCEPT !["core"] = @ \ Unprotected(r, "core")]
  /\ Goto(r, "prune_agent")
  /\ UNCHANGED <<files, containers, locals, mishaps>>

PruneAgent(r) ==
  /\ pc[r] = "prune_agent"
  /\ images' = [images EXCEPT !["agent"] = @ \ Unprotected(r, "agent")]
  /\ Goto(r, "prune_dangling")
  /\ UNCHANGED <<files, containers, locals, mishaps>>

\* docker image prune: an image that was pulled by its digest has no tag and dangles unless
\* a container uses it, whatever the files say.  How many go is up to the daemon, and its
\* failure is ignored.
PruneDangling(r) ==
  /\ pc[r] = "prune_dangling"
  /\ \E gone \in [Services -> SUBSET Pairs] :
       /\ \A s \in Services : containers[s] \notin gone[s]
       /\ images' = [s \in Services |-> images[s] \ gone[s]]
  /\ Exit(r)
  /\ UNCHANGED <<files, containers, mishaps>>

-----------------------------------------------------------------------------
(* The way back *)

\* INT, TERM or HUP, or a command that fails and changes nothing: a pull, compose
\* config, a write that cannot open its file.
Trap(r) ==
  /\ pc[r] \in Trapped
  /\ Goto(r, "rollback")
  /\ mishaps' = IF pc[r] = "succeed" THEN mishaps \cup {"late_signal"} ELSE mishaps
  /\ UNCHANGED <<files, host, locals>>

\* A write that fails, of a full disk, after its redirection.
WriteFails(r) ==
  /\ pc[r] \in Trapped
  /\ Truncate(r)
  /\ Goto(r, "rollback")
  /\ mishaps' = IF pc[r] = "record_active" THEN mishaps \cup {"unwritten"} ELSE mishaps
  /\ UNCHANGED <<host, locals>>

\* rollback writes the configuration that the run has found.
RestoreEnv(r) ==
  /\ Restores(r)
  /\ deployEnv' = prevConfig[r]
  /\ Goto(r, "restart")
  /\ UNCHANGED <<imagesState, previousImages, host, locals, mishaps>>

\* It has found none: the file goes, the containers stay as they are.
RemoveEnv(r) ==
  /\ pc[r] = "rollback"
  /\ ~succeeded[r]
  /\ prevConfig[r] = NoPair
  /\ deployEnv' = NoPair
  /\ Exit(r)
  /\ UNCHANGED <<imagesState, previousImages, host, mishaps>>

\* errexit holds in the handler of a trap as well: its write or its rm fails, and it ends.
RestoreEnvFails(r) ==
  /\ pc[r] = "rollback"
  /\ ~succeeded[r]
  /\ Truncate(r) \/ UNCHANGED files
  /\ Exit(r)
  /\ mishaps' = mishaps \cup {"unwritten"}
  /\ UNCHANGED host

\* The deployment had succeeded: rollback only exits, and nothing is pruned.
NoRollback(r) ==
  /\ pc[r] = "rollback"
  /\ succeeded[r]
  /\ Exit(r)
  /\ UNCHANGED <<files, host, mishaps>>

Restart(r) ==
  /\ pc[r] = "restart"
  /\ Recreate(Services)
  /\ Exit(r)
  /\ UNCHANGED <<files, mishaps>>

\* The failure of this command is ignored.
RestartFails(r) ==
  /\ pc[r] = "restart"
  /\ \E some \in SUBSET Services : Recreate(some)
  /\ Exit(r)
  /\ mishaps' = mishaps \cup {"not_restarted"}
  /\ UNCHANGED files

\* The script ends where it is, maybe between the redirection of a command and its
\* output: SIGKILL, SIGPIPE, a reboot of the host, or, after the traps were taken off, a
\* signal or the failure of the status.  A docker compose that it has started goes on, and
\* holds the lock, which it has inherited, until its end.
Kill(r) ==
  /\ pc[r] \in Active
  /\ IF pc[r] \in {"up", "restart"} THEN \E some \in SUBSET Services : Recreate(some)
                                     ELSE UNCHANGED host
  /\ Truncate(r) \/ UNCHANGED files
  /\ Exit(r)
  /\ mishaps' = mishaps \cup {"killed"}

-----------------------------------------------------------------------------
Forward(r) ==
  \/ \E p \in Pairs : Begin(r, p)
  \/ PullCore(r) \/ PullAgent(r) \/ WriteEnv(r)
  \/ Up(r) \/ UpFails(r) \/ Check(r) \/ CheckFails(r)
  \/ RecordPrevious(r) \/ RecordActive(r) \/ Succeed(r) \/ Untrap(r)
  \/ PruneCore(r) \/ PruneAgent(r) \/ PruneDangling(r)

Back(r) ==
  \/ Trap(r) \/ WriteFails(r)
  \/ RestoreEnv(r) \/ RemoveEnv(r) \/ RestoreEnvFails(r) \/ NoRollback(r)
  \/ Restart(r) \/ RestartFails(r) \/ Kill(r)

Next == \E r \in Runs : Forward(r) \/ Back(r)

Spec == Init /\ [][Next]_vars

-----------------------------------------------------------------------------
(* Properties *)

Present(p) == \A s \in Services : p \in images[s]

\* The pair that compose is to run and the one deployed last are always on the host,
\* whatever was killed or failed, and although every deployment prunes, at its end with
\* docker image prune; so is the pair that a run at work goes back to: an automatic
\* rollback needs no registry (deploy.sh:81-99, 136-140, image-retention.sh:14-25).
PairsPresent ==
  /\ \A p \in {deployEnv, imagesState} \ {NoPair} : Present(p)
  /\ \A r \in Runs :
       pc[r] \in Active /\ ~succeeded[r] /\ prevConfig[r] # NoPair => Present(prevConfig[r])

\* While no script runs, .deploy.env and .deployed-images name the same pair,
\* and it is the one that runs, however many deployments have failed.  Excluded
\* are a killed script, the failed health check, a restart that fails, a write of
\* .deployed-images or of the rollback that fails and a signal between .deployed-images and
\* DEPLOY_SUCCEEDED (deploy.sh:81-130).
FilesAgree ==
  lock = NoRun /\ mishaps = {} =>
    /\ deployEnv = imagesState
    /\ deployEnv # NoPair => \A s \in Services : containers[s] = deployEnv

\* The pair deployed last is in .previous-images before .deployed-images names another
\* one, or is emptied, even if deployments are started at the same time (deploy.sh:74-78,
\* 125-128).
ActiveIsNotForgotten ==
  [][imagesState' # imagesState /\ imagesState # NoPair => previousImages = imagesState]_vars

\* A run that fails leaves the configuration that it found, which may be none, however far
\* it came and however its restart ends.  Excluded are the end that no trap sees, the health
\* check, which exits, and a rollback that cannot write (deploy.sh:81-99, 115-116).
TrappedFailuresRestore ==
  [][\A r \in Runs :
       /\ pc[r] \in Active /\ pc'[r] = "out"
       /\ ~succeeded[r] /\ ~CheckFails(r) /\ ~RestoreEnvFails(r) /\ ~Kill(r)
       => deployEnv' = prevConfig[r]]_vars

\* The commands that run r has left, at most.
CommandsLeft(r) ==
  CASE pc[r] = "pull_core" -> 12
    [] pc[r] = "pull_agent" -> 11
    [] pc[r] = "write_env" -> 10
    [] pc[r] = "up" -> 9
    [] pc[r] = "check" -> 8
    [] pc[r] = "record_previous" -> 7
    [] pc[r] = "record_active" -> 6
    [] pc[r] = "succeed" -> 5
    [] pc[r] = "untrap" -> 4
    [] pc[r] = "prune_core" -> 3
    [] pc[r] \in {"prune_agent", "rollback"} -> 2
    [] pc[r] \in {"prune_dangling", "restart"} -> 1
    [] OTHER -> 0

\* While a run holds the lock nobody else changes the host, and each of its steps brings
\* it nearer to its end: no trap starts a rollback again, and no command is done twice
\* (deploy.sh:75, 81-99, 131).
RunsWindDown == [][\A r \in Runs : pc[r] \in Active => CommandsLeft(r)' < CommandsLeft(r)]_vars

-----------------------------------------------------------------------------
(* The promise of Releases *)

Release == INSTANCE Releases WITH
  configured <- deployEnv,
  active <- imagesState,
  previous <- previousImages,
  stock <- {p \in Pairs : Present(p)},
  running <- containers

\* Whatever fails, is killed or runs at the same time, the script changes files, images
\* and containers only as Releases allows: among others a pair is recorded as deployed
\* only while both services run it and the one it replaces is saved, and no image goes that
\* .deploy.env or .deployed-images names (deploy.sh:75-140, image-retention.sh:14-25).
ReleaseSpec == Release!Spec

-----------------------------------------------------------------------------
(* The inductive invariant *)

\* The lock is held by the run that works, if one does.
LockHeld == \A r \in Runs : (pc[r] \in Active) = (lock = r)

Pulled == {"write_env", "up", "check", "record_previous", "record_active", "succeed",
           "untrap", "prune_core", "prune_agent", "prune_dangling"}
Pruning == {"prune_core", "prune_agent", "prune_dangling"}
Recorded == {"succeed", "untrap"} \cup Pruning

\* What the files and the host hold when run r is at its command.
Progress(r) ==
  LET at == pc[r]
  IN /\ at = "pull_agent" => new[r] \in images["core"]
     /\ at \in Pulled => Present(new[r])
     /\ at \in {"pull_core", "pull_agent", "write_env", "restart"} => deployEnv = prevConfig[r]
     /\ at \in Pulled \ {"write_env"} => deployEnv = new[r]
     /\ at \in Trapped \ {"succeed", "untrap"} => imagesState = prevState[r]
     /\ at \in Recorded => imagesState = new[r]
     /\ at = "record_active" /\ prevState[r] # NoPair => previousImages = prevState[r]
     /\ succeeded[r] => at \in {"untrap", "rollback"} \cup Pruning
     /\ at \in {"untrap"} \cup Pruning => succeeded[r]
     /\ at = "restart" => prevConfig[r] # NoPair
     /\ at \in Pulled \ {"write_env", "up"} => \A s \in Services : containers[s] = new[r]

\* The part of it that mishaps break.
Agreement(r) ==
  LET at == pc[r]
      kept == at = "rollback" /\ succeeded[r]
      undone == at = "restart" \/ (at = "rollback" /\ ~succeeded[r])
  IN /\ prevConfig[r] = prevState[r]
     /\ undone => imagesState = prevState[r]
     /\ kept => imagesState = new[r] /\ deployEnv = new[r]
     /\ at \in {"pull_core", "pull_agent", "write_env"} /\ deployEnv # NoPair
          => \A s \in Services : containers[s] = deployEnv
     /\ kept => \A s \in Services : containers[s] = new[r]

IInv ==
  /\ TypeOK
  /\ LockHeld
  /\ PairsPresent
  /\ \A r \in Runs : pc[r] \in Active => Progress(r)
  /\ FilesAgree
  /\ mishaps = {} => \A r \in Runs : pc[r] \in Active => Agreement(r)

-----------------------------------------------------------------------------
(* What the documentation says *)

\* deploy/README.md:90: "If image pull, Compose startup, or either health check
\* fails, deploy.sh restores the previous .deploy.env".
FailureRestores ==
  [][\A r \in Runs :
       /\ pc[r] \in Active /\ pc'[r] = "out"
       /\ ~succeeded[r] /\ prevConfig[r] # NoPair
       /\ mishaps' \cap {"killed", "unwritten"} = {}
       => deployEnv' = prevConfig[r]]_vars
=============================================================================
