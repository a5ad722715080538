# Verification of the Docker panel

This directory holds TLA+ models of the panel, the TLC runs that check them on small
instances and the TLAPS proofs of the properties that matter most.  Paths and line numbers
refer to the repository.

- [The system](#the-system)
- [Modules](#modules)
- [Runs](#runs)
- [Proofs](#proofs)
- [Findings](#findings)
- [Not modelled](#not-modelled)
- [Plan](#plan)
- [Running the checks](#running-the-checks)

## The system

    browser --HTTP--> panel-core --HTTP over a unix socket--> panel-agent --> docker.sock
                         |                                        |
                       SQLite                         docker compose, stack directories

`panel-core` answers browsers, owns the database and keeps no access to Docker.
`panel-agent` has the Docker socket and the stack directories, keeps next to no state, and
trusts the core.  `deploy.sh` replaces both containers on the VPS.

| Component | State | Operations | Talks to | What makes it correct |
|---|---|---|---|---|
| Job manager, `internal/jobs/manager.go` | `stackLocks`, `runningJobs` (volatile), `jobs` table | SubmitComposeJob, the worker goroutine | agent client, database | one job per stack; the mutex always comes back; a row tells the truth |
| Agent HTTP client, `internal/agent/client.go` | connections | one call per operation, 120 s each; an event stream without limit | agent | an abandoned call does not undo the job's bookkeeping |
| Agent compose handler, `internal/agent/handler.go` 527-620, `internal/compose/runner.go` | stack directories, compose processes | up, down, ..., validate, delete, read file | docker compose | works on one project for one client at a time (relies on the core) |
| Stack handlers, `internal/api/handlers_stacks.go`, `internal/database/repos.go` | `stacks`, `stack_revisions` | list, create, update, restore, delete, job submission, import at start-up | agent, job manager | no content without a revision; a stack keeps its id and shares it with no other |
| Events: `internal/docker/client.go` 900-967, `internal/agent/handler.go` 811-855, `cmd/panel-core/main.go` 226-259, `internal/events/bus.go`, `internal/api/handlers_events.go` | two channels, one subscriber channel each, `docker_events` | stream, publish, subscribe, unsubscribe, insert | daemon, browsers, database | nothing twice, nothing out of order, no slow client holds the others up |
| Deployment, `deploy/deploy.sh`, `deploy/image-retention.sh` | `.deploy.env`, `.deployed-images`, `.previous-images`, local images | deploy, rollback, prune | docker | the files are truthful; what is to run, what runs and what a run goes back to is on the host |
| Storage snapshot, `internal/agent/handler.go` 138-421 | one cached snapshot | measure, invalidate | daemon | an answer is newer than any acknowledged action |
| Host metrics, `internal/metrics/host.go` | last counters, last rates | sample (ticker and requests) | /proc | rates are never negative |
| Compose scanner, `internal/security/scanner.go` | none | scan | | the score is a function of the file |
| Authentication, users, roles, `internal/auth`, `internal/rbac`, `internal/api/router.go` | `users` | first login, role check | database | a viewer changes nothing |
| Backups, secrets, `internal/backup/backup.go`, `internal/secrets/crypto.go` | `backups/*.enc`, `master.key` | create, list | database, its file | a backup can be opened and is consistent |
| Audit log, alerts, `internal/audit`, `internal/alerts` | `audit_logs` | log | database | every action is recorded |
| Stacks page, `web/src/pages/Stacks.tsx` | rows, selection, editor, report, plan, the polled job | refresh, select, save, restore, act, preview, create, delete | core | a save goes to the stack whose text it is; the banner goes away |
| Containers page, `web/src/pages/Containers.tsx` | rows, the selected container with its details, log stream and terminal | refresh, open, follow, type, act | core, agent | log lines, streams and commands are of the container that is open |
| Other pages and App, `web/src/App.tsx`, `web/src/pages`, `web/src/components` | the tab, the link, one list or form each | select, load, change, link | core | a change that was acknowledged is shown |

`PROJECT.json` lists every component with its status and every hazard at its line.

What is hard to test here: handlers that read a row, wait for the agent and write the row
back; a mutex taken in one goroutine and given back in another; an HTTP timeout of 120 s
under a job timeout of 15 min; two processes that restart on their own; a write error that
is dropped; an RWMutex under channels that may be full; a script that may be killed between
any two of its commands; pages whose timers, clicks and late answers all write the same hooks,
with nothing that numbers or cancels a request.

## Modules

### JobLedger and StackJobs

`JobLedger` is what the job subsystem promises: a stack has at most one owner, the ledger
entry of a job is entered and settled by that job while it owns its stack, a restart forgets
all owners and no entry.

`JobLedger` is one of five modules that say what a component promises without its machinery.
Each has a next-state relation without fairness, the detailed module instantiates it with a
refinement mapping, and its specification is a PROPERTY of the detailed module's run and a
theorem.

| Promise | Kept by | Says |
|---|---|---|
| JobLedger | StackJobs (LedgerSpec) | one owner per stack, an entry is entered and settled by its owner |
| StackRegistry | StackStore (RegistrySpec) | a stack is registered under an id that was made for it and that no other stack has, and keeps it; revisions are of registered stacks |
| EventDelivery | EventPipeline (DeliverySpec) | an event comes over one stream at most; the oldest of a stream is shown, once to each, and then recorded, once; only a break loses events, the latest of the stream |
| FreshReads | StorageSnapshot (FreshReadsSpec) | the snapshots are like one value that each read takes at one moment between question and answer |
| Releases | Deploy (ReleaseSpec) | a pair is to run or active only while its images are there, becomes active only when every service runs it, and after the one it replaces was saved; that one may lose its images |

`StackJobs` is the code.  `stackLocks` is the map of mutexes (`manager.go:46`), `worker[j]`
is where the submitting handler and then the goroutine of job `j` is, `row` is the status
column, `op` and `exit` are the agent's side of the one request a job makes.

| Action | Code |
|---|---|
| SubmitComposeJob, CreateJob, CreateJobFails | `manager.go` 44-63 |
| SendRequest, ReceiveAnswer, CallFails, CallTimesOut | `manager.go` 76-98, `client.go` 54, 60-100 |
| UpdateJob, UpdateJobFails, Unlock, Deregister | `manager.go` 66-74, 100 |
| CoreRestart | everything volatile is lost; nothing reads the jobs table at start-up |
| Accept, Reject, StartCompose, ComposeExits, DropAnswer | `handler.go` 527-620 |
| AgentRestart | the agent's container and its compose processes end |

A request whose client has given up goes on at the agent: `exec.CommandContext` is cancelled
only when the server notices the closed connection, and the kill reaches only the CLI.  The
model lets such a process run on or end at any time.  The agent's own `ReadTimeout` of 60 s
(`cmd/panel-agent/main.go:108`) may end a request's context early too; `ComposeExits` with an
error at any time covers it.

### StackStore

The `stacks` and `stack_revisions` tables and the handlers that write them.  A handler is cut
at every wait for the agent and at every SQL statement, the only atomic thing there is (one
connection, `db.go`).  `st[r]` is the handler's copy of a stack, `todo[r]` the copies that a
list has read and not yet written back, `key[r]` the id in the path.  `UpsertStack` keeps the
id of a row it meets (`repos.go:163`); the row of a new name is refused where its id is taken, by the
primary key.  Ids may well meet: the clock gives `stk_` and a number, a discovery `stk_` and the
name, and a name may be a number (`handlers_stacks.go:112`, `discovery.go:109`); nor is anything
assumed of the clock.  `issued` remembers which ids the clock gave to which names.
`disk` and `deployed` are the agent's side.

| Actions | Code |
|---|---|
| Begin, Lookup | `getOrFindStack`, `handlers_stacks.go` 155-200 |
| List, ListContainers, ReadRows, FillFromFile, SyncWrite, SyncEnds | `handleListStacks`, `syncDiscoveredStacks`, `discovery.go` |
| BeginCreate, BeginRestore, SaveContent, Refuse, AddRevision, RevisionFails | `handleCreateStack`, `handleUpdateStackCompose`, `handleRestoreRevision` |
| StartDelete, EndDelete, DeleteRow | `handleDeleteStack` |
| Submit ... FailJob | a compose job, without the faults of `StackJobs`; which of up, down, restart, pull and build it runs shows when compose ends |
| Discover, TakeUnknown, SkipKnown, Import | `discoverExistingStacks`, `cmd/panel-core/main.go` |

The agent's `validate`, which create, update and restore call before they write the row,
parses the content and writes nothing (`handler.go:560`), although the comments at
`handlers_stacks.go` 115 and 293 say that it saves files.  In the model, as in the code,
`disk` changes only with the next job.

`mishaps` records what a property excepts: a `delete`, a `collision` (an upsert that meets a row of
another id, or is refused because its id is another stack's) and a `db_error` (a revision that could
not be written, or a core that died between row and revision).  Left out: role checks, scores, the
status column, `.env` contents, stacks outside the stacks root, the system stack.

### EventPipeline

The way of a Docker event to the browser and to `docker_events`, through both processes: the
daemon's response (`body`), the agent's reader goroutine, `eventChan`, the agent's handler,
the socket (`wire`), the core's loop (`scan`), `evCh`, the drainer goroutine of the
connection, the bus with its RWMutex (`readers`, `pending`) and the subscribers' channels
(`inbox`).  Each connection has channels and a drainer of its own; nobody waits for the
drainer of the connection before.  A writer that waits for the RWMutex keeps new readers out,
as in Go.  Faults are the agent's death, a stream that the daemon ends, a request whose
context is over (`ReadTimeout`), and an insert that fails.  What the core has read from the
socket it records through all of them (ReadIsRecorded); only the failure of that event's own insert
is excepted.

### StorageSnapshot

`handleStorageSnapshot` and the two handlers that invalidate its result, call by call.  A
change of the panel has a number (`mine`), a measurement remembers the last one the
daemon had carried out when its first call was answered (`seen`), and `known` is the newest that
somebody outside knows of, from an acknowledgement or from an answer, so freshness is an order on
numbers.  Between the calls the daemon's containers come and go: by actions, by failed actions,
by its own CLI, and by the panel's handlers for volumes and images, which leave the cache alone.
`Users`, `Owned` and `Exclusive` are the attribution of volumes to stacks; bytes are left out,
a volume has a known size or not.

### Backups

`CreateBackup` beside the connection that goes on writing.  A page is the number of the last
commit that wrote it; `history` has the database after each commit, `mainFile` is panel.db.  In
WAL mode (`db.go:28`) a commit changes `history` only; BeginCheckpoint and CopyPage, which are
SQLite's, bring panel.db up to date page by page; Stop does it at once when `main` closes the
connection.  A request reads panel.db a page at a time, asks the connection for the definitions,
opens its file and writes it.  A failure to read panel.db or the definitions is ignored, as in the
code; a failure to encrypt, open or write ends the request.

| Action | Code |
|---|---|
| LoadKey, CreateKey, WriteKey | `loadOrCreateKey`, `crypto.go` 31-55 |
| BeginBackup, ReadPage, ReadFileFails | `backup.go` 47-67 |
| ReadDefinitions, ReadDefinitionsFails | `backup.go` 69-94, `GetAllStacks` through the one connection |
| OpenFile, WriteFile, BackupFails | `backup.go` 123-147: `os.WriteFile` truncates, then writes |
| Crash, Stop | `cmd/panel-core/main.go` 78-82, 142-158; requests that outlast Shutdown's five seconds end |

`mishaps` records what the properties except: a key that is there and cannot be read, which the
core replaces (`key_unreadable`); two backups of one second (`same_second`); a checkpoint under a
reader (`checkpoint_read`); a crash in the middle of one (`checkpoint_cut`: such a panel.db is
whole only together with its log).

### Deploy

`deploy.sh` command by command, with the functions of `image-retention.sh` it sources.  A
process holds the lock from Begin to its end.  `Trap` is the ERR trap or a signal, `Kill` an
end that no trap sees; `die` exits without raising ERR, which bash confirms.  A killed
script's `docker compose` inherits the descriptor of the lock, so the lock is free only when
compose has ended; Kill therefore does both at once.  The pair of images of a build belongs to
that build alone.

A redirection empties its file before the command behind it writes: `Truncate` says which file
that is at each command, WriteFails is a write that fails behind it (a full disk), RestoreEnvFails
the same inside the trap, which ends the script because errexit holds there too, and Kill may
fall between the two.  A file that is cut off in the middle is taken for an empty one.

PruneCore and PruneAgent are the two calls of `prune_repository_images` (`deploy.sh` 138, 139),
PruneDangling is `docker image prune -f` of line 140.  The pulls are by digest (102, 103), so an
image has no tag, and whatever no container uses may dangle: PruneDangling takes any of those, and
asks no file.  deploy/README.md:90 says "Docker keeps the active and previous layers; dangling
layers are pruned after success".  Of the pair that only .previous-images names this is not so: the
two calls before spare it, and line 140 may then remove it.  PairsPresent is therefore about the
pair that is to run, the active one and the one that a run at work goes back to, which containers
use when it comes to line 140; Releases lets the images of the pair before go.

### PanelState, StacksPage, ContainersPage, ResourcesPage, HostPages, Panel

The browser.  A page is a component whose hooks are one record (`stacksPage`, `containersPage`,
...); its requests are a set (`stacksCalls`, ...) whose members are answered in any order or fail.
An action is a click, a tick of an interval, a message of a stream, or an answer together with the
rest of its handler up to the next await.  Every answer is applied to what the hooks hold when it
comes, with what its closure remembers.  A save or a poll keeps the stack that was active when it
began.  A handler and an interval also keep the `selectedStackId` of the render they were made in
(`link`, `pollLinks`), and the list that they load at their end selects by that: a link that a
delete has ended since comes back with the list of an earlier click or of a poll that still runs.
Only a page with no link in any of them (Unlinked) is one that the refresh leaves alone.

Of a text, report, plan, log line or chart a model keeps the stack, container or range it is of:
that is what the properties compare.  A hook that may be null is a set of at most one element
(`Nullable`).

| Module | Models | Actions and code |
|---|---|---|
| StacksPage | `pages/Stacks.tsx` | TickStacks, ListAnswer, ListFails (88-113); SelectStack, ComposeAnswer, ReportsAnswer (115-146); HandleSaveCompose, SaveAnswer, SavedRevisionsAnswer (148-171); HandleRestoreRevision, RestoreAnswer, RestoredSecurityAnswer (173-187); HandleStackAction, ActionAnswer, TickPoll, PollSays..., PollFails, EndedStackAnswer (189-217); create, delete, preview (219-258) |
| ContainersPage | `pages/Containers.tsx` | the three effects as functions on the hooks (DetailEffect, LogsEffect, TerminalEffect, 119-175), run together by Chosen whenever the selection or the tab changes; the answers and messages that come later; `termOutput`, to which TerminalOutput and HandleTermSubmit append and which nothing empties (56, 168-170, 190-201); the dialog of a compose file (214-237) |
| ResourcesPage | `pages/Resources.tsx`, the typed confirmation of `components/Modal.tsx` | LoadAnswer, SelectResourcesTab; pull, delete and prune with Acknowledge or Lose |
| HostPages | Dashboard, MetricsView, EventsAudit, AlertsBackups, SettingsView | one group of actions per page |
| Panel | `App.tsx`, the sidebar, all of the above | Mount, SelectTab, HandleNavigateStack and the three places that call it; OrphanAnswer |

One page is mounted at a time (`Open`).  Mount gives the new page fresh hooks and asks for what its
effects ask for; the hooks, timers and streams of the old one are gone, and of its handlers that
still wait only two have an effect: a create changes the server, and a delete also calls App's
`onClearSelected`, which ends whatever link was followed since (OrphanAnswer).

The server is reduced to what a page compares itself with: the stacks there are and those whose
polled job runs (`backend`), the images, volumes and networks (`daemon`), the backups and the
stored paths (`host`).  While no page shows them nothing is known of them; they are chosen when the
page is mounted, which is every change that anybody made meanwhile.  Changes by others while a page
is open are left out: what is stale because of them is stale until the next load anyhow.

Parts of a record that are no hooks remember what a property excepts, each set by the action that
makes it so: `crossed` (another stack was selected while an answer, a poll or a plan of one was
under way), `missed`, `overtaken`, `doubtful`, `early`, `touched`, and `strayed` (the user has
selected or created another stack than the link's).  Without them the properties fail within a few
steps, because the code has no defence: the exceptions are the orders in which a page shows one
thing under the name of another.  Where it can be said how far that goes it is said: `late` is the
set of containers, or of ranges, about which something was due when another was chosen, and
ShownBelongs says that nothing but these late answers is shown beside what was chosen.  Findings
names all of them, and the hazards of PROJECT.json say which of them no property catches.

Left out: live statistics and storage sizes on all pages, the user in the header, formatting,
which tab of a stack is lit, what is typed into forms except for the confirmation and the paths.

## Runs

A run that is expected to pass is complete: TLC visits every state within the bounds.

| Run | Module | Checks | Bounds |
|---|---|---|---|
| jobs | StackJobs | LockMatchesWorker, RunningRowIsLocked, CompletedMeansDone, FailureIsReal, ExclusiveComposeInTime, JobsEnd, RowsSettle, LedgerSpec (refinement) | 2 jobs, 2 stacks, 1 restart of each process, 2 timeouts, 1 failing write |
| jobs_timeout | StackJobs | ExclusiveCompose is violated | 2 jobs, 1 timeout |
| store_history | MCStackStore | HistoryKeepsContent, HistoryKeepsDeployments, JobsExclude, RegistrySpec (refinement) | 2 requests and the import, 2 names, one of them for creates only, 2 contents, 1 fresh id, which is the one that a discovery gives the second name |
| store_create | StackStore | EditsAreRecorded is violated | 1 request, 2 fresh ids |
| events | EventPipeline | SendsToOpen, AtMostOnce, InOrder, SeenIsRecorded, ReadIsRecorded, ClientsLeave, DeliverySpec (refinement) | 3 events, 2 connections, 1 fault, 1 client, channels of 1 |
| deploy_safety | Deploy | PairsPresent, FilesAgree, ActiveIsNotForgotten, ReleaseSpec (refinement) | 3 builds, 2 processes, any number of deployments |
| deploy_health | Deploy | FailureRestores is violated | 2 builds, 1 process |
| backups | MCBackups | KeptBackupsOpen, DefinitionsFollow, DefinitionsAreCurrent, ImagesAreStates | 2 requests, 2 pages, 1 commit, 2 keys, 2 seconds |
| backups_wal | Backups | ContainsDatabase is violated | 1 request, 2 pages, 1 commit |
| storage | MCStorageSnapshot | FreshAfterAck, TotalsAreDisjoint, RequestsEnd, FreshReadsSpec (refinement) | 2 requests, 2 stacks of one container, 1 volume, 2 actions that succeed |
| stacks_page | StacksPage | EditorBelongs, StacksShown, BannerTrue, RefreshKeepsText | 2 stacks, one of the system, 2 requests beside which the user acts, 2 polls, 1 job |
| panel | MCPanel | PanelTypeOK, ShownBelongs, StreamsBelong, AcksShown | 2 stacks, 2 containers, 1 project, one image and volume, 2 networks, 1 or 2 requests, 2 backups, 2 events kept |

The type invariants of the models are proved for every value of the constants (TypeCorrect), so no
run spends a check on them, except for that of the panel, which also bounds the list of events.

Why the bounds are enough.  The mutex of a stack concerns two jobs, and two stacks tell a mutex per
stack from one for all; what a job leaves behind is met by the other, and the proofs of StackJobs
have no bound.  Stacks of different names share nothing in StackStore but their ids, and what they
do where they share one is what the second name is for: the clock has one id to give to both names,
the one that a discovery would give the second, a create under either name is refused or not, and
SecondNameIsCreated keeps everything but creates away from it; the proofs have no such bound.  Two
requests and the import are three writers of one row, and a request slot is used again and again, so
the number of requests in a behaviour is not bounded, only their overlap.  The constraint NoMishap
of MCStackStore stops at the first mishap, where most properties of that run become vacuous, and
DeletesMeetWriters lets a delete run beside the handlers that write rows only; the proofs have
neither bound.  Its VIEW leaves out of a handler's copy what that handler reads no more: the key
once its stack is found, the content that a request is going to replace.  The events of two
connections meet in one drainer pair; three events over two connections leave one connection with
two in a row.  The channels hold 20, 20 and 50 events in the code, 1 here, so that full channels are
common.  Deploy has no counter at all: with three builds the files can name three different pairs. 
A snapshot can be overtaken by one action or by two in a row; a third request of the storage run
would only wait where one waits already, and the safety properties of that run are proved without
bounds. Two pages are enough for an image to be half of one state and half of another, and one
commit for two states; two seconds let two backups share a file or not.  MCBackups has a VIEW: no
action reads an archive or a mishap again, so of an archive only its key and the verdicts of the
properties count, and of the mishaps only which properties they excuse.  The properties are proved
as well.

The pages.  MaxStacksCalls, MaxContainersCalls, MaxResourcesCalls and MaxHostCalls bound the open
requests beside which the user or a timer acts; the requests that answers send are not counted.
Two of them are enough for an answer to be overtaken, which is what the stacks page is checked for
alone; inside the panel its bound is 1, because there the other half of a race is leaving the page.
MaxPolls bounds the unanswered ticks of one job, MaxJobs the jobs that are polled; FewJobs keeps a
second job of one stack out, which the core would refuse (`handlers_stacks.go:399`).  KeepEvents is
100 in the code.  Two containers, of which one has a project, tell a mixed stream from a right one;
two networks because one of them has no delete button.  The VIEW of MCPanel leaves out which of the
tabs of one page is lit.  All of these bounds are constants of the proofs as well.

Deadlock.  It is checked for Deploy, which can always begin again.  The other models stop for
good when their jobs, requests or events are used up, hence CHECK_DEADLOCK FALSE; that nobody
waits for ever is what JobsEnd, RowsSettle, ReadIsRecorded, ClientsLeave and RequestsEnd say.

Fairness.  In StackJobs only the goroutine of a job and the timer of its HTTP client are
fair: Go schedules runnable goroutines and fires timers.  Nothing is assumed of the agent, of
compose, of users or of restarts.  In EventPipeline the core's goroutines and the agent's
forwarding handler are fair, and a free RWMutex is given to the writer that waits; the daemon
and the clients are not fair, so a browser may stop reading for good.  In StorageSnapshot
every handler is strongly fair: a sync.Mutex turns to a waiter that has been passed over for a
millisecond, and each call of a measurement answers or fails, which is an assumption about the
daemon, because the agent's client for it has no timeout.

Symmetry is used in the store runs and in backups over the slots of requests, which no assumption
names, in runs that have no liveness to check.

Every property of a passing run has a mutant in PROJECT.json: a plausible mistake in a mapped
definition that the run is known to notice.  The mutants stand at the head of each module and
no specification uses them.

## Proofs

Proved by TLAPS for every value of the constants that satisfies the module's assumption:

| Module | Theorem | States |
|---|---|---|
| StackJobsProofs | Invariant, TypeCorrect | IInv, TypeOK |
| | LockSafety | LockMatchesWorker |
| | RunningRowsAreLocked | RunningRowIsLocked |
| | CompletionIsTruthful, FailuresAreReal | CompletedMeansDone, FailureIsReal |
| | ComposeExclusion | ExclusiveComposeInTime |
| | ExcessIsBounded | ExcessIsCounted |
| | RegistrationIsExact | RegisteredWhileRunning |
| | SettlingIsFinal, JobsAreBounded | SettledRowsStay, JobsWindDown |
| | ImplementsLedger | StackJobs implements JobLedger |
| StackStoreProofs | Invariant, TypeCorrect | IInv, TypeOK |
| | HistoryIsKept, DeploymentsAreKept | HistoryKeepsContent, HistoryKeepsDeployments |
| | JobExclusion | JobsExclude |
| | RevisionsAreOwned | RevisionsHaveRows |
| | ImplementsRegistry | StackStore implements StackRegistry |
| StorageSnapshotProofs | Invariant, TypeCorrect | IInv, TypeOK |
| | SnapshotsAreFresh | FreshAfterAck |
| | TotalsDisjoint | TotalsAreDisjoint |
| | ImplementsFreshReads | StorageSnapshot implements FreshReads |
| | MutexComesBack | MeasurementsShrink |
| BackupsProofs | Invariant, TypeCorrect | IInv, TypeOK |
| | BackupsStayOpen | KeptBackupsOpen |
| | DefinitionsAreNewer, DefinitionsKeepUp | DefinitionsFollow, DefinitionsAreCurrent |
| | ArchivesHoldStates | ImagesAreStates |
| | KeptBackupsAreLeft | PromisedAreWhole, KeptBackupsStay |
| DeployProofs | Invariant, TypeCorrect | IInv, TypeOK |
| | PairsStayPresent, FilesStayTruthful, ActiveIsSaved | PairsPresent, FilesAgree, ActiveIsNotForgotten |
| | ImplementsReleases | Deploy implements Releases |
| | FailuresRestore, RunsEnd | TrappedFailuresRestore, RunsWindDown |
| EventPipelineProofs | Invariant, TypeCorrect | IInv, TypeOK |
| | SubscribersAreOpen | SendsToOpen |
| | NothingTwice, EventsInOrder | AtMostOnce, InOrder |
| | SeenAreRecorded | SeenIsRecorded |
| | ImplementsDelivery | EventPipeline implements EventDelivery |
| | BusIsNeverStuck | BusMutex |
| | ReaderLeaks | StuckReaderStays |
| StacksPageProofs | Invariant, TypeCorrect | IInv, StacksTypeOK |
| | EditorKeepsItsStack, ShownForActive | EditorBelongs, StacksShown |
| | BannerGoes, TextIsKept | BannerTrue, RefreshKeepsText |
| PanelProofs | PanelInvariant, PanelTypeCorrect | PanelInv, PanelTypeOK |
| | ShownIsChosen, StreamsAreOfSelected, AcknowledgedIsShown | ShownBelongs, StreamsBelong, AcksShown |
| | StacksPageInPanel | the invariants of the stacks page, inside the panel |

StackJobs.  IInv relates the two ends of the mutex: a goroutine between TryLock and Unlock is
the holder of its stack (Ownership), which is stronger than LockMatchesWorker and is what every
step keeps; what the row says at each stage (Bookkeeping, NoOrphanRow); that a verdict is known
before it is written; that success is only learnt from an exited process (Provenance); and that
without timeouts and restarts the agent works only for goroutines that wait (NoOrphanCall),
which carries the exclusion over from the mutex to the compose processes.  The refinement maps
each action to one action of JobLedger or to a stutter, given IInv.

What a failed row means is the counterpart of Provenance, FailuresHaveCause: an error that is
written was learnt from an answer of the agent, or a call timed out or the agent restarted.  How far
the exclusion fails when they do is counted: a request that works for nobody any more used up one
timeout, or shared one restart of the core with requests for other stacks (AbandonedAreCounted), and
what is left works for the holder of the mutex, so a stack has at most one process more than there
were faults of these kinds.  JobsWindDown has StepsLeft, at most eleven for a job and its request,
which no step of anybody raises; that the steps are taken is fairness, which only TLC can use.

StackStore.  HistoryKeepsContent is not inductive: the content may be on its way in a copy that
some handler read long ago.  CopiesAreKept says that every copy on its way to a row, to the
disk or to containers is in the history of its stack, and CopiesMatchRows that a copy has the
id of the row of its name, which makes "its stack" the same on both sides.  LocksHeld with
CopiesMatchRows gives JobsExclude.

The ids need no assumption about the clock.  Every id in a row, in a handler's copy or on its way
in a list was made for the name it stands with (IdsAreMeant), perhaps for others too; that no two
rows share one (IdsNameOneRow) is the work of the primary key, which refuses the second.  Whoever is
refused, or meets a row of another id, has a copy whose id is not that of its name's row: the
`collision` that the properties of the history and of the jobs except.  The foreign key keeps
revisions to rows that are there.  The refinement of StackRegistry reads the same facts as steps: an
upsert that inserts is Register, one that updates or is refused changes nothing there.

Deploy.  IInv says for each command what the files and the images hold when the lock holder is
there (Progress), and the part of it that mishaps break (Agreement).  PairsPresent needs Progress
because what a run protects from the first two prunings are its own variables, read when it began,
and because docker image prune spares only what containers use: when it runs, both files name the
new pair and both containers are made of it.

Releases is the same seen from the host.  That a pair becomes active only when every service runs it
needs Progress from the health check on: containers were made from the pair of .deploy.env, and
nothing but the lock holder makes others or writes that file.  None of the three prunings takes an
image of the new pair, the one that both files name then; a file that is emptied is Configure with
no pair, ForgetPrevious or ForgetActive.

TrappedFailuresRestore is what is true of deploy/README.md:90, which deploy_health refutes for the
health check: by Progress, a run that ends in restart has restored the file it found; a rollback that
cannot write is excepted.  RunsWindDown rests on the lock (ActorIsAlone): the commands left are
twelve at most and fewer after every step.

StorageSnapshot.  FreshAfterAck needs to know what the mutex buys (OneMeasures, Acknowledged):
when a handler has dropped the cache nobody is measuring, so whatever is cached afterwards was
measured after the handler's action; this stays true of every acknowledged change.
The refinement of FreshReads adds the changes known from answers: two measurements never overlap,
so what is cached only grows, and a read takes its value when it is answered.  MeasurementsShrink
counts the calls that the holder of storageMu has left (CallsLeft): they become fewer with every
step of its own, and nobody else's step changes them or takes the mutex from it.
CountsMatchOwners keeps a witness: a volume's count and its stacks come from one set of
containers, so a count of one leaves room for one stack.

Backups.  IInv follows what a request has read on its way to the archive: behind the database page
by page while it reads (ReadsFollow, from PagesGrow), and, as long as no checkpoint meets a reader
or a crash, equal to panel.db as far as it got (ReadsAreStates), which is a former state between
checkpoints (FileIsState).  KeptBackupsOpen needs that an empty key file means that nothing was
promised yet, and that an open file has one writer (OpenFiles).  DefinitionsAreCurrent follows a
request back to the commit it was asked after: later commits only raise the pages of the database
(HistoryGrows), and that commit stays in its history (AskedIsKnown).  KeptBackupsStay needs that
what was promised is whole (PromisedAreWhole): who opens such a file shares its second, and who
writes a file has truncated it before, so it is not one of them.

EventPipeline.  The proofs follow sets of events.  Up is what the agent still has of a connection,
Down what its handler has given to the core, Live what of both may still be recorded: all of it
while the handler runs, only Down afterwards.  Ordered says that each stage of a connection holds
older events than the stage before it.  Apart, that everything that came over an earlier connection
is older than all of a later one; it is kept because the loop opens a connection only when the
handler of the one before has returned and its wire is empty, and the daemon sends a new reader no
old events.  Once, that what is recorded or seen is not live any more, except for the event that
a drainer is offering or inserting; AtMostOnce needs it because what Insert appends was live a
moment before.  InTurn is the same with an order, while the drainers of earlier connections are
done.  FlowStep states once what every step does to these sets: events go from Up to Down, from
Down to the drainer, or are lost, and only Emit adds one.

The refinement of EventDelivery has the events of a stream on their way, which are Live, and takes
for shown what a client has sent and will send.  Ordered makes the event in the drainer's hand the
next of its stream, Once keeps it from being shown or recorded again, and a step that loses events,
be it the return of the handler, loses the latest, because what is lost lies further from the
drainer than what is kept.  BusMutex says who holds Bus.mu and who may wait for it: drainers between
RLock and RUnlock, which wait for nothing, and clients that join or leave.

The stacks page.  Editing says what the properties of the selection rest on: while no other stack
was selected beside an open request, the requests for details, the polls and the plan are all about
the stack whose text is in the editor, also when a delete has left no stack active.  BannerTrue is
inductive with the types; RefreshKeepsText is an action property: without a link in the page, its
handlers or its intervals no step makes one, and a list that carries none selects nothing.

The panel.  Each page has an invariant of its own, most of which say what its open requests are
about: DueBelongs (details and statistics are of the selected container or of those in `late`),
OpenedIsLive (the terminal of wsRef is the open one), LoadIsCurrent (a resource tab shows what there
is, or a load that will bring it is under way), HistoryIsCurrent, BackupsAreCurrent and
SaveIsCurrent.  Mount establishes them all, because hooks and streams of unmounted pages are gone,
and a step of one page leaves the variables of the others alone.  LinkOpens is inductive with two
more: while there is a link every list that is due, or that a handler or an interval will load, has
that link (ListsFollowLink), and as long as the user has not left its stack no answer that is due is
about another one that it would make active (LinkKept). StacksPageInPanel takes the steps of the
stacks page from StacksPageProofs and adds Mount and the answers for a page that was left
(OrphanStep).

Only model-checked: liveness (TLAPS has no rules here for fairness or ENABLED), which is JobsEnd,
RowsSettle, ReadIsRecorded, ClientsLeave and RequestsEnd.  The safety half of each, that a step
brings the end nearer or that who is waited for waits for nobody, is proved: JobsWindDown,
MeasurementsShrink, BusMutex, and RunsWindDown for the script, of which no liveness is claimed.
Every other property of a passing run is a theorem too.

Only proved, because no run has room for them or needs them: the type invariants, SettledRowsStay,
ExcessIsCounted, RegisteredWhileRunning and JobsWindDown of StackJobs, RevisionsHaveRows of
StackStore, MeasurementsShrink of StorageSnapshot, BusMutex and StuckReaderStays of EventPipeline,
PromisedAreWhole and KeptBackupsStay of Backups, TrappedFailuresRestore and RunsWindDown of Deploy. 
TLC agrees with each of them on the instances of the runs.  No module uses a RECURSIVE operator.

## Findings

- jobs_timeout: an action that takes longer than 120 s (client.go:54) is reported as failed and
  its stack unlocked while the agent goes on; the next job runs beside it, against README.md:70.
- store_create: a create under an existing name replaces the row's content; the revision is
  refused by the foreign key because its id is the fresh one, and the error is dropped.  The
  new content is in no history, against README.md:69.
- deploy_health: a failed health check exits by `die`, which runs no ERR trap: nothing is rolled
  back, against deploy/README.md:90, and the next run takes the bad pair as the one to go back to.

- backups_wal: a backup copies panel.db without panel.db-wal, so a commit that no checkpoint has
  copied yet is in no archive, against README.md:85; backup_test.go does not see it, because its
  panel.db is a plain file.

What the models show besides, without a document to refute: a row that says running stays so for
good after a restart of the core (RowsSettle excepts it); a list can write back a row that was
deleted meanwhile; a signal between .deployed-images and DEPLOY_SUCCEEDED leaves that file naming
the pair that was undone (`late_signal`); a write that fails after its redirection leaves an empty
file, so that a deployment may forget the active pair or, when it is the rollback's, leave no
configuration at all (`unwritten`); `docker image prune -f` may remove the images of
.previous-images, against deploy/README.md:90 (PruneDangling); ids of the clock and of a discovery
may meet, and the second stack is then refused (Refused); a reader of Docker events whose handler
has returned stays blocked once eventChan is full, until the agent ends (ReaderLeaks proves it); a
delete takes no mutex and runs `compose down -v` beside a job (StartDelete); a stack found by its
name is torn down, but the row is deleted by the text of the request, so it stays (DeleteRow); a
client that hangs up while a storage snapshot is made leaves one without mounts in the cache for a
minute (InspectMounts); a volume that two containers of one stack share is in no total (Exclusive);
a backup that cannot read panel.db or the stacks still answers with success (ReadFileFails,
ReadDefinitionsFails); a backup that fails or is killed leaves its truncated file in the list
(BackupFails, Crash).  README.md:85 also calls backups automated; nothing but the request starts
one.

And of the pages:

- "Open in Stacks" on the Containers page passes a project's name (`Containers.tsx` 454, 933)
  to `onNavigateStack`, which takes the id of a stack (`Containers.tsx:19`); ids are `stk_...`
  (`handlers_stacks.go:112`), so this link selects no stack (NavigateFromGroup, NavigateFromModal).
- README.md:219 says that irreversible actions require typing the resource identifier.  The dialog
  keeps the typed word after Cancel (`Modal.tsx:51`), so the next resource may be confirmed with the
  word typed for another.
- The sidebar's Volumes and Networks buttons open Resources on its images (`Resources.tsx:15`,
  `App.tsx:53`).
- On the Stacks page an answer about a stack that comes after another one was selected is taken for
  the other's: its text in the editor (`Stacks.tsx` 115-130), so that the next save writes it to the
  other stack; its report or revisions; the stack itself when a save or a job has ended, which
  changes the selection under the text (`crossed`).  A plan may be of another stack than the one that
  its button deploys.  A poll that fails, or one that is answered
  after a later one has ended the polling, leaves the banner on a job that is over (`overtaken`,
  203-217).  A delete that ends after its page was left ends a link that was followed since.
- A list that an earlier click or a running poll loads selects by the link of its time: it replaces
  the selection and the text, also after a delete has ended that link (`Stacks.tsx` 91, 162, 207).
- The terminal of the Containers page keeps its text, commands and output, from one container to the
  next and through closing the dialog (`Containers.tsx` 56, 168-170, 190-201).
- Details of a container come after another was selected (`late`), an older answer overwrites a
  newer list or chart (`doubtful`), and a save of the settings before they were loaded stores blank
  paths (`early`).
- EventsAudit keeps `connected` when its stream is closed by a change of tabs
  (`EventsAudit.tsx` 13-34): back on the tab it says connected before the new stream is open.

## Not modelled

See the components of PROJECT.json with status `not_modelled`; those with "Planned" are in the
plan below.  For good left out: rendering, the alert engine (its evaluate is empty), GPU
metrics (they parse the output of a tool and keep nothing), cryptography, the construction of
Docker requests and the decoding of their answers.

## Plan

What is done, and what is left in the order of its worth.

1. StackJobs, JobLedger: the mutex and what hangs on it, how far the exclusion fails under
   faults, that jobs wind down.  Done, proved.
2. StackStore, StackRegistry: content, history and ids.  Done, proved.
3. EventPipeline, EventDelivery: events through both processes.  Done, proved.
4. Deploy, Releases: files and images.  Done, proved.
5. StorageSnapshot, FreshReads: the cache under its mutex beside actions, and which volumes a total
   counts.  Done, proved.
6. Access: users, roles, the router's middleware and every handler's role check, the audit log
   with its unordered goroutines, the protection of the panel's own containers.  README.md:83
   promises a record of every action with its status; an entry is written only after a success,
   by a goroutine that nobody awaits.
7. Host metrics: rates from counters that reset, sampled by a ticker and by requests.
8. Scanner: findings and score as functions of the services in any order.
9. Pages: selection, editor, refresh and late answers on every page, composed in App with a
   server that changes while nobody looks.  Done, proved.
10. Backups and secrets: the copy of a database file beside writers, the key file.  Done, proved.
11. A composition of StackStore with StackJobs (timeouts and restarts under the store), and the
    proof that the store's jobs implement JobLedger.
12. Batch container statistics: the semaphore of 16 calls and the two keys of a container.

## Running the checks

    tlc -workers 2 -config StackJobs.cfg StackJobs
    tlapm StackJobsProofs.tla

Each run of PROJECT.json names its module and its configuration; every one ends within two or
three minutes.
