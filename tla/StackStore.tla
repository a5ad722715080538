----------------------------- MODULE StackStore -----------------------------
(***************************************************************************)
(* The stacks and stack_revisions tables of panel-core, the handlers of    *)
(* internal/api/handlers_stacks.go that write them, and what they make of  *)
(* the compose file and the containers that panel-agent looks after.       *)
(*                                                                         *)
(* A handler reads a row, waits for the agent, and writes the row back, or *)
(* a part of it; nothing but SQLite's single statements is atomic.  The    *)
(* steps below are the stretches between two such waits or statements.     *)
(*                                                                         *)
(* A row is written with one upsert keyed by the stack's name, which keeps *)
(* the id of the row it meets.  Ids come from two places: the clock, for a *)
(* stack that a user creates, and the name, for one that is discovered.    *)
(* Nothing keeps the two apart, and the clock may say the same twice: ids  *)
(* may meet, and then the primary key refuses the upsert of a new row.     *)
(*                                                                         *)
(* Left out: the role checks, the security score, the status column, the   *)
(* .env content (it travels with the compose content), stacks that live    *)
(* outside the stacks root, and the system stack, which cannot be deleted. *)
(* Job timeouts and restarts are in StackJobs.                             *)
(***************************************************************************)
EXTENDS Naturals, FiniteSets

CONSTANTS
  Names,      \* names of stacks
  Contents,   \* compose files
  Found,      \* the ones that were on disk before the panel first started
  FreshIds,   \* ids the clock hands out, a discovered id or a name perhaps among them
  Reqs,       \* slots for HTTP requests in progress; bounds the concurrency
  Importer,   \* the goroutine of discoverExistingStacks
  Handlers,   \* the handlers clients call
  NoId, NoName, NoContent, NoReq

DiscoveredId(n) == <<"stk", n>>
Ids == FreshIds \cup {DiscoveredId(n) : n \in Names}

\* What a client may put in the place of the id: handlers look a stack up by
\* its id, and then by its name with or without the prefix of discovered ids.
Keys == Ids \cup Names

Procs == Reqs \cup {Importer}
EmptyOr(S) == S \cup {NoContent}

ASSUME StoreAssumption ==
  /\ Found \subseteq Contents
  /\ NoContent \notin Contents
  /\ NoId \notin Keys
  /\ NoName \notin Names
  /\ NoReq \notin Procs
  /\ Importer \notin Reqs

VARIABLES
  rows,       \* rows[n]: id and content of the row of stack n; NoId if there is none
  revisions,  \* stack_revisions: pairs of a stack id and a content
  issued,     \* pairs of an id that the clock handed out and the stack it was for
  disk,       \* disk[n]: the compose file in the directory of stack n
  deployed,   \* deployed[n]: what the containers of project n were made from
  locks,      \* Manager.stackLocks: who holds the mutex of each stack id
  op,         \* the handler a request is in
  pc,         \* where in it the request is
  key,        \* the id in the request's path
  st,         \* the handler's copy of the stack
  new,        \* the content the request is about
  todo,       \* syncDiscoveredStacks: the copies it has yet to write
  mishaps     \* what has happened that a property excuses

store     == <<rows, revisions>>
agentSide == <<disk, deployed>>
local     == <<op, key, st, new, todo>>
vars == <<rows, revisions, issued, disk, deployed, locks, op, pc, key, st, new, todo, mishaps>>

-----------------------------------------------------------------------------
(* Types *)

NoRow   == [id |-> NoId, content |-> NoContent]
NoStack == [id |-> NoId, name |-> NoName, content |-> NoContent]
Stack   == [id : Ids, name : Names, content : EmptyOr(Contents)]

\* idle       the slot is free
\* listing    ListContainers is next
\* listed     GetAllStacks is next
\* syncing    syncDiscoveredStacks works through its list
\* found      the handler has its copy of the stack
\* saved      UpsertStack returned, CreateRevision is next
\* locked     the job holds the mutex, the agent saves the files next
\* placed     compose is about to start
\* executing  compose up or compose down runs for a job
\* deleting   compose down -v runs for a delete
\* removed    the agent's part of a delete is over, DeleteStack is next
\* starting, importing, writing   the stages of discoverExistingStacks
Stages == {"idle", "listing", "listed", "syncing", "found", "saved", "locked", "placed",
           "executing", "deleting", "removed", "starting", "importing", "writing"}

AllHandlers == {"list", "create", "update", "restore", "delete", "job"}

TypeOK ==
  /\ rows \in [Names -> [id : Ids, content : EmptyOr(Contents)] \cup {NoRow}]
  /\ revisions \in SUBSET (Ids \X EmptyOr(Contents))
  /\ issued \in SUBSET (FreshIds \X Names)
  /\ disk \in [Names -> EmptyOr(Contents)]
  /\ deployed \in [Names -> EmptyOr(Contents)]
  /\ locks \in [Ids -> Procs \cup {NoReq}]
  /\ op \in [Procs -> AllHandlers \cup {"none"}]
  /\ pc \in [Procs -> Stages]
  /\ key \in [Procs -> Keys \cup {NoId}]
  /\ st \in [Procs -> Stack \cup {NoStack}]
  /\ new \in [Procs -> EmptyOr(Contents)]
  /\ todo \in [Procs -> SUBSET Stack]
  /\ mishaps \in SUBSET {"delete", "collision", "db_error"}

Exists(n) == rows[n].id # NoId

\* The stacks that getOrFindStack finds under k without asking the agent.
NamedBy(k, n) == k \in {n, DiscoveredId(n)}
Lookup(k) ==
  LET byId == {n \in Names : Exists(n) /\ rows[n].id = k}
  IN  IF byId # {} THEN byId ELSE {n \in Names : Exists(n) /\ NamedBy(k, n)}

\* A handler's copy of the row of stack n.
CopyOf(n) == [id |-> rows[n].id, name |-> n, content |-> rows[n].content]

Goto(r, stage) == pc' = [pc EXCEPT ![r] = stage]

\* Request r is over and its slot is free.
Finish(r) ==
  /\ Goto(r, "idle")
  /\ op' = [op EXCEPT ![r] = "none"]
  /\ key' = [key EXCEPT ![r] = NoId]
  /\ st' = [st EXCEPT ![r] = NoStack]
  /\ new' = [new EXCEPT ![r] = NoContent]
  /\ todo' = [todo EXCEPT ![r] = {}]

-----------------------------------------------------------------------------
\* The panel starts on an empty database, over stacks that may be there already.
Init ==
  /\ rows = [n \in Names |-> NoRow]
  /\ revisions = {}
  /\ issued = {}
  /\ disk \in [Names -> EmptyOr(Found)]
  /\ deployed \in {d \in [Names -> EmptyOr(Found)] :
                     \A n \in Names : d[n] \in {disk[n], NoContent}}
  /\ locks = [i \in Ids |-> NoReq]
  /\ op = [r \in Procs |-> "none"]
  /\ pc = [r \in Procs |-> IF r = Importer THEN "starting" ELSE "idle"]
  /\ key = [r \in Procs |-> NoId]
  /\ st = [r \in Procs |-> NoStack]
  /\ new = [r \in Procs |-> NoContent]
  /\ todo = [r \in Procs |-> {}]
  /\ mishaps = {}

-----------------------------------------------------------------------------
(* Mutants: one mistake each, used by no specification. *)

\* The revision records the content the handler found, not the one it saved.
AddRevisionOfOldContent(r) ==
  /\ pc[r] = "saved"
  /\ revisions' = IF \E n \in Names : Exists(n) /\ rows[n].id = st[r].id
                  THEN revisions \cup ({st[r].id} \X ({st[r].content} \ {NoContent}))
                  ELSE revisions
  /\ Finish(r)
  /\ UNCHANGED <<rows, issued, agentSide, locks, mishaps>>

\* "validate" writes the files before it looks at them.
RefuseButWrite(r) ==
  /\ pc[r] = "found"
  /\ op[r] \in {"create", "update"}
  /\ disk' = [disk EXCEPT ![st[r].name] = new[r]]
  /\ Finish(r)
  /\ UNCHANGED <<store, issued, deployed, locks, mishaps>>

\* The schema lacks ON DELETE CASCADE.
DeleteRowOnly(r) ==
  /\ pc[r] = "removed"
  /\ rows' = [n \in Names |-> IF rows[n].id = key[r] THEN NoRow ELSE rows[n]]
  /\ mishaps' = mishaps \cup {"delete"}
  /\ Finish(r)
  /\ UNCHANGED <<revisions, issued, agentSide, locks>>

\* The result of TryLock is ignored.
SubmitWithoutTryLock(r) ==
  /\ pc[r] = "found"
  /\ op[r] = "job"
  /\ locks' = [locks EXCEPT ![st[r].id] = r]
  /\ Goto(r, "locked")
  /\ UNCHANGED <<store, issued, agentSide, local, mishaps>>

-----------------------------------------------------------------------------
(* The upsert, and the lookup of a stack *)

\* The upsert of d would insert a row whose id is that of another stack's row.
Refused(d) == ~Exists(d.name) /\ \E n \in Names : rows[n].id = d.id

\* UpsertStack writes the copy d.  A row of that name keeps its id; a new one is
\* refused if its id is taken.
UpsertStack(d) ==
  /\ rows' = IF Refused(d) THEN rows
             ELSE [rows EXCEPT ![d.name] =
                    [id |-> IF Exists(d.name) THEN @.id ELSE d.id, content |-> d.content]]
  /\ mishaps' = IF Refused(d) \/ (Exists(d.name) /\ rows[d.name].id # d.id)
                THEN mishaps \cup {"collision"} ELSE mishaps

\* A handler that works on one stack looks it up; if the table does not have
\* it, the containers are listed and every stack is synchronised first.
Begin(r, h, k, c) ==
  /\ pc[r] = "idle"
  /\ h \in Handlers \cap {"update", "delete", "job"}
  /\ h = "update" <=> c # NoContent
  /\ op' = [op EXCEPT ![r] = h]
  /\ key' = [key EXCEPT ![r] = k]
  /\ new' = [new EXCEPT ![r] = c]
  /\ \/ \E n \in Lookup(k) : st' = [st EXCEPT ![r] = CopyOf(n)] /\ Goto(r, "found")
     \/ Lookup(k) = {} /\ Goto(r, "listing") /\ UNCHANGED st
  /\ UNCHANGED <<store, issued, agentSide, locks, todo, mishaps>>

\* handleListStacks.
List(r) ==
  /\ pc[r] = "idle"
  /\ "list" \in Handlers
  /\ op' = [op EXCEPT ![r] = "list"]
  /\ Goto(r, "listing")
  /\ UNCHANGED <<store, issued, agentSide, locks, key, st, new, todo, mishaps>>

\* The agent lists the containers, or fails, which counts as having none.
ListContainers(r) ==
  /\ pc[r] = "listing"
  /\ \E up \in {{n \in Names : deployed[n] # NoContent}, {}} :
       todo' = [todo EXCEPT ![r] =
         {[id |-> DiscoveredId(n), name |-> n, content |-> NoContent] : n \in up}]
  /\ Goto(r, "listed")
  /\ UNCHANGED <<store, issued, agentSide, locks, op, key, st, new, mishaps>>

\* GetAllStacks and MatchContainersToStacks: every row, and a stack of its own
\* for every project that has containers and no row.
ReadRows(r) ==
  /\ pc[r] = "listed"
  /\ todo' = [todo EXCEPT ![r] =
       {CopyOf(n) : n \in {m \in Names : Exists(m)}}
         \cup {d \in todo[r] : ~Exists(d.name)}]
  /\ Goto(r, "syncing")
  /\ UNCHANGED <<store, issued, agentSide, locks, op, key, st, new, mishaps>>

\* A copy without content gets that of the compose file, if it can be read.
FillFromFile(r, d) ==
  /\ pc[r] = "syncing"
  /\ d \in todo[r]
  /\ d.content = NoContent
  /\ disk[d.name] # NoContent
  /\ todo' = [todo EXCEPT ![r] = (@ \ {d}) \cup {[d EXCEPT !.content = disk[d.name]]}]
  /\ UNCHANGED <<store, issued, agentSide, locks, op, pc, key, st, new, mishaps>>

\* The copy is written back, after the agent was asked for its Dockerfile.  Whether the
\* upsert worked is not looked at.
SyncWrite(r, d) ==
  /\ pc[r] = "syncing"
  /\ d \in todo[r]
  /\ UpsertStack(d)
  /\ todo' = [todo EXCEPT ![r] = @ \ {d}]
  /\ st' = IF op[r] # "list" /\ (d.id = key[r] \/ NamedBy(key[r], d.name))
           THEN [st EXCEPT ![r] = d] ELSE st
  /\ UNCHANGED <<revisions, issued, agentSide, locks, op, pc, key, new>>

\* The list is done: the handler has its stack, or answers that there is none.
SyncEnds(r) ==
  /\ pc[r] = "syncing"
  /\ todo[r] = {}
  /\ IF st[r] # NoStack THEN Goto(r, "found") /\ UNCHANGED local ELSE Finish(r)
  /\ UNCHANGED <<store, issued, agentSide, locks, mishaps>>

-----------------------------------------------------------------------------
(* Create, update, restore *)

\* handleCreateStack, up to the agent's validation.  It reads no row, and takes
\* whatever the clock says for the id.
BeginCreate(r, n, i, c) ==
  /\ pc[r] = "idle"
  /\ "create" \in Handlers
  /\ issued' = issued \cup {<<i, n>>}
  /\ op' = [op EXCEPT ![r] = "create"]
  /\ st' = [st EXCEPT ![r] = [id |-> i, name |-> n, content |-> c]]
  /\ new' = [new EXCEPT ![r] = c]
  /\ Goto(r, "found")
  /\ UNCHANGED <<store, agentSide, locks, key, todo, mishaps>>

\* handleRestoreRevision reads the row by its id, and a revision of that stack.
BeginRestore(r, n, c) ==
  /\ pc[r] = "idle"
  /\ "restore" \in Handlers
  /\ Exists(n)
  /\ <<rows[n].id, c>> \in revisions
  /\ op' = [op EXCEPT ![r] = "restore"]
  /\ st' = [st EXCEPT ![r] = CopyOf(n)]
  /\ new' = [new EXCEPT ![r] = c]
  /\ Goto(r, "found")
  /\ UNCHANGED <<store, issued, agentSide, locks, key, todo, mishaps>>

\* The agent's "validate" answered: it parses the content and writes nothing.
\* The copy is written back with the new content.  A refused upsert ends the request,
\* but for a restore, which does not look.
SaveContent(r) ==
  LET d == [st[r] EXCEPT !.content = new[r]] IN
  /\ pc[r] = "found"
  /\ op[r] \in {"create", "update", "restore"}
  /\ UpsertStack(d)
  /\ IF Refused(d) /\ op[r] # "restore" THEN Finish(r) ELSE Goto(r, "saved") /\ UNCHANGED local
  /\ UNCHANGED <<revisions, issued, agentSide, locks>>

\* The content does not parse, or the agent is not there.
Refuse(r) ==
  /\ pc[r] = "found"
  /\ op[r] \in {"create", "update"}
  /\ Finish(r)
  /\ UNCHANGED <<store, issued, agentSide, locks, mishaps>>

\* CreateRevision.  The foreign key refuses an id without a row, and every
\* handler drops the error.
AddRevision(r) ==
  /\ pc[r] = "saved"
  /\ revisions' = IF \E n \in Names : Exists(n) /\ rows[n].id = st[r].id
                  THEN revisions \cup {<<st[r].id, new[r]>>} ELSE revisions
  /\ Finish(r)
  /\ UNCHANGED <<rows, issued, agentSide, locks, mishaps>>

\* CreateRevision fails for a reason of its own, or the core dies before it.
RevisionFails(r) ==
  /\ pc[r] = "saved"
  /\ mishaps' = mishaps \cup {"db_error"}
  /\ Finish(r)
  /\ UNCHANGED <<store, issued, agentSide, locks>>

-----------------------------------------------------------------------------
(* Delete *)

\* The agent starts compose down -v.  No mutex is taken on the way.
StartDelete(r) ==
  /\ pc[r] = "found"
  /\ op[r] = "delete"
  /\ Goto(r, "deleting")
  /\ UNCHANGED <<store, issued, agentSide, locks, local, mishaps>>

\* Compose is done and the directory removed; either may have failed, and the
\* handler does not look at the answer.
EndDelete(r) ==
  /\ pc[r] = "deleting"
  /\ deployed' \in {[deployed EXCEPT ![st[r].name] = NoContent], deployed}
  /\ disk' \in {[disk EXCEPT ![st[r].name] = NoContent], disk}
  /\ Goto(r, "removed")
  /\ UNCHANGED <<store, issued, locks, local, mishaps>>

\* DeleteStack is called with the id of the request, not with that of the
\* stack that was found under it.  The revisions go with the row.
DeleteRow(r) ==
  /\ pc[r] = "removed"
  /\ rows' = [n \in Names |-> IF rows[n].id = key[r] THEN NoRow ELSE rows[n]]
  /\ revisions' = {v \in revisions : v[1] # key[r]}
  /\ mishaps' = mishaps \cup {"delete"}
  /\ Finish(r)
  /\ UNCHANGED <<issued, agentSide, locks>>

-----------------------------------------------------------------------------
(* Compose jobs: up, down, restart, pull, build.  They carry the content that the *)
(* handler read.                                                                  *)

\* SubmitComposeJob gets the mutex of the stack's id.
Submit(r) ==
  /\ pc[r] = "found"
  /\ op[r] = "job"
  /\ locks[st[r].id] = NoReq
  /\ locks' = [locks EXCEPT ![st[r].id] = r]
  /\ Goto(r, "locked")
  /\ UNCHANGED <<store, issued, agentSide, local, mishaps>>

\* ErrStackLocked.
Conflict(r) ==
  /\ pc[r] = "found"
  /\ op[r] = "job"
  /\ locks[st[r].id] # NoReq
  /\ Finish(r)
  /\ UNCHANGED <<store, issued, agentSide, locks, mishaps>>

\* SaveStackFiles.  A stack without content leaves the file as it is.
SaveFiles(r) ==
  /\ pc[r] = "locked"
  /\ disk' = IF st[r].content = NoContent THEN disk
             ELSE [disk EXCEPT ![st[r].name] = st[r].content]
  /\ Goto(r, "placed")
  /\ UNCHANGED <<store, issued, deployed, locks, local, mishaps>>

\* Compose starts and reads the file, which must be there.
StartCompose(r) ==
  /\ pc[r] = "placed"
  /\ disk[st[r].name] # NoContent
  /\ new' = [new EXCEPT ![r] = disk[st[r].name]]
  /\ Goto(r, "executing")
  /\ UNCHANGED <<store, issued, agentSide, locks, op, key, st, todo, mishaps>>

\* Compose is done: up replaces the containers, down removes them, restart, pull
\* and build leave them as they were made.
EndJob(r) ==
  /\ pc[r] = "executing"
  /\ \E c \in {new[r], NoContent, deployed[st[r].name]} :
       deployed' = [deployed EXCEPT ![st[r].name] = c]
  /\ locks' = [locks EXCEPT ![st[r].id] = NoReq]
  /\ Finish(r)
  /\ UNCHANGED <<store, issued, disk, mishaps>>

\* The agent refuses the job or compose fails.
FailJob(r) ==
  /\ pc[r] \in {"locked", "placed", "executing"}
  /\ locks' = [locks EXCEPT ![st[r].id] = NoReq]
  /\ Finish(r)
  /\ UNCHANGED <<store, issued, agentSide, mishaps>>

-----------------------------------------------------------------------------
(* discoverExistingStacks, once, while the server already answers requests *)

\* The agent reports the directories that hold a compose file.
Discover ==
  /\ pc[Importer] = "starting"
  /\ todo' = [todo EXCEPT ![Importer] =
       {[id |-> DiscoveredId(n), name |-> n, content |-> disk[n]] :
          n \in {m \in Names : disk[m] # NoContent}}]
  /\ Goto(Importer, "importing")
  /\ UNCHANGED <<store, issued, agentSide, locks, op, key, st, new, mishaps>>

\* GetStackByName finds no row: the stack will be imported.
TakeUnknown(d) ==
  /\ pc[Importer] = "importing"
  /\ d \in todo[Importer]
  /\ ~Exists(d.name)
  /\ st' = [st EXCEPT ![Importer] = d]
  /\ todo' = [todo EXCEPT ![Importer] = @ \ {d}]
  /\ Goto(Importer, "writing")
  /\ UNCHANGED <<store, issued, agentSide, locks, op, key, new, mishaps>>

\* GetStackByName finds a row.
SkipKnown(d) ==
  /\ pc[Importer] = "importing"
  /\ d \in todo[Importer]
  /\ Exists(d.name)
  /\ todo' = [todo EXCEPT ![Importer] = @ \ {d}]
  /\ UNCHANGED <<store, issued, agentSide, locks, op, pc, key, st, new, mishaps>>

\* The row is written, whatever has happened since it was looked for.
Import ==
  /\ pc[Importer] = "writing"
  /\ UpsertStack(st[Importer])
  /\ st' = [st EXCEPT ![Importer] = NoStack]
  /\ Goto(Importer, "importing")
  /\ UNCHANGED <<revisions, issued, agentSide, locks, op, key, new, todo>>

-----------------------------------------------------------------------------
Request(r) ==
  \/ \E h \in Handlers, k \in Keys, c \in EmptyOr(Contents) : Begin(r, h, k, c)
  \/ List(r) \/ ListContainers(r) \/ ReadRows(r)
  \/ \E d \in todo[r] : FillFromFile(r, d) \/ SyncWrite(r, d)
  \/ SyncEnds(r)
  \/ \E n \in Names, i \in FreshIds, c \in Contents : BeginCreate(r, n, i, c)
  \/ \E n \in Names, c \in Contents : BeginRestore(r, n, c)
  \/ SaveContent(r) \/ Refuse(r) \/ AddRevision(r) \/ RevisionFails(r)
  \/ StartDelete(r) \/ EndDelete(r) \/ DeleteRow(r)
  \/ Submit(r) \/ Conflict(r) \/ SaveFiles(r) \/ StartCompose(r) \/ EndJob(r) \/ FailJob(r)

DiscoverExistingStacks ==
  \/ Discover
  \/ \E d \in todo[Importer] : TakeUnknown(d) \/ SkipKnown(d)
  \/ Import

Next == (\E r \in Reqs : Request(r)) \/ DiscoverExistingStacks

Spec == Init /\ [][Next]_vars

-----------------------------------------------------------------------------
(* Properties *)

\* Request r has saved content c for stack n and its revision is next.
Recording(n, c) == \E r \in Reqs : pc[r] = "saved" /\ st[r].name = n /\ new[r] = c

\* Content c of stack n can be had again from the history, or will be as soon
\* as a request has taken its next step, or came with the stack.
Kept(n, c) ==
  \/ c \in EmptyOr(Found)
  \/ <<rows[n].id, c>> \in revisions
  \/ Recording(n, c)

\* Whatever a stack's row says is in the stack's own history.
ContentIsKept == \A n \in Names : Exists(n) => Kept(n, rows[n].content)

\* ContentIsKept holds through all interleavings of edits, restores, jobs, the
\* start-up import and the lists that write rows back as they read them some time
\* ago, unless a stack was deleted, the ids of an upsert and a row disagreed, or
\* CreateRevision failed (handlers_stacks.go:62, 315-326, 481-483, main.go:198).
HistoryKeepsContent == mishaps = {} => ContentIsKept

\* What the containers of a stack were made from is in its history too: no
\* content reaches a deployment without a revision (handlers_stacks.go:396,
\* manager.go:80, handler.go:584-595).
HistoryKeepsDeployments ==
  mishaps = {} => \A n \in Names : Exists(n) => Kept(n, deployed[n]) /\ Kept(n, disk[n])

\* Mutexes are per id, compose projects per name; as long as no row was deleted
\* or met under another id this is the same (manager.go:46, runner.go:171).
JobsExclude ==
  mishaps \cap {"delete", "collision"} = {} =>
    \A p, r \in Reqs :
      /\ pc[p] = "executing" /\ pc[r] = "executing"
      /\ st[p].name = st[r].name
      => p = r

\* Whatever clients do short of deleting, a saved content is in its stack's
\* history if CreateRevision works: creating a stack is no exception.
EditsAreRecorded == mishaps \cap {"delete", "db_error"} = {} => ContentIsKept

\* No two rows share an id, though nothing keeps ids apart where they are made
\* (schema.go:31, handlers_stacks.go:112, discovery.go:109).
IdsNameOneRow ==
  \A m, n \in Names : Exists(n) /\ rows[m].id = rows[n].id => m = n

\* The foreign key holds: a revision belongs to a stack that is there
\* (schema.go:53).
RevisionsHaveRows == \A v \in revisions : \E n \in Names : Exists(n) /\ rows[n].id = v[1]

-----------------------------------------------------------------------------
(* The promise of StackRegistry *)

\* What ids were made for: those of the clock as it handed them out, the others by name.
Meant == issued \cup {<<DiscoveredId(n), n>> : n \in Names}

Registry == INSTANCE StackRegistry WITH
  Texts <- EmptyOr(Contents),
  meant <- Meant,
  ids <- [n \in Names |-> rows[n].id],
  history <- revisions

\* The handlers keep the tables as StackRegistry says: a stack gets an id that was made
\* for it and that no other stack has, keeps it while it is there, and no revision
\* outlives its stack or enters the history of a stack that is not there (repos.go
\* 153-206, schema.go 30-54).
RegistrySpec == Registry!Spec

-----------------------------------------------------------------------------
(* The inductive invariant behind HistoryKeepsContent, HistoryKeepsDeployments *)
(* and JobsExclude.                                                            *)

Working == {"locked", "placed", "executing"}

\* A handler past its lookup has a stack, and one before it has none.
HasStack ==
  \A r \in Procs :
    /\ pc[r] \in Working \cup {"found", "saved", "deleting", "removed", "writing"} => st[r] \in Stack
    /\ pc[r] \in {"idle", "listing", "listed"} => st[r] = NoStack

\* The mutexes of jobs at work are theirs.
LocksHeld == \A r \in Reqs : pc[r] \in Working => locks[st[r].id] = r

\* The copy of request r was read from a row, or written as one.
FromRow(r) ==
  \/ pc[r] \in Working \cup {"saved"}
  \/ pc[r] = "found" /\ op[r] # "create"
  \/ pc[r] = "syncing" /\ st[r] # NoStack

\* A copy has the id of the row of its name.
CopiesMatchRows ==
  mishaps \cap {"delete", "collision"} = {} =>
    \A r \in Reqs : FromRow(r) => rows[st[r].name].id = st[r].id

\* No content that is on its way to a row, to the disk or to containers can get
\* there without being in the history of its stack.
CopiesAreKept ==
  mishaps = {} =>
    /\ \A n \in Names : Kept(n, rows[n].content) /\ Kept(n, disk[n]) /\ Kept(n, deployed[n])
    /\ \A r \in Procs : \A d \in todo[r] : Kept(d.name, d.content)
    /\ \A r \in Procs :
         pc[r] = "writing" \/ (FromRow(r) /\ pc[r] # "saved") => Kept(st[r].name, st[r].content)
    /\ \A r \in Procs : pc[r] = "executing" => Kept(st[r].name, new[r])

\* Every pair of an id and a name, in a row or in a copy, is one the id is meant for.
IdsAreMeant ==
  /\ \A n \in Names : Exists(n) => <<rows[n].id, n>> \in Meant
  /\ \A r \in Procs : st[r] # NoStack => <<st[r].id, st[r].name>> \in Meant
  /\ \A r \in Procs : \A d \in todo[r] : <<d.id, d.name>> \in Meant

IInv ==
  /\ TypeOK
  /\ HasStack
  /\ LocksHeld
  /\ CopiesMatchRows
  /\ CopiesAreKept
  /\ IdsAreMeant
  /\ IdsNameOneRow
  /\ RevisionsHaveRows
=============================================================================
