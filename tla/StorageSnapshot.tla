-------------------------- MODULE StorageSnapshot --------------------------
(***************************************************************************)
(* The storage snapshot of panel-agent: how much disk each stack takes.    *)
(*                                                                         *)
(* handleStorageSnapshot of internal/agent/handler.go holds storageMu for  *)
(* the whole of a measurement, a dozen calls to the Docker daemon, and     *)
(* keeps the result for a minute.  A handler that changed something drops  *)
(* the result before it answers; it needs the same mutex to do so.  The    *)
(* daemon goes on changing between the calls of a measurement.             *)
(*                                                                         *)
(* Sizes are reduced to what they are attributed to: the volumes of a      *)
(* stack that count in its total, count as shared, or have no known size.  *)
(* Images and writable layers are left out.                                *)
(***************************************************************************)
EXTENDS Naturals, FiniteSets

CONSTANTS
  Reqs,        \* slots for HTTP requests in progress; bounds the concurrency
  Containers,  \* containers the daemon may have
  Volumes,     \* volumes it may have
  Stacks,      \* compose projects
  StackOf,     \* the project label of each container
  MountsOf,    \* the volumes that each container mounts
  MaxChanges,  \* bounds the actions that are carried out
  NoStack, NoReq, NoCache

ASSUME StorageAssumption ==
  /\ StackOf \in [Containers -> Stacks \cup {NoStack}]
  /\ MountsOf \in [Containers -> SUBSET Volumes]
  /\ IsFiniteSet(Containers)
  /\ MaxChanges \in Nat
  /\ NoStack \notin Stacks
  /\ NoReq \notin Reqs

VARIABLES
  alive,     \* the containers the daemon has
  changes,   \* how many actions of the panel the daemon has carried out
  cache,     \* storageCache
  expired,   \* a minute has passed since storageAt
  storageMu, \* the request that holds storageMu
  pc,        \* where each request is
  mine,      \* the change that an action request has made
  asked,     \* the newest change that was known when a snapshot was asked for
  known,     \* the newest change that a client knows of, as it was acknowledged or shown
  part,      \* the measurement of the holder of storageMu
  got        \* what the last answer of a request was based on

daemon == <<alive, changes>>
vars == <<alive, changes, cache, expired, storageMu, pc, mine, asked, known, part, got>>

-----------------------------------------------------------------------------
(* Types *)

\* A measurement: what was listed, which volumes have a size, what the containers
\* inspected so far mount, which are yet to be inspected, and at which change it began.
Measurement ==
  [seen : 0..MaxChanges, listed : SUBSET Containers, todo : SUBSET Containers,
   sized : SUBSET Volumes, mounts : [Containers -> SUBSET Volumes]]
NoMeasurement ==
  [seen |-> 0, listed |-> {}, todo |-> {}, sized |-> {},
   mounts |-> [c \in Containers |-> {}]]

\* A snapshot says of every volume which stacks use it, how many containers do, and
\* whether its size is known.
Snapshot ==
  [seen : 0..MaxChanges, owners : [Volumes -> SUBSET Stacks],
   refs : [Volumes -> 0..Cardinality(Containers)], sized : SUBSET Volumes]

\* idle        the slot is free
\* waiting     handleStorageSnapshot waits for storageMu
\* containers, volumes, inspect   the next call of its measurement
\* answered    the client has a snapshot
\* acting      an action is with the daemon or with compose
\* done        it succeeded, invalidateStorageCache is next
\* dropped     the cache is dropped, the answer is next
Measuring == {"containers", "volumes", "inspect"}
Stages == {"idle", "waiting", "answered", "acting", "done", "dropped"} \cup Measuring

TypeOK ==
  /\ alive \in SUBSET Containers
  /\ changes \in 0..MaxChanges
  /\ cache \in Snapshot \cup {NoCache}
  /\ expired \in BOOLEAN
  /\ storageMu \in Reqs \cup {NoReq}
  /\ pc \in [Reqs -> Stages]
  /\ mine \in [Reqs -> 0..MaxChanges]
  /\ asked \in [Reqs -> 0..MaxChanges]
  /\ known \in 0..MaxChanges
  /\ part \in Measurement
  /\ got \in [Reqs -> 0..MaxChanges]

\* The newer of two changes.
Newer(m, n) == IF m > n THEN m ELSE n

Goto(r, stage) == pc' = [pc EXCEPT ![r] = stage]

\* Request r ends; what it was about no longer matters.
Finish(r) ==
  /\ Goto(r, "idle")
  /\ mine' = [mine EXCEPT ![r] = 0]
  /\ asked' = [asked EXCEPT ![r] = 0]
  /\ got' = [got EXCEPT ![r] = 0]

\* The handler returns from its measurement and unlocks.
Release ==
  /\ storageMu' = NoReq
  /\ part' = NoMeasurement

-----------------------------------------------------------------------------
\* The agent starts beside a daemon that may have anything.
Init ==
  /\ alive \in SUBSET Containers
  /\ changes = 0
  /\ cache = NoCache
  /\ expired = FALSE
  /\ storageMu = NoReq
  /\ pc = [r \in Reqs |-> "idle"]
  /\ mine = [r \in Reqs |-> 0]
  /\ asked = [r \in Reqs |-> 0]
  /\ known = 0
  /\ part = NoMeasurement
  /\ got = [r \in Reqs |-> 0]

\* The containers that are known to mount volume v.
Users(v) == {c \in part.listed : v \in part.mounts[c]}

-----------------------------------------------------------------------------
(* Mutants: one mistake each, used by no specification. *)

\* The reference count is set where it should be incremented.
StoreSnapshotSetsCount(r) ==
  /\ pc[r] = "inspect"
  /\ part.todo = {}
  /\ cache' = [seen |-> part.seen, sized |-> part.sized,
               owners |-> [v \in Volumes |-> {StackOf[c] : c \in Users(v)} \ {NoStack}],
               refs |-> [v \in Volumes |-> IF Users(v) = {} THEN 0 ELSE 1]]
  /\ expired' = FALSE
  /\ got' = [got EXCEPT ![r] = part.seen]
  /\ Goto(r, "answered")
  /\ Release
  /\ UNCHANGED <<daemon, mine, asked, known>>

\* The cache is dropped without waiting for the mutex.
InvalidateUnlocked(r) ==
  /\ pc[r] = "done"
  /\ cache' = NoCache
  /\ expired' = FALSE
  /\ Goto(r, "dropped")
  /\ UNCHANGED <<daemon, storageMu, mine, asked, known, part, got>>

\* The mutex guards the cache only: it is given back before the measurement.
MeasureUnlocked(r) ==
  /\ pc[r] = "waiting"
  /\ storageMu = NoReq
  /\ cache = NoCache \/ expired
  /\ Goto(r, "containers")
  /\ UNCHANGED <<daemon, cache, expired, storageMu, mine, asked, known, part, got>>

\* The unlock is not deferred, and the error path forgets it.
MeasurementFailsLocked(r) ==
  /\ pc[r] \in {"containers", "volumes"}
  /\ Finish(r)
  /\ UNCHANGED <<daemon, cache, expired, storageMu, known, part>>

-----------------------------------------------------------------------------
(* Snapshots *)

\* A client asks for the snapshot.
Ask(r) ==
  /\ pc[r] = "idle"
  /\ Goto(r, "waiting")
  /\ asked' = [asked EXCEPT ![r] = known]
  /\ UNCHANGED <<daemon, cache, expired, storageMu, mine, known, part, got>>

\* The cache is younger than a minute and is the answer.
AnswerFromCache(r) ==
  /\ pc[r] = "waiting"
  /\ storageMu = NoReq
  /\ cache # NoCache
  /\ ~expired
  /\ got' = [got EXCEPT ![r] = cache.seen]
  /\ Goto(r, "answered")
  /\ UNCHANGED <<daemon, cache, expired, storageMu, mine, asked, known, part>>

\* There is nothing to answer with: the mutex is kept and a measurement begins.
BeginMeasurement(r) ==
  /\ pc[r] = "waiting"
  /\ storageMu = NoReq
  /\ cache = NoCache \/ expired
  /\ storageMu' = r
  /\ Goto(r, "containers")
  /\ UNCHANGED <<daemon, cache, expired, mine, asked, known, part, got>>

\* ListContainers of every container, running or not.
ReadContainers(r) ==
  /\ pc[r] = "containers"
  /\ part' = [part EXCEPT !.seen = changes, !.listed = alive, !.todo = alive]
  /\ Goto(r, "volumes")
  /\ UNCHANGED <<daemon, cache, expired, storageMu, mine, asked, known, got>>

\* ListVolumes, and VolumeUsage or a walk through the directories: some volumes have
\* a size, any others do not.
ReadVolumes(r) ==
  /\ pc[r] = "volumes"
  /\ \E sized \in SUBSET Volumes : part' = [part EXCEPT !.sized = sized]
  /\ Goto(r, "inspect")
  /\ UNCHANGED <<daemon, cache, expired, storageMu, mine, asked, known, got>>

\* ListContainers or ListVolumes fails, or the client is gone: the deferred unlock
\* runs and the cache stays as it is.
MeasurementFails(r) ==
  /\ pc[r] \in {"containers", "volumes"}
  /\ Release
  /\ Finish(r)
  /\ UNCHANGED <<daemon, cache, expired, known>>

\* mustInspectMounts: a container that is gone, or whose inspection fails, has no mounts.
InspectMounts(r, c) ==
  /\ pc[r] = "inspect"
  /\ c \in part.todo
  /\ \E mounts \in {{}, IF c \in alive THEN MountsOf[c] ELSE {}} :
       part' = [part EXCEPT !.todo = @ \ {c}, !.mounts[c] = mounts]
  /\ UNCHANGED <<daemon, cache, expired, storageMu, pc, mine, asked, known, got>>

\* The measurement is over: it becomes the cache and the answer.
StoreSnapshot(r) ==
  /\ pc[r] = "inspect"
  /\ part.todo = {}
  /\ cache' = [seen |-> part.seen, sized |-> part.sized,
               owners |-> [v \in Volumes |-> {StackOf[c] : c \in Users(v)} \ {NoStack}],
               refs |-> [v \in Volumes |-> Cardinality(Users(v))]]
  /\ expired' = FALSE
  /\ got' = [got EXCEPT ![r] = part.seen]
  /\ Goto(r, "answered")
  /\ Release
  /\ UNCHANGED <<daemon, mine, asked, known>>

\* The client has its snapshot.
Answered(r) ==
  /\ pc[r] = "answered"
  /\ known' = Newer(got[r], known)
  /\ Finish(r)
  /\ UNCHANGED <<daemon, cache, expired, storageMu, part>>

\* A minute has passed since the snapshot was stored.
Expire ==
  /\ cache # NoCache
  /\ ~expired
  /\ expired' = TRUE
  /\ UNCHANGED <<daemon, cache, storageMu, pc, mine, asked, known, part, got>>

-----------------------------------------------------------------------------
(* Actions on containers and stacks *)

\* An action creates or removes the containers of a stack, or changes what they contain.
Effect ==
  \E s \in Stacks :
    LET own == {c \in Containers : StackOf[c] = s}
    IN  alive' \in {alive, alive \cup own, alive \ own}

\* handleContainerAction, or handleComposeAction up to its docker compose.
BeginAction(r) ==
  /\ pc[r] = "idle"
  /\ Goto(r, "acting")
  /\ UNCHANGED <<daemon, cache, expired, storageMu, mine, asked, known, part, got>>

\* The daemon has carried it out and says so.
ActionSucceeds(r) ==
  /\ pc[r] = "acting"
  /\ changes < MaxChanges
  /\ Effect
  /\ changes' = changes + 1
  /\ mine' = [mine EXCEPT ![r] = changes']
  /\ Goto(r, "done")
  /\ UNCHANGED <<cache, expired, storageMu, asked, known, part, got>>

\* It fails, having done nothing or a part of it; the cache is left alone.
ActionFails(r) ==
  /\ pc[r] = "acting"
  /\ UNCHANGED alive \/ Effect
  /\ Finish(r)
  /\ UNCHANGED <<changes, cache, expired, storageMu, known, part>>

\* invalidateStorageCache waits for the mutex and drops the cache.
InvalidateStorageCache(r) ==
  /\ pc[r] = "done"
  /\ storageMu = NoReq
  /\ cache' = NoCache
  /\ expired' = FALSE
  /\ Goto(r, "dropped")
  /\ UNCHANGED <<daemon, storageMu, mine, asked, known, part, got>>

\* The client is told of the success.
AckAction(r) ==
  /\ pc[r] = "dropped"
  /\ known' = Newer(mine[r], known)
  /\ Finish(r)
  /\ UNCHANGED <<daemon, cache, expired, storageMu, part>>

\* Somebody else changes what the daemon has: its own CLI, or a handler that deletes,
\* prunes or pulls images, volumes and networks and does not touch the cache.
ChangeOutside ==
  /\ Effect
  /\ UNCHANGED <<changes, cache, expired, storageMu, pc, mine, asked, known, part, got>>

\* The agent restarts: the cache, the mutex and the requests are gone.
AgentRestart ==
  /\ cache' = NoCache
  /\ expired' = FALSE
  /\ Release
  /\ pc' = [r \in Reqs |-> "idle"]
  /\ mine' = [r \in Reqs |-> 0]
  /\ asked' = [r \in Reqs |-> 0]
  /\ got' = [r \in Reqs |-> 0]
  /\ UNCHANGED <<daemon, known>>

-----------------------------------------------------------------------------
\* The steps that the goroutine of a request takes by itself.
Handler(r) ==
  \/ AnswerFromCache(r) \/ BeginMeasurement(r)
  \/ ReadContainers(r) \/ ReadVolumes(r) \/ MeasurementFails(r)
  \/ \E c \in Containers : InspectMounts(r, c)
  \/ StoreSnapshot(r)
  \/ InvalidateStorageCache(r) \/ AckAction(r)

Next ==
  \/ \E r \in Reqs :
       \/ Handler(r)
       \/ Ask(r) \/ Answered(r)
       \/ BeginAction(r) \/ ActionSucceeds(r) \/ ActionFails(r)
  \/ Expire \/ ChangeOutside \/ AgentRestart

Spec == Init /\ [][Next]_vars

\* Goroutines run on, each call of a measurement answers or fails, and a sync.Mutex is
\* given to a waiter that has been passed over for long enough.
FairSpec == Spec /\ \A r \in Reqs : SF_vars(Handler(r))

-----------------------------------------------------------------------------
(* Properties *)

\* A snapshot that is asked for after an action was acknowledged, or after another
\* snapshot was answered, is at least as new, from the cache or not, whatever was being
\* measured at the time (handler.go:139-141, 319-321, 416-421, 605).
FreshAfterAck == \A r \in Reqs : pc[r] = "answered" => got[r] >= asked[r]

\* The reads of FreshReads: a request reads from Ask until its client has the answer.
ReadAt(stage) ==
  CASE stage \in {"waiting"} \cup Measuring -> "asking"
    [] stage = "answered" -> "answered"
    [] OTHER -> "idle"
Reading == [r \in Reqs |-> ReadAt(pc[r])]
Floor == [r \in Reqs |-> IF ReadAt(pc[r]) = "idle" THEN 0 ELSE asked[r]]
Version == [r \in Reqs |-> IF ReadAt(pc[r]) = "answered" THEN got[r] ELSE 0]

Reads == INSTANCE FreshReads
  WITH Clients <- Reqs, reading <- Reading, floor <- Floor, version <- Version

\* Cached or measured, the snapshots behave like one value that each request reads at one
\* moment, after its question and before its answer (handler.go:138-144, 416-421).
FreshReadsSpec == Reads!Spec

\* The volumes of stack s, and those of them that count in its total.
Owned(s) == {v \in Volumes : s \in cache.owners[v]}
Exclusive(s) == {v \in Owned(s) \cap cache.sized : cache.refs[v] = 1}

\* No volume is in the totals of two stacks, even if containers come and go while they
\* are inspected one by one (handler.go:236-250, 295-310).
TotalsAreDisjoint ==
  cache # NoCache =>
    \A s, t \in Stacks : s # t => Exclusive(s) \cap Exclusive(t) = {}

\* No request waits for ever for storageMu or for its measurement, and an action that
\* succeeded is acknowledged (handler.go:139-140, 416-421).
RequestsEnd ==
  \A r \in Reqs : pc[r] \in {"waiting", "done"} \cup Measuring ~> pc[r] \in {"answered", "idle"}

\* How many calls to the daemon the measurement of request r has left, at most.
CallsLeft(r) ==
  CASE pc[r] = "containers" -> Cardinality(Containers) + 3
    [] pc[r] = "volumes" -> Cardinality(part.todo) + 2
    [] pc[r] = "inspect" -> Cardinality(part.todo) + 1
    [] OTHER -> 0

\* Whoever holds storageMu keeps it until its measurement ends, and each step of the
\* measurement leaves fewer calls, whatever the daemon, the other requests and the actions
\* do: the mutex comes back (handler.go:139-140, 146-156, 210-321).
MeasurementsShrink ==
  [][\A r \in Reqs : storageMu = r =>
       CallsLeft(r)' < CallsLeft(r) \/ UNCHANGED <<storageMu, pc[r], part>>]_vars

-----------------------------------------------------------------------------
(* The inductive invariant behind FreshAfterAck and TotalsAreDisjoint *)

\* The mutex is held by whoever measures, and by nobody else.
OneMeasures == \A r \in Reqs : pc[r] \in Measuring <=> storageMu = r

\* A bound on the changes that a snapshot, or a measurement past its first call, lacks.
KnownTo(n) ==
  /\ cache # NoCache => n <= cache.seen
  /\ \A r \in Reqs : pc[r] \in {"volumes", "inspect"} => n <= part.seen

\* What was acknowledged or shown, or is about to be, is known to the cache and to
\* measurements, and was made.
Acknowledged ==
  /\ known <= changes
  /\ cache # NoCache => cache.seen <= changes
  /\ \A r \in Reqs : pc[r] \in {"volumes", "inspect"} => part.seen <= changes
  /\ KnownTo(known)
  /\ \A r \in Reqs :
       /\ asked[r] <= known
       /\ mine[r] <= changes
       /\ pc[r] = "dropped" => KnownTo(mine[r])
       /\ pc[r] = "answered" => got[r] <= changes /\ KnownTo(got[r])

\* A volume's count and its stacks come from the same containers.
CountsMatchOwners ==
  cache # NoCache =>
    \A v \in Volumes : \E users \in SUBSET Containers :
      /\ cache.refs[v] = Cardinality(users)
      /\ cache.owners[v] \subseteq {StackOf[c] : c \in users}

IInv ==
  /\ TypeOK
  /\ OneMeasures
  /\ Acknowledged
  /\ CountsMatchOwners
  /\ FreshAfterAck
=============================================================================
