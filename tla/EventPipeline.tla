--------------------------- MODULE EventPipeline ---------------------------
(***************************************************************************)
(* Docker events on their way to the browser and to the docker_events      *)
(* table:                                                                  *)
(*                                                                         *)
(*   daemon -> body -> reader -> eventChan -> handler -> wire     (agent)  *)
(*   wire -> StreamEvents -> evCh -> drainer -> inboxes, table    (core)   *)
(*                                                                         *)
(* The core's loop opens one connection after another; each has a channel  *)
(* and a drainer goroutine of its own, and nothing waits for the drainer   *)
(* of the connection before.  The bus hands an event to every subscriber   *)
(* that has room and drops it for the others.                              *)
(*                                                                         *)
(* Events are numbered as the daemon emits them.  The channels hold 20, 20 *)
(* and 50 events; ChanCap and InboxCap stand for them.                     *)
(***************************************************************************)
EXTENDS Naturals, Sequences

CONSTANTS
  MaxEvents,  \* bound on the events of the daemon
  MaxConns,   \* bound on the connections of the core's loop
  MaxFaults,  \* bound on agent deaths, lost streams and failing inserts
  ChanCap,    \* capacity of eventChan and evCh
  InboxCap,   \* capacity of a subscriber's channel
  Subs        \* calls of handleEventsSSE

ASSUME PipelineAssumption ==
  /\ {MaxEvents, MaxConns, MaxFaults, ChanCap, InboxCap} \subseteq Nat
  /\ ChanCap > 0 /\ InboxCap > 0

Conns == 1..MaxConns
Events == 1..MaxEvents
None == 0

VARIABLES
  emitted,    \* how many events the daemon has emitted
  body,       \* body[g]: events in the daemon's response that the agent has not read
  reader,     \* reader[g]: docker.StreamEvents, the event it holds in readerEv[g]
  readerEv,
  eventChan,  \* eventChan[g], between the agent's reader and its handler
  handler,    \* handler[g]: handleEvents
  wire,       \* wire[g]: events the core has not read yet
  loop,       \* the loop of startEventsSubscriber
  conn,       \* the connection the loop is at
  scan,       \* the event agent.StreamEvents holds, or None
  evCh,       \* evCh[g], between the loop and the drainer
  evClosed,   \* evCh[g] is closed
  drainer,    \* drainer[g]: the goroutine over evCh[g], the event it holds in held[g]
  held,
  left,       \* left[g]: the subscribers Publish has yet to offer held[g]
  readers,    \* the drainers that hold Bus.mu for reading
  pending,    \* the calls of Subscribe and Unsubscribe that wait for Bus.mu
  sse,        \* sse[s]: where handleEventsSSE is
  subscribers,\* Bus.subscribers
  inbox,      \* inbox[s]: the channel of subscriber s
  got,        \* got[s]: what subscriber s has sent to its client
  table,      \* docker_events, in the order of its ids
  overlapped, \* a connection was opened before the last one's drainer was done
  faults

agentVars == <<body, reader, readerEv, eventChan, handler>>
loopVars  == <<loop, conn, scan, overlapped>>
drainVars == <<drainer, held, left>>
busVars   == <<readers, pending, sse, subscribers, inbox, got>>
vars == <<emitted, agentVars, wire, loopVars, evCh, evClosed, drainVars, busVars, table, faults>>

\* s without repetition
Distinct(s) == \A i, j \in 1..Len(s) : s[i] = s[j] => i = j
\* s in the order of emission
Increasing(s) == \A i, j \in 1..Len(s) : i < j => s[i] < s[j]
Holds(s, e) == \E i \in 1..Len(s) : s[i] = e

TypeOK ==
  /\ emitted \in 0..MaxEvents
  /\ body \in [Conns -> Seq(Events)]
  /\ reader \in [Conns -> {"none", "dialing", "reading", "sending", "done"}]
  /\ readerEv \in [Conns -> Events \cup {None}]
  /\ eventChan \in [Conns -> Seq(Events)]
  /\ \A g \in Conns : Len(eventChan[g]) <= ChanCap /\ Len(evCh[g]) <= ChanCap
  /\ handler \in [Conns -> {"none", "running", "returned"}]
  /\ wire \in [Conns -> Seq(Events)]
  /\ loop \in {"connect", "streaming", "backoff"}
  /\ conn \in 0..MaxConns
  /\ scan \in Events \cup {None}
  /\ evCh \in [Conns -> Seq(Events)]
  /\ evClosed \in [Conns -> BOOLEAN]
  /\ drainer \in [Conns -> {"none", "waiting", "locking", "publishing", "inserting", "done"}]
  /\ held \in [Conns -> Events \cup {None}]
  /\ left \in [Conns -> SUBSET Subs]
  /\ readers \subseteq Conns
  /\ pending \subseteq Subs
  /\ sse \in [Subs -> {"out", "joining", "in", "leaving", "gone"}]
  /\ subscribers \subseteq Subs
  /\ inbox \in [Subs -> Seq(Events)]
  /\ \A s \in Subs : Len(inbox[s]) <= InboxCap
  /\ got \in [Subs -> Seq(Events)]
  /\ table \in Seq(Events)
  /\ overlapped \in BOOLEAN
  /\ faults \in 0..MaxFaults

Init ==
  /\ emitted = 0
  /\ body = [g \in Conns |-> <<>>]
  /\ reader = [g \in Conns |-> "none"]
  /\ readerEv = [g \in Conns |-> None]
  /\ eventChan = [g \in Conns |-> <<>>]
  /\ handler = [g \in Conns |-> "none"]
  /\ wire = [g \in Conns |-> <<>>]
  /\ loop = "connect"
  /\ conn = 0
  /\ scan = None
  /\ evCh = [g \in Conns |-> <<>>]
  /\ evClosed = [g \in Conns |-> FALSE]
  /\ drainer = [g \in Conns |-> "none"]
  /\ held = [g \in Conns |-> None]
  /\ left = [g \in Conns |-> {}]
  /\ readers = {}
  /\ pending = {}
  /\ sse = [s \in Subs |-> "out"]
  /\ subscribers = {}
  /\ inbox = [s \in Subs |-> <<>>]
  /\ got = [s \in Subs |-> <<>>]
  /\ table = <<>>
  /\ overlapped = FALSE
  /\ faults = 0

Fault == faults < MaxFaults /\ faults' = faults + 1

-----------------------------------------------------------------------------
(* Mutants: one mistake each, used by no specification. *)

\* A full inbox makes Publish wait.
OfferBlocking(g, s) ==
  /\ drainer[g] = "publishing"
  /\ s \in left[g]
  /\ Len(inbox[s]) < InboxCap
  /\ left' = [left EXCEPT ![g] = @ \ {s}]
  /\ inbox' = [inbox EXCEPT ![s] = Append(@, held[g])]
  /\ UNCHANGED <<emitted, agentVars, wire, loopVars, evCh, evClosed, drainer, held,
                 readers, pending, sse, subscribers, got, table, faults>>

\* Unsubscribe closes the channel without taking the mutex.
UnsubscribeUnlocked(s) ==
  /\ sse[s] = "leaving"
  /\ pending' = pending \ {s}
  /\ subscribers' = subscribers \ {s}
  /\ sse' = [sse EXCEPT ![s] = "gone"]
  /\ UNCHANGED <<emitted, agentVars, wire, loopVars, evCh, evClosed, drainVars,
                 readers, inbox, got, table, faults>>

\* The agent asks the daemon for past events too.
AttachSinceStart(g) ==
  /\ reader[g] = "dialing"
  /\ reader' = [reader EXCEPT ![g] = "reading"]
  /\ body' = [body EXCEPT ![g] = [i \in 1..emitted |-> i]]
  /\ UNCHANGED <<emitted, readerEv, eventChan, handler, wire, loopVars, evCh, evClosed,
                 drainVars, busVars, table, faults>>

\* The drainer inserts nothing while it has subscribers to serve.
UnlockSkipsInsert(g) ==
  /\ drainer[g] = "publishing"
  /\ left[g] = {}
  /\ readers' = readers \ {g}
  /\ drainer' = [drainer EXCEPT ![g] = IF subscribers = {} THEN "inserting" ELSE "waiting"]
  /\ UNCHANGED <<emitted, agentVars, wire, loopVars, evCh, evClosed, held, left,
                 pending, sse, subscribers, inbox, got, table, faults>>

\* The newest event that has come is sent on first.
ScanNewest ==
  /\ loop = "streaming"
  /\ scan = None
  /\ wire[conn] # <<>>
  /\ scan' = wire[conn][Len(wire[conn])]
  /\ wire' = [wire EXCEPT ![conn] = SubSeq(@, 1, Len(@) - 1)]
  /\ UNCHANGED <<emitted, agentVars, loop, conn, overlapped, evCh, evClosed, drainVars,
                 busVars, table, faults>>

\* A drainer whose channel is closed leaves what is in it.
DrainerEndsEarly(g) ==
  /\ drainer[g] = "waiting"
  /\ evClosed[g]
  /\ drainer' = [drainer EXCEPT ![g] = "done"]
  /\ UNCHANGED <<emitted, agentVars, wire, loopVars, evCh, evClosed, held, left, busVars,
                 table, faults>>

\* An event whose insert failed goes through Publish once more.
InsertFailsRepublishes(g) ==
  /\ drainer[g] = "inserting"
  /\ Fault
  /\ drainer' = [drainer EXCEPT ![g] = "locking"]
  /\ UNCHANGED <<emitted, agentVars, wire, loopVars, evCh, evClosed, held, left, busVars, table>>

-----------------------------------------------------------------------------
(* The daemon and the agent *)

\* The daemon emits an event to everyone who reads its stream.
Emit ==
  /\ emitted < MaxEvents
  /\ emitted' = emitted + 1
  /\ body' = [g \in Conns |-> IF reader[g] \in {"reading", "sending"}
                              THEN Append(body[g], emitted + 1) ELSE body[g]]
  /\ UNCHANGED <<reader, readerEv, eventChan, handler, wire, loopVars, evCh, evClosed,
                 drainVars, busVars, table, faults>>

\* The reader's request reaches the daemon.  What was emitted before is not sent.
Attach(g) ==
  /\ reader[g] = "dialing"
  /\ reader' = [reader EXCEPT ![g] = "reading"]
  /\ UNCHANGED <<emitted, body, readerEv, eventChan, handler, wire, loopVars, evCh, evClosed,
                 drainVars, busVars, table, faults>>

\* The reader takes a line, unless its context is over.
ReaderReads(g) ==
  /\ reader[g] = "reading"
  /\ body[g] # <<>>
  /\ readerEv' = [readerEv EXCEPT ![g] = Head(body[g])]
  /\ body' = [body EXCEPT ![g] = Tail(@)]
  /\ reader' = [reader EXCEPT ![g] = "sending"]
  /\ UNCHANGED <<emitted, eventChan, handler, wire, loopVars, evCh, evClosed,
                 drainVars, busVars, table, faults>>

\* The send waits for room.  It does not look at the context: once the handler
\* has returned and the channel is full, the reader stays here for good.
ReaderSends(g) ==
  /\ reader[g] = "sending"
  /\ Len(eventChan[g]) < ChanCap
  /\ eventChan' = [eventChan EXCEPT ![g] = Append(@, readerEv[g])]
  /\ reader' = [reader EXCEPT ![g] = "reading"]
  /\ UNCHANGED <<emitted, body, readerEv, handler, wire, loopVars, evCh, evClosed,
                 drainVars, busVars, table, faults>>

\* The daemon closes its stream or refuses it: the reader closes eventChan.
ReaderEnds(g) ==
  /\ reader[g] \in {"dialing", "reading"}
  /\ Fault
  /\ reader' = [reader EXCEPT ![g] = "done"]
  /\ body' = [body EXCEPT ![g] = <<>>]
  /\ UNCHANGED <<emitted, readerEv, eventChan, handler, wire, loopVars, evCh, evClosed,
                 drainVars, busVars, table>>

\* The handler forwards an event to the core.
Forward(g) ==
  /\ handler[g] = "running"
  /\ eventChan[g] # <<>>
  /\ wire' = [wire EXCEPT ![g] = Append(@, Head(eventChan[g]))]
  /\ eventChan' = [eventChan EXCEPT ![g] = Tail(@)]
  /\ UNCHANGED <<emitted, body, reader, readerEv, handler, loopVars, evCh, evClosed,
                 drainVars, busVars, table, faults>>

\* The handler finds eventChan closed and empty.
HandlerReturns(g) ==
  /\ handler[g] = "running"
  /\ reader[g] = "done"
  /\ eventChan[g] = <<>>
  /\ handler' = [handler EXCEPT ![g] = "returned"]
  /\ UNCHANGED <<emitted, body, reader, readerEv, eventChan, wire, loopVars, evCh, evClosed,
                 drainVars, busVars, table, faults>>

\* The request's context is over, after the agent's ReadTimeout of 60 s or with
\* the connection: the handler leaves what is in eventChan.
HandlerCancelled(g) ==
  /\ handler[g] = "running"
  /\ Fault
  /\ handler' = [handler EXCEPT ![g] = "returned"]
  /\ UNCHANGED <<emitted, body, reader, readerEv, eventChan, wire, loopVars, evCh, evClosed,
                 drainVars, busVars, table>>

\* The reader finds its context over, before it reads or in the read.
ReaderCancelled(g) ==
  /\ reader[g] \in {"dialing", "reading"}
  /\ handler[g] = "returned"
  /\ reader' = [reader EXCEPT ![g] = "done"]
  /\ body' = [body EXCEPT ![g] = <<>>]
  /\ UNCHANGED <<emitted, readerEv, eventChan, handler, wire, loopVars, evCh, evClosed,
                 drainVars, busVars, table, faults>>

\* The agent dies.  What it has written can still be read from the socket.
AgentDies ==
  /\ Fault
  /\ handler' = [g \in Conns |-> IF handler[g] = "running" THEN "returned" ELSE handler[g]]
  /\ reader' = [g \in Conns |-> IF reader[g] = "none" THEN "none" ELSE "done"]
  /\ body' = [g \in Conns |-> <<>>]
  /\ eventChan' = [g \in Conns |-> <<>>]
  /\ UNCHANGED <<emitted, readerEv, wire, loopVars, evCh, evClosed, drainVars, busVars, table>>

-----------------------------------------------------------------------------
(* The core's loop and its drainers *)

\* The loop makes a channel, starts a drainer and reaches the agent.  An attempt
\* that does not reach it leaves nothing behind.
Connect ==
  /\ loop = "connect"
  /\ conn < MaxConns
  /\ conn' = conn + 1
  /\ loop' = "streaming"
  /\ handler' = [handler EXCEPT ![conn'] = "running"]
  /\ reader' = [reader EXCEPT ![conn'] = "dialing"]
  /\ drainer' = [drainer EXCEPT ![conn'] = "waiting"]
  /\ overlapped' = (overlapped \/ \E g \in Conns : drainer[g] \notin {"none", "done"})
  /\ UNCHANGED <<emitted, body, readerEv, eventChan, wire, scan, evCh, evClosed, held, left,
                 busVars, table, faults>>

\* StreamEvents takes an event off the wire.
Scan ==
  /\ loop = "streaming"
  /\ scan = None
  /\ wire[conn] # <<>>
  /\ scan' = Head(wire[conn])
  /\ wire' = [wire EXCEPT ![conn] = Tail(@)]
  /\ UNCHANGED <<emitted, agentVars, loop, conn, overlapped, evCh, evClosed, drainVars,
                 busVars, table, faults>>

\* It sends the event, waiting for room.
Push ==
  /\ loop = "streaming"
  /\ scan # None
  /\ Len(evCh[conn]) < ChanCap
  /\ evCh' = [evCh EXCEPT ![conn] = Append(@, scan)]
  /\ scan' = None
  /\ UNCHANGED <<emitted, agentVars, wire, loop, conn, overlapped, evClosed, drainVars,
                 busVars, table, faults>>

\* The stream is over: the channel is closed, the backoff begins.
StreamEnds ==
  /\ loop = "streaming"
  /\ scan = None
  /\ wire[conn] = <<>>
  /\ handler[conn] = "returned"
  /\ evClosed' = [evClosed EXCEPT ![conn] = TRUE]
  /\ loop' = "backoff"
  /\ UNCHANGED <<emitted, agentVars, wire, conn, scan, overlapped, evCh, drainVars,
                 busVars, table, faults>>

\* Three seconds have passed.
Retry ==
  /\ loop = "backoff"
  /\ loop' = "connect"
  /\ UNCHANGED <<emitted, agentVars, wire, conn, scan, overlapped, evCh, evClosed, drainVars,
                 busVars, table, faults>>

\* The drainer receives an event.
Take(g) ==
  /\ drainer[g] = "waiting"
  /\ evCh[g] # <<>>
  /\ held' = [held EXCEPT ![g] = Head(evCh[g])]
  /\ evCh' = [evCh EXCEPT ![g] = Tail(@)]
  /\ drainer' = [drainer EXCEPT ![g] = "locking"]
  /\ UNCHANGED <<emitted, agentVars, wire, loopVars, evClosed, left, busVars, table, faults>>

\* Publish takes the read lock, which waits for writers that wait.
ReadLock(g) ==
  /\ drainer[g] = "locking"
  /\ pending = {}
  /\ readers' = readers \cup {g}
  /\ left' = [left EXCEPT ![g] = subscribers]
  /\ drainer' = [drainer EXCEPT ![g] = "publishing"]
  /\ UNCHANGED <<emitted, agentVars, wire, loopVars, evCh, evClosed, held,
                 pending, sse, subscribers, inbox, got, table, faults>>

\* Publish offers the event to a subscriber, who may have no room for it.
Offer(g, s) ==
  /\ drainer[g] = "publishing"
  /\ s \in left[g]
  /\ left' = [left EXCEPT ![g] = @ \ {s}]
  /\ inbox' = [inbox EXCEPT ![s] = IF Len(@) < InboxCap THEN Append(@, held[g]) ELSE @]
  /\ UNCHANGED <<emitted, agentVars, wire, loopVars, evCh, evClosed, drainer, held,
                 readers, pending, sse, subscribers, got, table, faults>>

\* Publish returns.
ReadUnlock(g) ==
  /\ drainer[g] = "publishing"
  /\ left[g] = {}
  /\ readers' = readers \ {g}
  /\ drainer' = [drainer EXCEPT ![g] = "inserting"]
  /\ UNCHANGED <<emitted, agentVars, wire, loopVars, evCh, evClosed, held, left,
                 pending, sse, subscribers, inbox, got, table, faults>>

\* The event is inserted.
Insert(g) ==
  /\ drainer[g] = "inserting"
  /\ table' = Append(table, held[g])
  /\ drainer' = [drainer EXCEPT ![g] = "waiting"]
  /\ UNCHANGED <<emitted, agentVars, wire, loopVars, evCh, evClosed, held, left, busVars, faults>>

\* The insert fails, and nobody looks at the error.
InsertFails(g) ==
  /\ drainer[g] = "inserting"
  /\ Fault
  /\ drainer' = [drainer EXCEPT ![g] = "waiting"]
  /\ UNCHANGED <<emitted, agentVars, wire, loopVars, evCh, evClosed, held, left, busVars, table>>

\* The drainer finds its channel closed and empty.
DrainerEnds(g) ==
  /\ drainer[g] = "waiting"
  /\ evCh[g] = <<>>
  /\ evClosed[g]
  /\ drainer' = [drainer EXCEPT ![g] = "done"]
  /\ UNCHANGED <<emitted, agentVars, wire, loopVars, evCh, evClosed, held, left, busVars,
                 table, faults>>

-----------------------------------------------------------------------------
(* handleEventsSSE *)

\* A browser opens the stream, or is gone and its handler returns: the handler
\* asks for the write lock.
AskLock(s) ==
  /\ sse[s] \in {"out", "in"}
  /\ sse' = [sse EXCEPT ![s] = IF @ = "out" THEN "joining" ELSE "leaving"]
  /\ pending' = pending \cup {s}
  /\ UNCHANGED <<emitted, agentVars, wire, loopVars, evCh, evClosed, drainVars,
                 readers, subscribers, inbox, got, table, faults>>

\* Subscribe, from Lock to Unlock.
Subscribe(s) ==
  /\ sse[s] = "joining"
  /\ readers = {}
  /\ pending' = pending \ {s}
  /\ subscribers' = subscribers \cup {s}
  /\ sse' = [sse EXCEPT ![s] = "in"]
  /\ UNCHANGED <<emitted, agentVars, wire, loopVars, evCh, evClosed, drainVars,
                 readers, inbox, got, table, faults>>

\* Unsubscribe, from Lock to Unlock: the channel is closed.
Unsubscribe(s) ==
  /\ sse[s] = "leaving"
  /\ readers = {}
  /\ pending' = pending \ {s}
  /\ subscribers' = subscribers \ {s}
  /\ sse' = [sse EXCEPT ![s] = "gone"]
  /\ UNCHANGED <<emitted, agentVars, wire, loopVars, evCh, evClosed, drainVars,
                 readers, inbox, got, table, faults>>

\* The handler sends an event to its client, which may take its time.
Send(s) ==
  /\ sse[s] = "in"
  /\ inbox[s] # <<>>
  /\ got' = [got EXCEPT ![s] = Append(@, Head(inbox[s]))]
  /\ inbox' = [inbox EXCEPT ![s] = Tail(@)]
  /\ UNCHANGED <<emitted, agentVars, wire, loopVars, evCh, evClosed, drainVars,
                 readers, pending, sse, subscribers, table, faults>>

-----------------------------------------------------------------------------
AgentStep(g) ==
  \/ Attach(g) \/ ReaderReads(g) \/ ReaderSends(g) \/ ReaderEnds(g)
  \/ ReaderCancelled(g) \/ Forward(g) \/ HandlerReturns(g) \/ HandlerCancelled(g)

LoopStep == Connect \/ Scan \/ Push \/ StreamEnds \/ Retry

DrainerStep(g) ==
  \/ Take(g) \/ ReadLock(g) \/ \E s \in Subs : Offer(g, s)
  \/ ReadUnlock(g) \/ Insert(g) \/ InsertFails(g) \/ DrainerEnds(g)

Next ==
  \/ Emit
  \/ AgentDies
  \/ LoopStep
  \/ \E g \in Conns : AgentStep(g) \/ DrainerStep(g)
  \/ \E s \in Subs : AskLock(s) \/ Subscribe(s) \/ Unsubscribe(s) \/ Send(s)

Spec == Init /\ [][Next]_vars

\* The goroutines of the core and of the agent run, and a mutex that is free is
\* given to whoever asks for it.  Nothing is assumed of the daemon or of the
\* clients: a browser may never read again.
FairSpec ==
  /\ Spec
  /\ WF_vars(LoopStep)
  /\ \A g \in Conns : WF_vars(DrainerStep(g)) /\ WF_vars(Forward(g))
  /\ \A s \in Subs : WF_vars(Subscribe(s)) /\ WF_vars(Unsubscribe(s))

-----------------------------------------------------------------------------
(* Properties *)

\* Publish never sends on a channel that Unsubscribe has closed, which would
\* bring the core down (bus.go:29-50).
SendsToOpen ==
  \A g \in Conns : drainer[g] = "publishing" => \A s \in left[g] : sse[s] # "gone"

\* However often the loop reconnects, an event enters the table and reaches a
\* client at most once: streams of two connections have no event in common
\* (main.go:233-249, handler.go:822-839, client.go:905).
AtMostOnce == Distinct(table) /\ \A s \in Subs : Distinct(got[s] \o inbox[s])

\* The table and the clients see events in the order of the daemon, unless a
\* connection was opened while the drainer of an earlier one was at work: only
\* the backoff keeps them apart (main.go:236-249).
InOrder ==
  ~overlapped => Increasing(table) /\ \A s \in Subs : Increasing(got[s] \o inbox[s])

\* Whatever a client has seen was recorded first or will be next: an event is
\* published and then inserted by the same goroutine (main.go:238-242).
SeenIsRecorded ==
  faults = 0 =>
    \A s \in Subs : \A i \in 1..Len(got[s]) :
      \/ Holds(table, got[s][i])
      \/ \E g \in Conns : held[g] = got[s][i] /\ drainer[g] \in {"publishing", "inserting"}

\* The insert of event e has failed, and its drainer goes on to the next one.
InsertHasFailed(e) ==
  /\ faults > 0
  /\ ~Holds(table, e)
  /\ \E g \in Conns : drainer[g] = "waiting" /\ held[g] = e

\* An event that the core has read is recorded unless its own insert fails: even if no client
\* ever reads again, if the agent dies, if the connection ends and its channel is closed
\* over events that wait in it, or if the next connection is there already (main.go:236-249,
\* bus.go:44-48).
ReadIsRecorded ==
  \A e \in Events : scan = e ~> Holds(table, e) \/ InsertHasFailed(e)

\* A client that is gone is unsubscribed, however busy the bus is.
ClientsLeave == \A s \in Subs : sse[s] = "leaving" ~> sse[s] = "gone"

\* Bus.mu is held for reading by those who publish, and nobody who asks for it is forgotten: a
\* writer that waits keeps new readers out, and those that are in wait for nothing, neither a
\* client nor the database (bus.go:29-50).
BusMutex ==
  /\ readers = {g \in Conns : drainer[g] = "publishing"}
  /\ pending = {s \in Subs : sse[s] \in {"joining", "leaving"}}

\* The agent's reader that finds eventChan full when the handler has returned is never heard of
\* again: it does not look at its context, and only the end of the agent frees it
\* (client.go:949, handler.go:822-839).
StuckReader(g) == reader[g] = "sending" /\ handler[g] = "returned" /\ Len(eventChan[g]) = ChanCap
StuckReaderStays == [][\A g \in Conns : StuckReader(g) => StuckReader(g)' \/ AgentDies]_vars

-----------------------------------------------------------------------------
(* The promise of EventDelivery *)

\* The events of connection g on their way: what the agent holds, what the drainer has in
\* hand, and what lies between the two.
Items(s) == {s[i] : i \in 1..Len(s)}
Reading(g) == IF reader[g] = "sending" THEN {readerEv[g]} ELSE {}
Up(g) == Items(body[g]) \cup Reading(g) \cup Items(eventChan[g])
Scanned(g) == IF g = conn /\ scan # None THEN {scan} ELSE {}
Held(g) == IF drainer[g] \in {"locking", "publishing", "inserting"} THEN {held[g]} ELSE {}
Queued(g) == Items(evCh[g]) \cup Scanned(g) \cup Items(wire[g])
Down(g) == Held(g) \cup Queued(g)
\* Those that may still be recorded: once its handler has returned, what the agent holds is lost.
Live(g) == Down(g) \cup (IF handler[g] = "running" THEN Up(g) ELSE {})
\* What subscriber s has sent, and what it will send.
Seen(s) == got[s] \o inbox[s]

\* The pipeline keeps the promise of EventDelivery, however connections overlap and whatever
\* fails: a connection is a stream, and its events in the agent, in the sockets, in the channels
\* and in the drainer's hand are those that are coming (main.go:233-249, bus.go:41-50,
\* handler.go:822-839).
Delivery == INSTANCE EventDelivery WITH
  Streams <- Conns,
  stream <- conn,
  coming <- [g \in Conns |-> Live(g)],
  shown <- [s \in Subs |-> Seen(s)],
  recorded <- table
DeliverySpec == Delivery!Spec
=============================================================================
