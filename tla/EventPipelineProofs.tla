------------------------- MODULE EventPipelineProofs -------------------------
(***************************************************************************)
(* Proofs about EventPipeline.                                             *)
(*                                                                         *)
(* An event passes through the stages of one connection, each of which     *)
(* holds events older than those of the stage before it, and the           *)
(* connections are used one after the other.  What the proofs follow are   *)
(* the sets of events of the stages.                                       *)
(***************************************************************************)
EXTENDS EventPipeline, SequenceTheorems, TLAPS

-----------------------------------------------------------------------------
(* The inductive invariant *)

Before(A, B) == \A a \in A : \A b \in B : a < b
\* What has been offered to s and is not recorded yet.
Offered(g, s) ==
  IF drainer[g] = "inserting" \/ (drainer[g] = "publishing" /\ s \notin left[g])
  THEN {held[g]} ELSE {}

\* A connection is not used before the loop reaches it and settled when the loop leaves it.
Shape ==
  /\ \A g \in Conns : g > conn =>
       /\ reader[g] = "none" /\ handler[g] = "none" /\ drainer[g] = "none"
       /\ body[g] = <<>> /\ eventChan[g] = <<>> /\ wire[g] = <<>> /\ evCh[g] = <<>>
       /\ ~evClosed[g]
  /\ \A g \in Conns : g < conn \/ (g = conn /\ loop # "streaming") =>
       handler[g] = "returned" /\ wire[g] = <<>>
  /\ \A g \in Conns : g <= conn => drainer[g] # "none"
  /\ scan # None => loop = "streaming"
  /\ loop = "streaming" => conn \in Conns
  /\ \A g \in Conns : evClosed[g] => g < conn \/ (g = conn /\ loop # "streaming")
  /\ \A g \in Conns : drainer[g] = "done" => evCh[g] = <<>> /\ evClosed[g]
  /\ \A g \in Conns : reader[g] = "sending" => readerEv[g] # None
  /\ \A g \in Conns : drainer[g] \in {"locking", "publishing", "inserting"} => held[g] # None

\* Who holds the mutex, and that a subscriber to be served has not left.
Locks ==
  /\ \A g \in Conns : drainer[g] = "publishing" => g \in readers
  /\ \A s \in subscribers : sse[s] \in {"in", "leaving"}
  /\ \A g \in Conns : drainer[g] = "publishing" =>
       left[g] \subseteq Subs /\ \A s \in left[g] : sse[s] \in {"in", "leaving"}

\* The stages of one connection are in the order of emission.
Ordered(g) ==
  /\ Increasing(body[g]) /\ Increasing(eventChan[g])
  /\ Increasing(wire[g]) /\ Increasing(evCh[g])
  /\ Before(Items(eventChan[g]), Reading(g) \cup Items(body[g]))
  /\ Before(Reading(g), Items(body[g]))
  /\ Before(Items(evCh[g]), Scanned(g) \cup Items(wire[g]))
  /\ Before(Scanned(g), Items(wire[g]))
  /\ Before(Held(g), Queued(g))
  /\ Before(Down(g), Up(g))

\* Nothing is seen that was not emitted.
Bounded ==
  /\ \A g \in Conns : Up(g) \cup Down(g) \subseteq 1..emitted
  /\ Items(table) \subseteq 1..emitted
  /\ \A s \in Subs : Items(Seen(s)) \subseteq 1..emitted

\* What came over an earlier connection is older than all of a later one.
Apart == \A g, h \in Conns : g < h => Before(Down(g), Up(h) \cup Down(h))

\* What is recorded or seen will not come again.
Once ==
  /\ Distinct(table)
  /\ \A g \in Conns : Items(table) \cap Live(g) = {}
  /\ \A s \in Subs : Distinct(Seen(s))
  /\ \A s \in Subs : \A g \in Conns : Items(Seen(s)) \cap Live(g) \subseteq Offered(g, s)

\* As long as no two drainers have been at work, it is older than all that will come.
InTurn ==
  ~overlapped =>
    /\ \A g \in Conns : g < conn => drainer[g] = "done"
    /\ Increasing(table)
    /\ \A g \in Conns : Before(Items(table), Live(g))
    /\ \A s \in Subs : Increasing(Seen(s))
    /\ \A s \in Subs : \A g \in Conns : Before(Items(Seen(s)) \ Offered(g, s), Live(g))

Recorded ==
  faults = 0 =>
    \A s \in Subs : \A e \in Items(Seen(s)) :
      \/ e \in Items(table)
      \/ \E g \in Conns : held[g] = e /\ drainer[g] \in {"publishing", "inserting"}

IInv ==
  /\ TypeOK /\ Shape /\ Locks
  /\ \A g \in Conns : Ordered(g)
  /\ Bounded /\ Apart /\ Once /\ InTurn /\ Recorded

-----------------------------------------------------------------------------
(* Sequences and the events in them *)

\* The empty sequence.
LEMMA NoItems == Items(<<>>) = {} /\ Increasing(<<>>) /\ Distinct(<<>>)
BY DEF Items, Increasing, Distinct

\* Append adds one event to those of a sequence.
LEMMA AppendItems ==
  ASSUME NEW s \in Seq(Events), NEW e \in Events
  PROVE  /\ Append(s, e) \in Seq(Events)
         /\ Len(Append(s, e)) = Len(s) + 1
         /\ Items(Append(s, e)) = Items(s) \cup {e}
<1>1. /\ Append(s, e) \in Seq(Events) /\ Len(Append(s, e)) = Len(s) + 1
      /\ \A i \in 1..Len(s) : Append(s, e)[i] = s[i]
      /\ Append(s, e)[Len(s) + 1] = e
      /\ Len(s) \in Nat
  OBVIOUS
<1> DEFINE t == Append(s, e)
<1> HIDE DEF t
<1>2. /\ Len(t) = Len(s) + 1 /\ \A i \in 1..Len(s) : t[i] = s[i]
      /\ t[Len(s) + 1] = e
  BY <1>1 DEF t
<1>3. Items(t) \subseteq Items(s) \cup {e}
  BY <1>1, <1>2 DEF Items
<1>4. Items(s) \cup {e} \subseteq Items(t)
  BY <1>1, <1>2 DEF Items
<1>5. QED
  BY <1>1, <1>3, <1>4 DEF t

\* The events of a sequence are its head and those of its tail.
LEMMA HeadItems ==
  ASSUME NEW s \in Seq(Events), s # <<>>
  PROVE  /\ Head(s) \in Events /\ Tail(s) \in Seq(Events)
         /\ Len(Tail(s)) = Len(s) - 1
         /\ Items(s) = {Head(s)} \cup Items(Tail(s))
<1>1. /\ Head(s) \in Events /\ Tail(s) \in Seq(Events)
      /\ Len(Tail(s)) = Len(s) - 1 /\ Len(s) \in Nat /\ Len(s) > 0
      /\ Head(s) = s[1]
      /\ \A i \in 1..(Len(s) - 1) : Tail(s)[i] = s[i + 1]
  OBVIOUS
<1> DEFINE t == Tail(s)
<1> HIDE DEF t
<1>2. Len(t) = Len(s) - 1 /\ \A i \in 1..Len(t) : t[i] = s[i + 1]
  BY <1>1 DEF t
<1>3. Items(t) \subseteq Items(s)
  BY <1>1, <1>2 DEF Items
<1>4. Head(s) \in Items(s)
  BY <1>1 DEF Items
<1>5. ASSUME NEW x \in Items(s), x # s[1] PROVE x \in Items(t)
  <2>1. PICK i \in 1..Len(s) : x = s[i]
    BY DEF Items
  <2>2. i - 1 \in 1..Len(t) /\ t[i - 1] = s[i]
    BY <1>1, <1>2, <1>5, <2>1
  <2>3. QED
    BY <2>1, <2>2 DEF Items
<1>6. QED
  BY <1>1, <1>3, <1>4, <1>5 DEF t

\* What is in a sequence of events is an event.
LEMMA ItemsTyped == \A s \in Seq(Events) : Items(s) \subseteq Events
BY DEF Items

\* The tail of an increasing sequence is increasing, and newer than the head.
LEMMA IncreasingTail ==
  ASSUME NEW s \in Seq(Events), s # <<>>, Increasing(s)
  PROVE  Increasing(Tail(s)) /\ Before({Head(s)}, Items(Tail(s)))
<1>1. /\ Len(Tail(s)) = Len(s) - 1 /\ Len(s) \in Nat /\ Len(s) > 0
      /\ Head(s) = s[1]
      /\ \A i \in 1..(Len(s) - 1) : Tail(s)[i] = s[i + 1]
  OBVIOUS
<1> DEFINE t == Tail(s)
<1> HIDE DEF t
<1>2. Len(t) = Len(s) - 1 /\ \A i \in 1..Len(t) : t[i] = s[i + 1]
  BY <1>1 DEF t
<1>3. \A i, j \in 1..Len(t) : i < j => t[i] < t[j]
  BY <1>1, <1>2 DEF Increasing
<1>4. \A i \in 1..Len(t) : s[1] < t[i]
  BY <1>1, <1>2 DEF Increasing
<1>5. QED
  BY <1>1, <1>3, <1>4 DEF t, Increasing, Before, Items

\* An event newer than all of a sequence keeps it increasing.
LEMMA IncreasingAppend ==
  ASSUME NEW s \in Seq(Events), NEW e \in Events, Increasing(s), Before(Items(s), {e})
  PROVE  Increasing(Append(s, e))
<1>1. /\ Len(Append(s, e)) = Len(s) + 1 /\ Len(s) \in Nat
      /\ \A i \in 1..Len(s) : Append(s, e)[i] = s[i]
      /\ Append(s, e)[Len(s) + 1] = e
  OBVIOUS
<1> DEFINE t == Append(s, e)
<1> HIDE DEF t
<1>2. Len(t) = Len(s) + 1 /\ t[Len(s) + 1] = e /\ \A i \in 1..Len(s) : t[i] = s[i]
  BY <1>1 DEF t
<1>3. \A i \in 1..Len(s) : t[i] < e
  BY <1>2 DEF Items, Before
<1>4. ASSUME NEW i \in 1..Len(t), NEW j \in 1..Len(t), i < j PROVE t[i] < t[j]
  <2>1. i \in 1..Len(s)
    BY <1>1, <1>2, <1>4
  <2>2. CASE j \in 1..Len(s)
    BY <1>2, <1>4, <2>1, <2>2 DEF Increasing
  <2>3. CASE j = Len(s) + 1
    BY <1>2, <1>3, <2>1, <2>3
  <2>4. QED
    BY <1>1, <1>2, <2>2, <2>3
<1>5. QED
  BY <1>4 DEF t, Increasing

\* An event that is not in a sequence keeps it without repetition.
LEMMA DistinctAppend ==
  ASSUME NEW s \in Seq(Events), NEW e \in Events, Distinct(s), e \notin Items(s)
  PROVE  Distinct(Append(s, e))
<1>1. /\ Len(Append(s, e)) = Len(s) + 1 /\ Len(s) \in Nat
      /\ \A i \in 1..Len(s) : Append(s, e)[i] = s[i]
      /\ Append(s, e)[Len(s) + 1] = e
  OBVIOUS
<1> DEFINE t == Append(s, e)
<1> HIDE DEF t
<1>2. Len(t) = Len(s) + 1 /\ t[Len(s) + 1] = e /\ \A i \in 1..Len(s) : t[i] = s[i]
  BY <1>1 DEF t
<1>3. \A i \in 1..Len(s) : t[i] # e
  BY <1>2 DEF Items
<1>4. ASSUME NEW i \in 1..Len(t), NEW j \in 1..Len(t), t[i] = t[j] PROVE i = j
  <2>1. CASE i \in 1..Len(s) /\ j \in 1..Len(s)
    BY <1>2, <1>4, <2>1 DEF Distinct
  <2>2. CASE i = Len(s) + 1 \/ j = Len(s) + 1
    BY <1>1, <1>2, <1>3, <1>4, <2>2
  <2>3. QED
    BY <1>1, <1>2, <2>1, <2>2
<1>5. QED
  BY <1>4 DEF t, Distinct

\* What is appended to the second of two sequences is appended to both, and an element that
\* is moved from the second to the first stays where it is.
LEMMA SeenAppend ==
  ASSUME NEW s \in Seq(Events), NEW t \in Seq(Events), NEW e \in Events
  PROVE  s \o Append(t, e) = Append(s \o t, e)
OBVIOUS

LEMMA SeenMove ==
  ASSUME NEW s \in Seq(Events), NEW t \in Seq(Events), t # <<>>
  PROVE  Append(s, Head(t)) \o Tail(t) = s \o t
OBVIOUS

\* What a subscriber has sent is part of what it has seen.
LEMMA SeenTyped ==
  ASSUME NEW s \in Seq(Events), NEW t \in Seq(Events)
  PROVE  s \o t \in Seq(Events) /\ (\A i \in 1..Len(s) : s[i] \in Items(s \o t))
BY ConcatProperties DEF Items

-----------------------------------------------------------------------------
(* Types *)

\* Connections and events are numbers, and 0 is neither.
LEMMA ConnsAndEvents ==
  /\ Conns \subseteq Nat /\ Events \subseteq Nat /\ None \notin Events
  /\ \A g, h \in Conns : g < h \/ g = h \/ h < g
BY PipelineAssumption DEF Conns, Events, None

\* The constants are numbers, and the channels have room.
LEMMA Bounds ==
  /\ MaxEvents \in Nat /\ MaxConns \in Nat /\ MaxFaults \in Nat
  /\ ChanCap \in Nat /\ InboxCap \in Nat /\ ChanCap > 0 /\ InboxCap > 0
BY PipelineAssumption

\* The initial state is of the right types.
LEMMA TypeInit == Init => TypeOK
<1> SUFFICES ASSUME Init PROVE TypeOK
  OBVIOUS
<1>1. <<>> \in Seq(Events) /\ Len(<<>>) = 0
  OBVIOUS
<1>2. /\ body \in [Conns -> Seq(Events)] /\ eventChan \in [Conns -> Seq(Events)]
      /\ wire \in [Conns -> Seq(Events)] /\ evCh \in [Conns -> Seq(Events)]
      /\ inbox \in [Subs -> Seq(Events)] /\ got \in [Subs -> Seq(Events)]
      /\ table \in Seq(Events)
      /\ \A g \in Conns : Len(eventChan[g]) <= ChanCap /\ Len(evCh[g]) <= ChanCap
      /\ \A s \in Subs : Len(inbox[s]) <= InboxCap
  BY <1>1, Bounds DEF Init
<1>3. /\ emitted \in 0..MaxEvents /\ conn \in 0..MaxConns /\ faults \in 0..MaxFaults
      /\ readers \subseteq Conns /\ pending \subseteq Subs /\ subscribers \subseteq Subs
      /\ left \in [Conns -> SUBSET Subs] /\ evClosed \in [Conns -> BOOLEAN]
  BY Bounds DEF Init
<1>4. QED
  BY <1>2, <1>3 DEF Init, TypeOK, None

\* A step keeps the types.
LEMMA TypeStep == TypeOK /\ Shape /\ [Next]_vars => TypeOK'
<1> SUFFICES ASSUME TypeOK, Shape, [Next]_vars PROVE TypeOK'
  OBVIOUS
<1> USE Bounds
<1>1. CASE Emit
  <2>1. emitted + 1 \in Events /\ emitted + 1 \in 0..MaxEvents
    BY <1>1 DEF Emit, TypeOK, Events
  <2>2. \A g \in Conns : Append(body[g], emitted + 1) \in Seq(Events)
    BY <2>1, AppendItems DEF TypeOK
  <2>3. body' \in [Conns -> Seq(Events)]
    BY <1>1, <2>2 DEF Emit, TypeOK
  <2>4. QED
    BY <1>1, <2>1, <2>3 DEF Emit, TypeOK, loopVars, drainVars, busVars
<1>2. CASE AgentDies
  <2>1. <<>> \in Seq(Events) /\ Len(<<>>) = 0
    OBVIOUS
  <2>2. /\ handler' \in [Conns -> {"none", "running", "returned"}]
        /\ reader' \in [Conns -> {"none", "dialing", "reading", "sending", "done"}]
        /\ body' \in [Conns -> Seq(Events)] /\ eventChan' \in [Conns -> Seq(Events)]
    BY <1>2, <2>1 DEF AgentDies, TypeOK
  <2>3. \A g \in Conns : Len(eventChan'[g]) <= ChanCap /\ Len(evCh'[g]) <= ChanCap
    BY <1>2, <2>1 DEF AgentDies, TypeOK
  <2>4. QED
    BY <1>2, <2>2, <2>3 DEF AgentDies, Fault, TypeOK, loopVars, drainVars, busVars
<1>3. CASE Connect
  <2>1. conn' \in 0..MaxConns
    BY <1>3 DEF Connect, TypeOK
  <2>2. overlapped' \in BOOLEAN
    BY <1>3, Zenon DEF Connect, TypeOK
  <2>3. QED
    BY <1>3, <2>1, <2>2 DEF Connect, TypeOK, busVars
<1>4. CASE Scan
  <2>1. conn \in Conns /\ Head(wire[conn]) \in Events /\ Tail(wire[conn]) \in Seq(Events)
    BY <1>4, HeadItems DEF Scan, TypeOK, Shape
  <2>2. QED
    BY <1>4, <2>1
    DEF Scan, TypeOK, agentVars, loopVars, drainVars, busVars
<1>5. CASE Push
  <2>1. /\ conn \in Conns /\ Append(evCh[conn], scan) \in Seq(Events)
        /\ Len(Append(evCh[conn], scan)) <= ChanCap
    <3>1. conn \in Conns /\ evCh[conn] \in Seq(Events) /\ scan \in Events
      BY <1>5 DEF Push, TypeOK, Shape
    <3>2. QED
      BY <1>5, <3>1, AppendItems DEF Push, TypeOK
  <2>2. evCh' \in [Conns -> Seq(Events)] /\ \A g \in Conns : Len(evCh'[g]) <= ChanCap
    BY <1>5, <2>1 DEF Push, TypeOK
  <2>3. QED
    BY <1>5, <2>2 DEF Push, TypeOK, agentVars, drainVars, busVars
<1>6. CASE StreamEnds
  BY <1>6
  DEF StreamEnds, TypeOK, agentVars, loopVars, drainVars, busVars
<1>7. CASE Retry
  BY <1>7
  DEF Retry, TypeOK, agentVars, loopVars, drainVars, busVars
<1>8. ASSUME NEW g \in Conns, Attach(g) PROVE TypeOK'
  BY <1>8
  DEF Attach, TypeOK, agentVars, loopVars, drainVars, busVars
<1>9. ASSUME NEW g \in Conns, ReaderReads(g) PROVE TypeOK'
  <2>1. Head(body[g]) \in Events /\ Tail(body[g]) \in Seq(Events)
    BY <1>9, HeadItems DEF ReaderReads, TypeOK
  <2>2. QED
    BY <1>9, <2>1
    DEF ReaderReads, TypeOK, agentVars, loopVars, drainVars, busVars
<1>10. ASSUME NEW g \in Conns, ReaderSends(g) PROVE TypeOK'
  <2>1. eventChan[g] \in Seq(Events) /\ readerEv[g] \in Events
    BY <1>10 DEF ReaderSends, TypeOK, Shape
  <2>2. /\ Append(eventChan[g], readerEv[g]) \in Seq(Events)
        /\ Len(Append(eventChan[g], readerEv[g])) = Len(eventChan[g]) + 1
    BY <2>1, AppendItems
  <2>3. /\ eventChan' \in [Conns -> Seq(Events)]
        /\ \A h \in Conns : Len(eventChan'[h]) <= ChanCap
    BY <1>10, <2>2 DEF ReaderSends, TypeOK
  <2>4. QED
    BY <1>10, <2>3 DEF ReaderSends, TypeOK, loopVars, drainVars, busVars
<1>11. ASSUME NEW g \in Conns, ReaderEnds(g) PROVE TypeOK'
  <2>1. <<>> \in Seq(Events)
    OBVIOUS
  <2>2. QED
    BY <1>11, <2>1 DEF ReaderEnds, Fault, TypeOK, loopVars, drainVars, busVars
<1>12. ASSUME NEW g \in Conns, ReaderCancelled(g) PROVE TypeOK'
  <2>1. <<>> \in Seq(Events)
    OBVIOUS
  <2>2. QED
    BY <1>12, <2>1 DEF ReaderCancelled, TypeOK, loopVars, drainVars, busVars
<1>13. ASSUME NEW g \in Conns, Forward(g) PROVE TypeOK'
  <2>1. /\ Head(eventChan[g]) \in Events /\ Tail(eventChan[g]) \in Seq(Events)
        /\ Len(Tail(eventChan[g])) <= ChanCap
    BY <1>13, HeadItems DEF Forward, TypeOK
  <2>2. Append(wire[g], Head(eventChan[g])) \in Seq(Events)
    BY <1>13, <2>1, AppendItems DEF TypeOK
  <2>3. /\ eventChan' \in [Conns -> Seq(Events)] /\ wire' \in [Conns -> Seq(Events)]
        /\ \A h \in Conns : Len(eventChan'[h]) <= ChanCap
    BY <1>13, <2>1, <2>2 DEF Forward, TypeOK
  <2>4. QED
    BY <1>13, <2>3 DEF Forward, TypeOK, loopVars, drainVars, busVars
<1>14. ASSUME NEW g \in Conns, HandlerReturns(g) PROVE TypeOK'
  BY <1>14
  DEF HandlerReturns, TypeOK, agentVars, loopVars, drainVars, busVars
<1>15. ASSUME NEW g \in Conns, HandlerCancelled(g) PROVE TypeOK'
  BY <1>15
  DEF HandlerCancelled, Fault, TypeOK, agentVars, loopVars, drainVars, busVars
<1>16. ASSUME NEW g \in Conns, Take(g) PROVE TypeOK'
  <2>1. /\ Head(evCh[g]) \in Events /\ Tail(evCh[g]) \in Seq(Events)
        /\ Len(Tail(evCh[g])) <= ChanCap
    BY <1>16, HeadItems DEF Take, TypeOK
  <2>2. evCh' \in [Conns -> Seq(Events)] /\ \A h \in Conns : Len(evCh'[h]) <= ChanCap
    BY <1>16, <2>1 DEF Take, TypeOK
  <2>3. QED
    BY <1>16, <2>1, <2>2 DEF Take, TypeOK, agentVars, loopVars, busVars
<1>17. ASSUME NEW g \in Conns, ReadLock(g) PROVE TypeOK'
  BY <1>17
  DEF ReadLock, TypeOK, agentVars, loopVars, drainVars, busVars
<1>18. ASSUME NEW g \in Conns, NEW s \in Subs, Offer(g, s) PROVE TypeOK'
  <2>1. inbox[s] \in Seq(Events) /\ held[g] \in Events
    BY <1>18 DEF Offer, TypeOK, Shape, Held
  <2>2. /\ Append(inbox[s], held[g]) \in Seq(Events)
        /\ Len(Append(inbox[s], held[g])) = Len(inbox[s]) + 1
    BY <2>1, AppendItems
  <2>3. inbox' \in [Subs -> Seq(Events)] /\ \A t \in Subs : Len(inbox'[t]) <= InboxCap
    BY <1>18, <2>1, <2>2 DEF Offer, TypeOK
  <2>4. QED
    BY <1>18, <2>3 DEF Offer, TypeOK, agentVars, loopVars
<1>19. ASSUME NEW g \in Conns, ReadUnlock(g) PROVE TypeOK'
  BY <1>19
  DEF ReadUnlock, TypeOK, agentVars, loopVars, drainVars, busVars
<1>20. ASSUME NEW g \in Conns, Insert(g) PROVE TypeOK'
  <2>1. held[g] \in Events
    BY <1>20 DEF Insert, TypeOK, Shape, Held
  <2>2. Append(table, held[g]) \in Seq(Events)
    BY <2>1, AppendItems DEF TypeOK
  <2>3. QED
    BY <1>20, <2>2 DEF Insert, TypeOK, agentVars, loopVars, busVars
<1>21. ASSUME NEW g \in Conns, InsertFails(g) PROVE TypeOK'
  BY <1>21
  DEF InsertFails, Fault, TypeOK, agentVars, loopVars, drainVars, busVars
<1>22. ASSUME NEW g \in Conns, DrainerEnds(g) PROVE TypeOK'
  BY <1>22
  DEF DrainerEnds, TypeOK, agentVars, loopVars, drainVars, busVars
<1>23. ASSUME NEW s \in Subs, AskLock(s) PROVE TypeOK'
  BY <1>23
  DEF AskLock, TypeOK, agentVars, loopVars, drainVars, busVars
<1>24. ASSUME NEW s \in Subs, Subscribe(s) PROVE TypeOK'
  BY <1>24
  DEF Subscribe, TypeOK, agentVars, loopVars, drainVars, busVars
<1>25. ASSUME NEW s \in Subs, Unsubscribe(s) PROVE TypeOK'
  BY <1>25
  DEF Unsubscribe, TypeOK, agentVars, loopVars, drainVars, busVars
<1>26. ASSUME NEW s \in Subs, Send(s) PROVE TypeOK'
  <2>1. /\ Head(inbox[s]) \in Events /\ Tail(inbox[s]) \in Seq(Events)
        /\ Len(Tail(inbox[s])) <= InboxCap
    BY <1>26, HeadItems DEF Send, TypeOK
  <2>2. Append(got[s], Head(inbox[s])) \in Seq(Events)
    BY <2>1, AppendItems DEF TypeOK
  <2>3. /\ inbox' \in [Subs -> Seq(Events)] /\ got' \in [Subs -> Seq(Events)]
        /\ \A t \in Subs : Len(inbox'[t]) <= InboxCap
    BY <1>26, <2>1, <2>2 DEF Send, TypeOK
  <2>4. QED
    BY <1>26, <2>3 DEF Send, TypeOK, agentVars, loopVars, drainVars
<1>27. CASE UNCHANGED vars
  BY <1>27
  DEF vars, TypeOK, agentVars, loopVars, drainVars, busVars
<1>28. QED
  BY <1>1, <1>2, <1>3, <1>4, <1>5, <1>6, <1>7, <1>8, <1>9, <1>10, <1>11, <1>12, <1>13, <1>14,
     <1>15, <1>16, <1>17, <1>18, <1>19, <1>20, <1>21, <1>22, <1>23, <1>24, <1>25, <1>26, <1>27
  DEF Next, LoopStep, AgentStep, DrainerStep

-----------------------------------------------------------------------------
(* The shape of connections, and the mutex of the bus *)

\* A step keeps the shape of the connections.
LEMMA ShapeStep == TypeOK /\ Shape /\ [Next]_vars => Shape'
<1> SUFFICES ASSUME TypeOK, Shape, [Next]_vars PROVE Shape'
  OBVIOUS
<1>0. /\ conn \in Nat /\ \A g \in Conns : g \in Nat
      /\ None \notin Events
  BY Bounds, ConnsAndEvents DEF TypeOK
<1>1. CASE Emit
  BY <1>1, <1>0
  DEF Emit, Shape, agentVars, loopVars, drainVars, busVars
<1>2. CASE AgentDies
  BY <1>2, <1>0
  DEF AgentDies, Fault, Shape, agentVars, loopVars, drainVars, busVars
<1>3. CASE Connect
  <2>1. conn' = conn + 1 /\ loop' = "streaming" /\ conn' \in Conns /\ scan = None
    BY <1>3, Bounds DEF Connect, Conns, TypeOK, Shape
  <2>2. /\ \A g \in Conns : g > conn' =>
             handler'[g] = "none" /\ reader'[g] = "none" /\ drainer'[g] = "none"
        /\ \A g \in Conns : g # conn' =>
             handler'[g] = handler[g] /\ reader'[g] = reader[g] /\ drainer'[g] = drainer[g]
        /\ handler'[conn'] = "running" /\ reader'[conn'] = "dialing" /\ drainer'[conn'] = "waiting"
    BY <1>3, <2>1 DEF Connect, Shape, TypeOK
  <2>3. UNCHANGED <<body, eventChan, wire, evCh, evClosed, scan, readerEv, held>>
    BY <1>3 DEF Connect
  <2>4. \A g \in Conns : g < conn' => g < conn \/ (g = conn /\ loop # "streaming")
    BY <1>3, <1>0, <2>1 DEF Connect
  <2>5. QED
    BY <1>0, <2>1, <2>2, <2>3, <2>4 DEF Shape
<1>4. CASE Scan
  BY <1>4, <1>0
  DEF Scan, Shape, agentVars, loopVars, drainVars, busVars
<1>5. CASE Push
  BY <1>5, <1>0
  DEF Push, Shape, agentVars, loopVars, drainVars, busVars
<1>6. CASE StreamEnds
  BY <1>6, <1>0
  DEF StreamEnds, Shape, agentVars, loopVars, drainVars, busVars
<1>7. CASE Retry
  BY <1>7, <1>0
  DEF Retry, Shape, agentVars, loopVars, drainVars, busVars
<1>8. ASSUME NEW g \in Conns, Attach(g) PROVE Shape'
  BY <1>8, <1>0
  DEF Attach, Shape, agentVars, loopVars, drainVars, busVars
<1>9. ASSUME NEW g \in Conns, ReaderReads(g) PROVE Shape'
  <2>1. Head(body[g]) \in Events
    BY <1>9, HeadItems DEF ReaderReads, TypeOK
  <2>2. /\ body' = [body EXCEPT ![g] = Tail(body[g])] /\ ~(g > conn)
        /\ reader' = [reader EXCEPT ![g] = "sending"]
        /\ readerEv' = [readerEv EXCEPT ![g] = Head(body[g])]
    BY <1>9 DEF ReaderReads, Shape
  <2>3. /\ \A h \in Conns : h > conn => body'[h] = <<>> /\ reader'[h] = "none"
        /\ \A h \in Conns : reader'[h] = "sending" => readerEv'[h] # None
    BY <1>0, <2>1, <2>2, SMTT(30) DEF TypeOK, Shape
  <2>4. QED
    BY <1>9, <2>3 DEF ReaderReads, Shape, loopVars, drainVars, busVars
<1>10. ASSUME NEW g \in Conns, ReaderSends(g) PROVE Shape'
  BY <1>10, <1>0
  DEF ReaderSends, Shape, agentVars, loopVars, drainVars, busVars
<1>11. ASSUME NEW g \in Conns, ReaderEnds(g) PROVE Shape'
  BY <1>11, <1>0
  DEF ReaderEnds, Fault, Shape, agentVars, loopVars, drainVars, busVars
<1>12. ASSUME NEW g \in Conns, ReaderCancelled(g) PROVE Shape'
  BY <1>12, <1>0
  DEF ReaderCancelled, Shape, agentVars, loopVars, drainVars, busVars
<1>13. ASSUME NEW g \in Conns, Forward(g) PROVE Shape'
  BY <1>13, <1>0
  DEF Forward, Shape, agentVars, loopVars, drainVars, busVars
<1>14. ASSUME NEW g \in Conns, HandlerReturns(g) PROVE Shape'
  BY <1>14, <1>0
  DEF HandlerReturns, Shape, agentVars, loopVars, drainVars, busVars
<1>15. ASSUME NEW g \in Conns, HandlerCancelled(g) PROVE Shape'
  BY <1>15, <1>0
  DEF HandlerCancelled, Fault, Shape, agentVars, loopVars, drainVars, busVars
<1>16. ASSUME NEW g \in Conns, Take(g) PROVE Shape'
  <2>1. Head(evCh[g]) \in Events
    BY <1>16, HeadItems DEF Take, TypeOK
  <2>2. ~(g > conn)
    BY <1>16 DEF Take, Shape
  <2>3. /\ \A h \in Conns : drainer'[h] = "done" => evCh'[h] = <<>>
        /\ \A h \in Conns : h > conn => evCh'[h] = <<>> /\ drainer'[h] = "none"
        /\ \A h \in Conns : h <= conn => drainer'[h] # "none"
        /\ \A h \in Conns : drainer'[h] \in {"locking", "publishing", "inserting"} =>
                             held'[h] # None
        /\ \A h \in Conns : drainer'[h] = "done" => drainer[h] = "done"
    <3>1. \A h \in Conns :
            \/ UNCHANGED <<evCh[h], drainer[h], held[h]>>
            \/ h = g /\ drainer[g] = "waiting" /\ drainer'[h] = "locking"
               /\ held'[h] = Head(evCh[g])
      BY <1>16 DEF Take, TypeOK
    <3>2. QED
      BY <1>0, <2>1, <2>2, <3>1 DEF Shape
  <2>4. QED
    BY <1>16, <2>3 DEF Take, Shape, agentVars, loopVars, busVars
<1>17. ASSUME NEW g \in Conns, ReadLock(g) PROVE Shape'
  BY <1>17, <1>0
  DEF ReadLock, Shape, agentVars, loopVars, drainVars, busVars
<1>18. ASSUME NEW g \in Conns, NEW s \in Subs, Offer(g, s) PROVE Shape'
  BY <1>18, <1>0
  DEF Offer, Shape, agentVars, loopVars, drainVars, busVars
<1>19. ASSUME NEW g \in Conns, ReadUnlock(g) PROVE Shape'
  BY <1>19, <1>0
  DEF ReadUnlock, Shape, agentVars, loopVars, drainVars, busVars
<1>20. ASSUME NEW g \in Conns, Insert(g) PROVE Shape'
  BY <1>20, <1>0
  DEF Insert, Shape, agentVars, loopVars, drainVars, busVars
<1>21. ASSUME NEW g \in Conns, InsertFails(g) PROVE Shape'
  BY <1>21, <1>0
  DEF InsertFails, Fault, Shape, agentVars, loopVars, drainVars, busVars
<1>22. ASSUME NEW g \in Conns, DrainerEnds(g) PROVE Shape'
  BY <1>22, <1>0
  DEF DrainerEnds, Shape, agentVars, loopVars, drainVars, busVars
<1>23. ASSUME NEW s \in Subs, AskLock(s) PROVE Shape'
  BY <1>23, <1>0
  DEF AskLock, Shape, agentVars, loopVars, drainVars, busVars
<1>24. ASSUME NEW s \in Subs, Subscribe(s) PROVE Shape'
  BY <1>24, <1>0
  DEF Subscribe, Shape, agentVars, loopVars, drainVars, busVars
<1>25. ASSUME NEW s \in Subs, Unsubscribe(s) PROVE Shape'
  BY <1>25, <1>0
  DEF Unsubscribe, Shape, agentVars, loopVars, drainVars, busVars
<1>26. ASSUME NEW s \in Subs, Send(s) PROVE Shape'
  BY <1>26, <1>0
  DEF Send, Shape, agentVars, loopVars, drainVars, busVars
<1>27. CASE UNCHANGED vars
  BY <1>27, <1>0
  DEF vars, Shape, agentVars, loopVars, drainVars, busVars
<1>28. QED
  BY <1>1, <1>2, <1>3, <1>4, <1>5, <1>6, <1>7, <1>8, <1>9, <1>10, <1>11, <1>12, <1>13, <1>14,
     <1>15, <1>16, <1>17, <1>18, <1>19, <1>20, <1>21, <1>22, <1>23, <1>24, <1>25, <1>26, <1>27
  DEF Next, LoopStep, AgentStep, DrainerStep

\* A step keeps the mutex of the bus: who is served has not left.
LEMMA LocksStep == TypeOK /\ Locks /\ [Next]_vars => Locks'
<1> SUFFICES ASSUME TypeOK, Locks, [Next]_vars PROVE Locks'
  OBVIOUS
<1>1. CASE Emit
  BY <1>1
  DEF Emit, TypeOK, Locks, agentVars, loopVars, drainVars, busVars
<1>2. CASE AgentDies
  BY <1>2
  DEF AgentDies, Fault, TypeOK, Locks, agentVars, loopVars, drainVars, busVars
<1>3. CASE Connect
  BY <1>3
  DEF Connect, TypeOK, Locks, agentVars, loopVars, drainVars, busVars
<1>4. CASE Scan
  BY <1>4
  DEF Scan, TypeOK, Locks, agentVars, loopVars, drainVars, busVars
<1>5. CASE Push
  BY <1>5
  DEF Push, TypeOK, Locks, agentVars, loopVars, drainVars, busVars
<1>6. CASE StreamEnds
  BY <1>6
  DEF StreamEnds, TypeOK, Locks, agentVars, loopVars, drainVars, busVars
<1>7. CASE Retry
  BY <1>7
  DEF Retry, TypeOK, Locks, agentVars, loopVars, drainVars, busVars
<1>8. ASSUME NEW g \in Conns, Attach(g) PROVE Locks'
  BY <1>8
  DEF Attach, TypeOK, Locks, agentVars, loopVars, drainVars, busVars
<1>9. ASSUME NEW g \in Conns, ReaderReads(g) PROVE Locks'
  BY <1>9
  DEF ReaderReads, TypeOK, Locks, agentVars, loopVars, drainVars, busVars
<1>10. ASSUME NEW g \in Conns, ReaderSends(g) PROVE Locks'
  BY <1>10
  DEF ReaderSends, TypeOK, Locks, agentVars, loopVars, drainVars, busVars
<1>11. ASSUME NEW g \in Conns, ReaderEnds(g) PROVE Locks'
  BY <1>11
  DEF ReaderEnds, Fault, TypeOK, Locks, agentVars, loopVars, drainVars, busVars
<1>12. ASSUME NEW g \in Conns, ReaderCancelled(g) PROVE Locks'
  BY <1>12
  DEF ReaderCancelled, TypeOK, Locks, agentVars, loopVars, drainVars, busVars
<1>13. ASSUME NEW g \in Conns, Forward(g) PROVE Locks'
  BY <1>13
  DEF Forward, TypeOK, Locks, agentVars, loopVars, drainVars, busVars
<1>14. ASSUME NEW g \in Conns, HandlerReturns(g) PROVE Locks'
  BY <1>14
  DEF HandlerReturns, TypeOK, Locks, agentVars, loopVars, drainVars, busVars
<1>15. ASSUME NEW g \in Conns, HandlerCancelled(g) PROVE Locks'
  BY <1>15
  DEF HandlerCancelled, Fault, TypeOK, Locks, agentVars, loopVars, drainVars, busVars
<1>16. ASSUME NEW g \in Conns, Take(g) PROVE Locks'
  BY <1>16
  DEF Take, TypeOK, Locks, agentVars, loopVars, drainVars, busVars
<1>17. ASSUME NEW g \in Conns, ReadLock(g) PROVE Locks'
  BY <1>17
  DEF ReadLock, TypeOK, Locks, agentVars, loopVars, drainVars, busVars
<1>18. ASSUME NEW g \in Conns, NEW s \in Subs, Offer(g, s) PROVE Locks'
  BY <1>18
  DEF Offer, TypeOK, Locks, agentVars, loopVars, drainVars, busVars
<1>19. ASSUME NEW g \in Conns, ReadUnlock(g) PROVE Locks'
  BY <1>19
  DEF ReadUnlock, TypeOK, Locks, agentVars, loopVars, drainVars, busVars
<1>20. ASSUME NEW g \in Conns, Insert(g) PROVE Locks'
  BY <1>20
  DEF Insert, TypeOK, Locks, agentVars, loopVars, drainVars, busVars
<1>21. ASSUME NEW g \in Conns, InsertFails(g) PROVE Locks'
  BY <1>21
  DEF InsertFails, Fault, TypeOK, Locks, agentVars, loopVars, drainVars, busVars
<1>22. ASSUME NEW g \in Conns, DrainerEnds(g) PROVE Locks'
  BY <1>22
  DEF DrainerEnds, TypeOK, Locks, agentVars, loopVars, drainVars, busVars
<1>23. ASSUME NEW s \in Subs, AskLock(s) PROVE Locks'
  BY <1>23
  DEF AskLock, TypeOK, Locks, agentVars, loopVars, drainVars, busVars
<1>24. ASSUME NEW s \in Subs, Subscribe(s) PROVE Locks'
  BY <1>24
  DEF Subscribe, TypeOK, Locks, agentVars, loopVars, drainVars, busVars
<1>25. ASSUME NEW s \in Subs, Unsubscribe(s) PROVE Locks'
  BY <1>25
  DEF Unsubscribe, TypeOK, Locks, agentVars, loopVars, drainVars, busVars
<1>26. ASSUME NEW s \in Subs, Send(s) PROVE Locks'
  BY <1>26
  DEF Send, TypeOK, Locks, agentVars, loopVars, drainVars, busVars
<1>27. CASE UNCHANGED vars
  BY <1>27
  DEF vars, TypeOK, Locks, agentVars, loopVars, drainVars, busVars
<1>28. QED
  BY <1>1, <1>2, <1>3, <1>4, <1>5, <1>6, <1>7, <1>8, <1>9, <1>10, <1>11, <1>12, <1>13, <1>14,
     <1>15, <1>16, <1>17, <1>18, <1>19, <1>20, <1>21, <1>22, <1>23, <1>24, <1>25, <1>26, <1>27
  DEF Next, LoopStep, AgentStep, DrainerStep

-----------------------------------------------------------------------------
(* Events move on *)

\* The event that a step emits.
Fresh == IF emitted' = emitted THEN {} ELSE {emitted'}

\* What a step does to connection h: events move on, are lost, or come from the daemon.
Flows(h) ==
  /\ Up(h)' \subseteq Up(h) \cup Fresh
  /\ Down(h)' \subseteq Live(h)
  /\ Live(h)' \subseteq Live(h) \cup Fresh
  /\ h > conn => Up(h)' \cup Down(h)' = {}

\* No step brings an event to a connection, but the one that emits it.
LEMMA FlowStep ==
  ASSUME TypeOK, Shape, [Next]_vars, NEW h \in Conns
  PROVE  Flows(h)
<1>0. h > conn =>
        /\ reader[h] = "none" /\ handler[h] = "none" /\ drainer[h] = "none"
        /\ Items(body[h]) = {} /\ Items(eventChan[h]) = {} /\ Items(wire[h]) = {}
        /\ Items(evCh[h]) = {}
  BY NoItems DEF Shape
<1>a. /\ body[h] \in Seq(Events) /\ eventChan[h] \in Seq(Events)
      /\ wire[h] \in Seq(Events) /\ evCh[h] \in Seq(Events)
      /\ conn \in Nat /\ h \in Nat /\ None \notin Events /\ emitted + 1 # emitted
  BY ConnsAndEvents, Bounds DEF TypeOK
<1>1. CASE Emit
  <2>1. emitted + 1 \in Events
    BY <1>1, Bounds DEF Emit, TypeOK, Events
  <2>2. /\ Items(body'[h]) \subseteq Items(body[h]) \cup {emitted + 1}
        /\ h > conn => Items(body'[h]) = {}
    BY <1>1, <1>0, <1>a, <2>1, AppendItems DEF Emit
  <2>3. QED
    BY <1>1, <1>0, <1>a, <2>1, <2>2
    DEF Emit, Flows, Fresh, Up, Down, Live, Reading, Scanned, Held, Queued, TypeOK, agentVars,
        loopVars, drainVars, busVars
<1>2. CASE AgentDies
  <2>1. Items(body'[h]) = {} /\ Items(eventChan'[h]) = {}
    BY <1>2, <1>a, NoItems DEF AgentDies, TypeOK
  <2>2. QED
    BY <1>2, <1>0, <1>a, <2>1
    DEF AgentDies, Fault, Flows, Fresh, Up, Down, Live, Reading, Scanned, Held, Queued, TypeOK,
        agentVars, loopVars, drainVars, busVars
<1>3. CASE Connect
  <2>1. conn' = conn + 1 /\ conn' \in Conns /\ scan = None
    BY <1>3, Bounds DEF Connect, Conns, TypeOK, Shape
  <2>2. h # conn' => handler'[h] = handler[h] /\ reader'[h] = reader[h] /\ drainer'[h] = drainer[h]
    BY <1>3, <2>1 DEF Connect, TypeOK
  <2>3. h = conn' => handler'[h] = "running" /\ reader'[h] = "dialing" /\ drainer'[h] = "waiting"
    BY <1>3, <2>1 DEF Connect, TypeOK
  <2>4. UNCHANGED <<emitted, body, eventChan, wire, evCh, scan, readerEv, held>>
    BY <1>3 DEF Connect
  <2>5. h = conn' => h > conn
    BY <1>a, <2>1
  <2>6. UNCHANGED <<Items(body[h]), Items(eventChan[h]), Items(wire[h]), Items(evCh[h])>>
    BY <2>4
  <2>7. QED
    BY <1>0, <1>a, <2>1, <2>2, <2>3, <2>4, <2>5, <2>6
    DEF Flows, Fresh, Up, Down, Live, Reading, Scanned, Held, Queued
<1>4. CASE Scan
  <2>1. /\ conn \in Conns /\ Head(wire[conn]) \in Items(wire[conn])
        /\ Items(Tail(wire[conn])) \subseteq Items(wire[conn])
    BY <1>4, HeadItems DEF Scan, TypeOK, Shape
  <2>2. QED
    BY <1>4, <1>0, <1>a, <2>1
    DEF Scan, Flows, Fresh, Up, Down, Live, Reading, Scanned, Held, Queued, TypeOK, agentVars,
        loopVars, drainVars, busVars
<1>5. CASE Push
  <2>1. conn \in Conns /\ Items(Append(evCh[conn], scan)) = Items(evCh[conn]) \cup {scan}
    <3>1. conn \in Conns /\ scan \in Events
      BY <1>5 DEF Push, TypeOK, Shape
    <3>2. QED
      BY <3>1, AppendItems DEF TypeOK
  <2>2. QED
    BY <1>5, <1>0, <1>a, <2>1
    DEF Push, Flows, Fresh, Up, Down, Live, Reading, Scanned, Held, Queued, TypeOK, agentVars,
        loopVars, drainVars, busVars
<1>6. CASE StreamEnds
  BY <1>6, <1>0, <1>a
  DEF StreamEnds, Flows, Fresh, Up, Down, Live, Reading, Scanned, Held, Queued, TypeOK,
      agentVars, loopVars, drainVars, busVars
<1>7. CASE Retry
  BY <1>7, <1>0, <1>a
  DEF Retry, Flows, Fresh, Up, Down, Live, Reading, Scanned, Held, Queued, TypeOK, agentVars,
      loopVars, drainVars, busVars
<1>8. ASSUME NEW g \in Conns, Attach(g) PROVE Flows(h)
  BY <1>8, <1>0, <1>a
  DEF Attach, Flows, Fresh, Up, Down, Live, Reading, Scanned, Held, Queued, TypeOK, agentVars,
      loopVars, drainVars, busVars
<1>9. ASSUME NEW g \in Conns, ReaderReads(g) PROVE Flows(h)
  <2>1. Items(body[g]) = {Head(body[g])} \cup Items(Tail(body[g]))
    BY <1>9, <1>a, HeadItems DEF ReaderReads, TypeOK
  <2>2. /\ Items(body'[h]) \cup Reading(h)' \subseteq Items(body[h]) \cup Reading(h)
        /\ h > conn => Items(body'[h]) = {} /\ Reading(h)' = {}
    BY <1>9, <1>0, <1>a, <2>1 DEF ReaderReads, Reading, TypeOK
  <2>3. UNCHANGED <<emitted, eventChan, handler, wire, conn, scan, evCh, drainer, held>>
    BY <1>9 DEF ReaderReads, loopVars, drainVars
  <2>4. QED
    BY <1>0, <1>a, <2>2, <2>3 DEF Flows, Fresh, Up, Down, Live, Scanned, Held, Queued
<1>10. ASSUME NEW g \in Conns, ReaderSends(g) PROVE Flows(h)
  <2>1. Items(Append(eventChan[g], readerEv[g])) = Items(eventChan[g]) \cup {readerEv[g]}
    <3>1. readerEv[g] \in Events
      BY <1>10 DEF ReaderSends, TypeOK, Shape
    <3>2. QED
      BY <3>1, AppendItems DEF TypeOK
  <2>2. Items(eventChan'[h]) \cup Reading(h)' \subseteq Items(eventChan[h]) \cup Reading(h)
    BY <1>10, <1>a, <2>1 DEF ReaderSends, Reading, TypeOK
  <2>3. h > conn => Items(eventChan'[h]) = {} /\ Reading(h)' = {}
    BY <1>0, <2>2 DEF Reading
  <2>4. UNCHANGED <<emitted, body, handler, wire, conn, scan, evCh, drainer, held>>
    BY <1>10 DEF ReaderSends, loopVars, drainVars
  <2>5. QED
    BY <1>0, <1>a, <2>2, <2>3, <2>4 DEF Flows, Fresh, Up, Down, Live, Scanned, Held, Queued
<1>11. ASSUME NEW g \in Conns, ReaderEnds(g) PROVE Flows(h)
  <2>1. Items(body'[g]) = {}
    BY <1>11, <1>a, NoItems DEF ReaderEnds, TypeOK
  <2>2. QED
    BY <1>11, <1>0, <1>a, <2>1
    DEF ReaderEnds, Fault, Flows, Fresh, Up, Down, Live, Reading, Scanned, Held, Queued,
        TypeOK, agentVars, loopVars, drainVars, busVars
<1>12. ASSUME NEW g \in Conns, ReaderCancelled(g) PROVE Flows(h)
  <2>1. Items(body'[g]) = {}
    BY <1>12, <1>a, NoItems DEF ReaderCancelled, TypeOK
  <2>2. QED
    BY <1>12, <1>0, <1>a, <2>1
    DEF ReaderCancelled, Flows, Fresh, Up, Down, Live, Reading, Scanned, Held, Queued, TypeOK,
        agentVars, loopVars, drainVars, busVars
<1>13. ASSUME NEW g \in Conns, Forward(g) PROVE Flows(h)
  <2>1. /\ Items(eventChan[g]) = {Head(eventChan[g])} \cup Items(Tail(eventChan[g]))
        /\ Head(eventChan[g]) \in Events
    BY <1>13, HeadItems DEF Forward, TypeOK
  <2>2. Items(Append(wire[g], Head(eventChan[g]))) = Items(wire[g]) \cup {Head(eventChan[g])}
    BY <2>1, AppendItems DEF TypeOK
  <2>3. UNCHANGED <<emitted, body, reader, readerEv, handler, conn, scan, evCh, drainer, held>>
    BY <1>13 DEF Forward, loopVars, drainVars
  <2>4. CASE h # g
    <3>1. UNCHANGED <<eventChan[h], wire[h]>>
      BY <1>13, <2>4 DEF Forward, TypeOK
    <3>2. QED
      BY <1>0, <1>a, <2>3, <3>1
      DEF Flows, Fresh, Up, Down, Live, Reading, Scanned, Held, Queued
  <2>5. CASE h = g
    <3>1. /\ Items(eventChan'[h]) \subseteq Items(eventChan[h])
          /\ Items(wire'[h]) \subseteq Items(wire[h]) \cup Items(eventChan[h])
          /\ handler[h] = "running" /\ ~(h > conn)
      BY <1>13, <1>0, <2>1, <2>2, <2>5 DEF Forward, TypeOK
    <3>2. QED
      BY <2>3, <3>1 DEF Flows, Fresh, Up, Down, Live, Reading, Scanned, Held, Queued
  <2>6. QED
    BY <2>4, <2>5
<1>14. ASSUME NEW g \in Conns, HandlerReturns(g) PROVE Flows(h)
  BY <1>14, <1>0, <1>a
  DEF HandlerReturns, Flows, Fresh, Up, Down, Live, Reading, Scanned, Held, Queued, TypeOK,
      agentVars, loopVars, drainVars, busVars
<1>15. ASSUME NEW g \in Conns, HandlerCancelled(g) PROVE Flows(h)
  BY <1>15, <1>0, <1>a
  DEF HandlerCancelled, Fault, Flows, Fresh, Up, Down, Live, Reading, Scanned, Held, Queued,
      TypeOK, agentVars, loopVars, drainVars, busVars
<1>16. ASSUME NEW g \in Conns, Take(g) PROVE Flows(h)
  <2>1. Items(evCh[g]) = {Head(evCh[g])} \cup Items(Tail(evCh[g]))
    BY <1>16, <1>a, HeadItems DEF Take, TypeOK
  <2>2. UNCHANGED <<emitted, body, reader, readerEv, eventChan, handler, wire, conn, scan>>
    BY <1>16 DEF Take, agentVars, loopVars
  <2>3. /\ Items(evCh'[h]) \cup Held(h)' \subseteq Items(evCh[h]) \cup Held(h)
        /\ h > conn => Items(evCh'[h]) = {} /\ Held(h)' = {}
    BY <1>16, <1>0, <1>a, <2>1 DEF Take, Held, TypeOK
  <2>4. QED
    BY <1>0, <1>a, <2>2, <2>3 DEF Flows, Fresh, Up, Down, Live, Reading, Scanned, Queued
<1>17. ASSUME NEW g \in Conns, ReadLock(g) PROVE Flows(h)
  BY <1>17, <1>0, <1>a
  DEF ReadLock, Flows, Fresh, Up, Down, Live, Reading, Scanned, Held, Queued, TypeOK,
      agentVars, loopVars, drainVars, busVars
<1>18. ASSUME NEW g \in Conns, NEW s \in Subs, Offer(g, s) PROVE Flows(h)
  <2>1. UNCHANGED <<emitted, body, reader, readerEv, eventChan, handler, wire, conn, scan, evCh,
                    drainer, held>>
    BY <1>18 DEF Offer, agentVars, loopVars
  <2>2. QED
    BY <1>0, <1>a, <2>1 DEF Flows, Fresh, Up, Down, Live, Reading, Scanned, Held, Queued
<1>19. ASSUME NEW g \in Conns, ReadUnlock(g) PROVE Flows(h)
  BY <1>19, <1>0, <1>a
  DEF ReadUnlock, Flows, Fresh, Up, Down, Live, Reading, Scanned, Held, Queued, TypeOK,
      agentVars, loopVars, drainVars, busVars
<1>20. ASSUME NEW g \in Conns, Insert(g) PROVE Flows(h)
  BY <1>20, <1>0, <1>a, SMTT(30)
  DEF Insert, Flows, Fresh, Up, Down, Live, Reading, Scanned, Held, Queued, TypeOK, agentVars,
      loopVars, drainVars, busVars
<1>21. ASSUME NEW g \in Conns, InsertFails(g) PROVE Flows(h)
  BY <1>21, <1>0, <1>a, SMTT(30)
  DEF InsertFails, Fault, Flows, Fresh, Up, Down, Live, Reading, Scanned, Held, Queued, TypeOK,
      agentVars, loopVars, drainVars, busVars
<1>22. ASSUME NEW g \in Conns, DrainerEnds(g) PROVE Flows(h)
  <2>1. Held(h)' \subseteq Held(h)
    BY <1>22 DEF DrainerEnds, Held, TypeOK
  <2>2. UNCHANGED <<emitted, body, reader, readerEv, eventChan, handler, wire, conn, scan, evCh>>
    BY <1>22 DEF DrainerEnds, agentVars, loopVars
  <2>3. h > conn => Held(h)' = {}
    BY <1>0, <2>1 DEF Held
  <2>4. QED
    BY <1>0, <1>a, <2>1, <2>2, <2>3
    DEF Flows, Fresh, Up, Down, Live, Reading, Scanned, Queued
<1>23. ASSUME NEW s \in Subs, AskLock(s) PROVE Flows(h)
  BY <1>23, <1>0, <1>a
  DEF AskLock, Flows, Fresh, Up, Down, Live, Reading, Scanned, Held, Queued, TypeOK, agentVars,
      loopVars, drainVars, busVars
<1>24. ASSUME NEW s \in Subs, Subscribe(s) PROVE Flows(h)
  BY <1>24, <1>0, <1>a
  DEF Subscribe, Flows, Fresh, Up, Down, Live, Reading, Scanned, Held, Queued, TypeOK,
      agentVars, loopVars, drainVars, busVars
<1>25. ASSUME NEW s \in Subs, Unsubscribe(s) PROVE Flows(h)
  BY <1>25, <1>0, <1>a
  DEF Unsubscribe, Flows, Fresh, Up, Down, Live, Reading, Scanned, Held, Queued, TypeOK,
      agentVars, loopVars, drainVars, busVars
<1>26. ASSUME NEW s \in Subs, Send(s) PROVE Flows(h)
  BY <1>26, <1>0, <1>a
  DEF Send, Flows, Fresh, Up, Down, Live, Reading, Scanned, Held, Queued, TypeOK, agentVars,
      loopVars, drainVars, busVars
<1>27. CASE UNCHANGED vars
  BY <1>27, <1>0, <1>a
  DEF vars, Flows, Fresh, Up, Down, Live, Reading, Scanned, Held, Queued, TypeOK, agentVars,
      loopVars, drainVars, busVars
<1>28. QED
  BY <1>1, <1>2, <1>3, <1>4, <1>5, <1>6, <1>7, <1>8, <1>9, <1>10, <1>11, <1>12, <1>13, <1>14,
     <1>15, <1>16, <1>17, <1>18, <1>19, <1>20, <1>21, <1>22, <1>23, <1>24, <1>25, <1>26, <1>27
  DEF Next, LoopStep, AgentStep, DrainerStep

\* The stages of a connection stay in order.
LEMMA OrderedSame ==
  ASSUME NEW h \in Conns, Ordered(h),
         UNCHANGED <<body[h], eventChan[h], wire[h], evCh[h], Reading(h), Scanned(h), Held(h)>>
  PROVE  Ordered(h)'
BY DEF Ordered, Up, Down, Queued

\* A step keeps the stages of a connection in order.
LEMMA OrderedStep ==
  ASSUME TypeOK, Shape, Bounded, [Next]_vars, NEW h \in Conns, Ordered(h)
  PROVE  Ordered(h)'
<1>a. /\ body[h] \in Seq(Events) /\ eventChan[h] \in Seq(Events)
      /\ wire[h] \in Seq(Events) /\ evCh[h] \in Seq(Events)
      /\ conn \in Nat /\ h \in Nat /\ None \notin Events /\ emitted \in Nat
  BY ConnsAndEvents, Bounds DEF TypeOK
<1>b. /\ Up(h) \subseteq Nat /\ Down(h) \subseteq Nat
      /\ \A e \in Up(h) \cup Down(h) : e < emitted + 1
  BY <1>a DEF Bounded
<1>1. CASE Emit
  <2>1. emitted + 1 \in Events
    BY <1>1, Bounds DEF Emit, TypeOK, Events
  <2>2. Before(Items(body[h]), {emitted + 1})
    BY <1>b DEF Before, Up
  <2>3. /\ Increasing(body'[h])
        /\ Items(body'[h]) \subseteq Items(body[h]) \cup {emitted + 1}
    BY <1>1, <1>a, <2>1, <2>2, AppendItems, IncreasingAppend DEF Emit, Ordered
  <2>4. UNCHANGED <<reader, readerEv, eventChan, wire, conn, scan, evCh, drainer, held>>
    BY <1>1 DEF Emit, loopVars, drainVars
  <2>5. QED
    BY <1>b, <2>3, <2>4
    DEF Ordered, Before, Up, Down, Reading, Scanned, Held, Queued
<1>2. CASE AgentDies
  <2>1. /\ Items(body'[h]) = {} /\ Items(eventChan'[h]) = {}
        /\ Increasing(body'[h]) /\ Increasing(eventChan'[h])
        /\ reader'[h] # "sending"
    BY <1>2, NoItems DEF AgentDies, TypeOK
  <2>2. QED
    BY <1>2, <1>a, <2>1
    DEF AgentDies, Fault, Ordered, Before, Up, Down, Reading, Scanned, Held, Queued, TypeOK,
        agentVars, loopVars, drainVars, busVars
<1>3. CASE Connect
  <2>1. conn' = conn + 1 /\ conn' \in Conns /\ scan = None
    BY <1>3, Bounds DEF Connect, Conns, TypeOK, Shape
  <2>2. /\ h # conn' => reader'[h] = reader[h] /\ drainer'[h] = drainer[h]
        /\ h = conn' => reader'[h] = "dialing" /\ drainer'[h] = "waiting"
    BY <1>3, <2>1 DEF Connect, TypeOK
  <2>3. UNCHANGED <<body, eventChan, wire, evCh, scan, readerEv, held>>
    BY <1>3 DEF Connect
  <2>4. Reading(h)' \subseteq Reading(h) /\ Held(h)' \subseteq Held(h) /\ Scanned(h)' = {}
    BY <2>1, <2>2, <2>3 DEF Reading, Held, Scanned
  <2>5. QED
    BY <2>3, <2>4 DEF Ordered, Before, Up, Down, Queued
<1>4. CASE Scan
  <2>1. /\ conn \in Conns
        /\ Items(wire[conn]) = {Head(wire[conn])} \cup Items(Tail(wire[conn]))
        /\ h = conn =>
             Increasing(Tail(wire[h])) /\ Before({Head(wire[h])}, Items(Tail(wire[h])))
    BY <1>4, <1>a, HeadItems, IncreasingTail DEF Scan, TypeOK, Shape, Ordered
  <2>2. CASE ~(h = conn)
    <3>1. UNCHANGED <<body[h], eventChan[h], wire[h], evCh[h], Reading(h), Scanned(h), Held(h)>>
      BY <1>4, <2>2 DEF Scan, TypeOK, Reading, Scanned, Held, agentVars, drainVars
    <3>2. QED
      BY <3>1, OrderedSame
  <2>3. CASE h = conn
    <3>1. /\ Items(wire'[h]) = Items(Tail(wire[h])) /\ Increasing(wire'[h])
          /\ Scanned(h) = {} /\ Scanned(h)' = {Head(wire[h])}
          /\ Items(wire[h]) = {Head(wire[h])} \cup Items(Tail(wire[h]))
          /\ Before({Head(wire[h])}, Items(Tail(wire[h])))
      BY <1>4, <1>a, <2>1, <2>3 DEF Scan, TypeOK, Scanned, Ordered
    <3>2. UNCHANGED <<body, reader, readerEv, eventChan, conn, evCh, drainer, held>>
      BY <1>4 DEF Scan, agentVars, drainVars
    <3>3. QED
      BY <3>1, <3>2
      DEF Ordered, Before, Up, Down, Reading, Scanned, Held, Queued
  <2>4. QED
    BY <2>2, <2>3
<1>5. CASE Push
  <2>1. conn \in Conns /\ scan \in Events
    BY <1>5 DEF Push, TypeOK, Shape
  <2>2. Items(Append(evCh[conn], scan)) = Items(evCh[conn]) \cup {scan}
    BY <2>1, AppendItems DEF TypeOK
  <2>3. h = conn => Before(Items(evCh[h]), {scan})
    BY <1>5, <2>1 DEF Push, Ordered, Before, Scanned
  <2>4. h = conn => Increasing(Append(evCh[h], scan))
    BY <1>a, <2>1, <2>3, IncreasingAppend DEF Ordered
  <2>5. UNCHANGED <<body[h], eventChan[h], wire[h], Reading(h), Held(h), Up(h)>>
    BY <1>5 DEF Push, Reading, Held, Up, agentVars, drainVars
  <2>6. CASE h # conn
    <3>1. UNCHANGED <<evCh[h], Scanned(h)>>
      BY <1>5, <2>6 DEF Push, Scanned, TypeOK
    <3>2. QED
      BY <2>5, <3>1, OrderedSame
  <2>7. CASE h = conn
    <3>1. /\ Increasing(evCh'[h]) /\ Items(evCh'[h]) = Items(evCh[h]) \cup {scan}
          /\ Scanned(h) = {scan} /\ Scanned(h)' = {}
      BY <1>5, <1>a, <2>1, <2>2, <2>4, <2>7 DEF Push, TypeOK, Scanned
    <3>2. Queued(h)' = Queued(h) /\ Down(h)' = Down(h)
      BY <2>5, <3>1 DEF Queued, Down
    <3>3. Before(Items(evCh'[h]), Items(wire[h]))
      BY <3>1 DEF Ordered, Before
    <3>4. QED
      BY <2>5, <3>1, <3>2, <3>3 DEF Ordered, Before
  <2>8. QED
    BY <2>6, <2>7
<1>6. CASE StreamEnds
  BY <1>6
  DEF StreamEnds, Ordered, Before, Up, Down, Reading, Scanned, Held, Queued, TypeOK, agentVars,
      loopVars, drainVars, busVars
<1>7. CASE Retry
  BY <1>7
  DEF Retry, Ordered, Before, Up, Down, Reading, Scanned, Held, Queued, TypeOK, agentVars,
      loopVars, drainVars, busVars
<1>8. ASSUME NEW g \in Conns, Attach(g) PROVE Ordered(h)'
  BY <1>8
  DEF Attach, Ordered, Before, Up, Down, Reading, Scanned, Held, Queued, TypeOK, agentVars,
      loopVars, drainVars, busVars
<1>9. ASSUME NEW g \in Conns, ReaderReads(g) PROVE Ordered(h)'
  <2>1. /\ Items(body[g]) = {Head(body[g])} \cup Items(Tail(body[g]))
        /\ g = h => Increasing(Tail(body[h])) /\ Before({Head(body[h])}, Items(Tail(body[h])))
    BY <1>9, <1>a, HeadItems, IncreasingTail DEF ReaderReads, TypeOK, Ordered
  <2>2. UNCHANGED <<eventChan, wire, conn, scan, evCh, drainer, held>>
    BY <1>9 DEF ReaderReads, loopVars, drainVars
  <2>3. CASE ~(g = h)
    <3>1. UNCHANGED <<body[h], eventChan[h], wire[h], evCh[h], Reading(h), Scanned(h), Held(h)>>
      BY <1>9, <2>2, <2>3 DEF ReaderReads, TypeOK, Reading, Scanned, Held
    <3>2. QED
      BY <3>1, OrderedSame
  <2>4. CASE g = h
    <3>1. /\ Increasing(body'[h]) /\ Items(body[h]) = Reading(h)' \cup Items(body'[h])
          /\ Reading(h) = {} /\ Before(Reading(h)', Items(body'[h]))
      BY <1>9, <1>a, <2>1, <2>4 DEF ReaderReads, TypeOK, Reading
    <3>2. UNCHANGED <<Up(h), Down(h), Queued(h), Scanned(h), Held(h)>>
      BY <2>2, <3>1 DEF Up, Down, Queued, Scanned, Held
    <3>3. Before(Items(eventChan[h]), Reading(h)' \cup Items(body'[h]))
      BY <3>1 DEF Ordered
    <3>4. QED
      BY <2>2, <3>1, <3>2, <3>3 DEF Ordered, Before
  <2>5. QED
    BY <2>3, <2>4
<1>10. ASSUME NEW g \in Conns, ReaderSends(g) PROVE Ordered(h)'
  <2>1. readerEv[g] \in Events
    BY <1>10 DEF ReaderSends, TypeOK, Shape
  <2>2. Items(Append(eventChan[g], readerEv[g])) = Items(eventChan[g]) \cup {readerEv[g]}
    BY <2>1, AppendItems DEF TypeOK
  <2>3. g = h => Before(Items(eventChan[h]), {readerEv[h]})
    BY <1>10 DEF ReaderSends, Ordered, Before, Reading
  <2>4. g = h => Increasing(Append(eventChan[h], readerEv[h]))
    BY <1>a, <2>1, <2>3, IncreasingAppend DEF Ordered
  <2>5. CASE ~(g = h)
    <3>1. UNCHANGED <<body[h], eventChan[h], wire[h], evCh[h], Reading(h)>>
      BY <1>10, <2>5 DEF ReaderSends, Reading, TypeOK
    <3>2. UNCHANGED <<Scanned(h), Held(h)>>
      BY <1>10 DEF ReaderSends, Scanned, Held, loopVars, drainVars
    <3>3. QED
      BY <3>1, <3>2, OrderedSame
  <2>6. CASE g = h
    <3>1. /\ Items(eventChan'[h]) = Items(eventChan[h]) \cup {readerEv[h]}
          /\ Increasing(eventChan'[h])
          /\ Reading(h) = {readerEv[h]} /\ Reading(h)' = {}
      BY <1>10, <1>a, <2>2, <2>4, <2>6 DEF ReaderSends, TypeOK, Reading
    <3>2. UNCHANGED <<body, readerEv, wire, conn, scan, evCh, drainer, held>>
      BY <1>10 DEF ReaderSends, loopVars, drainVars
    <3>3. UNCHANGED <<Up(h), Down(h), Queued(h), Scanned(h), Held(h)>>
      BY <3>1, <3>2 DEF Up, Down, Queued, Scanned, Held
    <3>4. Before(Items(eventChan'[h]), Items(body'[h]))
      BY <3>1, <3>2 DEF Ordered, Before
    <3>5. QED
      BY <3>1, <3>2, <3>3, <3>4 DEF Ordered, Before
  <2>7. QED
    BY <2>5, <2>6
<1>11. ASSUME NEW g \in Conns, ReaderEnds(g) PROVE Ordered(h)'
  <2>1. Items(<<>>) = {} /\ Increasing(<<>>)
    BY NoItems
  <2>2. QED
    BY <1>11, <1>a, <2>1
    DEF ReaderEnds, Fault, Ordered, Before, Up, Down, Reading, Scanned, Held, Queued, TypeOK,
        agentVars, loopVars, drainVars, busVars
<1>12. ASSUME NEW g \in Conns, ReaderCancelled(g) PROVE Ordered(h)'
  <2>1. Items(<<>>) = {} /\ Increasing(<<>>)
    BY NoItems
  <2>2. QED
    BY <1>12, <1>a, <2>1
    DEF ReaderCancelled, Ordered, Before, Up, Down, Reading, Scanned, Held, Queued, TypeOK,
        agentVars, loopVars, drainVars, busVars
<1>13. ASSUME NEW g \in Conns, Forward(g) PROVE Ordered(h)'
  <2>1. /\ Items(eventChan[g]) = {Head(eventChan[g])} \cup Items(Tail(eventChan[g]))
        /\ Head(eventChan[g]) \in Events
        /\ g = h => /\ Increasing(Tail(eventChan[h]))
                    /\ Before({Head(eventChan[h])}, Items(Tail(eventChan[h])))
    BY <1>13, <1>a, HeadItems, IncreasingTail DEF Forward, TypeOK, Ordered
  <2>2. Items(Append(wire[g], Head(eventChan[g]))) = Items(wire[g]) \cup {Head(eventChan[g])}
    BY <2>1, AppendItems DEF TypeOK
  <2>3. g = h => Before(Down(h), {Head(eventChan[h])})
    BY <2>1 DEF Ordered, Before, Up
  <2>4. g = h => Increasing(Append(wire[h], Head(eventChan[h])))
    BY <1>a, <2>1, <2>3, IncreasingAppend DEF Ordered, Before, Down, Queued
  <2>5. CASE g # h
    <3>1. UNCHANGED <<body[h], eventChan[h], wire[h], evCh[h]>>
      BY <1>13, <2>5 DEF Forward, TypeOK
    <3>2. UNCHANGED <<Reading(h), Scanned(h), Held(h)>>
      BY <1>13 DEF Forward, Reading, Scanned, Held, loopVars, drainVars
    <3>3. QED
      BY <3>1, <3>2, OrderedSame
  <2>6. CASE g = h
    <3>1. /\ Items(wire'[h]) = Items(wire[h]) \cup {Head(eventChan[h])}
          /\ Items(eventChan'[h]) = Items(Tail(eventChan[h]))
          /\ Increasing(wire'[h]) /\ Increasing(eventChan'[h])
      BY <1>13, <2>1, <2>2, <2>4, <2>6 DEF Forward, TypeOK
    <3>2. UNCHANGED <<body, reader, readerEv, conn, scan, evCh, drainer, held>>
      BY <1>13 DEF Forward, loopVars, drainVars
    <3>3. QED
      BY <2>1, <2>3, <2>6, <3>1, <3>2
      DEF Ordered, Before, Up, Down, Reading, Scanned, Held, Queued
  <2>7. QED
    BY <2>5, <2>6
<1>14. ASSUME NEW g \in Conns, HandlerReturns(g) PROVE Ordered(h)'
  BY <1>14
  DEF HandlerReturns, Ordered, Before, Up, Down, Reading, Scanned, Held, Queued, TypeOK,
      agentVars, loopVars, drainVars, busVars
<1>15. ASSUME NEW g \in Conns, HandlerCancelled(g) PROVE Ordered(h)'
  BY <1>15
  DEF HandlerCancelled, Fault, Ordered, Before, Up, Down, Reading, Scanned, Held, Queued,
      TypeOK, agentVars, loopVars, drainVars, busVars
<1>16. ASSUME NEW g \in Conns, Take(g) PROVE Ordered(h)'
  <2>1. /\ Items(evCh[g]) = {Head(evCh[g])} \cup Items(Tail(evCh[g]))
        /\ g = h => Increasing(Tail(evCh[h])) /\ Before({Head(evCh[h])}, Items(Tail(evCh[h])))
    BY <1>16, <1>a, HeadItems, IncreasingTail DEF Take, TypeOK, Ordered
  <2>2. CASE ~(g = h)
    <3>1. UNCHANGED <<body[h], eventChan[h], wire[h], evCh[h], Reading(h), Scanned(h), Held(h)>>
      BY <1>16, <2>2 DEF Take, TypeOK, Reading, Scanned, Held, agentVars, loopVars
    <3>2. QED
      BY <3>1, OrderedSame
  <2>3. CASE g = h
    <3>1. /\ Items(evCh'[h]) = Items(Tail(evCh[h])) /\ Increasing(evCh'[h])
          /\ Held(h)' = {Head(evCh[h])}
      BY <1>16, <1>a, <2>1, <2>3 DEF Take, TypeOK, Held
    <3>2. UNCHANGED <<body, reader, readerEv, eventChan, wire, conn, scan>>
      BY <1>16 DEF Take, agentVars, loopVars
    <3>3. UNCHANGED <<Up(h), Reading(h), Scanned(h)>>
      BY <3>2 DEF Up, Reading, Scanned
    <3>4. /\ Queued(h) = Held(h)' \cup Queued(h)' /\ Down(h)' \subseteq Down(h)
          /\ Items(evCh'[h]) \subseteq Items(evCh[h])
      BY <2>1, <2>3, <3>1, <3>2, <3>3 DEF Queued, Down
    <3>5. Before(Held(h)', Queued(h)')
      BY <2>1, <2>3, <3>1, <3>2, <3>3 DEF Ordered, Before, Queued
    <3>6. QED
      BY <3>1, <3>2, <3>3, <3>4, <3>5 DEF Ordered, Before
  <2>4. QED
    BY <2>2, <2>3
<1>17. ASSUME NEW g \in Conns, ReadLock(g) PROVE Ordered(h)'
  BY <1>17
  DEF ReadLock, Ordered, Before, Up, Down, Reading, Scanned, Held, Queued, TypeOK, agentVars,
      loopVars, drainVars, busVars
<1>18. ASSUME NEW g \in Conns, NEW s \in Subs, Offer(g, s) PROVE Ordered(h)'
  BY <1>18
  DEF Offer, Ordered, Before, Up, Down, Reading, Scanned, Held, Queued, TypeOK, agentVars,
      loopVars, drainVars, busVars
<1>19. ASSUME NEW g \in Conns, ReadUnlock(g) PROVE Ordered(h)'
  BY <1>19
  DEF ReadUnlock, Ordered, Before, Up, Down, Reading, Scanned, Held, Queued, TypeOK, agentVars,
      loopVars, drainVars, busVars
<1>20. ASSUME NEW g \in Conns, Insert(g) PROVE Ordered(h)'
  BY <1>20, SMTT(30)
  DEF Insert, Ordered, Before, Up, Down, Reading, Scanned, Held, Queued, TypeOK, agentVars,
      loopVars, drainVars, busVars
<1>21. ASSUME NEW g \in Conns, InsertFails(g) PROVE Ordered(h)'
  BY <1>21, SMTT(30)
  DEF InsertFails, Fault, Ordered, Before, Up, Down, Reading, Scanned, Held, Queued, TypeOK,
      agentVars, loopVars, drainVars, busVars
<1>22. ASSUME NEW g \in Conns, DrainerEnds(g) PROVE Ordered(h)'
  BY <1>22
  DEF DrainerEnds, Ordered, Before, Up, Down, Reading, Scanned, Held, Queued, TypeOK,
      agentVars, loopVars, drainVars, busVars
<1>23. ASSUME NEW s \in Subs, AskLock(s) PROVE Ordered(h)'
  BY <1>23
  DEF AskLock, Ordered, Before, Up, Down, Reading, Scanned, Held, Queued, TypeOK, agentVars,
      loopVars, drainVars, busVars
<1>24. ASSUME NEW s \in Subs, Subscribe(s) PROVE Ordered(h)'
  BY <1>24
  DEF Subscribe, Ordered, Before, Up, Down, Reading, Scanned, Held, Queued, TypeOK, agentVars,
      loopVars, drainVars, busVars
<1>25. ASSUME NEW s \in Subs, Unsubscribe(s) PROVE Ordered(h)'
  BY <1>25
  DEF Unsubscribe, Ordered, Before, Up, Down, Reading, Scanned, Held, Queued, TypeOK,
      agentVars, loopVars, drainVars, busVars
<1>26. ASSUME NEW s \in Subs, Send(s) PROVE Ordered(h)'
  BY <1>26
  DEF Send, Ordered, Before, Up, Down, Reading, Scanned, Held, Queued, TypeOK, agentVars,
      loopVars, drainVars, busVars
<1>27. CASE UNCHANGED vars
  BY <1>27
  DEF vars, Ordered, Before, Up, Down, Reading, Scanned, Held, Queued, TypeOK, agentVars,
      loopVars, drainVars, busVars
<1>28. QED
  BY <1>1, <1>2, <1>3, <1>4, <1>5, <1>6, <1>7, <1>8, <1>9, <1>10, <1>11, <1>12, <1>13, <1>14,
     <1>15, <1>16, <1>17, <1>18, <1>19, <1>20, <1>21, <1>22, <1>23, <1>24, <1>25, <1>26, <1>27
  DEF Next, LoopStep, AgentStep, DrainerStep

-----------------------------------------------------------------------------
(* Steps as the table and the subscribers see them *)

LEMMA TableGrows ==
  ASSUME TypeOK, [Next]_vars
  PROVE  table' = table \/ \E g \in Conns : Insert(g) /\ table' = Append(table, held[g])
<1> DEFINE Goal == table' = table \/ \E g \in Conns : Insert(g) /\ table' = Append(table, held[g])
<1>1. CASE Emit
  BY <1>1
  DEF Emit, agentVars, loopVars, drainVars, busVars
<1>2. CASE AgentDies
  BY <1>2
  DEF AgentDies, Fault, agentVars, loopVars, drainVars, busVars
<1>3. CASE Connect
  BY <1>3
  DEF Connect, agentVars, loopVars, drainVars, busVars
<1>4. CASE Scan
  BY <1>4
  DEF Scan, agentVars, loopVars, drainVars, busVars
<1>5. CASE Push
  BY <1>5
  DEF Push, agentVars, loopVars, drainVars, busVars
<1>6. CASE StreamEnds
  BY <1>6
  DEF StreamEnds, agentVars, loopVars, drainVars, busVars
<1>7. CASE Retry
  BY <1>7
  DEF Retry, agentVars, loopVars, drainVars, busVars
<1>8. ASSUME NEW g \in Conns, Attach(g) PROVE Goal
  BY <1>8
  DEF Attach, agentVars, loopVars, drainVars, busVars
<1>9. ASSUME NEW g \in Conns, ReaderReads(g) PROVE Goal
  BY <1>9
  DEF ReaderReads, agentVars, loopVars, drainVars, busVars
<1>10. ASSUME NEW g \in Conns, ReaderSends(g) PROVE Goal
  BY <1>10
  DEF ReaderSends, agentVars, loopVars, drainVars, busVars
<1>11. ASSUME NEW g \in Conns, ReaderEnds(g) PROVE Goal
  BY <1>11
  DEF ReaderEnds, Fault, agentVars, loopVars, drainVars, busVars
<1>12. ASSUME NEW g \in Conns, ReaderCancelled(g) PROVE Goal
  BY <1>12
  DEF ReaderCancelled, agentVars, loopVars, drainVars, busVars
<1>13. ASSUME NEW g \in Conns, Forward(g) PROVE Goal
  BY <1>13
  DEF Forward, agentVars, loopVars, drainVars, busVars
<1>14. ASSUME NEW g \in Conns, HandlerReturns(g) PROVE Goal
  BY <1>14
  DEF HandlerReturns, agentVars, loopVars, drainVars, busVars
<1>15. ASSUME NEW g \in Conns, HandlerCancelled(g) PROVE Goal
  BY <1>15
  DEF HandlerCancelled, Fault, agentVars, loopVars, drainVars, busVars
<1>16. ASSUME NEW g \in Conns, Take(g) PROVE Goal
  BY <1>16
  DEF Take, agentVars, loopVars, drainVars, busVars
<1>17. ASSUME NEW g \in Conns, ReadLock(g) PROVE Goal
  BY <1>17
  DEF ReadLock, agentVars, loopVars, drainVars, busVars
<1>18. ASSUME NEW g \in Conns, NEW s \in Subs, Offer(g, s) PROVE Goal
  BY <1>18
  DEF Offer, agentVars, loopVars, drainVars, busVars
<1>19. ASSUME NEW g \in Conns, ReadUnlock(g) PROVE Goal
  BY <1>19
  DEF ReadUnlock, agentVars, loopVars, drainVars, busVars
<1>20. ASSUME NEW g \in Conns, Insert(g) PROVE Goal
  BY <1>20
  DEF Insert, agentVars, loopVars, drainVars, busVars
<1>21. ASSUME NEW g \in Conns, InsertFails(g) PROVE Goal
  BY <1>21
  DEF InsertFails, Fault, agentVars, loopVars, drainVars, busVars
<1>22. ASSUME NEW g \in Conns, DrainerEnds(g) PROVE Goal
  BY <1>22
  DEF DrainerEnds, agentVars, loopVars, drainVars, busVars
<1>23. ASSUME NEW s \in Subs, AskLock(s) PROVE Goal
  BY <1>23
  DEF AskLock, agentVars, loopVars, drainVars, busVars
<1>24. ASSUME NEW s \in Subs, Subscribe(s) PROVE Goal
  BY <1>24
  DEF Subscribe, agentVars, loopVars, drainVars, busVars
<1>25. ASSUME NEW s \in Subs, Unsubscribe(s) PROVE Goal
  BY <1>25
  DEF Unsubscribe, agentVars, loopVars, drainVars, busVars
<1>26. ASSUME NEW s \in Subs, Send(s) PROVE Goal
  BY <1>26
  DEF Send, agentVars, loopVars, drainVars, busVars
<1>27. CASE UNCHANGED vars
  BY <1>27
  DEF vars, agentVars, loopVars, drainVars, busVars
<1>28. QED
  BY <1>1, <1>2, <1>3, <1>4, <1>5, <1>6, <1>7, <1>8, <1>9, <1>10, <1>11, <1>12, <1>13, <1>14,
     <1>15, <1>16, <1>17, <1>18, <1>19, <1>20, <1>21, <1>22, <1>23, <1>24, <1>25, <1>26, <1>27
  DEF Next, LoopStep, AgentStep, DrainerStep

\* A subscriber sees what it has seen and at most one event more, which was offered to it.
LEMMA SeenGrows ==
  ASSUME TypeOK, Shape, [Next]_vars, NEW t \in Subs
  PROVE  \/ Seen(t)' = Seen(t)
         \/ \E g \in Conns : Offer(g, t) /\ Seen(t)' = Append(Seen(t), held[g])
<1> DEFINE Goal == \/ Seen(t)' = Seen(t)
                   \/ \E g \in Conns : Offer(g, t) /\ Seen(t)' = Append(Seen(t), held[g])
<1>1. CASE Emit
  BY <1>1
  DEF Emit, Seen, agentVars, loopVars, drainVars, busVars
<1>2. CASE AgentDies
  BY <1>2
  DEF AgentDies, Fault, Seen, agentVars, loopVars, drainVars, busVars
<1>3. CASE Connect
  BY <1>3
  DEF Connect, Seen, agentVars, loopVars, drainVars, busVars
<1>4. CASE Scan
  BY <1>4
  DEF Scan, Seen, agentVars, loopVars, drainVars, busVars
<1>5. CASE Push
  BY <1>5
  DEF Push, Seen, agentVars, loopVars, drainVars, busVars
<1>6. CASE StreamEnds
  BY <1>6
  DEF StreamEnds, Seen, agentVars, loopVars, drainVars, busVars
<1>7. CASE Retry
  BY <1>7
  DEF Retry, Seen, agentVars, loopVars, drainVars, busVars
<1>8. ASSUME NEW g \in Conns, Attach(g) PROVE Goal
  BY <1>8
  DEF Attach, Seen, agentVars, loopVars, drainVars, busVars
<1>9. ASSUME NEW g \in Conns, ReaderReads(g) PROVE Goal
  BY <1>9
  DEF ReaderReads, Seen, agentVars, loopVars, drainVars, busVars
<1>10. ASSUME NEW g \in Conns, ReaderSends(g) PROVE Goal
  BY <1>10
  DEF ReaderSends, Seen, agentVars, loopVars, drainVars, busVars
<1>11. ASSUME NEW g \in Conns, ReaderEnds(g) PROVE Goal
  BY <1>11
  DEF ReaderEnds, Fault, Seen, agentVars, loopVars, drainVars, busVars
<1>12. ASSUME NEW g \in Conns, ReaderCancelled(g) PROVE Goal
  BY <1>12
  DEF ReaderCancelled, Seen, agentVars, loopVars, drainVars, busVars
<1>13. ASSUME NEW g \in Conns, Forward(g) PROVE Goal
  BY <1>13
  DEF Forward, Seen, agentVars, loopVars, drainVars, busVars
<1>14. ASSUME NEW g \in Conns, HandlerReturns(g) PROVE Goal
  BY <1>14
  DEF HandlerReturns, Seen, agentVars, loopVars, drainVars, busVars
<1>15. ASSUME NEW g \in Conns, HandlerCancelled(g) PROVE Goal
  BY <1>15
  DEF HandlerCancelled, Fault, Seen, agentVars, loopVars, drainVars, busVars
<1>16. ASSUME NEW g \in Conns, Take(g) PROVE Goal
  BY <1>16
  DEF Take, Seen, agentVars, loopVars, drainVars, busVars
<1>17. ASSUME NEW g \in Conns, ReadLock(g) PROVE Goal
  BY <1>17
  DEF ReadLock, Seen, agentVars, loopVars, drainVars, busVars
<1>18. ASSUME NEW g \in Conns, NEW s \in Subs, Offer(g, s) PROVE Goal
  <2>1. CASE s = t /\ Len(inbox[s]) < InboxCap
    <3>1. held[g] \in Events
      BY <1>18 DEF Offer, TypeOK, Shape
    <3>2. got[t] \in Seq(Events) /\ inbox[t] \in Seq(Events)
      BY DEF TypeOK
    <3>3. got'[t] = got[t] /\ inbox'[t] = Append(inbox[t], held[g])
      BY <1>18, <2>1 DEF Offer, TypeOK
    <3>4. got[t] \o Append(inbox[t], held[g]) = Append(got[t] \o inbox[t], held[g])
      BY <3>1, <3>2, SeenAppend
    <3>5. QED
      BY <1>18, <2>1, <3>3, <3>4 DEF Seen
  <2>2. CASE ~(s = t /\ Len(inbox[s]) < InboxCap)
    <3>1. got'[t] = got[t] /\ inbox'[t] = inbox[t]
      BY <1>18, <2>2 DEF Offer, TypeOK
    <3>2. QED
      BY <3>1 DEF Seen
  <2>3. QED
    BY <2>1, <2>2
<1>19. ASSUME NEW g \in Conns, ReadUnlock(g) PROVE Goal
  BY <1>19
  DEF ReadUnlock, Seen, agentVars, loopVars, drainVars, busVars
<1>20. ASSUME NEW g \in Conns, Insert(g) PROVE Goal
  BY <1>20
  DEF Insert, Seen, agentVars, loopVars, drainVars, busVars
<1>21. ASSUME NEW g \in Conns, InsertFails(g) PROVE Goal
  BY <1>21
  DEF InsertFails, Fault, Seen, agentVars, loopVars, drainVars, busVars
<1>22. ASSUME NEW g \in Conns, DrainerEnds(g) PROVE Goal
  BY <1>22
  DEF DrainerEnds, Seen, agentVars, loopVars, drainVars, busVars
<1>23. ASSUME NEW s \in Subs, AskLock(s) PROVE Goal
  BY <1>23
  DEF AskLock, Seen, agentVars, loopVars, drainVars, busVars
<1>24. ASSUME NEW s \in Subs, Subscribe(s) PROVE Goal
  BY <1>24
  DEF Subscribe, Seen, agentVars, loopVars, drainVars, busVars
<1>25. ASSUME NEW s \in Subs, Unsubscribe(s) PROVE Goal
  BY <1>25
  DEF Unsubscribe, Seen, agentVars, loopVars, drainVars, busVars
<1>26. ASSUME NEW s \in Subs, Send(s) PROVE Goal
  <2>1. got[s] \in Seq(Events) /\ inbox[s] \in Seq(Events) /\ inbox[s] # <<>>
    BY <1>26 DEF Send, TypeOK
  <2>2. Append(got[s], Head(inbox[s])) \o Tail(inbox[s]) = got[s] \o inbox[s]
    BY <2>1, SeenMove
  <2>3. \/ got'[t] = got[t] /\ inbox'[t] = inbox[t]
        \/ s = t /\ got'[t] = Append(got[s], Head(inbox[s])) /\ inbox'[t] = Tail(inbox[s])
    BY <1>26 DEF Send, TypeOK
  <2>4. QED
    BY <2>2, <2>3 DEF Seen
<1>27. CASE UNCHANGED vars
  BY <1>27
  DEF vars, Seen, agentVars, loopVars, drainVars, busVars
<1>28. QED
  BY <1>1, <1>2, <1>3, <1>4, <1>5, <1>6, <1>7, <1>8, <1>9, <1>10, <1>11, <1>12, <1>13, <1>14,
     <1>15, <1>16, <1>17, <1>18, <1>19, <1>20, <1>21, <1>22, <1>23, <1>24, <1>25, <1>26, <1>27
  DEF Next, LoopStep, AgentStep, DrainerStep

\* What a drainer has begun to offer stays with it until it is recorded or lost.
LEMMA HeldStays ==
  ASSUME TypeOK, Shape, [Next]_vars, NEW h \in Conns, drainer[h] \in {"publishing", "inserting"}
  PROVE  \/ Insert(h) \/ InsertFails(h)
         \/ held'[h] = held[h] /\ drainer'[h] \in {"publishing", "inserting"}
<1> DEFINE Goal == \/ Insert(h) \/ InsertFails(h)
                   \/ held'[h] = held[h] /\ drainer'[h] \in {"publishing", "inserting"}
<1>1. CASE Emit
  BY <1>1
  DEF Emit, TypeOK, agentVars, loopVars, drainVars, busVars
<1>2. CASE AgentDies
  BY <1>2
  DEF AgentDies, Fault, TypeOK, agentVars, loopVars, drainVars, busVars
<1>3. CASE Connect
  <2>1. conn' \in Conns /\ conn' > conn
    BY <1>3, Bounds DEF Connect, TypeOK, Conns
  <2>2. h # conn'
    BY <2>1 DEF Shape
  <2>3. QED
    BY <1>3, <2>2 DEF Connect, TypeOK
<1>4. CASE Scan
  BY <1>4
  DEF Scan, TypeOK, agentVars, loopVars, drainVars, busVars
<1>5. CASE Push
  BY <1>5
  DEF Push, TypeOK, agentVars, loopVars, drainVars, busVars
<1>6. CASE StreamEnds
  BY <1>6
  DEF StreamEnds, TypeOK, agentVars, loopVars, drainVars, busVars
<1>7. CASE Retry
  BY <1>7
  DEF Retry, TypeOK, agentVars, loopVars, drainVars, busVars
<1>8. ASSUME NEW g \in Conns, Attach(g) PROVE Goal
  BY <1>8
  DEF Attach, TypeOK, agentVars, loopVars, drainVars, busVars
<1>9. ASSUME NEW g \in Conns, ReaderReads(g) PROVE Goal
  BY <1>9
  DEF ReaderReads, TypeOK, agentVars, loopVars, drainVars, busVars
<1>10. ASSUME NEW g \in Conns, ReaderSends(g) PROVE Goal
  BY <1>10
  DEF ReaderSends, TypeOK, agentVars, loopVars, drainVars, busVars
<1>11. ASSUME NEW g \in Conns, ReaderEnds(g) PROVE Goal
  BY <1>11
  DEF ReaderEnds, Fault, TypeOK, agentVars, loopVars, drainVars, busVars
<1>12. ASSUME NEW g \in Conns, ReaderCancelled(g) PROVE Goal
  BY <1>12
  DEF ReaderCancelled, TypeOK, agentVars, loopVars, drainVars, busVars
<1>13. ASSUME NEW g \in Conns, Forward(g) PROVE Goal
  BY <1>13
  DEF Forward, TypeOK, agentVars, loopVars, drainVars, busVars
<1>14. ASSUME NEW g \in Conns, HandlerReturns(g) PROVE Goal
  BY <1>14
  DEF HandlerReturns, TypeOK, agentVars, loopVars, drainVars, busVars
<1>15. ASSUME NEW g \in Conns, HandlerCancelled(g) PROVE Goal
  BY <1>15
  DEF HandlerCancelled, Fault, TypeOK, agentVars, loopVars, drainVars, busVars
<1>16. ASSUME NEW g \in Conns, Take(g) PROVE Goal
  BY <1>16
  DEF Take, TypeOK, agentVars, loopVars, drainVars, busVars
<1>17. ASSUME NEW g \in Conns, ReadLock(g) PROVE Goal
  BY <1>17
  DEF ReadLock, TypeOK, agentVars, loopVars, drainVars, busVars
<1>18. ASSUME NEW g \in Conns, NEW s \in Subs, Offer(g, s) PROVE Goal
  BY <1>18
  DEF Offer, TypeOK, agentVars, loopVars, drainVars, busVars
<1>19. ASSUME NEW g \in Conns, ReadUnlock(g) PROVE Goal
  BY <1>19
  DEF ReadUnlock, TypeOK, agentVars, loopVars, drainVars, busVars
<1>20. ASSUME NEW g \in Conns, Insert(g) PROVE Goal
  BY <1>20
  DEF Insert, TypeOK, agentVars, loopVars, drainVars, busVars
<1>21. ASSUME NEW g \in Conns, InsertFails(g) PROVE Goal
  BY <1>21
  DEF InsertFails, Fault, TypeOK, agentVars, loopVars, drainVars, busVars
<1>22. ASSUME NEW g \in Conns, DrainerEnds(g) PROVE Goal
  BY <1>22
  DEF DrainerEnds, TypeOK, agentVars, loopVars, drainVars, busVars
<1>23. ASSUME NEW s \in Subs, AskLock(s) PROVE Goal
  BY <1>23
  DEF AskLock, TypeOK, agentVars, loopVars, drainVars, busVars
<1>24. ASSUME NEW s \in Subs, Subscribe(s) PROVE Goal
  BY <1>24
  DEF Subscribe, TypeOK, agentVars, loopVars, drainVars, busVars
<1>25. ASSUME NEW s \in Subs, Unsubscribe(s) PROVE Goal
  BY <1>25
  DEF Unsubscribe, TypeOK, agentVars, loopVars, drainVars, busVars
<1>26. ASSUME NEW s \in Subs, Send(s) PROVE Goal
  BY <1>26
  DEF Send, TypeOK, agentVars, loopVars, drainVars, busVars
<1>27. CASE UNCHANGED vars
  BY <1>27
  DEF vars, TypeOK, agentVars, loopVars, drainVars, busVars
<1>28. QED
  BY <1>1, <1>2, <1>3, <1>4, <1>5, <1>6, <1>7, <1>8, <1>9, <1>10, <1>11, <1>12, <1>13, <1>14,
     <1>15, <1>16, <1>17, <1>18, <1>19, <1>20, <1>21, <1>22, <1>23, <1>24, <1>25, <1>26, <1>27
  DEF Next, LoopStep, AgentStep, DrainerStep

\* What has been offered is still so, or is recorded or lost: then all that follows is newer.
LEMMA OfferedStep ==
  ASSUME TypeOK, Shape, [Next]_vars, NEW h \in Conns, NEW t \in Subs, Ordered(h), Bounded
  PROVE  Offered(h, t) \subseteq Offered(h, t)' \/ Before(Offered(h, t), Live(h)')
<1> DEFINE Goal == Offered(h, t) \subseteq Offered(h, t)' \/ Before(Offered(h, t), Live(h)')
<1>1. CASE Emit
  BY <1>1
  DEF Emit, Offered, TypeOK, agentVars, loopVars, drainVars, busVars
<1>2. CASE AgentDies
  BY <1>2
  DEF AgentDies, Fault, Offered, TypeOK, agentVars, loopVars, drainVars, busVars
<1>3. CASE Connect
  <2>1. conn' \in Conns /\ conn' > conn
    BY <1>3, Bounds DEF Connect, TypeOK, Conns
  <2>2. h = conn' => Offered(h, t) = {}
    BY <2>1 DEF Shape, Offered
  <2>3. QED
    BY <1>3, <2>1, <2>2 DEF Connect, Offered, TypeOK
<1>4. CASE Scan
  BY <1>4
  DEF Scan, Offered, TypeOK, agentVars, loopVars, drainVars, busVars
<1>5. CASE Push
  BY <1>5
  DEF Push, Offered, TypeOK, agentVars, loopVars, drainVars, busVars
<1>6. CASE StreamEnds
  BY <1>6
  DEF StreamEnds, Offered, TypeOK, agentVars, loopVars, drainVars, busVars
<1>7. CASE Retry
  BY <1>7
  DEF Retry, Offered, TypeOK, agentVars, loopVars, drainVars, busVars
<1>8. ASSUME NEW g \in Conns, Attach(g) PROVE Goal
  BY <1>8
  DEF Attach, Offered, TypeOK, agentVars, loopVars, drainVars, busVars
<1>9. ASSUME NEW g \in Conns, ReaderReads(g) PROVE Goal
  BY <1>9
  DEF ReaderReads, Offered, TypeOK, agentVars, loopVars, drainVars, busVars
<1>10. ASSUME NEW g \in Conns, ReaderSends(g) PROVE Goal
  BY <1>10
  DEF ReaderSends, Offered, TypeOK, agentVars, loopVars, drainVars, busVars
<1>11. ASSUME NEW g \in Conns, ReaderEnds(g) PROVE Goal
  BY <1>11
  DEF ReaderEnds, Fault, Offered, TypeOK, agentVars, loopVars, drainVars, busVars
<1>12. ASSUME NEW g \in Conns, ReaderCancelled(g) PROVE Goal
  BY <1>12
  DEF ReaderCancelled, Offered, TypeOK, agentVars, loopVars, drainVars, busVars
<1>13. ASSUME NEW g \in Conns, Forward(g) PROVE Goal
  BY <1>13
  DEF Forward, Offered, TypeOK, agentVars, loopVars, drainVars, busVars
<1>14. ASSUME NEW g \in Conns, HandlerReturns(g) PROVE Goal
  BY <1>14
  DEF HandlerReturns, Offered, TypeOK, agentVars, loopVars, drainVars, busVars
<1>15. ASSUME NEW g \in Conns, HandlerCancelled(g) PROVE Goal
  BY <1>15
  DEF HandlerCancelled, Fault, Offered, TypeOK, agentVars, loopVars, drainVars, busVars
<1>16. ASSUME NEW g \in Conns, Take(g) PROVE Goal
  BY <1>16
  DEF Take, Offered, TypeOK, agentVars, loopVars, drainVars, busVars
<1>17. ASSUME NEW g \in Conns, ReadLock(g) PROVE Goal
  BY <1>17
  DEF ReadLock, Offered, TypeOK, agentVars, loopVars, drainVars, busVars
<1>18. ASSUME NEW g \in Conns, NEW s \in Subs, Offer(g, s) PROVE Goal
  BY <1>18
  DEF Offer, Offered, TypeOK, agentVars, loopVars, drainVars, busVars
<1>19. ASSUME NEW g \in Conns, ReadUnlock(g) PROVE Goal
  BY <1>19
  DEF ReadUnlock, Offered, TypeOK, agentVars, loopVars, drainVars, busVars
<1>20. ASSUME NEW g \in Conns, Insert(g) PROVE Goal
  <2>1. CASE g # h
    BY <1>20, <2>1 DEF Insert, Offered, TypeOK
  <2>2. CASE g = h
    <3>1. Held(h)' = {} /\ UNCHANGED <<Queued(h), Up(h), handler>>
      BY <1>20, <2>2
      DEF Insert, Held, Queued, Up, Reading, Scanned, TypeOK, agentVars, loopVars
    <3>2. Live(h)' \subseteq Queued(h) \cup Up(h)
      BY <3>1 DEF Live, Down
    <3>3. Offered(h, t) \subseteq Held(h)
      BY <1>20, <2>2 DEF Insert, Offered, Held
    <3>4. Before(Held(h), Queued(h) \cup Up(h))
      BY DEF Ordered, Before, Down
    <3>5. QED
      BY <3>2, <3>3, <3>4 DEF Before
  <2>3. QED
    BY <2>1, <2>2
<1>21. ASSUME NEW g \in Conns, InsertFails(g) PROVE Goal
  <2>1. CASE g # h
    BY <1>21, <2>1 DEF InsertFails, Offered, TypeOK
  <2>2. CASE g = h
    <3>1. Held(h)' = {} /\ UNCHANGED <<Queued(h), Up(h), handler>>
      BY <1>21, <2>2
      DEF InsertFails, Held, Queued, Up, Reading, Scanned, TypeOK, agentVars, loopVars
    <3>2. Live(h)' \subseteq Queued(h) \cup Up(h)
      BY <3>1 DEF Live, Down
    <3>3. Offered(h, t) \subseteq Held(h)
      BY <1>21, <2>2 DEF InsertFails, Offered, Held
    <3>4. Before(Held(h), Queued(h) \cup Up(h))
      BY DEF Ordered, Before, Down
    <3>5. QED
      BY <3>2, <3>3, <3>4 DEF Before
  <2>3. QED
    BY <2>1, <2>2
<1>22. ASSUME NEW g \in Conns, DrainerEnds(g) PROVE Goal
  BY <1>22
  DEF DrainerEnds, Offered, TypeOK, agentVars, loopVars, drainVars, busVars
<1>23. ASSUME NEW s \in Subs, AskLock(s) PROVE Goal
  BY <1>23
  DEF AskLock, Offered, TypeOK, agentVars, loopVars, drainVars, busVars
<1>24. ASSUME NEW s \in Subs, Subscribe(s) PROVE Goal
  BY <1>24
  DEF Subscribe, Offered, TypeOK, agentVars, loopVars, drainVars, busVars
<1>25. ASSUME NEW s \in Subs, Unsubscribe(s) PROVE Goal
  BY <1>25
  DEF Unsubscribe, Offered, TypeOK, agentVars, loopVars, drainVars, busVars
<1>26. ASSUME NEW s \in Subs, Send(s) PROVE Goal
  BY <1>26
  DEF Send, Offered, TypeOK, agentVars, loopVars, drainVars, busVars
<1>27. CASE UNCHANGED vars
  BY <1>27
  DEF vars, Offered, TypeOK, agentVars, loopVars, drainVars, busVars
<1>28. QED
  BY <1>1, <1>2, <1>3, <1>4, <1>5, <1>6, <1>7, <1>8, <1>9, <1>10, <1>11, <1>12, <1>13, <1>14,
     <1>15, <1>16, <1>17, <1>18, <1>19, <1>20, <1>21, <1>22, <1>23, <1>24, <1>25, <1>26, <1>27
  DEF Next, LoopStep, AgentStep, DrainerStep

-----------------------------------------------------------------------------
(* The order of connections *)

\* Counters move by one, and only the loop's Connect changes the connection.
LEMMA Moves ==
  ASSUME TypeOK, Shape, [Next]_vars
  PROVE  /\ emitted \in Nat /\ emitted' \in Nat /\ Fresh \subseteq {emitted + 1}
         /\ emitted' = emitted \/ emitted' = emitted + 1
         /\ faults' = 0 => faults = 0
         /\ (conn' = conn /\ overlapped' = overlapped) \/ Connect
         /\ \A g \in Conns : drainer[g] = "done" => drainer'[g] = "done"
<1> USE Bounds
<1>1. emitted \in Nat /\ faults \in Nat
  BY DEF TypeOK
<1>2. /\ emitted' = emitted \/ emitted' = emitted + 1
      /\ faults' = faults \/ faults' = faults + 1
  BY SMTT(60)
  DEF Next, vars, LoopStep, AgentStep, DrainerStep, Fault, agentVars, loopVars, drainVars,
      busVars, Emit, AgentDies, Connect, Scan, Push, StreamEnds, Retry, Attach, ReaderReads,
      ReaderSends, ReaderEnds, ReaderCancelled, Forward, HandlerReturns, HandlerCancelled,
      Take, ReadLock, Offer, ReadUnlock, Insert, InsertFails, DrainerEnds, AskLock,
      Subscribe, Unsubscribe, Send
<1>3. (conn' = conn /\ overlapped' = overlapped) \/ Connect
  BY SMTT(60)
  DEF Next, vars, LoopStep, AgentStep, DrainerStep, Fault, agentVars, loopVars, drainVars,
      busVars, Emit, AgentDies, Scan, Push, StreamEnds, Retry, Attach, ReaderReads,
      ReaderSends, ReaderEnds, ReaderCancelled, Forward, HandlerReturns, HandlerCancelled,
      Take, ReadLock, Offer, ReadUnlock, Insert, InsertFails, DrainerEnds, AskLock,
      Subscribe, Unsubscribe, Send
<1>4. ASSUME NEW g \in Conns, drainer[g] = "done" PROVE drainer'[g] = "done"
  <2>1. CASE Connect
    <3>1. conn' \in Conns /\ conn' > conn
      BY <2>1 DEF Connect, TypeOK, Conns
    <3>2. g # conn'
      BY <1>4, <3>1 DEF Shape
    <3>3. QED
      BY <1>4, <2>1, <3>2 DEF Connect, TypeOK
  <2>2. CASE \E h \in Conns : DrainerStep(h)
    <3>1. PICK h \in Conns : DrainerStep(h)
      BY <2>2
    <3>2. \/ drainer' = drainer
          \/ drainer[h] # "done" /\ \E stage : drainer' = [drainer EXCEPT ![h] = stage]
      BY <3>1, SMTT(30)
      DEF DrainerStep, Take, ReadLock, Offer, ReadUnlock, Insert, InsertFails, DrainerEnds
    <3>3. QED
      BY <1>4, <3>1, <3>2 DEF TypeOK
  <2>3. CASE ~Connect /\ ~(\E h \in Conns : DrainerStep(h))
    <3>1. drainer' = drainer
      BY <2>3
      DEF Next, vars, LoopStep, AgentStep, agentVars, loopVars, drainVars, busVars,
          Emit, AgentDies, Scan, Push, StreamEnds, Retry, Attach, ReaderReads, ReaderSends,
          ReaderEnds, ReaderCancelled, Forward, HandlerReturns, HandlerCancelled,
          AskLock, Subscribe, Unsubscribe, Send
    <3>2. QED
      BY <1>4, <3>1
  <2>4. QED
    BY <2>1, <2>2, <2>3
<1>5. QED
  BY <1>1, <1>2, <1>3, <1>4 DEF Fresh

\* What is live on a connection that the loop has left is what its drainer has to take, and
\* a connection it has not reached has nothing.
LEMMA LiveElsewhere ==
  ASSUME TypeOK, Shape, NEW h \in Conns
  PROVE  /\ h < conn => Live(h) = Down(h)
         /\ h > conn => Live(h) = {}
         /\ Live(h) \subseteq Up(h) \cup Down(h)
<1>1. conn \in Nat /\ h \in Nat
  BY Bounds, ConnsAndEvents DEF TypeOK
<1>2. h < conn => Live(h) = Down(h)
  BY <1>1 DEF Live, Shape
<1>3. h > conn => Live(h) = {}
  BY <1>1, NoItems DEF Live, Down, Held, Queued, Scanned, Shape
<1>4. QED
  BY <1>2, <1>3 DEF Live

\* An event that a drainer holds is on its way over no other connection.
LEMMA HeldAlone ==
  ASSUME TypeOK, Shape, Apart, NEW g \in Conns,
         drainer[g] \in {"locking", "publishing", "inserting"}
  PROVE  /\ held[g] \in Events /\ held[g] \in Nat /\ held[g] \in Live(g) /\ held[g] \in Down(g)
         /\ \A h \in Conns : h # g => held[g] \notin Live(h)
<1>1. held[g] \in Events /\ held[g] \in Nat
  <2>1. held[g] \in Events \cup {None} /\ held[g] # None
    BY DEF TypeOK, Shape
  <2>2. QED
    BY <2>1, ConnsAndEvents
<1>2. held[g] \in Live(g) /\ held[g] \in Down(g)
  BY DEF Live, Down, Held
<1>3. conn \in Nat /\ g \in Nat /\ g <= conn
  BY Bounds, ConnsAndEvents DEF TypeOK, Shape
<1>4. ASSUME NEW h \in Conns, h # g, held[g] \in Live(h) PROVE FALSE
  <2>1. CASE g < h
    <3>1. held[g] \in Up(h) \cup Down(h)
      BY <1>4, LiveElsewhere
    <3>2. QED
      BY <1>1, <1>2, <2>1, <3>1 DEF Apart, Before
  <2>2. CASE h < g
    <3>1. h < conn
      BY <1>3, <2>2, ConnsAndEvents
    <3>2. held[g] \in Down(h)
      BY <1>4, <3>1, LiveElsewhere
    <3>3. QED
      BY <1>1, <1>2, <2>2, <3>2 DEF Apart, Before
  <2>3. QED
    BY <1>4, <2>1, <2>2, ConnsAndEvents
<1>5. QED
  BY <1>1, <1>2, <1>4

\* Once it is recorded, all that follows on its connection is newer.
LEMMA RecordedIsOlder ==
  ASSUME TypeOK, NEW g \in Conns, Ordered(g), Insert(g)
  PROVE  Before({held[g]}, Live(g)')
<1>1. Held(g)' = {} /\ UNCHANGED <<Queued(g), Up(g), handler>>
  BY DEF Insert, Held, Queued, Up, Reading, Scanned, TypeOK, agentVars, loopVars
<1>2. Live(g)' \subseteq Queued(g) \cup Up(g)
  BY <1>1 DEF Live, Down
<1>3. Before({held[g]}, Queued(g) \cup Up(g))
  BY DEF Ordered, Before, Down, Insert, Held
<1>4. QED
  BY <1>2, <1>3 DEF Before

\* An event that is published has not been offered yet, and then it has.
LEMMA OfferMarks ==
  ASSUME TypeOK, NEW g \in Conns, NEW s \in Subs, Offer(g, s)
  PROVE  /\ Offered(g, s) = {} /\ Offered(g, s)' = {held[g]}
         /\ Fresh = {} /\ drainer' = drainer /\ held' = held
         /\ drainer[g] \in {"locking", "publishing", "inserting"}
BY DEF Offer, Offered, Fresh, TypeOK

\* A step brings nothing from the future.
LEMMA BoundedStep ==
  ASSUME TypeOK, Shape, Apart, Bounded, [Next]_vars
  PROVE  Bounded'
<1>1. 1..emitted \subseteq 1..emitted' /\ Fresh \subseteq 1..emitted'
  BY Moves DEF Fresh
<1>2. ASSUME NEW h \in Conns PROVE (Up(h) \cup Down(h))' \subseteq 1..emitted'
  <2>1. Up(h)' \subseteq Up(h) \cup Fresh /\ Down(h)' \subseteq Up(h) \cup Down(h)
    BY FlowStep, LiveElsewhere DEF Flows
  <2>2. QED
    BY <1>1, <2>1 DEF Bounded
<1>3. \A g \in Conns : drainer[g] \in {"publishing", "inserting"} =>
                         held[g] \in Events /\ held[g] \in 1..emitted
  BY HeldAlone DEF Bounded
<1>4. Items(table)' \subseteq 1..emitted'
  <2>1. CASE table' = table
    BY <1>1, <2>1 DEF Bounded
  <2>2. ASSUME NEW g \in Conns, Insert(g), table' = Append(table, held[g])
        PROVE  Items(table)' \subseteq 1..emitted'
    <3>1. drainer[g] = "inserting" /\ table \in Seq(Events)
      BY <2>2 DEF Insert, TypeOK
    <3>2. Items(Append(table, held[g])) = Items(table) \cup {held[g]}
      BY <1>3, <3>1, AppendItems
    <3>3. QED
      BY <1>1, <1>3, <2>2, <3>1, <3>2 DEF Bounded
  <2>3. QED
    BY <2>1, <2>2, TableGrows
<1>5. ASSUME NEW s \in Subs PROVE Items(Seen(s))' \subseteq 1..emitted'
  <2>1. CASE Seen(s)' = Seen(s)
    BY <1>1, <2>1 DEF Bounded
  <2>2. ASSUME NEW g \in Conns, Offer(g, s), Seen(s)' = Append(Seen(s), held[g])
        PROVE  Items(Seen(s))' \subseteq 1..emitted'
    <3>1. drainer[g] = "publishing" /\ Seen(s) \in Seq(Events)
      BY <2>2, SeenTyped DEF Offer, TypeOK, Seen
    <3>2. Items(Append(Seen(s), held[g])) = Items(Seen(s)) \cup {held[g]}
      BY <1>3, <3>1, AppendItems
    <3>3. QED
      BY <1>1, <1>3, <2>2, <3>1, <3>2 DEF Bounded
  <2>3. QED
    BY <2>1, <2>2, SeenGrows
<1>6. QED
  BY <1>2, <1>4, <1>5 DEF Bounded

\* A step keeps the events of two connections apart.
LEMMA ApartStep ==
  ASSUME TypeOK, Shape, Bounded, Apart, [Next]_vars
  PROVE  Apart'
<1> SUFFICES ASSUME NEW g \in Conns, NEW h \in Conns, g < h,
                    NEW a \in Down(g)', NEW b \in (Up(h) \cup Down(h))'
             PROVE  a < b
  BY DEF Apart, Before
<1>1. conn \in Nat /\ g \in Nat /\ h \in Nat
  BY Bounds, ConnsAndEvents DEF TypeOK
<1>2. h <= conn /\ g < conn
  BY <1>1, FlowStep DEF Flows
<1>3. a \in Down(g) /\ a \in 1..emitted
  BY <1>2, FlowStep, LiveElsewhere DEF Flows, Bounded
<1>4. b \in Up(h) \cup Down(h) \cup Fresh
  BY FlowStep, LiveElsewhere DEF Flows
<1>5. CASE b \in Fresh
  BY <1>3, <1>5, Moves
<1>6. CASE b \in Up(h) \cup Down(h)
  BY <1>3, <1>6 DEF Apart, Before
<1>7. QED
  BY <1>4, <1>5, <1>6
-----------------------------------------------------------------------------
(* Once, in turn, recorded *)

\* A step records and shows only what was not recorded or shown before.
LEMMA OnceStep ==
  ASSUME TypeOK, Shape, Bounded, Apart, Once, [Next]_vars, \A g \in Conns : Ordered(g)
  PROVE  Once'
<1>0. \A h \in Conns : Live(h)' \subseteq Live(h) \cup Fresh
  BY FlowStep DEF Flows
<1>1. Distinct(table') /\ \A h \in Conns : Items(table') \cap Live(h)' = {}
  <2>1. CASE table' = table
    <3>1. Items(table) \cap Fresh = {}
      BY Moves DEF Bounded
    <3>2. QED
      BY <1>0, <2>1, <3>1 DEF Once
  <2>2. ASSUME NEW g \in Conns, Insert(g), table' = Append(table, held[g])
        PROVE  Distinct(table') /\ \A h \in Conns : Items(table') \cap Live(h)' = {}
    <3>1. /\ held[g] \in Events /\ held[g] \in Nat /\ held[g] \in Live(g)
          /\ \A h \in Conns : h # g => held[g] \notin Live(h)
      BY <2>2, HeldAlone DEF Insert
    <3>2. /\ Items(table') = Items(table) \cup {held[g]} /\ Fresh = {}
          /\ table \in Seq(Events)
      BY <2>2, <3>1, AppendItems DEF Insert, Fresh, TypeOK
    <3>3. Distinct(table')
      BY <2>2, <3>1, <3>2, DistinctAppend DEF Once
    <3>4. held[g] \notin Live(g)'
      BY <2>2, <3>1, RecordedIsOlder DEF Before
    <3>5. ASSUME NEW h \in Conns PROVE Items(table') \cap Live(h)' = {}
      <4>1. Live(h)' \subseteq Live(h) /\ Items(table) \cap Live(h) = {}
        BY <1>0, <3>2 DEF Once
      <4>2. held[g] \notin Live(h)'
        BY <3>1, <3>4, <4>1
      <4>3. QED
        BY <3>2, <4>1, <4>2
    <3>6. QED
      BY <3>3, <3>5
  <2>3. QED
    BY <2>1, <2>2, TableGrows
<1>2. ASSUME NEW s \in Subs
      PROVE  /\ Distinct(Seen(s)')
             /\ \A h \in Conns : Items(Seen(s)') \cap Live(h)' \subseteq Offered(h, s)'
  \* What was seen before the step.
  <2>0. ASSUME NEW h \in Conns
        PROVE  Items(Seen(s)) \cap Live(h)' \subseteq Offered(h, s)'
    <3> SUFFICES ASSUME NEW a \in Items(Seen(s)), a \in Live(h)' PROVE a \in Offered(h, s)'
      OBVIOUS
    <3>1. a \in Nat /\ a \notin Fresh
      BY Moves DEF Bounded
    <3>2. a \in Offered(h, s)
      BY <1>0, <3>1 DEF Once
    <3>3. QED
      BY <3>1, <3>2, OfferedStep DEF Before
  <2>1. CASE Seen(s)' = Seen(s)
    BY <2>0, <2>1 DEF Once
  <2>2. ASSUME NEW g \in Conns, Offer(g, s), Seen(s)' = Append(Seen(s), held[g])
        PROVE  /\ Distinct(Seen(s)')
               /\ \A h \in Conns : Items(Seen(s)') \cap Live(h)' \subseteq Offered(h, s)'
    <3>0. /\ Offered(g, s) = {} /\ Offered(g, s)' = {held[g]} /\ Fresh = {}
          /\ drainer[g] \in {"locking", "publishing", "inserting"}
      BY <2>2, OfferMarks
    <3>1. /\ held[g] \in Events /\ held[g] \in Live(g)
          /\ \A h \in Conns : h # g => held[g] \notin Live(h)
      BY <3>0, HeldAlone
    <3>2. Seen(s) \in Seq(Events)
      BY SeenTyped DEF TypeOK, Seen
    <3>3. Items(Seen(s)') = Items(Seen(s)) \cup {held[g]}
      BY <2>2, <3>1, <3>2, AppendItems
    <3>4. held[g] \notin Items(Seen(s)) /\ Distinct(Seen(s))
      BY <3>0, <3>1 DEF Once
    <3>5. Distinct(Seen(s)')
      BY <2>2, <3>1, <3>2, <3>4, DistinctAppend
    <3>6. ASSUME NEW h \in Conns PROVE held[g] \in Live(h)' => held[g] \in Offered(h, s)'
      BY <1>0, <3>0, <3>1
    <3>7. QED
      BY <2>0, <3>3, <3>5, <3>6
  <2>3. QED
    BY <2>1, <2>2, SeenGrows
<1>3. QED
  BY <1>1, <1>2 DEF Once

\* In turn, only the connection the loop is at has events on their way.
LEMMA OnlyLast ==
  ASSUME TypeOK, Shape, InTurn, ~overlapped, NEW h \in Conns, h # conn
  PROVE  Live(h) = {}
<1>1. conn \in Nat /\ h \in Nat
  BY Bounds, ConnsAndEvents DEF TypeOK
<1>2. CASE h > conn
  BY <1>2, LiveElsewhere
<1>3. CASE h < conn
  <2>1. drainer[h] = "done" /\ handler[h] = "returned" /\ wire[h] = <<>> /\ evCh[h] = <<>>
    BY <1>3 DEF InTurn, Shape
  <2>2. QED
    BY <2>1, NoItems DEF Live, Down, Held, Queued, Scanned
<1>4. QED
  BY <1>1, <1>2, <1>3

\* A connection is opened in turn only when all the drainers before it are done.
LEMMA TurnsKept ==
  ASSUME TypeOK, Shape, InTurn, [Next]_vars, ~overlapped'
  PROVE  ~overlapped /\ \A g \in Conns : g < conn' => drainer'[g] = "done"
<1>1. CASE Connect
  <2>1. /\ conn' = conn + 1 /\ conn \in Nat /\ conn' \in Conns
        /\ ~overlapped /\ \A g \in Conns : drainer[g] \in {"none", "done"}
    <3>1. conn' = conn + 1 /\ conn \in Nat /\ conn' \in Conns
      BY <1>1, Bounds DEF Connect, TypeOK, Conns
    <3>2. overlapped' = (overlapped \/ \E g \in Conns : drainer[g] \notin {"none", "done"})
      BY <1>1 DEF Connect
    <3>3. ~overlapped /\ \A g \in Conns : drainer[g] \in {"none", "done"}
      BY <3>2, Zenon
    <3>4. QED
      BY <3>1, <3>3
  <2>2. \A g \in Conns : g <= conn => drainer[g] = "done"
    BY <2>1 DEF Shape
  <2>3. \A g \in Conns : g < conn' => g <= conn /\ g \in Nat
    BY <2>1, ConnsAndEvents
  <2>4. QED
    BY <2>1, <2>2, <2>3, Moves
<1>2. CASE conn' = conn /\ overlapped' = overlapped
  BY <1>2, Moves DEF InTurn
<1>3. QED
  BY <1>1, <1>2, Moves

\* In turn, a step records and shows only what is newer than all before it.
LEMMA InTurnStep ==
  ASSUME TypeOK, Shape, Bounded, Apart, InTurn, [Next]_vars, \A g \in Conns : Ordered(g)
  PROVE  InTurn'
<1> SUFFICES ASSUME ~overlapped' PROVE InTurn'
  BY DEF InTurn
<1>0. \A h \in Conns : Live(h)' \subseteq Live(h) \cup Fresh
  BY FlowStep DEF Flows
<1>1. ~overlapped /\ \A g \in Conns : g < conn' => drainer'[g] = "done"
  BY TurnsKept
<1>2. Increasing(table') /\ \A h \in Conns : Before(Items(table'), Live(h)')
  <2>0. ASSUME NEW h \in Conns PROVE Before(Items(table), Live(h)')
    <3>1. Before(Items(table), Fresh)
      BY Moves DEF Bounded, Before
    <3>2. Before(Items(table), Live(h))
      BY <1>1 DEF InTurn
    <3>3. QED
      BY <1>0, <3>1, <3>2 DEF Before
  <2>1. CASE table' = table
    BY <1>1, <2>0, <2>1 DEF InTurn
  <2>2. ASSUME NEW g \in Conns, Insert(g), table' = Append(table, held[g])
        PROVE  Increasing(table') /\ \A h \in Conns : Before(Items(table'), Live(h)')
    <3>1. held[g] \in Events /\ held[g] \in Live(g)
      BY <2>2, HeldAlone DEF Insert
    <3>2. /\ Items(table') = Items(table) \cup {held[g]} /\ Fresh = {}
          /\ table \in Seq(Events)
      BY <2>2, <3>1, AppendItems DEF Insert, Fresh, TypeOK
    <3>3. Increasing(table) /\ Before(Items(table), {held[g]})
      BY <1>1, <3>1 DEF InTurn, Before
    <3>4. Increasing(table')
      BY <2>2, <3>1, <3>2, <3>3, IncreasingAppend
    <3>5. ASSUME NEW h \in Conns PROVE Before({held[g]}, Live(h)')
      <4>1. CASE h = g
        BY <2>2, <4>1, RecordedIsOlder
      <4>2. CASE h # g
        <5>1. Live(h) = {}
          BY <1>1, <3>1, <4>2, OnlyLast
        <5>2. QED
          BY <1>0, <3>2, <5>1 DEF Before
      <4>3. QED
        BY <4>1, <4>2
    <3>6. QED
      BY <2>0, <3>2, <3>4, <3>5 DEF Before
  <2>3. QED
    BY <2>1, <2>2, TableGrows
<1>3. ASSUME NEW s \in Subs
      PROVE  /\ Increasing(Seen(s)')
             /\ \A h \in Conns : Before(Items(Seen(s)') \ Offered(h, s)', Live(h)')
  <2>0. ASSUME NEW h \in Conns
        PROVE  Before(Items(Seen(s)) \ Offered(h, s)', Live(h)')
    <3> SUFFICES ASSUME NEW a \in Items(Seen(s)), a \notin Offered(h, s)', NEW b \in Live(h)'
                 PROVE  a < b
      BY DEF Before
    <3>1. CASE b \in Fresh
      BY <3>1, Moves DEF Bounded
    <3>2. CASE a \in Offered(h, s)
      BY <3>2, OfferedStep DEF Before
    <3>3. CASE b \in Live(h) /\ a \notin Offered(h, s)
      BY <1>1, <3>3 DEF InTurn, Before
    <3>4. QED
      BY <1>0, <3>1, <3>2, <3>3
  <2>1. CASE Seen(s)' = Seen(s)
    BY <1>1, <2>0, <2>1 DEF InTurn
  <2>2. ASSUME NEW g \in Conns, Offer(g, s), Seen(s)' = Append(Seen(s), held[g])
        PROVE  /\ Increasing(Seen(s)')
               /\ \A h \in Conns : Before(Items(Seen(s)') \ Offered(h, s)', Live(h)')
    <3>0. /\ Offered(g, s) = {} /\ Offered(g, s)' = {held[g]} /\ Fresh = {}
          /\ drainer[g] \in {"locking", "publishing", "inserting"}
      BY <2>2, OfferMarks
    <3>1. held[g] \in Events /\ held[g] \in Live(g)
      BY <3>0, HeldAlone
    <3>2. Seen(s) \in Seq(Events)
      BY SeenTyped DEF TypeOK, Seen
    <3>3. Items(Seen(s)') = Items(Seen(s)) \cup {held[g]}
      BY <2>2, <3>1, <3>2, AppendItems
    <3>4. Increasing(Seen(s)) /\ Before(Items(Seen(s)), {held[g]})
      BY <1>1, <3>0, <3>1 DEF InTurn, Before
    <3>5. Increasing(Seen(s)')
      BY <2>2, <3>1, <3>2, <3>4, IncreasingAppend
    <3>6. ASSUME NEW h \in Conns, h # g PROVE Live(h)' = {}
      BY <1>0, <1>1, <3>0, <3>1, <3>6, OnlyLast
    <3>7. QED
      BY <2>0, <3>0, <3>3, <3>5, <3>6 DEF Before
  <2>3. QED
    BY <2>1, <2>2, SeenGrows
<1>4. QED
  BY <1>1, <1>2, <1>3 DEF InTurn

\* A step shows what is about to be recorded, and without faults it will be.
LEMMA RecordedStep ==
  ASSUME TypeOK, Shape, Recorded, [Next]_vars
  PROVE  Recorded'
<1> SUFFICES ASSUME faults' = 0, NEW s \in Subs, NEW e \in Items(Seen(s)')
             PROVE  \/ e \in Items(table')
                    \/ \E g \in Conns : held'[g] = e /\ drainer'[g] \in {"publishing", "inserting"}
  BY DEF Recorded
<1>0. faults = 0
  BY Moves
<1>1. Items(table) \subseteq Items(table')
  <2>1. ASSUME NEW g \in Conns, Insert(g), table' = Append(table, held[g])
        PROVE  Items(table) \subseteq Items(table')
    <3>1. held[g] \in Events /\ table \in Seq(Events)
      BY <2>1 DEF Insert, TypeOK, Shape
    <3>2. QED
      BY <2>1, <3>1, AppendItems
  <2>2. QED
    BY <2>1, TableGrows
<1>2. CASE e \in Items(Seen(s))
  <2>1. CASE e \in Items(table)
    BY <1>1, <2>1
  <2>2. ASSUME NEW g \in Conns, held[g] = e, drainer[g] \in {"publishing", "inserting"}
        PROVE  \/ e \in Items(table')
               \/ held'[g] = e /\ drainer'[g] \in {"publishing", "inserting"}
    <3>1. CASE Insert(g)
      <4>1. held[g] \in Events /\ table \in Seq(Events)
        BY <2>2 DEF TypeOK, Shape
      <4>2. table' = Append(table, held[g])
        BY <3>1 DEF Insert
      <4>3. QED
        BY <2>2, <4>1, <4>2, AppendItems
    <3>2. CASE InsertFails(g)
      BY <1>0, <3>2 DEF InsertFails, Fault
    <3>3. QED
      BY <2>2, <3>1, <3>2, HeldStays
  <2>3. QED
    BY <1>0, <1>2, <2>1, <2>2 DEF Recorded
<1>3. CASE e \notin Items(Seen(s))
  <2>1. PICK g \in Conns : Offer(g, s) /\ Seen(s)' = Append(Seen(s), held[g])
    BY <1>3, SeenGrows
  <2>2. held[g] \in Events /\ Seen(s) \in Seq(Events)
    BY <2>1, SeenTyped DEF Offer, TypeOK, Shape, Seen
  <2>3. e = held[g]
    BY <1>3, <2>1, <2>2, AppendItems
  <2>4. held' = held /\ drainer' = drainer /\ drainer[g] = "publishing"
    BY <2>1 DEF Offer
  <2>5. QED
    BY <2>3, <2>4
<1>4. QED
  BY <1>2, <1>3
-----------------------------------------------------------------------------
(* The invariant *)

\* The inductive invariant holds initially.
LEMMA InvariantInit == Init => IInv
<1> SUFFICES ASSUME Init PROVE IInv
  OBVIOUS
<1>1. TypeOK
  BY TypeInit
<1>2. /\ conn = 0 /\ emitted = 0 /\ faults = 0 /\ scan = None /\ loop = "connect"
      /\ table = <<>> /\ subscribers = {} /\ overlapped = FALSE
      /\ \A g \in Conns :
           /\ body[g] = <<>> /\ eventChan[g] = <<>> /\ wire[g] = <<>> /\ evCh[g] = <<>>
           /\ reader[g] = "none" /\ handler[g] = "none" /\ drainer[g] = "none"
           /\ evClosed[g] = FALSE
      /\ \A s \in Subs : got[s] = <<>> /\ inbox[s] = <<>>
  BY DEF Init
<1>3. \A g \in Conns : Up(g) = {} /\ Down(g) = {} /\ Live(g) = {} /\ Held(g) = {}
                       /\ Reading(g) = {} /\ Scanned(g) = {} /\ Queued(g) = {}
  BY <1>2, NoItems DEF Up, Reading, Down, Held, Queued, Scanned, Live
<1>4. \A s \in Subs : Seen(s) = <<>>
  BY <1>2 DEF Seen
<1>5. Shape
  BY <1>2, Bounds, ConnsAndEvents DEF Shape, Conns
<1>6. Locks
  BY <1>2 DEF Locks
<1>7. \A g \in Conns : Ordered(g)
  BY <1>2, <1>3, NoItems DEF Ordered, Before
<1>8. Bounded /\ Apart
  BY <1>2, <1>3, <1>4, NoItems DEF Bounded, Apart, Before
<1>9. Once /\ Recorded
  BY <1>2, <1>3, <1>4, NoItems DEF Once, Recorded
<1>10. InTurn
  BY <1>2, <1>3, <1>4, NoItems, ConnsAndEvents DEF InTurn, Before, Conns
<1>11. QED
  BY <1>1, <1>5, <1>6, <1>7, <1>8, <1>9, <1>10 DEF IInv

\* Every step keeps the inductive invariant.
LEMMA InvariantStep == IInv /\ [Next]_vars => IInv'
<1> SUFFICES ASSUME IInv, [Next]_vars PROVE IInv'
  OBVIOUS
<1>1. /\ TypeOK /\ Shape /\ Locks /\ Bounded /\ Apart /\ Once /\ InTurn /\ Recorded
      /\ \A g \in Conns : Ordered(g)
  BY DEF IInv
<1>2. TypeOK' /\ Shape' /\ Locks'
  BY <1>1, TypeStep, ShapeStep, LocksStep
<1>3. \A g \in Conns : Ordered(g)'
  BY <1>1, OrderedStep
<1>4. Bounded' /\ Apart'
  BY <1>1, BoundedStep, ApartStep
<1>5. Once' /\ InTurn' /\ Recorded'
  BY <1>1, OnceStep, InTurnStep, RecordedStep
<1>6. QED
  BY <1>2, <1>3, <1>4, <1>5 DEF IInv

\* The inductive invariant: events stay in the order of emission on every connection, those of
\* two connections are apart, and none that is recorded or seen is on its way again
\* (main.go:233-249, handler.go:822-839).
THEOREM Invariant == Spec => []IInv
<1>1. Init => IInv
  BY InvariantInit
<1>2. IInv /\ [Next]_vars => IInv'
  BY InvariantStep
<1>3. QED
  BY <1>1, <1>2, PTL DEF Spec

\* Every variable keeps its type, and no channel holds more than its capacity.
THEOREM TypeCorrect == Spec => []TypeOK
<1>1. IInv => TypeOK
  BY DEF IInv
<1>2. QED
  BY <1>1, Invariant, PTL

\* Publish never sends on a channel that Unsubscribe has closed: whoever it has yet to serve is
\* kept in the map by the read lock (bus.go:29-50).
THEOREM SubscribersAreOpen == Spec => []SendsToOpen
<1>1. IInv => SendsToOpen
  BY DEF IInv, Locks, SendsToOpen
<1>2. QED
  BY <1>1, Invariant, PTL

\* An event enters the table and reaches a client at most once, however often the loop connects
\* and whatever fails (main.go:233-249).
THEOREM NothingTwice == Spec => []AtMostOnce
<1>1. IInv => AtMostOnce
  BY DEF IInv, Once, AtMostOnce, Seen
<1>2. QED
  BY <1>1, Invariant, PTL

\* As long as no two drainers are at work, table and clients see the daemon's order
\* (main.go:236-249).
THEOREM EventsInOrder == Spec => []InOrder
<1>1. IInv => InOrder
  BY DEF IInv, InTurn, InOrder, Seen
<1>2. QED
  BY <1>1, Invariant, PTL

\* What a client has seen is recorded, or is held by the drainer that is about to record it
\* (main.go:238-242).
THEOREM SeenAreRecorded == Spec => []SeenIsRecorded
<1>1. IInv => SeenIsRecorded
  <2> SUFFICES ASSUME IInv, faults = 0, NEW s \in Subs, NEW i \in 1..Len(got[s])
               PROVE  \/ Holds(table, got[s][i])
                      \/ \E g \in Conns : held[g] = got[s][i]
                                          /\ drainer[g] \in {"publishing", "inserting"}
    BY DEF SeenIsRecorded
  <2>1. got[s][i] \in Items(Seen(s))
    BY SeenTyped DEF IInv, TypeOK, Seen
  <2>2. \A e \in Items(table) : Holds(table, e)
    BY DEF Items, Holds
  <2>3. QED
    BY <2>1, <2>2 DEF IInv, Recorded
<1>2. QED
  BY <1>1, Invariant, PTL
-----------------------------------------------------------------------------
(* The promise of EventDelivery *)

\* What a step leaves of the events of connection h: all, all but the latest of a stream that
\* breaks, or all but the one its drainer is done with.
Keeps(h) ==
  \/ Live(h) \subseteq Live(h)'
  \/ /\ handler[h] = "running"
     /\ \/ Live(h)' = Down(h)
        \/ Live(h)' = Down(h) \cup Items(eventChan[h]) /\ Reading(h) = {}
  \/ (Insert(h) \/ InsertFails(h)) /\ Live(h) \ {held[h]} \subseteq Live(h)'

\* No step loses an event but from the end of the stream that is read, or when it cannot be
\* recorded.
LEMMA KeepStep ==
  ASSUME TypeOK, Shape, [Next]_vars, NEW h \in Conns
  PROVE  Keeps(h)
<1>a. /\ body[h] \in Seq(Events) /\ eventChan[h] \in Seq(Events)
      /\ wire[h] \in Seq(Events) /\ evCh[h] \in Seq(Events)
      /\ conn \in Nat /\ h \in Nat /\ None \notin Events /\ conn + 1 > conn
  BY ConnsAndEvents, Bounds DEF TypeOK
<1>1. CASE Emit
  <2>1. emitted + 1 \in Events
    BY <1>1, Bounds DEF Emit, TypeOK, Events
  <2>2. Items(body[h]) \subseteq Items(body'[h])
    BY <1>1, <1>a, <2>1, AppendItems DEF Emit
  <2>3. UNCHANGED <<reader, readerEv, eventChan, handler, wire, conn, scan, evCh, drainer, held>>
    BY <1>1 DEF Emit, loopVars, drainVars
  <2>4. QED
    BY <2>2, <2>3 DEF Keeps, Live, Down, Up, Reading, Scanned, Held, Queued
<1>2. CASE AgentDies
  <2>1. UNCHANGED <<wire, conn, scan, evCh, drainer, held>>
    BY <1>2 DEF AgentDies, loopVars, drainVars
  <2>2. Down(h)' = Down(h)
    BY <2>1 DEF Down, Held, Queued, Scanned
  <2>3. handler'[h] # "running" /\ (handler[h] # "running" => handler'[h] = handler[h])
    BY <1>2 DEF AgentDies, TypeOK
  <2>4. QED
    BY <2>2, <2>3 DEF Keeps, Live
<1>3. CASE Connect
  <2>1. conn' = conn + 1 /\ conn' \in Conns /\ scan = None
    BY <1>3, Bounds DEF Connect, Conns, TypeOK, Shape
  <2>2. h # conn' => handler'[h] = handler[h] /\ reader'[h] = reader[h] /\ drainer'[h] = drainer[h]
    BY <1>3, <2>1 DEF Connect, TypeOK
  <2>3. UNCHANGED <<emitted, body, eventChan, wire, evCh, scan, readerEv, held>>
    BY <1>3 DEF Connect
  <2>4. CASE h = conn'
    <3>1. Live(h) = {}
      BY <1>a, <2>1, <2>4, LiveElsewhere
    <3>2. QED
      BY <3>1 DEF Keeps
  <2>5. CASE h # conn'
    <3>1. Scanned(h)' = Scanned(h)
      BY <2>1, <2>3 DEF Scanned
    <3>2. Live(h)' = Live(h)
      BY <2>2, <2>3, <2>5, <3>1 DEF Live, Down, Up, Reading, Held, Queued
    <3>3. QED
      BY <3>2 DEF Keeps
  <2>6. QED
    BY <2>4, <2>5
<1>4. CASE Scan
  <2>1. /\ conn \in Conns /\ scan' = Head(wire[conn]) /\ Head(wire[conn]) \in Events
        /\ Items(wire[conn]) = {Head(wire[conn])} \cup Items(Tail(wire[conn]))
        /\ scan = None
    BY <1>4, HeadItems DEF Scan, TypeOK, Shape
  <2>2. UNCHANGED <<body, reader, readerEv, eventChan, handler, conn, evCh, drainer, held>>
    BY <1>4 DEF Scan, agentVars, drainVars
  <2>3. Scanned(h) \cup Items(wire[h]) \subseteq Scanned(h)' \cup Items(wire'[h])
    BY <1>4, <1>a, <2>1, <2>2 DEF Scan, Scanned, TypeOK
  <2>4. QED
    BY <2>2, <2>3 DEF Keeps, Live, Down, Up, Reading, Held, Queued
<1>5. CASE Push
  <2>1. conn \in Conns /\ Items(Append(evCh[conn], scan)) = Items(evCh[conn]) \cup {scan}
    <3>1. conn \in Conns /\ scan \in Events
      BY <1>5 DEF Push, TypeOK, Shape
    <3>2. QED
      BY <3>1, AppendItems DEF TypeOK
  <2>2. UNCHANGED <<body, reader, readerEv, eventChan, handler, conn, wire, drainer, held>>
    BY <1>5 DEF Push, agentVars, drainVars
  <2>3. Scanned(h) \cup Items(evCh[h]) \subseteq Scanned(h)' \cup Items(evCh'[h])
    BY <1>5, <1>a, <2>1, <2>2 DEF Push, Scanned, TypeOK
  <2>4. QED
    BY <2>2, <2>3 DEF Keeps, Live, Down, Up, Reading, Held, Queued
<1>6. CASE StreamEnds
  BY <1>6
  DEF StreamEnds, Keeps, Down, Live, Up, Reading, Scanned, Held, Queued, agentVars, loopVars,
      drainVars, busVars
<1>7. CASE Retry
  BY <1>7
  DEF Retry, Keeps, Down, Live, Up, Reading, Scanned, Held, Queued, agentVars, loopVars,
      drainVars, busVars
<1>8. ASSUME NEW g \in Conns, Attach(g) PROVE Keeps(h)
  <2>1. UNCHANGED <<body, readerEv, eventChan, handler, wire, conn, scan, evCh, drainer, held>>
    BY <1>8 DEF Attach, loopVars, drainVars
  <2>2. Reading(h)' = Reading(h)
    BY <1>8 DEF Attach, Reading, TypeOK
  <2>3. QED
    BY <2>1, <2>2 DEF Keeps, Live, Down, Up, Held, Scanned, Queued
<1>9. ASSUME NEW g \in Conns, ReaderReads(g) PROVE Keeps(h)
  <2>1. Items(body[g]) = {Head(body[g])} \cup Items(Tail(body[g]))
    BY <1>9, <1>a, HeadItems DEF ReaderReads, TypeOK
  <2>2. Items(body[h]) \cup Reading(h) \subseteq Items(body'[h]) \cup Reading(h)'
    BY <1>9, <1>a, <2>1 DEF ReaderReads, Reading, TypeOK
  <2>3. UNCHANGED <<eventChan, handler, wire, conn, scan, evCh, drainer, held>>
    BY <1>9 DEF ReaderReads, loopVars, drainVars
  <2>4. QED
    BY <2>2, <2>3 DEF Keeps, Live, Down, Up, Scanned, Held, Queued
<1>10. ASSUME NEW g \in Conns, ReaderSends(g) PROVE Keeps(h)
  <2>1. Items(Append(eventChan[g], readerEv[g])) = Items(eventChan[g]) \cup {readerEv[g]}
    <3>1. readerEv[g] \in Events
      BY <1>10 DEF ReaderSends, TypeOK, Shape
    <3>2. QED
      BY <3>1, AppendItems DEF TypeOK
  <2>2. Items(eventChan[h]) \cup Reading(h) \subseteq Items(eventChan'[h]) \cup Reading(h)'
    BY <1>10, <1>a, <2>1 DEF ReaderSends, Reading, TypeOK
  <2>3. UNCHANGED <<body, handler, wire, conn, scan, evCh, drainer, held>>
    BY <1>10 DEF ReaderSends, loopVars, drainVars
  <2>4. QED
    BY <2>2, <2>3 DEF Keeps, Live, Down, Up, Scanned, Held, Queued
<1>11. ASSUME NEW g \in Conns, ReaderEnds(g) PROVE Keeps(h)
  <2>1. Items(body'[g]) = {} /\ reader[g] # "sending" /\ reader'[g] # "sending"
    BY <1>11, <1>a, NoItems DEF ReaderEnds, TypeOK
  <2>2. UNCHANGED <<readerEv, eventChan, handler, wire, conn, scan, evCh, drainer, held>>
    BY <1>11 DEF ReaderEnds, loopVars, drainVars
  <2>3. Down(h)' = Down(h)
    BY <2>2 DEF Down, Held, Queued, Scanned
  <2>4. CASE h # g
    <3>1. body'[h] = body[h] /\ reader'[h] = reader[h]
      BY <1>11, <2>4 DEF ReaderEnds, TypeOK
    <3>2. QED
      BY <2>2, <2>3, <3>1 DEF Keeps, Live, Up, Reading
  <2>5. CASE h = g
    <3>1. Reading(h) = {} /\ Up(h)' = Items(eventChan[h])
      BY <2>1, <2>2, <2>5 DEF Up, Reading
    <3>2. QED
      BY <2>2, <2>3, <3>1 DEF Keeps, Live
  <2>6. QED
    BY <2>4, <2>5
<1>12. ASSUME NEW g \in Conns, ReaderCancelled(g) PROVE Keeps(h)
  <2>1. UNCHANGED <<handler, wire, conn, scan, evCh, drainer, held, eventChan, readerEv>>
    BY <1>12 DEF ReaderCancelled, loopVars, drainVars
  <2>2. Down(h)' = Down(h)
    BY <2>1 DEF Down, Held, Queued, Scanned
  <2>3. h = g => handler[h] # "running"
    BY <1>12 DEF ReaderCancelled
  <2>4. h # g => body'[h] = body[h] /\ reader'[h] = reader[h]
    BY <1>12 DEF ReaderCancelled, TypeOK
  <2>5. QED
    BY <2>1, <2>2, <2>3, <2>4 DEF Keeps, Live, Up, Reading
<1>13. ASSUME NEW g \in Conns, Forward(g) PROVE Keeps(h)
  <2>1. /\ Items(eventChan[g]) = {Head(eventChan[g])} \cup Items(Tail(eventChan[g]))
        /\ Head(eventChan[g]) \in Events
    BY <1>13, HeadItems DEF Forward, TypeOK
  <2>2. Items(Append(wire[g], Head(eventChan[g]))) = Items(wire[g]) \cup {Head(eventChan[g])}
    BY <2>1, AppendItems DEF TypeOK
  <2>3. UNCHANGED <<body, reader, readerEv, handler, conn, scan, evCh, drainer, held>>
    BY <1>13 DEF Forward, loopVars, drainVars
  <2>4. Items(eventChan[h]) \cup Items(wire[h]) \subseteq Items(eventChan'[h]) \cup Items(wire'[h])
    BY <1>13, <2>1, <2>2 DEF Forward, TypeOK
  <2>5. Items(wire[h]) \subseteq Items(wire'[h])
    BY <1>13, <2>2 DEF Forward, TypeOK
  <2>6. QED
    BY <2>3, <2>4, <2>5 DEF Keeps, Live, Down, Up, Reading, Scanned, Held, Queued
<1>14. ASSUME NEW g \in Conns, HandlerReturns(g) PROVE Keeps(h)
  <2>1. UNCHANGED <<wire, conn, scan, evCh, drainer, held, body, reader, readerEv, eventChan>>
    BY <1>14 DEF HandlerReturns, loopVars, drainVars
  <2>2. Down(h)' = Down(h) /\ Up(h)' = Up(h)
    BY <2>1 DEF Down, Held, Queued, Scanned, Up, Reading
  <2>3. /\ h # g => handler'[h] = handler[h]
        /\ h = g => handler[h] = "running" /\ handler'[h] # "running"
    BY <1>14 DEF HandlerReturns, TypeOK
  <2>4. QED
    BY <2>2, <2>3 DEF Keeps, Live
<1>15. ASSUME NEW g \in Conns, HandlerCancelled(g) PROVE Keeps(h)
  <2>1. UNCHANGED <<wire, conn, scan, evCh, drainer, held, body, reader, readerEv, eventChan>>
    BY <1>15 DEF HandlerCancelled, loopVars, drainVars
  <2>2. Down(h)' = Down(h) /\ Up(h)' = Up(h)
    BY <2>1 DEF Down, Held, Queued, Scanned, Up, Reading
  <2>3. /\ h # g => handler'[h] = handler[h]
        /\ h = g => handler[h] = "running" /\ handler'[h] # "running"
    BY <1>15 DEF HandlerCancelled, TypeOK
  <2>4. QED
    BY <2>2, <2>3 DEF Keeps, Live
<1>16. ASSUME NEW g \in Conns, Take(g) PROVE Keeps(h)
  <2>1. Items(evCh[g]) = {Head(evCh[g])} \cup Items(Tail(evCh[g]))
    BY <1>16, <1>a, HeadItems DEF Take, TypeOK
  <2>2. UNCHANGED <<body, reader, readerEv, eventChan, handler, wire, conn, scan>>
    BY <1>16 DEF Take, agentVars, loopVars
  <2>3. Items(evCh[h]) \cup Held(h) \subseteq Items(evCh'[h]) \cup Held(h)'
    BY <1>16, <1>a, <2>1 DEF Take, Held, TypeOK
  <2>4. QED
    BY <2>2, <2>3 DEF Keeps, Live, Down, Up, Reading, Scanned, Queued
<1>17. ASSUME NEW g \in Conns, ReadLock(g) PROVE Keeps(h)
  <2>1. UNCHANGED <<body, reader, readerEv, eventChan, handler, wire, conn, scan, evCh, held>>
    BY <1>17 DEF ReadLock, agentVars, loopVars
  <2>2. Held(h)' = Held(h)
    BY <1>17 DEF ReadLock, Held, TypeOK
  <2>3. QED
    BY <2>1, <2>2 DEF Keeps, Live, Down, Up, Reading, Scanned, Queued
<1>18. ASSUME NEW g \in Conns, NEW s \in Subs, Offer(g, s) PROVE Keeps(h)
  BY <1>18 DEF Offer, Keeps, Down, Live, Up, Reading, Scanned, Held, Queued, agentVars, loopVars
<1>19. ASSUME NEW g \in Conns, ReadUnlock(g) PROVE Keeps(h)
  <2>1. UNCHANGED <<body, reader, readerEv, eventChan, handler, wire, conn, scan, evCh, held>>
    BY <1>19 DEF ReadUnlock, agentVars, loopVars
  <2>2. Held(h)' = Held(h)
    BY <1>19 DEF ReadUnlock, Held, TypeOK
  <2>3. QED
    BY <2>1, <2>2 DEF Keeps, Live, Down, Up, Reading, Scanned, Queued
<1>20. ASSUME NEW g \in Conns, Insert(g) PROVE Keeps(h)
  <2>1. UNCHANGED <<body, reader, readerEv, eventChan, handler, wire, conn, scan, evCh, held>>
    BY <1>20 DEF Insert, agentVars, loopVars
  <2>2. CASE h = g
    <3>1. Held(h) = {held[h]}
      BY <1>20, <2>2 DEF Insert, Held
    <3>2. QED
      BY <1>20, <2>1, <2>2, <3>1 DEF Keeps, Live, Down, Up, Reading, Scanned, Queued
  <2>3. CASE h # g
    <3>1. Held(h)' = Held(h)
      BY <1>20, <2>1, <2>3 DEF Insert, Held, TypeOK
    <3>2. QED
      BY <2>1, <3>1 DEF Keeps, Live, Down, Up, Reading, Scanned, Queued
  <2>4. QED
    BY <2>2, <2>3
<1>21. ASSUME NEW g \in Conns, InsertFails(g) PROVE Keeps(h)
  <2>1. UNCHANGED <<body, reader, readerEv, eventChan, handler, wire, conn, scan, evCh, held>>
    BY <1>21 DEF InsertFails, agentVars, loopVars
  <2>2. CASE h = g
    <3>1. Held(h) = {held[h]}
      BY <1>21, <2>2 DEF InsertFails, Held
    <3>2. QED
      BY <1>21, <2>1, <2>2, <3>1 DEF Keeps, Live, Down, Up, Reading, Scanned, Queued
  <2>3. CASE h # g
    <3>1. Held(h)' = Held(h)
      BY <1>21, <2>1, <2>3 DEF InsertFails, Held, TypeOK
    <3>2. QED
      BY <2>1, <3>1 DEF Keeps, Live, Down, Up, Reading, Scanned, Queued
  <2>4. QED
    BY <2>2, <2>3
<1>22. ASSUME NEW g \in Conns, DrainerEnds(g) PROVE Keeps(h)
  <2>1. UNCHANGED <<body, reader, readerEv, eventChan, handler, wire, conn, scan, evCh, held>>
    BY <1>22 DEF DrainerEnds, agentVars, loopVars
  <2>2. Held(h)' = Held(h)
    BY <1>22 DEF DrainerEnds, Held, TypeOK
  <2>3. QED
    BY <2>1, <2>2 DEF Keeps, Live, Down, Up, Reading, Scanned, Queued
<1>23. ASSUME NEW s \in Subs, AskLock(s) PROVE Keeps(h)
  BY <1>23
  DEF AskLock, Keeps, Down, Live, Up, Reading, Scanned, Held, Queued, agentVars, loopVars,
      drainVars, busVars
<1>24. ASSUME NEW s \in Subs, Subscribe(s) PROVE Keeps(h)
  BY <1>24
  DEF Subscribe, Keeps, Down, Live, Up, Reading, Scanned, Held, Queued, agentVars, loopVars,
      drainVars, busVars
<1>25. ASSUME NEW s \in Subs, Unsubscribe(s) PROVE Keeps(h)
  BY <1>25
  DEF Unsubscribe, Keeps, Down, Live, Up, Reading, Scanned, Held, Queued, agentVars, loopVars,
      drainVars, busVars
<1>26. ASSUME NEW s \in Subs, Send(s) PROVE Keeps(h)
  BY <1>26
  DEF Send, Keeps, Down, Live, Up, Reading, Scanned, Held, Queued, agentVars, loopVars,
      drainVars, busVars
<1>27. CASE UNCHANGED vars
  BY <1>27
  DEF vars, Keeps, Down, Live, Up, Reading, Scanned, Held, Queued, agentVars, loopVars,
      drainVars, busVars
<1>28. QED
  BY <1>1, <1>2, <1>3, <1>4, <1>5, <1>6, <1>7, <1>8, <1>9, <1>10, <1>11, <1>12, <1>13, <1>14,
     <1>15, <1>16, <1>17, <1>18, <1>19, <1>20, <1>21, <1>22, <1>23, <1>24, <1>25, <1>26, <1>27
  DEF Next, LoopStep, AgentStep, DrainerStep

\* Only the daemon emits, only Insert and InsertFails take an event that was to be recorded, and
\* only Offer shows one: what the other steps leave alone.
LEMMA QuietStep ==
  ASSUME TypeOK, Shape, [Next]_vars, ~Emit, ~Connect,
         \A g \in Conns : ~Insert(g) /\ ~InsertFails(g),
         \A g \in Conns, s \in Subs : ~Offer(g, s)
  PROVE  emitted' = emitted /\ conn' = conn /\ table' = table /\ \A s \in Subs : Seen(s)' = Seen(s)
<1>1. conn' = conn /\ table' = table /\ \A s \in Subs : Seen(s)' = Seen(s)
  BY Moves, TableGrows, SeenGrows
<1>2. emitted' = emitted
  BY DEF Next, vars, LoopStep, AgentStep, DrainerStep, Fault, agentVars, loopVars, drainVars,
      busVars, AgentDies, Scan, Push, StreamEnds, Retry, Attach, ReaderReads,
      ReaderSends, ReaderEnds, ReaderCancelled, Forward, HandlerReturns, HandlerCancelled,
      Take, ReadLock, ReadUnlock, DrainerEnds, AskLock, Subscribe, Unsubscribe, Send
<1>3. QED
  BY <1>1, <1>2

\* What a drainer holds is the next event of its stream.
LEMMA HeldIsNext ==
  ASSUME TypeOK, Shape, NEW g \in Conns, Ordered(g), Bounded,
         drainer[g] \in {"locking", "publishing", "inserting"}
  PROVE  Delivery!IsNext(held[g], g)
<1>1. held[g] \in Live(g) /\ Held(g) = {held[g]}
  BY DEF Live, Down, Held
<1>2. /\ held[g] \in Down(g) /\ Live(g) \subseteq Down(g) \cup Up(g)
      /\ Down(g) \cup Up(g) \subseteq Nat
  <2>1. held[g] \in Down(g) /\ Live(g) \subseteq Down(g) \cup Up(g)
    BY <1>1 DEF Live, Down
  <2>2. Down(g) \cup Up(g) \subseteq 1..emitted
    BY DEF Bounded
  <2>3. QED
    BY <2>1, <2>2
<1>3. ASSUME NEW f \in Live(g) PROVE held[g] <= f
  <2>1. CASE f \in Held(g)
    BY <1>1, <1>2, <2>1
  <2>2. CASE f \in Queued(g)
    BY <1>1, <1>2, <2>2 DEF Ordered, Before, Down
  <2>3. CASE f \in Up(g)
    BY <1>1, <1>2, <2>3 DEF Ordered, Before
  <2>4. QED
    BY <1>2, <2>1, <2>2, <2>3 DEF Down
<1>4. QED
  BY <1>1, <1>3 DEF Delivery!IsNext

\* A sequence has an event when it is among its events.
LEMMA InItems == \A e, s : Delivery!IsIn(e, s) <=> e \in Items(s)
BY DEF Delivery!IsIn, Items

\* The daemon emits: a connection whose handler runs is the one the loop is at.
LEMMA EmitComes ==
  ASSUME TypeOK, Shape, Emit
  PROVE  Delivery!Emit
<1>1. /\ emitted' = emitted + 1 /\ emitted + 1 \in Events
      /\ UNCHANGED <<reader, readerEv, eventChan, handler, wire, conn, scan, evCh, drainer, held,
                     table, got, inbox>>
  BY Bounds DEF Emit, TypeOK, Events, loopVars, drainVars, busVars
<1>2. UNCHANGED [s \in Subs |-> Seen(s)]
  BY <1>1 DEF Seen
<1>3. \A h \in Conns : /\ Down(h)' = Down(h)
                       /\ Up(h)' = Up(h) \/ Up(h)' = Up(h) \cup {emitted + 1}
  <2> SUFFICES ASSUME NEW h \in Conns
               PROVE  /\ Down(h)' = Down(h)
                      /\ Up(h)' = Up(h) \/ Up(h)' = Up(h) \cup {emitted + 1}
    OBVIOUS
  <2>1. body'[h] = body[h] \/ body'[h] = Append(body[h], emitted + 1)
    BY DEF Emit
  <2>2. Items(body'[h]) = Items(body[h]) \/ Items(body'[h]) = Items(body[h]) \cup {emitted + 1}
    BY <1>1, <2>1, AppendItems DEF TypeOK
  <2>3. QED
    BY <1>1, <2>2 DEF Down, Up, Held, Queued, Scanned, Reading
<1>4. \A h \in Conns : /\ h # conn => Live(h)' = Live(h)
                       /\ Live(h)' = Live(h) \/ Live(h)' = Live(h) \cup {emitted + 1}
  <2>1. \A h \in Conns : h # conn => handler[h] # "running"
    BY Bounds, ConnsAndEvents DEF TypeOK, Shape
  <2>2. QED
    BY <1>1, <1>3, <2>1 DEF Live
<1>5. CASE \A h \in Conns : Live(h)' = Live(h)
  BY <1>1, <1>2, <1>5 DEF Delivery!Emit
<1>6. CASE ~(\A h \in Conns : Live(h)' = Live(h))
  <2>1. PICK c \in Conns : c = conn /\ Live(c)' = Live(c) \cup {emitted + 1}
    BY <1>4, <1>6
  <2>2. [h \in Conns |-> Live(h)]' = [[h \in Conns |-> Live(h)] EXCEPT ![c] = @ \cup {emitted + 1}]
    BY <1>4, <2>1
  <2>3. [h \in Conns |-> Live(h)]' =
          [[h \in Conns |-> Live(h)] EXCEPT ![conn] = @ \cup {emitted + 1}]
    BY <2>1, <2>2
  <2>4. QED
    BY <1>1, <1>2, <2>1, <2>3 DEF Delivery!Emit
<1>7. QED
  BY <1>5, <1>6

\* A step that is not about to record or show leaves what is coming as it is, or breaks a stream.
LEMMA QuietBreaks ==
  ASSUME TypeOK, Shape, Bounded, \A g \in Conns : Ordered(g), [Next]_vars, ~Emit, ~Connect,
         \A g \in Conns : ~Insert(g) /\ ~InsertFails(g),
         \A g \in Conns, s \in Subs : ~Offer(g, s)
  PROVE  Delivery!Break \/ UNCHANGED Delivery!deliveryVars
<1>1. /\ emitted' = emitted /\ conn' = conn /\ table' = table
      /\ UNCHANGED [s \in Subs |-> Seen(s)]
  BY QuietStep
<1>2. \A h \in Conns : Live(h)' \subseteq Live(h)
  BY <1>1, FlowStep DEF Flows, Fresh
<1>3. \A h \in Conns : handler[h] = "running" => h = conn
  BY Bounds, ConnsAndEvents DEF TypeOK, Shape
<1>4. \A h \in Conns : h # conn => Live(h)' = Live(h)
  BY <1>2, <1>3, KeepStep DEF Keeps
<1>5. CASE \A h \in Conns : Live(h)' = Live(h)
  <2>1. UNCHANGED [h \in Conns |-> Live(h)]
    BY <1>5
  <2>2. QED
    BY <1>1, <2>1 DEF Delivery!deliveryVars
<1>6. CASE ~(\A h \in Conns : Live(h)' = Live(h))
  <2>1. PICK c \in Conns : Live(c)' # Live(c)
    BY <1>6
  <2>2. /\ c = conn /\ handler[c] = "running"
        /\ \/ Live(c)' = Down(c)
           \/ Live(c)' = Down(c) \cup Items(eventChan[c]) /\ Reading(c) = {}
    BY <1>2, <1>4, <2>1, KeepStep DEF Keeps
  <2>3. Live(c) = Down(c) \cup Items(eventChan[c]) \cup Reading(c) \cup Items(body[c])
    BY <2>2 DEF Live, Up
  <2>4. \A e \in Live(c)' : \A f \in Live(c) \ Live(c)' : e < f
    BY <2>2, <2>3 DEF Ordered, Before, Up
  <2>5. [h \in Conns |-> Live(h)]' = [[h \in Conns |-> Live(h)] EXCEPT ![conn] = Live(c)']
    BY <1>4, <2>1, <2>2
  <2>6. Live(c)' \in SUBSET [h \in Conns |-> Live(h)][conn]
    BY <1>2, <2>2
  <2>7. [h \in Conns |-> Live(h)][conn] = Live(c)
    BY <2>2
  <2>8. QED
    BY <1>1, <2>2, <2>4, <2>5, <2>6, <2>7 DEF Delivery!Break
<1>7. QED
  BY <1>5, <1>6

\* An event that is inserted, or fails to be, is the next of its stream and no longer comes.
LEMMA DrainerRecords ==
  ASSUME TypeOK, Shape, Bounded, Apart, Once, \A h \in Conns : Ordered(h), [Next]_vars,
         NEW g \in Conns, Insert(g) \/ InsertFails(g)
  PROVE  Delivery!Record(held[g], g) \/ Delivery!Skip(held[g], g)
<1>0. drainer[g] = "inserting"
  BY DEF Insert, InsertFails
<1>1. UNCHANGED <<emitted, conn, body, reader, readerEv, eventChan, handler, wire, scan, evCh, held,
                  got, inbox>>
  BY DEF Insert, InsertFails, agentVars, loopVars, busVars
<1>2. UNCHANGED [s \in Subs |-> Seen(s)]
  BY <1>1 DEF Seen
<1>3. /\ held[g] \in Events /\ held[g] \in Live(g) /\ Delivery!IsNext(held[g], g)
  BY <1>0, HeldAlone, HeldIsNext
<1>4. ASSUME NEW h \in Conns, h # g PROVE Live(h)' = Live(h)
  <2>1. drainer'[h] = drainer[h]
    BY <1>4 DEF Insert, InsertFails, TypeOK
  <2>2. QED
    BY <1>1, <2>1 DEF Live, Down, Up, Held, Queued, Scanned, Reading
<1>5. Live(g)' = Live(g) \ {held[g]}
  <2>1. drainer'[g] = "waiting"
    BY DEF Insert, InsertFails, TypeOK
  <2>2. /\ Held(g)' = {} /\ Held(g) = {held[g]} /\ Queued(g)' = Queued(g) /\ Up(g)' = Up(g)
        /\ handler' = handler
    BY <1>0, <1>1, <2>1 DEF Held, Queued, Up, Scanned, Reading
  <2>3. held[g] \notin Queued(g) \cup Up(g)
    <3>1. Before({held[g]}, Queued(g) \cup Up(g))
      BY <2>2 DEF Ordered, Before, Down
    <3>2. held[g] \in Nat
      BY <1>3, ConnsAndEvents
    <3>3. QED
      BY <3>1, <3>2 DEF Before
  <2>4. QED
    BY <2>2, <2>3 DEF Live, Down
<1>6. [h \in Conns |-> Live(h)]' = [[h \in Conns |-> Live(h)] EXCEPT ![g] = @ \ {held[g]}]
  BY <1>4, <1>5
<1>7. CASE Insert(g)
  <2>1. table' = Append(table, held[g])
    BY <1>7 DEF Insert
  <2>2. ~Delivery!IsIn(held[g], table)
    BY <1>3, InItems DEF Once
  <2>3. QED
    BY <1>1, <1>2, <1>3, <1>6, <2>1, <2>2 DEF Delivery!Record
<1>8. CASE InsertFails(g)
  <2>1. table' = table
    BY <1>8 DEF InsertFails
  <2>2. QED
    BY <1>1, <1>2, <1>3, <1>6, <2>1 DEF Delivery!Skip
<1>9. QED
  BY <1>7, <1>8

\* An event that is offered is the next of its stream, and new to whoever has room for it.
LEMMA OfferShows ==
  ASSUME TypeOK, Shape, Bounded, Apart, Once, \A h \in Conns : Ordered(h), [Next]_vars,
         NEW g \in Conns, NEW s \in Subs, Offer(g, s)
  PROVE  Delivery!Show(held[g], g, s) \/ UNCHANGED Delivery!deliveryVars
<1>0. drainer[g] = "publishing" /\ Offered(g, s) = {}
  BY OfferMarks DEF Offer
<1>1. UNCHANGED <<emitted, conn, body, reader, readerEv, eventChan, handler, wire, scan, evCh, held,
                  drainer, got, table>>
  BY DEF Offer, agentVars, loopVars
<1>2. \A h \in Conns : Live(h)' = Live(h)
  BY <1>1 DEF Live, Down, Up, Held, Queued, Scanned, Reading
<1>3. UNCHANGED [h \in Conns |-> Live(h)]
  BY <1>2
<1>4. /\ held[g] \in Events /\ held[g] \in Live(g) /\ Delivery!IsNext(held[g], g)
  BY <1>0, HeldAlone, HeldIsNext
<1>5. ASSUME NEW t \in Subs, t # s PROVE Seen(t)' = Seen(t)
  <2>1. inbox'[t] = inbox[t]
    BY <1>5 DEF Offer, TypeOK
  <2>2. QED
    BY <1>1, <2>1 DEF Seen
<1>6. CASE Len(inbox[s]) < InboxCap
  <2>1. inbox'[s] = Append(inbox[s], held[g])
    BY <1>6 DEF Offer, TypeOK
  <2>2. Seen(s)' = Append(Seen(s), held[g])
    <3>1. got[s] \in Seq(Events) /\ inbox[s] \in Seq(Events)
      BY DEF TypeOK
    <3>2. got[s] \o Append(inbox[s], held[g]) = Append(got[s] \o inbox[s], held[g])
      BY <1>4, <3>1, SeenAppend
    <3>3. QED
      BY <1>1, <2>1, <3>2 DEF Seen
  <2>3. [t \in Subs |-> Seen(t)]' = [[t \in Subs |-> Seen(t)] EXCEPT ![s] = Append(@, held[g])]
    BY <1>5, <2>2
  <2>4. ~Delivery!IsIn(held[g], Seen(s))
    BY <1>0, <1>4, InItems DEF Once
  <2>5. Delivery!IsIn(held[g], [t \in Subs |-> Seen(t)][s]) <=> Delivery!IsIn(held[g], Seen(s))
    OBVIOUS
  <2>6. QED
    BY <1>1, <1>3, <1>4, <2>3, <2>4, <2>5 DEF Delivery!Show
<1>7. CASE ~(Len(inbox[s]) < InboxCap)
  <2>1. inbox'[s] = inbox[s]
    BY <1>7 DEF Offer, TypeOK
  <2>2. UNCHANGED [t \in Subs |-> Seen(t)]
    BY <1>1, <1>5, <2>1 DEF Seen
  <2>3. QED
    BY <1>1, <1>3, <2>2 DEF Delivery!deliveryVars
<1>8. QED
  BY <1>6, <1>7

\* EventPipeline implements EventDelivery: however connections overlap, channels fill up and the
\* agent, the daemon and the database fail, every step emits, loses, shows or records an event as
\* promised, or changes nothing that can be seen (main.go:233-249, bus.go:41-50).
THEOREM ImplementsDelivery == Spec => DeliverySpec
<1>1. Init => Delivery!Init
  <2> SUFFICES ASSUME Init PROVE Delivery!Init
    OBVIOUS
  <2>1. \A g \in Conns : Live(g) = {}
    BY NoItems DEF Init, Live, Down, Up, Held, Queued, Scanned, Reading
  <2>2. \A s \in Subs : Seen(s) = <<>>
    BY DEF Init, Seen
  <2>3. QED
    BY <2>1, <2>2 DEF Init, Delivery!Init
<1>2. IInv /\ [Next]_vars => [Delivery!Next]_(Delivery!deliveryVars)
  <2> SUFFICES ASSUME IInv, [Next]_vars
               PROVE  Delivery!Next \/ UNCHANGED Delivery!deliveryVars
    BY DEF Delivery!deliveryVars
  <2>0. /\ TypeOK /\ Shape /\ Bounded /\ Apart /\ Once /\ \A g \in Conns : Ordered(g)
    BY DEF IInv
  <2>1. CASE Emit
    BY <2>0, <2>1, EmitComes DEF Delivery!Next
  <2>2. CASE Connect
    <3>1. /\ conn' = conn + 1 /\ conn' \in Conns /\ UNCHANGED <<emitted, table, got, inbox>>
          /\ conn \notin Conns \/ handler[conn] = "returned"
      BY <2>0, <2>2, Bounds DEF Connect, TypeOK, Conns, Shape, busVars
    <3>2. ASSUME NEW h \in Conns PROVE Live(h)' = Live(h)
      <4>1. Live(h)' \subseteq Live(h)
        BY <2>0, <3>1, FlowStep DEF Flows, Fresh
      <4>2. handler[h] # "running"
        <5>1. h < conn \/ h = conn \/ h > conn
          BY <2>0, Bounds, ConnsAndEvents DEF TypeOK
        <5>2. loop # "streaming"
          BY <2>2 DEF Connect
        <5>3. QED
          BY <2>0, <5>1, <5>2 DEF Shape
      <4>3. ~Insert(h) /\ ~InsertFails(h)
        <5>1. loop' # loop
          BY <2>2 DEF Connect
        <5>2. QED
          BY <5>1 DEF Insert, InsertFails, loopVars
      <4>4. QED
        BY <2>0, <4>1, <4>2, <4>3, KeepStep DEF Keeps
    <3>3. UNCHANGED <<[h \in Conns |-> Live(h)], [s \in Subs |-> Seen(s)]>>
      BY <3>1, <3>2 DEF Seen
    <3>4. Delivery!Open
      BY <3>1, <3>3 DEF Delivery!Open
    <3>5. QED
      BY <3>4 DEF Delivery!Next
  <2>3. ASSUME NEW g \in Conns, Insert(g) \/ InsertFails(g)
        PROVE  Delivery!Next
    <3>1. held[g] \in Live(g)
      BY <2>0, <2>3, HeldAlone DEF Insert, InsertFails
    <3>2. held[g] \in [h \in Conns |-> Live(h)][g]
      BY <3>1
    <3>3. Delivery!Record(held[g], g) \/ Delivery!Skip(held[g], g)
      BY <2>0, <2>3, DrainerRecords
    <3>4. QED
      BY <3>2, <3>3 DEF Delivery!Next
  <2>4. ASSUME NEW g \in Conns, NEW s \in Subs, Offer(g, s)
        PROVE  Delivery!Next \/ UNCHANGED Delivery!deliveryVars
    <3>1. held[g] \in Live(g)
      BY <2>0, <2>4, HeldAlone DEF Offer
    <3>2. held[g] \in [h \in Conns |-> Live(h)][g]
      BY <3>1
    <3>3. Delivery!Show(held[g], g, s) \/ UNCHANGED Delivery!deliveryVars
      BY <2>0, <2>4, OfferShows
    <3>4. QED
      BY <3>2, <3>3 DEF Delivery!Next
  <2>5. CASE /\ ~Emit /\ ~Connect
             /\ \A g \in Conns : ~Insert(g) /\ ~InsertFails(g)
             /\ \A g \in Conns, s \in Subs : ~Offer(g, s)
    BY <2>0, <2>5, QuietBreaks DEF Delivery!Next
  <2>6. QED
    BY <2>1, <2>2, <2>3, <2>4, <2>5
<1>3. QED
  BY Invariant, <1>1, <1>2, PTL DEF Spec, DeliverySpec, Delivery!Spec
-----------------------------------------------------------------------------
(* The mutex of the bus, and a reader nobody waits for *)

\* The steps of the agent and of the loop leave the mutex alone.
LEMMA MutexAside ==
  ASSUME [Next]_vars, ~Connect, \A g \in Conns : ~DrainerStep(g),
         \A s \in Subs : ~AskLock(s) /\ ~Subscribe(s) /\ ~Unsubscribe(s)
  PROVE  UNCHANGED <<drainer, readers, sse, pending>>
BY DEF Next, vars, LoopStep, AgentStep, agentVars, loopVars, drainVars, busVars,
       Emit, AgentDies, Scan, Push, StreamEnds, Retry, Attach, ReaderReads, ReaderSends,
       ReaderEnds, ReaderCancelled, Forward, HandlerReturns, HandlerCancelled, Send

\* Who holds the mutex and who waits for it.
LEMMA BusMutexStep == TypeOK /\ Shape /\ BusMutex /\ [Next]_vars => BusMutex'
<1> SUFFICES ASSUME TypeOK, Shape, BusMutex, [Next]_vars PROVE BusMutex'
  OBVIOUS
<1>1. CASE Connect
  <2>1. conn' \in Conns /\ conn' > conn
    BY <1>1, Bounds DEF Connect, TypeOK, Conns
  <2>2. drainer[conn'] = "none"
    BY <2>1 DEF Shape
  <2>3. drainer' = [drainer EXCEPT ![conn'] = "waiting"] /\ UNCHANGED <<readers, sse, pending>>
    BY <1>1 DEF Connect, busVars
  <2>4. \A g \in Conns : drainer'[g] = "publishing" <=> drainer[g] = "publishing"
    BY <2>1, <2>2, <2>3 DEF TypeOK
  <2>5. QED
    BY <2>3, <2>4 DEF BusMutex
<1>2. ASSUME NEW g \in Conns, DrainerStep(g) PROVE BusMutex'
  <2>1. CASE ReadLock(g)
    <3>1. /\ readers' = readers \cup {g} /\ UNCHANGED <<sse, pending>>
          /\ \A h \in Conns : drainer'[h] = "publishing" <=> drainer[h] = "publishing" \/ h = g
      BY <2>1 DEF ReadLock, TypeOK
    <3>2. QED
      BY <3>1 DEF BusMutex
  <2>2. CASE ReadUnlock(g)
    <3>1. /\ readers' = readers \ {g} /\ UNCHANGED <<sse, pending>>
          /\ \A h \in Conns : drainer'[h] = "publishing" <=> drainer[h] = "publishing" /\ h # g
      BY <2>2 DEF ReadUnlock, TypeOK
    <3>2. QED
      BY <3>1 DEF BusMutex
  <2>3. CASE \/ Take(g) \/ \E s \in Subs : Offer(g, s)
             \/ Insert(g) \/ InsertFails(g) \/ DrainerEnds(g)
    <3>1. /\ UNCHANGED <<readers, sse, pending>>
          /\ \A h \in Conns : drainer'[h] = "publishing" <=> drainer[h] = "publishing"
      BY <2>3 DEF Take, Offer, Insert, InsertFails, DrainerEnds, TypeOK, busVars
    <3>2. QED
      BY <3>1 DEF BusMutex
  <2>4. QED
    BY <1>2, <2>1, <2>2, <2>3 DEF DrainerStep
<1>3. ASSUME NEW s \in Subs, AskLock(s) \/ Subscribe(s) \/ Unsubscribe(s) PROVE BusMutex'
  <2>1. UNCHANGED <<drainer, readers>>
    BY <1>3 DEF AskLock, Subscribe, Unsubscribe, drainVars
  <2>2. pending' = {t \in Subs : sse'[t] \in {"joining", "leaving"}}
    <3>1. CASE AskLock(s)
      BY <3>1 DEF AskLock, BusMutex, TypeOK
    <3>2. CASE Subscribe(s) \/ Unsubscribe(s)
      BY <3>2 DEF Subscribe, Unsubscribe, BusMutex, TypeOK
    <3>3. QED
      BY <1>3, <3>1, <3>2
  <2>3. QED
    BY <2>1, <2>2 DEF BusMutex
<1>4. CASE /\ ~Connect /\ \A g \in Conns : ~DrainerStep(g)
           /\ \A s \in Subs : ~AskLock(s) /\ ~Subscribe(s) /\ ~Unsubscribe(s)
  BY <1>4, MutexAside DEF BusMutex
<1>5. QED
  BY <1>1, <1>2, <1>3, <1>4

\* Bus.mu is held by those who publish and waited for by those who join or leave, and by nobody
\* else: who waits for it waits for drainers that wait for nothing (bus.go:29-50).
THEOREM BusIsNeverStuck == Spec => []BusMutex
<1>1. Init => BusMutex
  BY DEF Init, BusMutex
<1>2. IInv /\ BusMutex /\ [Next]_vars => BusMutex'
  BY BusMutexStep DEF IInv
<1>3. QED
  BY <1>1, <1>2, Invariant, PTL DEF Spec

\* The drainers and the clients leave the agent alone.
LEMMA AgentAside ==
  ASSUME [Next]_vars, ~Connect, ~AgentDies, \A g \in Conns : ~AgentStep(g)
  PROVE  UNCHANGED <<reader, handler, eventChan>>
BY DEF Next, vars, LoopStep, DrainerStep, agentVars, loopVars, drainVars, busVars, Emit, Scan, Push,
       StreamEnds, Retry, Take, ReadLock, Offer, ReadUnlock, Insert, InsertFails, DrainerEnds,
       AskLock, Subscribe, Unsubscribe, Send

\* A reader that waits for room when its handler has returned waits until the agent ends: the
\* goroutine and its connection to the daemon are not given up (client.go:949).
THEOREM ReaderLeaks == Spec => StuckReaderStays
<1>1. IInv /\ [Next]_vars => \A g \in Conns : StuckReader(g) => StuckReader(g)' \/ AgentDies
  <2> SUFFICES ASSUME IInv, [Next]_vars, NEW g \in Conns, StuckReader(g), ~AgentDies
               PROVE  StuckReader(g)'
    OBVIOUS
  <2>0. /\ TypeOK /\ Shape
        /\ reader[g] = "sending" /\ handler[g] = "returned" /\ Len(eventChan[g]) = ChanCap
        /\ ChanCap \in Nat
    BY Bounds DEF IInv, StuckReader
  <2>1. CASE Connect
    <3>1. conn' \in Conns /\ conn' > conn
      BY <2>0, <2>1, Bounds DEF Connect, TypeOK, Conns
    <3>2. g # conn'
      BY <2>0, <3>1 DEF Shape
    <3>3. UNCHANGED <<reader[g], handler[g], eventChan>>
      BY <2>0, <2>1, <3>1, <3>2 DEF Connect, TypeOK
    <3>4. QED
      BY <2>0, <3>3 DEF StuckReader
  <2>2. ASSUME NEW h \in Conns, AgentStep(h)
        PROVE  StuckReader(g)'
    <3>1. UNCHANGED <<reader[g], handler[g], eventChan[g]>>
      BY <2>0, <2>2
      DEF AgentStep, Attach, ReaderReads, ReaderSends, ReaderEnds, ReaderCancelled, Forward,
          HandlerReturns, HandlerCancelled, TypeOK
    <3>2. QED
      BY <2>0, <3>1 DEF StuckReader
  <2>3. CASE ~Connect /\ \A h \in Conns : ~AgentStep(h)
    BY <2>3, AgentAside DEF StuckReader
  <2>4. QED
    BY <2>1, <2>2, <2>3
<1>2. QED
  BY <1>1, Invariant, PTL DEF Spec, StuckReaderStays
=============================================================================
