--------------------------- MODULE EventDelivery ---------------------------
(***************************************************************************)
(* What becomes of the daemon's events, without the agent, the channels,   *)
(* the goroutines and the mutex of the bus.                                *)
(*                                                                         *)
(* The core reads one stream after another.  An event comes over one       *)
(* stream at most, and those of a stream are taken in the order in which   *)
(* they were emitted, whatever happens to other streams: the oldest is     *)
(* shown to subscribers, to each at most once, and then recorded, once.    *)
(* A stream that breaks loses its latest events, and one that cannot be    *)
(* recorded is lost after it was shown; no other event is passed over.     *)
(***************************************************************************)
EXTENDS Naturals, Sequences

CONSTANTS
  Streams,  \* the numbers of the streams
  Subs      \* those who may see events

VARIABLES
  emitted,   \* how many events the daemon has emitted
  stream,    \* the stream that is read, 0 before the first
  coming,    \* coming[g]: events on their way over stream g
  shown,     \* shown[s]: what subscriber s has been given
  recorded   \* what has been recorded

deliveryVars == <<emitted, stream, coming, shown, recorded>>

IsIn(e, seq) == \E i \in 1..Len(seq) : seq[i] = e

\* e is the next event of stream g.
IsNext(e, g) == e \in coming[g] /\ \A f \in coming[g] : e <= f

Init ==
  /\ emitted = 0
  /\ stream = 0
  /\ coming = [g \in Streams |-> {}]
  /\ shown = [s \in Subs |-> <<>>]
  /\ recorded = <<>>

\* The daemon emits an event, which comes over the stream or is missed.
Emit ==
  /\ emitted' = emitted + 1
  /\ \/ stream \in Streams /\ coming' = [coming EXCEPT ![stream] = @ \cup {emitted + 1}]
     \/ UNCHANGED coming
  /\ UNCHANGED <<stream, shown, recorded>>

\* The next stream is opened.  What comes over the last one still does.
Open ==
  /\ stream' = stream + 1
  /\ stream' \in Streams
  /\ UNCHANGED <<emitted, coming, shown, recorded>>

\* The stream that is read breaks: some of its events are lost, the latest.
Break ==
  /\ stream \in Streams
  /\ \E kept \in SUBSET coming[stream] :
       /\ \A e \in kept : \A f \in coming[stream] \ kept : e < f
       /\ coming' = [coming EXCEPT ![stream] = kept]
  /\ UNCHANGED <<emitted, stream, shown, recorded>>

\* The next event of a stream is shown to someone who has not seen it.
Show(e, g, s) ==
  /\ IsNext(e, g)
  /\ ~IsIn(e, shown[s])
  /\ shown' = [shown EXCEPT ![s] = Append(@, e)]
  /\ UNCHANGED <<emitted, stream, coming, recorded>>

\* It is recorded: nobody will be shown it any more.
Record(e, g) ==
  /\ IsNext(e, g)
  /\ ~IsIn(e, recorded)
  /\ coming' = [coming EXCEPT ![g] = @ \ {e}]
  /\ recorded' = Append(recorded, e)
  /\ UNCHANGED <<emitted, stream, shown>>

\* Recording fails.
Skip(e, g) ==
  /\ IsNext(e, g)
  /\ coming' = [coming EXCEPT ![g] = @ \ {e}]
  /\ UNCHANGED <<emitted, stream, shown, recorded>>

Next ==
  \/ Emit
  \/ Open
  \/ Break
  \/ \E g \in Streams : \E e \in coming[g] :
       (\E s \in Subs : Show(e, g, s)) \/ Record(e, g) \/ Skip(e, g)

Spec == Init /\ [][Next]_deliveryVars
=============================================================================
