--------------------------- MODULE StackRegistry ---------------------------
(***************************************************************************)
(* What the tables promise about ids, without handlers, copies and the     *)
(* agent: a stack is registered under an id that was made for it and that  *)
(* no other registered stack has, it keeps that id until it is removed,    *)
(* and the history holds revisions of registered stacks only.              *)
(***************************************************************************)

CONSTANTS
  Names,  \* names of stacks
  Ids,    \* ids of stacks
  Texts,  \* what a revision may hold
  NoId

VARIABLES
  meant,    \* pairs of an id and a name that it was made for
  ids,      \* ids[n]: the id that stack n is registered under, NoId if it is not
  history   \* pairs of an id and a text

registryVars == <<meant, ids, history>>

Init ==
  /\ meant \subseteq Ids \X Names
  /\ ids = [n \in Names |-> NoId]
  /\ history = {}

\* An id is made for stack n, perhaps one that was made before.
Issue(n, i) ==
  /\ meant' = meant \cup {<<i, n>>}
  /\ UNCHANGED <<ids, history>>

\* Stack n is registered under an id that is meant for it and free.
Register(n, i) ==
  /\ ids[n] = NoId
  /\ <<i, n>> \in meant
  /\ \A m \in Names : ids[m] # i
  /\ ids' = [ids EXCEPT ![n] = i]
  /\ UNCHANGED <<meant, history>>

\* A text enters the history of a registered stack.
Record(n, c) ==
  /\ ids[n] \in Ids
  /\ history' = history \cup {<<ids[n], c>>}
  /\ UNCHANGED <<meant, ids>>

\* Stack n goes, and its history with it.
Remove(n) ==
  /\ ids[n] \in Ids
  /\ ids' = [ids EXCEPT ![n] = NoId]
  /\ history' = {v \in history : v[1] # ids[n]}
  /\ UNCHANGED meant

Next ==
  \E n \in Names :
    \/ \E i \in Ids : Issue(n, i) \/ Register(n, i)
    \/ \E c \in Texts : Record(n, c)
    \/ Remove(n)

Spec == Init /\ [][Next]_registryVars
=============================================================================
