----------------------------- MODULE FreshReads -----------------------------
(***************************************************************************)
(* What a reader of the storage snapshot is promised, without the cache,   *)
(* the mutex and the calls of a measurement: there could as well be one    *)
(* value that every read takes at one moment between its question and its  *)
(* answer.  A read that is asked for after somebody knew of a change, from *)
(* an acknowledgement or from an earlier answer, shows that change.        *)
(***************************************************************************)
EXTENDS Naturals

CONSTANTS
  Clients  \* those who read

VARIABLES
  changes,  \* how many changes were made
  known,    \* the newest that somebody knows of
  reading,  \* where the read of each client is: idle, asking or answered
  floor,    \* the newest change that was known when it was asked for
  version   \* the newest change that its answer shows

readVars == <<changes, known, reading, floor, version>>

\* The newer of two changes.
Newer(m, n) == IF m > n THEN m ELSE n

Init ==
  /\ changes = 0
  /\ known = 0
  /\ reading = [r \in Clients |-> "idle"]
  /\ floor = [r \in Clients |-> 0]
  /\ version = [r \in Clients |-> 0]

Change ==
  /\ changes' = changes + 1
  /\ UNCHANGED <<known, reading, floor, version>>

\* Whoever made change n is told that it was made.
Acknowledge ==
  /\ \E n \in 0..changes : known' = Newer(n, known)
  /\ UNCHANGED <<changes, reading, floor, version>>

Ask(r) ==
  /\ reading[r] = "idle"
  /\ reading' = [reading EXCEPT ![r] = "asking"]
  /\ floor' = [floor EXCEPT ![r] = known]
  /\ UNCHANGED <<changes, known, version>>

Answer(r) ==
  /\ reading[r] = "asking"
  /\ reading' = [reading EXCEPT ![r] = "answered"]
  /\ \E n \in floor[r]..changes : version' = [version EXCEPT ![r] = n]
  /\ UNCHANGED <<changes, known, floor>>

\* The read of client r is over.
End(r) ==
  /\ reading' = [reading EXCEPT ![r] = "idle"]
  /\ floor' = [floor EXCEPT ![r] = 0]
  /\ version' = [version EXCEPT ![r] = 0]

\* The client has the answer.
Receive(r) ==
  /\ reading[r] = "answered"
  /\ known' = Newer(version[r], known)
  /\ End(r)
  /\ UNCHANGED changes

\* There is no answer.
Fail(r) ==
  /\ reading[r] = "asking"
  /\ End(r)
  /\ UNCHANGED <<changes, known>>

\* Every read is lost; what clients know is not.
Forget ==
  /\ reading' = [r \in Clients |-> "idle"]
  /\ floor' = [r \in Clients |-> 0]
  /\ version' = [r \in Clients |-> 0]
  /\ UNCHANGED <<changes, known>>

Next ==
  \/ Change \/ Acknowledge \/ Forget
  \/ \E r \in Clients : Ask(r) \/ Answer(r) \/ Receive(r) \/ Fail(r)

Spec == Init /\ [][Next]_readVars
=============================================================================
