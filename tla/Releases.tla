------------------------------ MODULE Releases ------------------------------
(***************************************************************************)
(* What deployments do to a host, without the script, its lock, its traps  *)
(* and its failures.  Three files name a pair of images each: the one that *)
(* is to run, the active one and the one before.  A pair is to run or      *)
(* active only while both its images are there, an active pair was running *)
(* on every service when it became active, and the one that it replaced    *)
(* was saved before.  The pair before may lose its images, and a file that *)
(* could not be written its pair.                                          *)
(***************************************************************************)

CONSTANTS
  Pairs,     \* the builds
  NoPair,    \* a file that does not exist, or is empty
  Services   \* what runs one image of a pair each

VARIABLES
  configured,  \* the pair that is to run
  active,      \* the one that was deployed last
  previous,    \* the one before
  stock,       \* the pairs whose images are all on the host
  running      \* running[s]: the pair that service s was made from

releaseVars == <<configured, active, previous, stock, running>>

Init ==
  /\ configured = NoPair
  /\ active = NoPair
  /\ previous = NoPair
  /\ stock = {}
  /\ running = [s \in Services |-> NoPair]

\* A pair's images are there.
Stock(p) ==
  /\ stock' = stock \cup {p}
  /\ UNCHANGED <<configured, active, previous, running>>

\* A pair is to run, which is there; or none is.
Configure(p) ==
  /\ p \in stock \cup {NoPair}
  /\ configured' = p
  /\ UNCHANGED <<active, previous, stock, running>>

\* Some services are made anew from the pair that is to run.
Start(some) ==
  /\ configured \in stock
  /\ running' = [s \in Services |-> IF s \in some THEN configured ELSE running[s]]
  /\ UNCHANGED <<configured, active, previous, stock>>

\* The active pair is remembered.
Save ==
  /\ active # NoPair
  /\ previous' = active
  /\ UNCHANGED <<configured, active, stock, running>>

\* The pair that is to run becomes active: it runs, and the one it replaces is saved.
Promote ==
  /\ configured \in stock
  /\ \A s \in Services : running[s] = configured
  /\ active \in {NoPair, previous}
  /\ active' = configured
  /\ UNCHANGED <<configured, previous, stock, running>>

\* The pair before is lost, ...
ForgetPrevious ==
  /\ previous' = NoPair
  /\ UNCHANGED <<configured, active, stock, running>>

\* ... or the active one, which is saved.
ForgetActive ==
  /\ active \in {NoPair, previous}
  /\ active' = NoPair
  /\ UNCHANGED <<configured, previous, stock, running>>

\* Images are removed, of pairs that are neither to run nor active.
Prune(pruned) ==
  /\ pruned \cap {configured, active} = {}
  /\ stock' = stock \ pruned
  /\ UNCHANGED <<configured, active, previous, running>>

Next ==
  \/ \E p \in Pairs : Stock(p)
  \/ \E p \in Pairs \cup {NoPair} : Configure(p)
  \/ \E some \in SUBSET Services : Start(some)
  \/ Save
  \/ Promote
  \/ ForgetPrevious \/ ForgetActive
  \/ \E pruned \in SUBSET Pairs : Prune(pruned)

Spec == Init /\ [][Next]_releaseVars
=============================================================================
