----------------------------- MODULE JobLedger -----------------------------
(***************************************************************************)
(* What the job subsystem promises, without goroutines, requests or the    *)
(* agent: a stack has at most one owning job, a job owns a stack at most   *)
(* once in its life, and the ledger entry of a job is written only by that *)
(* job while it owns its stack.  A restart of panel-core forgets every     *)
(* owner and leaves the ledger as it is.                                   *)
(***************************************************************************)

CONSTANTS Stacks,   \* ids of the stacks that are locked
          Jobs,     \* ids of the jobs
          NoJob     \* the owner of a free stack

VARIABLES owner,    \* owner[s]: the job that owns stack s, or NoJob
          used,     \* the jobs that have been submitted so far
          ledger    \* ledger[j]: the entry of job j

ledgerVars == <<owner, used, ledger>>

Verdicts == {"completed", "failed"}

Init ==
  /\ owner = [s \in Stacks |-> NoJob]
  /\ used = {}
  /\ ledger = [j \in Jobs |-> "absent"]

\* A job that was never used takes a free stack.
Acquire(j, s) ==
  /\ owner[s] = NoJob
  /\ j \notin used
  /\ owner' = [owner EXCEPT ![s] = j]
  /\ used' = used \cup {j}
  /\ UNCHANGED ledger

\* The owner enters itself in the ledger.
Enter(j, s) ==
  /\ owner[s] = j
  /\ ledger[j] = "absent"
  /\ ledger' = [ledger EXCEPT ![j] = "running"]
  /\ UNCHANGED <<owner, used>>

\* The owner records how it ended.
Settle(j, s) ==
  /\ owner[s] = j
  /\ ledger[j] = "running"
  /\ \E v \in Verdicts : ledger' = [ledger EXCEPT ![j] = v]
  /\ UNCHANGED <<owner, used>>

\* The owner gives its stack up.
Release(j, s) ==
  /\ owner[s] = j
  /\ owner' = [owner EXCEPT ![s] = NoJob]
  /\ UNCHANGED <<used, ledger>>

\* Every owner is forgotten at once; an entry that said running keeps saying so.
Forget ==
  /\ owner' = [s \in Stacks |-> NoJob]
  /\ UNCHANGED <<used, ledger>>

Next ==
  \/ \E j \in Jobs, s \in Stacks :
       Acquire(j, s) \/ Enter(j, s) \/ Settle(j, s) \/ Release(j, s)
  \/ Forget

Spec == Init /\ [][Next]_ledgerVars
=============================================================================
