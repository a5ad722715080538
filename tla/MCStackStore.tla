---------------------------- MODULE MCStackStore ----------------------------
(***************************************************************************)
(* StackStore on small instances.                                          *)
(***************************************************************************)
EXTENDS StackStore, TLC

CONSTANTS n1, n2

\* The clock hands out one id, that of a discovered stack n2.
ClashingIds == {DiscoveredId(n2)}

\* The slots of requests are interchangeable.
Symmetry == Permutations(Reqs)

\* What follows a mishap is of no interest to the properties that excuse it.
NoMishap == mishaps = {}

\* Stack n2 is created while every other request is a create, and nothing follows but creates.
SecondNameIsCreated ==
  /\ disk[n2] = NoContent
  /\ \A r \in Reqs : key[r] # n2
  /\ (\E i \in FreshIds : <<i, n2>> \in issued) => \A r \in Reqs : op[r] \in {"none", "create"}

\* A delete beside those that write rows only.
DeletesMeetWriters ==
  \A p, r \in Reqs :
    op[p] = "delete" /\ p # r => op[r] \in {"none", "create", "update", "delete"}

\* The key of a request matters until its stack is found, and again to a delete.
KeyMatters(r) == op[r] = "delete" \/ pc[r] \in {"listing", "listed", "syncing"}
\* The content of a handler's copy matters where it is going to be written: to the table by a
\* list or the import, to the disk by a job.  The others write the content of the request.
ContentMatters(r) ==
  \/ pc[r] = "writing"
  \/ op[r] = "job" /\ pc[r] \in {"syncing", "found", "locked"}
Copies ==
  [r \in Procs |-> IF ContentMatters(r) THEN st[r] ELSE [st[r] EXCEPT !.content = NoContent]]
View ==
  <<rows, revisions, issued, disk, deployed, locks, op, pc, Copies, new, todo, mishaps,
    [r \in Procs |-> IF KeyMatters(r) THEN key[r] ELSE NoId]>>
=============================================================================
