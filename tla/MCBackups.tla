----------------------------- MODULE MCBackups -----------------------------
(***************************************************************************)
(* Backups on small instances.                                             *)
(***************************************************************************)
EXTENDS Backups, TLC

\* The slots of requests are interchangeable.
Symmetry == Permutations(Reqs)

\* Nothing reads the content of an archive again: what counts is whether it is right.  Nor
\* does anything read the mishaps: what counts is which properties they excuse.
Shelf ==
  [n \in 1..LastSecond |->
     IF Whole(n)
     THEN <<archives[n].key, RightDefinitions(archives[n]), RightImage(archives[n])>>
     ELSE archives[n]]
Excuses ==
  <<mishaps \cap {"key_unreadable", "same_second"} = {},
    mishaps \cap {"checkpoint_read", "checkpoint_cut"} = {}>>
View == <<database, secrets, second, Shelf, promised, pc, part, Excuses>>
=============================================================================
