------------------------- MODULE MCStorageSnapshot -------------------------
(***************************************************************************)
(* StorageSnapshot with two stacks of one container each that mount the    *)
(* same volume.                                                            *)
(***************************************************************************)
EXTENDS StorageSnapshot, TLC

CONSTANTS s1, s2, c1, c2

MCStackOf == (c1 :> s1) @@ (c2 :> s2)
MCMountsOf == [c \in Containers |-> Volumes]
=============================================================================
