------------------------------ MODULE MCPanel ------------------------------
(***************************************************************************)
(* Panel with two stacks, one of them of the system, and two containers,   *)
(* of which one belongs to a compose project.                              *)
(***************************************************************************)
EXTENDS Panel, TLC

CONSTANTS c1, c2, p1

MCProjectOf == (c1 :> {p1}) @@ (c2 :> {})

\* Of the tabs that lead to the same page it does not matter which one is lit.
View ==
  <<nav, backend, Open, stacksPage, stacksCalls, containersVars, resourcesVars, hostVars>>
=============================================================================
