----------------------------- MODULE PanelState -----------------------------
(***************************************************************************)
(* What the pages of the panel in the browser have in common.              *)
(*                                                                         *)
(* App shows one page at a time.  A page keeps what it shows in the hooks  *)
(* of a component and changes them when an answer arrives; nothing numbers *)
(* or cancels its requests.  A hook that may be null is a set of at most   *)
(* one element.                                                            *)
(***************************************************************************)
EXTENDS Naturals, FiniteSets

CONSTANTS
  Stacks,   \* the stacks the server may have, by id
  Projects  \* the names of compose projects, none of which is an id

VARIABLES
  nav,    \* selectedStackId of App: what the link to the stacks page named
  backend \* the stacks the server has, and those where a job runs that a page polls

Nullable(S) == {{}} \cup {{s} : s \in S}

Backend ==
  [stacks : SUBSET Stacks, running : SUBSET Stacks]

\* Requests that are sent beside those that are open; max bounds the ones beside which the
\* user acts.
Sent(calls, requests, max) == IF Cardinality(calls) < max THEN {calls \cup requests} ELSE {}

\* An answer, an error included, ends its request; its handler may send others.
Answered(calls, c, requests) == (calls \ {c}) \cup requests
=============================================================================
