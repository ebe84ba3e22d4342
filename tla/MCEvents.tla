------------------------------ MODULE MCEvents ------------------------------
(***************************************************************************)
(* Events for model checking, and the claim of docs/events.md:27 that a    *)
(* run of its own refutes.                                                 *)
(***************************************************************************)
EXTENDS Events, TLC

Symmetric == Permutations(Emitters) \cup Permutations(Names) \cup Permutations(Funcs)

\* docs/events.md:27: the interface matches the Event of Node.js, in which a listener
\* may remove itself or others while it is called.
RemovalWhileCalled == fault # "freed_listener"
=============================================================================
