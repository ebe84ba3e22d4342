------------------------------ MODULE MCTimers ------------------------------
(***************************************************************************)
(* Timers for model checking, and what a document says of timers; a run of *)
(* its own refutes the claim.                                              *)
(***************************************************************************)
EXTENDS Timers

Env(linux, careful, fails, slow, timers, room) ==
  [linux |-> linux, careful |-> careful, allocFails |-> fails, slow |-> slow, stops |-> fails,
   timers |-> timers, room |-> room]

\* Scripts for which every timeout must be called, with a ring that is large enough and
\* with one that fills; any script; and any script on a board whose memory does not run out.
EnvironmentsDef ==
  {Env(linux, TRUE, FALSE, TRUE, 3, 3) : linux \in BOOLEAN} \union
  {Env(linux, TRUE, FALSE, TRUE, 2, 1) : linux \in BOOLEAN} \union
  {Env(linux, FALSE, TRUE, FALSE, 2, 2) : linux \in BOOLEAN} \union
  {Env(linux, FALSE, FALSE, FALSE, 3, 2) : linux \in BOOLEAN}

\* A script that clears what it likes, when nothing else happens.
ClearingDef == {Env(FALSE, FALSE, FALSE, FALSE, 3, 3)}

\* docs/timers.md:68-69: "The timeoutID timer will be cleared and its callback
\* function will not be called."
ClearedTimeoutIsQuiet ==
  [][\A n \in cleared : ~timer[n].repeat /\ calling = 0 => calling' # n]_vars
=============================================================================
