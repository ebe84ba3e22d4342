---------------------------- MODULE MCCallbacks ----------------------------
(***************************************************************************)
(* Callbacks for model checking, with the property that counts the         *)
(* argument references and needs a sum over the ring.                      *)
(***************************************************************************)
EXTENDS Callbacks

\* The references that the handling of the ring's signals will give back.
Holds(item) == IF item.js THEN item.words ELSE 0
RingHolds ==
  LET upTo[n \in 0 .. Len(ring)] == IF n = 0 THEN 0 ELSE upTo[n - 1] + Holds(ring[n])
  IN  upTo[Len(ring)]

\* Every argument reference acquired by zjs_signal_callback for a JavaScript
\* callback is released exactly once, by the service routine or when the ring
\* is full: the references held are those of the pending signals and of the
\* one being handled.
HeldBalance == ~skewed /\ Running =>
  held = RingHolds + Holds(cur)
=============================================================================
