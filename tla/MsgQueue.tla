------------------------------ MODULE MsgQueue ------------------------------
(***************************************************************************)
(* What the ring buffer of ZJS promises to the callback module: a bounded  *)
(* first-in first-out queue.  A message takes one word more than its data; *)
(* it is refused if and only if there is no room for it, and what is taken *)
(* out is the oldest message, whole.  The promise may be broken, and then  *)
(* it holds no more.                                                       *)
(***************************************************************************)
EXTENDS Integers, Sequences

CONSTANTS
  Capacity,   \* words the queue holds
  Messages    \* the messages put; each has a sequence "data"

VARIABLES
  queue,      \* messages put and not taken, oldest first
  used,       \* words that they take
  answer,     \* the outcome of the last put
  taken,      \* the last message taken out
  broken      \* nothing is promised any more

vars == <<queue, used, answer, taken, broken>>

Words(message) == Len(message.data) + 1

Init == queue = <<>> /\ used = 0 /\ answer = "none" /\ taken = <<>> /\ broken = FALSE

Accept(message) ==
  /\ used + Words(message) <= Capacity
  /\ queue' = Append(queue, message)
  /\ used' = used + Words(message)
  /\ answer' = "accepted"
  /\ UNCHANGED <<taken, broken>>

Refuse(message) ==
  /\ used + Words(message) > Capacity
  /\ answer' = "refused"
  /\ UNCHANGED <<queue, used, taken, broken>>

Take ==
  /\ queue # <<>>
  /\ taken' = <<Head(queue)>>
  /\ queue' = Tail(queue)
  /\ used' = used - Words(Head(queue))
  /\ UNCHANGED <<answer, broken>>

Break == broken' = TRUE

Next == (\E message \in Messages : Accept(message) \/ Refuse(message)) \/ Take \/ Break

Spec == Init /\ [][Next]_vars
=============================================================================
