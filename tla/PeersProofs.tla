---------------------------- MODULE PeersProofs ----------------------------
(***************************************************************************)
(* Theorems about main and the processors and threads it waits for         *)
(* (modules Ipm, Sensors, Ble and Pme), for every value of their           *)
(* constants.                                                              *)
(***************************************************************************)
EXTENDS MCPeers, SequenceTheorems, FiniteSetTheorems, WellFoundedInduction, TLAPS

USE DEF ipmVars, pmeVars

-----------------------------------------------------------------------------
(***************************************************************************)
(* Calls to the sensor core.                                               *)
(***************************************************************************)
SyncOps   == {"open", "read", "init", "print", "clear"}
UpdateOps == {"subscribe", "unsubscribe"}

\* Messages that main waits for, and those about the pin's updates.
SyncMessage   == [dev : IpmDevices, op : SyncOps, call : Nat \ {0}, pin : {0}]
UpdateMessage == [dev : {"aio"}, op : UpdateOps, call : {0}, pin : Nat]

Slots  == 1 .. IpmQueue
Update == [updates : BOOLEAN, pin : Nat]
Calls  == [dev : IpmDevices, op : SyncOps, call : Nat \ {0}, reply : Nat, ok : BOOLEAN]

IpmType ==
  /\ ipmCall \in {NoCall} \cup Calls
  /\ ipmSem \in [IpmDevices -> {0, 1}]
  /\ ipmSlots \in [Slots -> {DONE} \cup SyncMessage \cup UpdateMessage]
  /\ arc \in [at : 1 .. IpmQueue + 1, handled : BOOLEAN]
  /\ arcPin \in Update /\ ipmPinned \in Update
  /\ aioPins \in Seq({"open", "freed"})
  /\ ipmCount.calls \in Nat /\ ipmCount = [calls |-> ipmCount.calls, changes |-> ipmCount.changes]

\* A message that has been handled waits for its slot to be freed.
Waits(i) == ~(i = arc.at /\ arc.handled)

HandledIsThere == arc.handled => arc.at \in Slots /\ ipmSlots[arc.at] # DONE

\* The message of a call that has not been handled is that of the call under way, and there
\* is only one.
MessageIsOfCall ==
  \A i \in Slots : ipmSlots[i].call # 0 /\ Waits(i) =>
    /\ ipmSlots[i].call = ipmCall.call /\ ipmSlots[i].dev = ipmCall.dev
    /\ \A j \in Slots : ipmSlots[j].call # 0 /\ Waits(j) => i = j

\* A semaphore is given for the call under way, whose message is handled then.
GivenForCall ==
  \A d \in IpmDevices : ipmSem[d] = 1 =>
    /\ ipmCall # NoCall /\ d = ipmCall.dev /\ ipmCall.reply = ipmCall.call
    /\ \A i \in Slots : ipmSlots[i].call # 0 => ~Waits(i)

CallsInv == ~ipmLate => MessageIsOfCall /\ GivenForCall /\ ipmLast.reply = ipmLast.call

\* What the latest message about updates asked for is done when none waits, and is what
\* the one that waits asks for.
AskedOf(msg) == IF msg.op = "subscribe" THEN [updates |-> TRUE, pin |-> msg.pin] ELSE NoUpdate

UpdatesInv ==
  ~ipmCrossed =>
    /\ \A i \in Slots : ipmSlots[i].op \in UpdateOps =>
         /\ ipmPinned = AskedOf(ipmSlots[i])
         /\ ~Waits(i) => arcPin = ipmPinned
         /\ \A j \in Slots : ipmSlots[j].op \in UpdateOps => i = j
    /\ (\A i \in Slots : ipmSlots[i].op \notin UpdateOps) => arcPin = ipmPinned

PinnedIsOpen == ipmPinned.updates => ipmPinned.pin \in DOMAIN aioPins /\ aioPins[ipmPinned.pin] = "open"

IpmInv == IpmType /\ HandledIsThere /\ CallsInv /\ UpdatesInv /\ PinnedIsOpen

USE IpmAssumption

Messages == {DONE} \cup SyncMessage \cup UpdateMessage

LEMMA MessageFacts ==
  ASSUME NEW m \in Messages
  PROVE  /\ m.call \in Nat
         /\ m.call # 0 => m.dev \in IpmDevices /\ m.op \notin UpdateOps
         /\ m.op \in UpdateOps => m.call = 0 /\ m.dev = "aio" /\ m.pin \in Nat
         /\ m.dev = "done" <=> m = DONE
         /\ m = DONE => m.call = 0 /\ m.op \notin UpdateOps
         /\ m # DONE /\ m.dev # "aio" => m.call # 0
         /\ m.op \in {"open", "read"} => m.call # 0
  BY DEF Messages, DONE, SyncMessage, UpdateMessage, SyncOps, UpdateOps

\* A message is queued in a slot that was free, or lost.
LEMMA QueueStep ==
  ASSUME IpmInv, NEW msg \in Messages, QueueMessage(msg)
  PROVE  /\ ipmSlots' \in [Slots -> Messages]
         /\ \/ FreeSlots = {} /\ ipmSlots' = ipmSlots
            \/ \E i \in Slots : /\ ipmSlots[i] = DONE /\ Waits(i)
                                /\ ipmSlots' = [ipmSlots EXCEPT ![i] = msg]
<1>1. ipmSlots \in [Slots -> Messages]
  BY DEF IpmInv, IpmType, Messages
<1>2. CASE FreeSlots = {} /\ UNCHANGED ipmSlots
  BY <1>1, <1>2
<1>3. ASSUME NEW i \in FreeSlots, ipmSlots' = [ipmSlots EXCEPT ![i] = msg]
      PROVE  i \in Slots /\ ipmSlots[i] = DONE /\ Waits(i) /\ ipmSlots' \in [Slots -> Messages]
  BY <1>1, <1>3 DEF FreeSlots, Slots, IpmInv, HandledIsThere, Waits
<1> QED
  BY <1>2, <1>3 DEF QueueMessage

\* Freeing or failing: nothing is known any more.
LEMMA FailsStep ==
  ASSUME NEW reason, IpmFails(reason)
  PROVE  IpmInv'
<1>1. NoCall \in {NoCall} \cup Calls /\ NoCall.reply = NoCall.call /\ NoUpdate \in Update
      /\ NoUpdate.updates = FALSE
  BY DEF NoCall, NoUpdate, Update
<1>2. Asleep \in [at : 1 .. IpmQueue + 1, handled : BOOLEAN] /\ Asleep.handled = FALSE
  BY DEF Asleep
<1>3. DONE.call = 0 /\ DONE.op \notin UpdateOps
  BY DEF DONE, UpdateOps
<1>4. (<<>>) \in Seq({"open", "freed"})
  OBVIOUS
<1>5. ipmSlots' \in [Slots -> {DONE} \cup SyncMessage \cup UpdateMessage]
      /\ \A i \in Slots : ipmSlots'[i] = DONE
  BY DEF IpmFails, Slots
<1>6. ipmSem' \in [IpmDevices -> {0, 1}] /\ \A d \in IpmDevices : ipmSem'[d] = 0
  BY DEF IpmFails
<1>7. ipmCount'.calls \in Nat /\ ipmCount' = [calls |-> ipmCount'.calls, changes |-> ipmCount'.changes]
  BY DEF IpmFails
<1>8. IpmType'
  BY <1>1, <1>2, <1>4, <1>5, <1>6, <1>7 DEF IpmFails, IpmType
<1>9. HandledIsThere' /\ CallsInv' /\ UpdatesInv' /\ PinnedIsOpen'
  BY <1>1, <1>2, <1>3, <1>5, <1>6 DEF IpmFails, HandledIsThere, CallsInv, MessageIsOfCall, GivenForCall,
     UpdatesInv, PinnedIsOpen
<1> QED
  BY <1>8, <1>9 DEF IpmInv

\* What the steps below need of the type invariant.
LEMMA TypeFacts ==
  ASSUME IpmInv
  PROVE  /\ ipmSlots \in [Slots -> Messages] /\ ipmSem \in [IpmDevices -> {0, 1}]
         /\ ipmCall \in {NoCall} \cup Calls /\ ipmCall.call \in Nat
         /\ ipmCall = NoCall <=> ipmCall.call = 0
         /\ ipmCall # NoCall => ipmCall \in Calls
         /\ arc \in [at : 1 .. IpmQueue + 1, handled : BOOLEAN]
         /\ arcPin \in Update /\ ipmPinned \in Update /\ aioPins \in Seq({"open", "freed"})
         /\ ipmCount.calls \in Nat
  BY DEF IpmInv, IpmType, Messages, NoCall, Calls

LEMMA CountStep ==
  ASSUME IpmInv, MainRuns
  PROVE  /\ ipmCall = NoCall
         /\ ipmCount'.calls \in Nat
         /\ ipmCount' = [calls |-> ipmCount'.calls, changes |-> ipmCount'.changes]
  BY DEF MainRuns, IpmInv, IpmType

LEMMA SendSyncStep ==
  ASSUME IpmInv, NEW dev \in IpmDevices, NEW op \in SyncOps, SendSync(dev, op)
  PROVE  IpmInv'
<1> DEFINE n == ipmCount.calls + 1
           msg == [dev |-> dev, op |-> op, call |-> n, pin |-> 0]
<1>1. /\ ipmCall = NoCall /\ n \in Nat \ {0}
      /\ ipmCall' = [NoCall EXCEPT !.dev = dev, !.op = op, !.call = n]
      /\ QueueMessage(msg)
      /\ UNCHANGED <<ipmSem, arc, arcPin, aioPins, ipmLast, ipmLate, ipmPinned, ipmCrossed>>
      /\ ipmCount'.calls \in Nat
      /\ ipmCount' = [calls |-> ipmCount'.calls, changes |-> ipmCount'.changes]
  BY CountStep, TypeFacts DEF SendSync, MainRuns
<1>2. msg \in Messages /\ msg.op \notin UpdateOps /\ msg.call = n /\ msg.dev = dev
  BY <1>1 DEF Messages, SyncMessage, SyncOps, UpdateOps
<1>3. ipmCall' \in Calls /\ ipmCall'.call = n /\ ipmCall'.dev = dev
  BY <1>1 DEF Calls, NoCall
<1>4. /\ ipmSlots' \in [Slots -> Messages]
      /\ \/ ipmSlots' = ipmSlots
         \/ \E i \in Slots : /\ ipmSlots[i] = DONE /\ Waits(i)
                             /\ ipmSlots' = [ipmSlots EXCEPT ![i] = msg]
  BY <1>1, <1>2, QueueStep
<1> HIDE DEF msg, n
<1>5. \A i \in Slots : Waits(i)' = Waits(i)
  BY <1>1 DEF Waits
<1>6. IpmType'
  BY <1>1, <1>3, <1>4, TypeFacts DEF IpmType, Messages, IpmInv
<1>7. HandledIsThere'
  BY <1>1, <1>4, TypeFacts DEF HandledIsThere, IpmInv, Waits
<1>8. CallsInv'
  <2> SUFFICES ASSUME ~ipmLate PROVE CallsInv'
    BY <1>1 DEF CallsInv
  <2>1. \A i \in Slots : ipmSlots[i].call # 0 => ~Waits(i)
    BY <1>1 DEF IpmInv, CallsInv, MessageIsOfCall, NoCall
  <2>2. \A d \in IpmDevices : ipmSem[d] # 1
    BY <1>1 DEF IpmInv, CallsInv, GivenForCall
  <2>3. ipmLast'.reply = ipmLast'.call
    BY <1>1 DEF IpmInv, CallsInv
  <2>4. GivenForCall'
    BY <1>1, <2>2 DEF GivenForCall
  <2>5. MessageIsOfCall'
    BY <1>2, <1>3, <1>4, <1>5, <2>1, TypeFacts DEF MessageIsOfCall
  <2> QED
    BY <2>3, <2>4, <2>5 DEF CallsInv
<1>9. UpdatesInv'
  <2>1. \A i \in Slots : \/ ipmSlots'[i] = ipmSlots[i]
                         \/ ipmSlots'[i].op \notin UpdateOps /\ ipmSlots[i].op \notin UpdateOps
    BY <1>2, <1>4, TypeFacts, MessageFacts
  <2>2. \A i \in Slots : ipmSlots'[i].op \in UpdateOps => ipmSlots[i] = ipmSlots'[i]
    BY <2>1
  <2>3. \A i \in Slots : ipmSlots[i].op \in UpdateOps => ipmSlots[i] = ipmSlots'[i]
    BY <2>1
  <2> QED
    BY <1>1, <1>5, <2>2, <2>3 DEF IpmInv, UpdatesInv, AskedOf
<1>10. PinnedIsOpen'
  BY <1>1 DEF IpmInv, PinnedIsOpen
<1> QED
  BY <1>6, <1>7, <1>8, <1>9, <1>10 DEF IpmInv

\* A message about the pin's updates leaves those that are waited for as they are.
LEMMA SendUpdatesStep ==
  ASSUME IpmInv, NEW updates \in BOOLEAN, NEW pin \in Nat, SendUpdates(updates, pin), UNCHANGED <<arc, arcPin>>
  PROVE  /\ ipmSlots' \in [Slots -> Messages] /\ ipmPinned' \in Update
         /\ ipmPinned' = [updates |-> updates, pin |-> IF updates THEN pin ELSE 0]
         /\ HandledIsThere' /\ UpdatesInv'
         /\ \A i \in Slots : ipmSlots[i].call # 0 \/ ipmSlots'[i].call # 0 => ipmSlots'[i] = ipmSlots[i]
<1> DEFINE msg == [dev |-> "aio", op |-> IF updates THEN "subscribe" ELSE "unsubscribe",
                   call |-> 0, pin |-> pin]
<1>1. /\ ipmPinned' = [updates |-> updates, pin |-> IF updates THEN pin ELSE 0]
      /\ ipmCrossed' = (ipmCrossed \/ FreeSlots = {} \/ UpdatesWait)
      /\ QueueMessage(msg) /\ UNCHANGED <<arc, arcPin>>
  BY DEF SendUpdates
<1>2. msg \in Messages /\ msg.call = 0 /\ msg # DONE
  BY DEF Messages, UpdateMessage, UpdateOps, DONE
<1>3. ipmPinned' \in Update /\ AskedOf(msg) = ipmPinned'
  BY <1>1 DEF Update, AskedOf, NoUpdate
<1> HIDE DEF msg
<1>4. /\ ipmSlots' \in [Slots -> Messages]
      /\ \/ FreeSlots = {} /\ ipmSlots' = ipmSlots
         \/ \E i \in Slots : /\ ipmSlots[i] = DONE /\ Waits(i)
                             /\ ipmSlots' = [ipmSlots EXCEPT ![i] = msg]
  BY <1>1, <1>2, QueueStep
<1>5. HandledIsThere'
  BY <1>1, <1>2, <1>4, TypeFacts DEF HandledIsThere, IpmInv, Waits
<1>6. \A i \in Slots : ipmSlots[i].call # 0 \/ ipmSlots'[i].call # 0 => ipmSlots'[i] = ipmSlots[i]
  BY <1>2, <1>4, TypeFacts, MessageFacts
<1>7. UpdatesInv'
  <2> SUFFICES ASSUME ~ipmCrossed' PROVE UpdatesInv'
    BY DEF UpdatesInv
  <2>1. ~ipmCrossed /\ ~UpdatesWait /\ FreeSlots # {}
    BY <1>1
  <2>2. \A i \in Slots : ipmSlots[i].op \notin UpdateOps
    BY <2>1 DEF UpdatesWait, Slots, UpdateOps
  <2>3. PICK i \in Slots : /\ ipmSlots[i] = DONE /\ Waits(i)
                           /\ ipmSlots' = [ipmSlots EXCEPT ![i] = msg]
    BY <1>4, <2>1
  <2>4. Waits(i)'
    BY <1>1, <2>3 DEF Waits
  <2>5. ipmSlots'[i] = msg /\ \A j \in Slots \ {i} : ipmSlots'[j].op \notin UpdateOps
    BY <2>2, <2>3, TypeFacts
  <2>6. msg.op \in UpdateOps
    BY DEF msg, UpdateOps
  <2> QED
    BY <1>3, <2>4, <2>5, <2>6 DEF UpdatesInv, AskedOf
<1> QED
  BY <1>1, <1>3, <1>4, <1>5, <1>6, <1>7

\* Calls do not depend on the messages about updates.
LEMMA CallsStep ==
  ASSUME IpmInv, ipmSlots' \in [Slots -> Messages], UNCHANGED <<ipmCall, ipmSem, arc, ipmLast, ipmLate>>,
         \A i \in Slots : ipmSlots[i].call # 0 \/ ipmSlots'[i].call # 0 => ipmSlots'[i] = ipmSlots[i]
  PROVE  CallsInv'
<1>1. \A i \in Slots : Waits(i)' = Waits(i)
  BY DEF Waits
<1>2. MessageIsOfCall => MessageIsOfCall'
  BY <1>1 DEF MessageIsOfCall
<1>3. GivenForCall => GivenForCall'
  BY <1>1 DEF GivenForCall
<1> QED
  BY <1>2, <1>3 DEF CallsInv, IpmInv

LEMMA AioFreeStep ==
  ASSUME IpmInv, NEW pin \in DOMAIN aioPins, AioFree(pin)
  PROVE  IpmInv'
<1>1. /\ pin \in Nat /\ SendUpdates(FALSE, pin)
      /\ aioPins' = [aioPins EXCEPT ![pin] = "freed"]
      /\ UNCHANGED <<ipmCall, ipmSem, arc, arcPin, ipmLast, ipmLate>>
      /\ ipmCount'.calls \in Nat
      /\ ipmCount' = [calls |-> ipmCount'.calls, changes |-> ipmCount'.changes]
  <2>1. pin \in Nat
    BY TypeFacts
  <2> QED
    BY <2>1, CountStep DEF AioFree
<1>2. /\ ipmSlots' \in [Slots -> Messages] /\ ipmPinned' \in Update
      /\ ipmPinned' = [updates |-> FALSE, pin |-> 0]
      /\ HandledIsThere' /\ UpdatesInv'
      /\ \A i \in Slots : ipmSlots[i].call # 0 \/ ipmSlots'[i].call # 0 => ipmSlots'[i] = ipmSlots[i]
  BY <1>1, SendUpdatesStep
<1>3. CallsInv'
  BY <1>1, <1>2, CallsStep
<1>4. aioPins' \in Seq({"open", "freed"})
  <2>1. aioPins \in Seq({"open", "freed"})
    BY TypeFacts
  <2> QED
    BY <1>1, <2>1, ExceptSeq
<1>5. IpmType'
  BY <1>1, <1>2, <1>4, TypeFacts DEF IpmType, IpmInv, Messages
<1>6. PinnedIsOpen'
  BY <1>2 DEF PinnedIsOpen
<1> QED
  BY <1>2, <1>3, <1>5, <1>6 DEF IpmInv

\* A call that returns.
LEMMA ReplyTakenStep ==
  ASSUME IpmInv, ReplyTaken
  PROVE  IpmInv'
<1>1. /\ ipmCall \in Calls /\ ipmSem[ipmCall.dev] = 1
      /\ ipmSem' = [ipmSem EXCEPT ![ipmCall.dev] = 0]
      /\ ipmLast' = ipmCall /\ ipmCall' = NoCall
      /\ UNCHANGED <<arc, arcPin, ipmLate, ipmCount>>
  BY TypeFacts DEF ReplyTaken, Waiting, SemTaken
<1>2. ipmCall.dev \in IpmDevices
  BY <1>1 DEF Calls
<1>3. \/ UNCHANGED <<ipmSlots, aioPins, ipmPinned, ipmCrossed>>
      \/ aioPins' = Append(aioPins, "open") /\ SendUpdates(TRUE, Len(aioPins) + 1)
  BY DEF ReplyTaken, GlcdReturns, I2cReturns, AioReturns
<1>4. /\ ipmSlots' \in [Slots -> Messages] /\ ipmPinned' \in Update
      /\ HandledIsThere' /\ UpdatesInv'
      /\ \A i \in Slots : ipmSlots[i].call # 0 \/ ipmSlots'[i].call # 0 => ipmSlots'[i] = ipmSlots[i]
      /\ aioPins' \in Seq({"open", "freed"}) /\ PinnedIsOpen'
  <2>1. CASE UNCHANGED <<ipmSlots, aioPins, ipmPinned, ipmCrossed>>
    <3>1. \A i \in Slots : Waits(i)' = Waits(i)
      BY <1>1 DEF Waits
    <3> QED
      BY <1>1, <2>1, <3>1, TypeFacts DEF IpmInv, HandledIsThere, UpdatesInv, PinnedIsOpen, AskedOf
  <2>2. CASE aioPins' = Append(aioPins, "open") /\ SendUpdates(TRUE, Len(aioPins) + 1)
    <3>1. aioPins \in Seq({"open", "freed"}) /\ Len(aioPins) + 1 \in Nat
      BY TypeFacts
    <3>2. /\ ipmSlots' \in [Slots -> Messages] /\ ipmPinned' \in Update
          /\ ipmPinned' = [updates |-> TRUE, pin |-> Len(aioPins) + 1]
          /\ HandledIsThere' /\ UpdatesInv'
          /\ \A i \in Slots : ipmSlots[i].call # 0 \/ ipmSlots'[i].call # 0 => ipmSlots'[i] = ipmSlots[i]
      BY <1>1, <2>2, <3>1, SendUpdatesStep
    <3>3. aioPins' \in Seq({"open", "freed"}) /\ Len(aioPins) + 1 \in DOMAIN aioPins'
          /\ aioPins'[Len(aioPins) + 1] = "open"
      BY <2>2, <3>1
    <3> QED
      BY <3>2, <3>3 DEF PinnedIsOpen
  <2> QED
    BY <1>3, <2>1, <2>2
<1>5. CallsInv'
  <2> SUFFICES ASSUME ~ipmLate PROVE CallsInv'
    BY <1>1 DEF CallsInv
  <2>1. \A i \in Slots : Waits(i)' = Waits(i)
    BY <1>1 DEF Waits
  <2>2. /\ ipmCall.reply = ipmCall.call
        /\ \A i \in Slots : ipmSlots[i].call # 0 => ~Waits(i)
        /\ \A d \in IpmDevices : ipmSem[d] = 1 => d = ipmCall.dev
    BY <1>1, <1>2 DEF IpmInv, CallsInv, GivenForCall
  <2>3. \A i \in Slots : ipmSlots'[i].call # 0 => ~Waits(i)'
    BY <1>4, <2>1, <2>2
  <2>4. \A d \in IpmDevices : ipmSem'[d] # 1
    BY <1>1, <1>2, <2>2, TypeFacts
  <2> QED
    BY <1>1, <2>2, <2>3, <2>4 DEF CallsInv, MessageIsOfCall, GivenForCall
<1>6. IpmType'
  <2>1. ipmSem' \in [IpmDevices -> {0, 1}]
    BY <1>1, TypeFacts
  <2> QED
    BY <1>1, <1>4, <2>1, TypeFacts DEF IpmType, IpmInv, Messages
<1> QED
  BY <1>4, <1>5, <1>6 DEF IpmInv

LEMMA TimesOutStep ==
  ASSUME IpmInv, ReplyTimesOut
  PROVE  IpmInv'
<1>1. /\ ipmLate' = TRUE /\ ipmCall' = NoCall
      /\ UNCHANGED <<ipmSem, ipmSlots, arc, arcPin, aioPins, ipmPinned, ipmCrossed, ipmCount>>
  BY DEF ReplyTimesOut
<1>2. \A i \in Slots : Waits(i)' = Waits(i)
  BY <1>1 DEF Waits
<1>3. IpmType'
  BY <1>1 DEF IpmType, IpmInv
<1>4. HandledIsThere' /\ CallsInv' /\ UpdatesInv' /\ PinnedIsOpen'
  BY <1>1, <1>2 DEF IpmInv, HandledIsThere, CallsInv, UpdatesInv, PinnedIsOpen, AskedOf
<1> QED
  BY <1>3, <1>4 DEF IpmInv

\* Replies, and what a handled message about updates asks for.
LEMMA HandleStep ==
  ASSUME IpmInv, NEW dev \in {"aio", "glcd", "i2c"}, Handling(dev), Unchanged, arcPin' = PinAfter(Message),
         \/ UNCHANGED <<ipmCall, ipmSem>>
         \/ Message.call # 0 /\ \E ok \in BOOLEAN : Reply(ok)
  PROVE  IpmInv'
<1> DEFINE at == arc.at
<1>1. /\ ~arc.handled /\ Message.dev = dev /\ arc' = [arc EXCEPT !.handled = TRUE]
      /\ UNCHANGED <<ipmSlots, aioPins, ipmLast, ipmLate, ipmPinned, ipmCrossed, ipmCount>>
  BY DEF Handling, Unchanged
<1>2. at \in Slots /\ Message = ipmSlots[at] /\ ipmSlots[at] \in Messages /\ ipmSlots[at] # DONE
  <2>1. Message # DONE
    BY <1>1 DEF DONE
  <2> QED
    BY <2>1, TypeFacts DEF Message, Slots
<1>3. arc' \in [at : 1 .. IpmQueue + 1, handled : BOOLEAN] /\ arc'.at = at /\ arc'.handled = TRUE
  BY <1>1, TypeFacts
<1>4. \A i \in Slots : Waits(i) /\ (Waits(i)' <=> i # at)
  BY <1>1, <1>3 DEF Waits
<1>5. PICK m \in Messages : m = ipmSlots[at] /\ Message = m
  BY <1>2
<1> HIDE DEF at
<1>6. ipmCall' \in {NoCall} \cup Calls /\ ipmSem' \in [IpmDevices -> {0, 1}]
  <2>1. CASE UNCHANGED <<ipmCall, ipmSem>>
    BY <2>1, TypeFacts
  <2>2. ASSUME NEW ok \in BOOLEAN, m.call # 0, Reply(ok)
        PROVE  ipmCall' \in {NoCall} \cup Calls /\ ipmSem' \in [IpmDevices -> {0, 1}]
    <3>1. ipmSem' \in [IpmDevices -> {0, 1}]
      BY <2>2, TypeFacts DEF Reply
    <3>2. \/ ipmCall' = ipmCall
          \/ ipmCall.call # 0 /\ ipmCall' = [ipmCall EXCEPT !.reply = m.call, !.ok = ok]
      BY <1>5, <2>2, MessageFacts DEF Reply
    <3>3. m.call \in Nat
      BY MessageFacts
    <3> QED
      BY <3>1, <3>2, <3>3, TypeFacts DEF Calls
  <2> QED
    BY <1>5, <2>1, <2>2
<1>7. arcPin' \in Update
  BY <1>5, TypeFacts, MessageFacts DEF PinAfter, Update, NoUpdate, UpdateOps
<1>8. IpmType'
  BY <1>1, <1>3, <1>6, <1>7, TypeFacts DEF IpmType, IpmInv, Messages
<1>9. HandledIsThere'
  BY <1>1, <1>2, <1>3 DEF HandledIsThere
<1>10. CallsInv'
  <2> SUFFICES ASSUME ~ipmLate PROVE CallsInv'
    BY <1>1 DEF CallsInv
  <2>1. MessageIsOfCall /\ GivenForCall /\ ipmLast.reply = ipmLast.call
    BY DEF CallsInv, IpmInv
  <2>2. CASE UNCHANGED <<ipmCall, ipmSem>>
    BY <1>1, <1>4, <2>1, <2>2 DEF CallsInv, MessageIsOfCall, GivenForCall
  <2>3. ASSUME NEW ok \in BOOLEAN, m.call # 0, Reply(ok)
        PROVE  CallsInv'
    <3>1. /\ m.call = ipmCall.call /\ m.dev = ipmCall.dev
          /\ \A j \in Slots : ipmSlots[j].call # 0 => j = at
      BY <1>2, <1>4, <1>5, <2>1, <2>3 DEF MessageIsOfCall
    <3>2. ipmCall \in Calls /\ ipmCall' = [ipmCall EXCEPT !.reply = m.call, !.ok = ok]
      BY <1>5, <2>3, <3>1, TypeFacts, MessageFacts DEF Reply
    <3>3. ipmCall' # NoCall /\ ipmCall'.call = m.call /\ ipmCall'.reply = m.call /\ ipmCall'.dev = m.dev
      BY <2>3, <3>1, <3>2 DEF Calls, NoCall
    <3>4. \A i \in Slots : ipmSlots'[i].call # 0 => ~Waits(i)'
      BY <1>1, <1>4, <3>1
    <3>5. \A d \in IpmDevices : ipmSem'[d] = 1 => d = m.dev
      <4>1. \A d \in IpmDevices : ipmSem[d] # 1
        BY <1>2, <1>4, <1>5, <2>1, <2>3 DEF GivenForCall
      <4> QED
        BY <1>5, <2>3, <4>1, TypeFacts DEF Reply
    <3> QED
      BY <1>1, <2>1, <3>3, <3>4, <3>5 DEF CallsInv, MessageIsOfCall, GivenForCall
  <2> QED
    BY <1>5, <2>2, <2>3
<1>11. UpdatesInv'
  <2> SUFFICES ASSUME ~ipmCrossed PROVE UpdatesInv'
    BY <1>1 DEF UpdatesInv
  <2>1. /\ \A i \in Slots : ipmSlots[i].op \in UpdateOps =>
             /\ ipmPinned = AskedOf(ipmSlots[i])
             /\ \A j \in Slots : ipmSlots[j].op \in UpdateOps => i = j
        /\ (\A i \in Slots : ipmSlots[i].op \notin UpdateOps) => arcPin = ipmPinned
    BY DEF IpmInv, UpdatesInv
  <2>2. CASE m.op \in UpdateOps
    <3>1. arcPin' = AskedOf(m)
      BY <1>5, <2>2 DEF PinAfter, AskedOf, UpdateOps
    <3>2. ipmPinned = AskedOf(m) /\ \A j \in Slots : ipmSlots[j].op \in UpdateOps => j = at
      BY <1>2, <1>5, <2>1, <2>2
    <3> QED
      BY <1>1, <1>2, <1>5, <2>1, <2>2, <3>1, <3>2 DEF UpdatesInv, AskedOf
  <2>3. CASE m.op \notin UpdateOps
    <3>1. arcPin' = arcPin
      BY <1>5, <2>3 DEF PinAfter, UpdateOps
    <3>2. \A i \in Slots : ipmSlots[i].op \in UpdateOps => Waits(i)'
      BY <1>4, <1>5, <2>3
    <3> QED
      BY <1>1, <2>1, <3>1, <3>2 DEF UpdatesInv, AskedOf
  <2> QED
    BY <2>2, <2>3
<1>12. PinnedIsOpen'
  BY <1>1 DEF PinnedIsOpen, IpmInv
<1> QED
  BY <1>8, <1>9, <1>10, <1>11, <1>12 DEF IpmInv

LEMMA HandlersStep ==
  ASSUME IpmInv, HandleGlcd \/ HandleI2c \/ HandleAio
  PROVE  IpmInv'
<1>1. ASSUME NEW dev \in {"aio", "glcd", "i2c"}, Handling(dev)
      PROVE  /\ Message \in Messages /\ Message.dev = dev
             /\ dev # "aio" => Message.call # 0 /\ PinAfter(Message) = arcPin
             /\ Message.op \in {"open", "read"} => Message.call # 0
  <2>1. Message.dev = dev
    BY <1>1 DEF Handling
  <2>2. Message \in Messages
    BY TypeFacts DEF Message, Messages, Slots
  <2>3. dev # "aio" => Message.call # 0 /\ PinAfter(Message) = arcPin
    BY <2>1, <2>2, MessageFacts DEF PinAfter, UpdateOps
  <2> QED
    BY <2>1, <2>2, <2>3, MessageFacts
<1>2. CASE HandleGlcd
  <2>1. Handling("glcd") /\ Unchanged /\ arcPin' = arcPin
        /\ (Reply("glcd" \in arcReady') \/ Reply("glcd" \in arcReady))
    BY <1>2 DEF HandleGlcd
  <2>2. ("glcd" \in arcReady') \in BOOLEAN /\ ("glcd" \in arcReady) \in BOOLEAN
    OBVIOUS
  <2>3. \E ok \in BOOLEAN : Reply(ok)
    BY <2>1, <2>2
  <2> QED
    BY <1>1, <2>1, <2>3, HandleStep
<1>3. CASE HandleI2c
  <2>1. Handling("i2c") /\ Unchanged /\ arcPin' = arcPin /\ \E ok \in BOOLEAN : Reply(ok)
    BY <1>3 DEF HandleI2c, I2cHandler
  <2> QED
    BY <1>1, <2>1, HandleStep
<1>4. CASE HandleAio
  <2>1. Handling("aio") /\ Unchanged /\ arcPin' = PinAfter(Message)
        /\ (UNCHANGED <<ipmCall, ipmSem>> \/ (Message.op \in {"open", "read"} /\ Reply(TRUE)))
    BY <1>4 DEF HandleAio
  <2> QED
    BY <1>1, <2>1, HandleStep
<1> QED
  BY <1>2, <1>3, <1>4

LEMMA NextSlotStep ==
  ASSUME IpmInv, NextSlot
  PROVE  IpmInv'
<1>1. /\ arc.handled /\ arc.at \in Slots
      /\ ipmSlots' = [ipmSlots EXCEPT ![arc.at] = DONE]
      /\ arc' = [at |-> arc.at + 1, handled |-> FALSE]
      /\ UNCHANGED <<ipmCall, ipmSem, arcPin, aioPins, ipmLast, ipmLate, ipmPinned, ipmCrossed, ipmCount>>
  BY DEF NextSlot, IpmInv, HandledIsThere
<1>2. PICK at \in Slots : at = arc.at
  BY <1>1
<1>3. /\ arc'.handled = FALSE /\ arc' \in [at : 1 .. IpmQueue + 1, handled : BOOLEAN]
      /\ \A i \in Slots : Waits(i)' /\ (Waits(i) <=> i # at)
  BY <1>1, <1>2 DEF Waits, Slots
<1>4. ipmSlots' \in [Slots -> Messages] /\ ipmSlots'[at] = DONE
      /\ \A i \in Slots : i # at => ipmSlots'[i] = ipmSlots[i]
  <2>1. DONE \in Messages
    BY DEF Messages
  <2> QED
    BY <1>1, <1>2, <2>1, TypeFacts
<1>5. DONE.call = 0 /\ DONE.op \notin UpdateOps
  BY DEF DONE, UpdateOps
<1>6. IpmType'
  BY <1>1, <1>3, <1>4, TypeFacts DEF IpmType, IpmInv, Messages
<1>7. HandledIsThere' /\ PinnedIsOpen'
  BY <1>1, <1>3 DEF HandledIsThere, PinnedIsOpen, IpmInv
<1>8. CallsInv'
  <2> SUFFICES ASSUME ~ipmLate PROVE CallsInv'
    BY <1>1 DEF CallsInv
  <2>1. MessageIsOfCall /\ GivenForCall /\ ipmLast.reply = ipmLast.call
    BY DEF CallsInv, IpmInv
  <2>2. \A i \in Slots : ipmSlots'[i].call # 0 => ipmSlots'[i] = ipmSlots[i] /\ Waits(i)
    BY <1>3, <1>4, <1>5
  <2> QED
    BY <1>1, <2>1, <2>2 DEF CallsInv, MessageIsOfCall, GivenForCall
<1>9. UpdatesInv'
  <2> SUFFICES ASSUME ~ipmCrossed PROVE UpdatesInv'
    BY <1>1 DEF UpdatesInv
  <2>1. /\ \A i \in Slots : ipmSlots[i].op \in UpdateOps =>
             /\ ipmPinned = AskedOf(ipmSlots[i])
             /\ ~Waits(i) => arcPin = ipmPinned
             /\ \A j \in Slots : ipmSlots[j].op \in UpdateOps => i = j
        /\ (\A i \in Slots : ipmSlots[i].op \notin UpdateOps) => arcPin = ipmPinned
    BY DEF IpmInv, UpdatesInv
  <2>2. \A i \in Slots : ipmSlots'[i].op \in UpdateOps => ipmSlots'[i] = ipmSlots[i] /\ Waits(i)'
    BY <1>3, <1>4, <1>5
  <2>3. (\A i \in Slots : ipmSlots'[i].op \notin UpdateOps) => arcPin = ipmPinned
    BY <1>2, <1>3, <1>4, <2>1
  <2> QED
    BY <1>1, <2>1, <2>2, <2>3 DEF UpdatesInv, AskedOf
<1> QED
  BY <1>6, <1>7, <1>8, <1>9 DEF IpmInv

\* The end of a pass; changes of the pin.
LEMMA PassStep ==
  ASSUME IpmInv, PinUnchanged \/ PinChanges
  PROVE  IpmInv'
<1>1. /\ ~arc.handled /\ arc' = Asleep
      /\ UNCHANGED <<ipmCall, ipmSem, ipmSlots, arcPin, aioPins, ipmLast, ipmLate, ipmPinned, ipmCrossed>>
      /\ ipmCount' = ipmCount \/ ipmCount' = [ipmCount EXCEPT !.changes = @ + 1]
  BY DEF PinUnchanged, PinChanges, EndPass
<1>2. arc' \in [at : 1 .. IpmQueue + 1, handled : BOOLEAN] /\ ~arc'.handled
  BY <1>1 DEF Asleep
<1>3. \A i \in Slots : Waits(i)' /\ Waits(i)
  BY <1>1, <1>2 DEF Waits
<1>4. ipmCount'.calls \in Nat /\ ipmCount' = [calls |-> ipmCount'.calls, changes |-> ipmCount'.changes]
  BY <1>1 DEF IpmInv, IpmType
<1>5. IpmType'
  BY <1>1, <1>2, <1>4 DEF IpmType, IpmInv
<1>6. HandledIsThere' /\ UpdatesInv' /\ PinnedIsOpen'
  BY <1>1, <1>2, <1>3 DEF IpmInv, HandledIsThere, UpdatesInv, PinnedIsOpen, AskedOf
<1>7. CallsInv'
  BY <1>1, <1>3 DEF IpmInv, CallsInv, MessageIsOfCall, GivenForCall
<1> QED
  BY <1>5, <1>6, <1>7 DEF IpmInv

\* The invariant holds, and with it the three properties of the module.
LEMMA IpmInvariant == IpmSpec => []IpmInv
<1>1. IpmInit => IpmInv
  <2> SUFFICES ASSUME IpmInit PROVE IpmInv
    OBVIOUS
  <2>1. NoCall \in {NoCall} \cup Calls /\ NoCall.reply = NoCall.call /\ NoUpdate \in Update
        /\ NoUpdate.updates = FALSE
    BY DEF NoCall, NoUpdate, Update
  <2>2. Asleep \in [at : 1 .. IpmQueue + 1, handled : BOOLEAN] /\ Asleep.handled = FALSE
    BY DEF Asleep
  <2>3. DONE.call = 0 /\ DONE.op \notin UpdateOps
    BY DEF DONE, UpdateOps
  <2>4. (<<>>) \in Seq({"open", "freed"})
    OBVIOUS
  <2>5. IpmType
    BY <2>1, <2>2, <2>4 DEF IpmInit, IpmType, Slots
  <2> QED
    BY <2>1, <2>2, <2>3, <2>5 DEF IpmInit, IpmInv, HandledIsThere, CallsInv, MessageIsOfCall,
       GivenForCall, UpdatesInv, PinnedIsOpen, Slots
<1>2. IpmInv /\ [IpmNext]_ipmVars => IpmInv'
  <2> SUFFICES ASSUME IpmInv, [IpmNext]_ipmVars
               PROVE  IpmInv'
    OBVIOUS
  <2>1. CASE UNCHANGED ipmVars
    <3>1. \A i \in Slots : Waits(i)' = Waits(i)
      BY <2>1 DEF Waits
    <3> QED
      BY <2>1, <3>1 DEF IpmInv, IpmType, HandledIsThere, CallsInv, MessageIsOfCall, GivenForCall,
         UpdatesInv, PinnedIsOpen, AskedOf
  <2>2. ASSUME NEW dev \in IpmDevices, NEW op \in IpmOps[dev], SendSync(dev, op)
        PROVE  IpmInv'
    <3>1. op \in SyncOps
      BY IpmAssumption DEF IpmOps, SyncOps
    <3> QED
      BY <2>2, <3>1, SendSyncStep
  <2>3. CASE \E pin \in DOMAIN aioPins : AioFree(pin) \/ AioFreeAgain(pin)
    BY <2>3, AioFreeStep, FailsStep DEF AioFreeAgain
  <2>4. CASE HandleFreedText \/ PinChangesFreed
    BY <2>4, FailsStep DEF HandleFreedText, PinChangesFreed
  <2>5. CASE IpmMain
    BY <2>2, <2>3, <2>5, ReplyTakenStep, TimesOutStep DEF IpmMain
  <2>6. CASE IpmArc
    BY <2>4, <2>6, HandlersStep, NextSlotStep, PassStep DEF IpmArc
  <2> QED
    BY <2>1, <2>5, <2>6 DEF IpmNext, IpmRests
<1> QED
  BY <1>1, <1>2, PTL DEF IpmSpec

\* A call returns the answer to its own message unless an earlier one has timed out, and
\* the sensor core does what the latest message asked for, however the messages wait in its
\* queue (zjs_ipm.c, zjs_aio_a101.c; arc/src/main.c: queue_message, process_messages).
THEOREM CoresAgreeTheorem == IpmSpec => []CoresAgree
<1>1. IpmInv => CoresAgree
  <2> SUFFICES ASSUME IpmInv, ~ipmCrossed, ~UpdatesWait PROVE arcPin = ipmPinned
    BY DEF CoresAgree, AnswersAreOwn, UpdatesAgree, IpmInv, CallsInv
  <2> QED
    BY DEF IpmInv, UpdatesInv, UpdatesWait, Slots, UpdateOps
<1> QED
  BY <1>1, IpmInvariant, PTL

LEMMA FreedTextIsLate ==
  ASSUME IpmInv, HandleFreedText
  PROVE  ipmLate
<1>1. /\ ~arc.handled /\ Message.dev = "glcd" /\ ipmCall.call # Message.call
      /\ arc.at \in Slots /\ Message = ipmSlots[arc.at] /\ Waits(arc.at)
  <2>1. ~arc.handled /\ Message.dev = "glcd" /\ ipmCall.call # Message.call
    BY DEF HandleFreedText
  <2>2. Message # DONE
    BY <2>1 DEF DONE
  <2> QED
    BY <2>1, <2>2, TypeFacts DEF Message, Slots, Waits
<1>2. Message.call # 0
  BY <1>1, TypeFacts, MessageFacts
<1> QED
  BY <1>1, <1>2 DEF IpmInv, CallsInv, MessageIsOfCall

\* The sensor core reads a freed text only after a timeout, and names a freed handle only
\* while the message that stops it waits (arc_handle_glcd, arc_process_aio_updates).
THEOREM IpmFaultsExplained == IpmSpec => TextsOutliveReads /\ ChangesNameOpenPins
<1>1. IpmInv /\ [IpmNext]_ipmVars => (ipmFault # ipmFault' /\ ipmFault' = "freed text" => ipmLate)
  <2> SUFFICES ASSUME IpmInv, IpmNext, ipmFault' # ipmFault, ipmFault' = "freed text", ~ipmLate
               PROVE  FALSE
    OBVIOUS
  <2>1. HandleFreedText
    BY DEF HandleFreedText, IpmNext, IpmMain, IpmArc, IpmRests, SendSync, ReplyTaken, ReplyTimesOut, AioFree, AioFreeAgain,
       IpmFails, HandleGlcd, HandleI2c, HandleAio, Unchanged, NextSlot, PinUnchanged, PinChanges,
       PinChangesFreed
  <2> QED
    BY <2>1, FreedTextIsLate
<1>2. IpmInv /\ [IpmNext]_ipmVars
        => (ipmFault # ipmFault' /\ ipmFault' = "freed pin" => ipmCrossed \/ UpdatesWait)
  <2> SUFFICES ASSUME IpmInv, IpmNext, ipmFault' # ipmFault, ipmFault' = "freed pin",
                      ~ipmCrossed, ~UpdatesWait
               PROVE  FALSE
    OBVIOUS
  <2>1. PinChangesFreed
    BY DEF IpmNext, IpmMain, IpmArc, IpmRests, SendSync, ReplyTaken, ReplyTimesOut, AioFree, AioFreeAgain,
       IpmFails, HandleGlcd, HandleI2c, HandleAio, Unchanged, NextSlot, PinUnchanged, PinChanges,
       HandleFreedText
  <2>2. arcPin = ipmPinned
    BY DEF IpmInv, UpdatesInv, UpdatesWait, Slots, UpdateOps
  <2> QED
    BY <2>1, <2>2 DEF PinChangesFreed, Changes, IpmInv, PinnedIsOpen
<1> QED
  BY <1>1, <1>2, IpmInvariant, PTL DEF IpmSpec, TextsOutliveReads, ChangesNameOpenPins

-----------------------------------------------------------------------------
(***************************************************************************)
(* Sensors of the sensor core.                                             *)
(***************************************************************************)
SensorStates == {"unconnected", "activating", "activated", "idle", "freed"}
SensorRecord == [state : SensorStates, hasReading : BOOLEAN, value : BOOLEAN]
SensorOps    == {"start", "stop", "free"}
SignalKinds  == {"change", "activate", "error", "start", "stop"}

SensorsType ==
  /\ sensor \in Seq(SensorRecord)
  /\ senCall \in {Quiet} \cup [op : SensorOps, s : Nat, answer : {"none", "ok", "refused"}]
  /\ senCall # Quiet => senCall.s \in Sensors
  /\ senMsgs \in Seq(SensorOps \X Nat)
  /\ senRing \in Seq(SignalKinds \X Nat) /\ Len(senRing) <= SensorRing
  /\ senPoll \in BOOLEAN /\ senUp \in {"up", "cleanup", "down"}

\* Whether the sensor core polls once it has handled its messages.
WillPoll == IF senMsgs = <<>> THEN senPoll ELSE senMsgs[Len(senMsgs)][1] = "start"

UpInv ==
  senUp = "up" =>
    /\ senCall.op # "free" /\ SensorOf("freed") = {}
    /\ senCall.op = "start" => WillPoll
    /\ senCall.op # "stop" => \A s \in SensorOf("activated") : WillPoll \/ s \in senShared

\* A sensor that was stopped with no reading pending gets none, and has no values but until
\* its "stop" is serviced.
IdleInv ==
  \A s \in SensorOf("idle") \ senPending :
    /\ ~sensor[s].hasReading /\ ~HasSignal("change", s)
    /\ ~sensor[s].value \/ HasSignal("stop", s)

\* Unless a call has timed out, the only message is that of the call under way.
MessageInv ==
  ~senMixed /\ senFault = "none" =>
    senMsgs = IF senCall.op # "none" /\ senCall.answer = "none" THEN <<<<senCall.op, senCall.s>>>> ELSE <<>>

\* A cleanup that began with activated sensors only stops the sensor core before it frees
\* the first.
CleanupInv ==
  ~senMixed /\ senFault = "none" /\ senUp # "up" =>
    /\ sensor # <<>> /\ Held \subseteq SensorOf("activated")
    /\ senUp = "down" => Held = {} /\ senCall = Quiet
    /\ senCall.op \in {"none", "free"}
    /\ Held # Sensors \/ (senCall.op = "free" /\ senCall.answer # "none") => ~senPoll

SensorsInv == SensorsType /\ UpInv /\ IdleInv /\ MessageInv /\ CleanupInv


USE SensorsAssumption

\* Signals are put behind those there are, as far as there is room.
Has(ring, x) == \E i \in 1 .. Len(ring) : ring[i] = x

LEMMA SignalledHas ==
  ASSUME NEW S, NEW ring \in Seq(S), NEW signals \in Seq(S), Len(ring) <= SensorRing,
         NEW result, result = Signalled(ring, signals)
  PROVE  /\ result \in Seq(S) /\ Len(result) <= SensorRing
         /\ \A x : Has(ring, x) => Has(result, x)
         /\ \A x : Has(result, x) => Has(ring, x) \/ Has(signals, x)
         /\ Len(signals) = 1 /\ Len(ring) < SensorRing
              => Len(result) = Len(ring) + 1 /\ Has(result, signals[1])
<1> DEFINE all == ring \o signals
<1>1. /\ all \in Seq(S) /\ Len(all) = Len(ring) + Len(signals)
      /\ \A i \in 1 .. Len(all) : all[i] = IF i <= Len(ring) THEN ring[i] ELSE signals[i - Len(ring)]
  OBVIOUS
<1>2. SensorRing \in Nat /\ Len(ring) \in Nat /\ Len(signals) \in Nat
  OBVIOUS
<1>3. result = IF Len(all) <= SensorRing THEN all ELSE SubSeq(all, 1, SensorRing)
  BY DEF Signalled
<1> HIDE DEF all
<1>4. PICK n \in Nat, k \in Nat : n = Len(ring) /\ k = Len(signals)
  BY <1>2
<1>5. Len(all) = n + k /\ n <= SensorRing
  BY <1>1, <1>4
<1>6. /\ \A i \in 1 .. n : all[i] = ring[i]
      /\ \A i \in 1 .. n + k : (i \in 1 .. n /\ all[i] = ring[i]) \/ \E j \in 1 .. k : all[i] = signals[j]
  <2>1. ASSUME NEW i \in 1 .. n + k
        PROVE  (i \in 1 .. n /\ all[i] = ring[i]) \/ \E j \in 1 .. k : all[i] = signals[j]
    <3>1. CASE i <= n
      BY <1>1, <1>4, <1>5, <3>1
    <3>2. CASE i > n
      <4>1. i - n \in 1 .. k /\ all[i] = signals[i - n]
        BY <1>1, <1>4, <1>5, <3>2
      <4> QED
        BY <4>1
    <3> QED
      BY <3>1, <3>2
  <2>2. \A i \in 1 .. n : all[i] = ring[i]
    BY <1>1, <1>4, <1>5
  <2> QED
    BY <2>1, <2>2
<1>7. k = 1 => all[n + 1] = signals[1]
  BY <1>1, <1>4, <1>5
<1>8. PICK m \in Nat : /\ m = Len(result) /\ n <= m /\ m <= n + k /\ m <= SensorRing
                       /\ n + k <= SensorRing => m = n + k
                       /\ result \in Seq(S) /\ \A i \in 1 .. m : result[i] = all[i]
  <2>1. CASE n + k <= SensorRing
    <3>1. result = all /\ Len(result) = n + k
      BY <1>3, <1>5, <2>1
    <3>2. n + k \in Nat /\ n <= n + k
      OBVIOUS
    <3>3. result \in Seq(S) /\ \A i \in 1 .. n + k : result[i] = all[i]
      BY <1>1, <3>1
    <3> QED
      BY <2>1, <3>1, <3>2, <3>3
  <2>2. CASE n + k > SensorRing
    <3>1. SensorRing \in 0 .. Len(all)
      BY <1>1, <1>2, <1>5, <2>2
    <3>2. /\ result \in Seq(S) /\ Len(result) = SensorRing
          /\ \A i \in 1 .. SensorRing : result[i] = all[i]
      BY <1>1, <1>2, <1>3, <1>5, <2>2, <3>1
    <3> QED
      BY <1>2, <1>5, <2>2, <3>2
  <2> QED
    BY <1>2, <2>1, <2>2
<1>9. \A i \in 1 .. n : result[i] = ring[i]
  BY <1>6, <1>8
<1>10. \A i \in 1 .. m : (i \in 1 .. n /\ result[i] = ring[i]) \/ \E j \in 1 .. k : result[i] = signals[j]
  <2> SUFFICES ASSUME NEW i \in 1 .. m
               PROVE  (i \in 1 .. n /\ result[i] = ring[i]) \/ \E j \in 1 .. k : result[i] = signals[j]
    OBVIOUS
  <2>1. i \in 1 .. n + k
    BY <1>8
  <2>2. result[i] = all[i]
    BY <1>8
  <2> QED
    BY <1>6, <2>1, <2>2, Zenon
<1>11. k = 1 /\ n < SensorRing => m = n + 1 /\ result[n + 1] = signals[1]
  BY <1>2, <1>7, <1>8
<1>12. \A x : Has(ring, x) => Has(result, x)
  BY <1>4, <1>8, <1>9 DEF Has
<1>13. \A x : Has(result, x) => Has(ring, x) \/ Has(signals, x)
  BY <1>4, <1>8, <1>10 DEF Has
<1>14. k = 1 /\ n < SensorRing => m = n + 1 /\ Has(result, signals[1])
  BY <1>4, <1>8, <1>11 DEF Has
<1> QED
  BY <1>4, <1>8, <1>12, <1>13, <1>14

LEMMA SensorFacts ==
  ASSUME SensorsInv
  PROVE  /\ sensor \in Seq(SensorRecord) /\ Sensors = 1 .. Len(sensor) /\ Len(sensor) \in Nat
         /\ senRing \in Seq(SignalKinds \X Nat) /\ Len(senRing) <= SensorRing
         /\ senMsgs \in Seq(SensorOps \X Nat)
         /\ senCall.op = "none" <=> senCall = Quiet
         /\ senCall # Quiet => senCall.s \in Sensors
         /\ \A kind, s : HasSignal(kind, s) <=> Has(senRing, <<kind, s>>)
         /\ SensorOf("idle") \subseteq Sensors /\ SensorOf("activated") \subseteq Sensors
<1>1. DOMAIN senRing = 1 .. Len(senRing)
  BY DEF SensorsInv, SensorsType
<1> QED
  BY <1>1 DEF SensorsInv, SensorsType, Sensors, HasSignal, Has, SensorOf, Quiet, SensorOps

LEMMA HasOne == \A x, y : Has(<<y>>, x) => x = y
  BY DEF Has

LEMMA RingStep ==
  ASSUME SensorsInv, senRing' \in Seq(SignalKinds \X Nat),
         \A x : Has(senRing', x) => Has(senRing, x) \/ x[1] # "change",
         \A x : Has(senRing, x) => Has(senRing', x) \/ x[1] # "stop"
  PROVE  \A t : /\ HasSignal("change", t)' => HasSignal("change", t)
                /\ HasSignal("stop", t) => HasSignal("stop", t)'
<1>1. DOMAIN senRing' = 1 .. Len(senRing')
  OBVIOUS
<1>2. \A kind, t : HasSignal(kind, t)' <=> Has(senRing', <<kind, t>>)
  BY <1>1 DEF HasSignal, Has
<1> SUFFICES ASSUME NEW t
             PROVE  /\ HasSignal("change", t)' => HasSignal("change", t)
                    /\ HasSignal("stop", t) => HasSignal("stop", t)'
  OBVIOUS
<1>3. PICK x, y : x = <<"change", t>> /\ y = <<"stop", t>>
  OBVIOUS
<1>4. x[1] = "change" /\ y[1] = "stop"
  BY <1>3
<1>5. (HasSignal("change", t) <=> Has(senRing, x)) /\ (HasSignal("stop", t) <=> Has(senRing, y))
  BY <1>3, SensorFacts
<1> QED
  BY <1>2, <1>3, <1>4, <1>5

LEMMA SetStateStep ==
  ASSUME SensorsInv, NEW s \in Sensors, NEW state \in SensorStates, sensor' = SetState(s, state)
  PROVE  /\ sensor' \in Seq(SensorRecord) /\ Len(sensor') = Len(sensor) /\ Sensors' = Sensors
         /\ \A t \in Sensors : t # s => sensor'[t] = sensor[t]
         /\ sensor'[s].state = state /\ sensor'[s].value = sensor[s].value
         /\ state # "activated" => sensor'[s].hasReading = FALSE
<1>1. sensor \in Seq(SensorRecord) /\ Sensors = 1 .. Len(sensor) /\ s \in 1 .. Len(sensor)
  BY SensorFacts
<1> DEFINE new == [sensor[s] EXCEPT !.state = state, !.hasReading = @ /\ state = "activated"]
<1>2. sensor' = [sensor EXCEPT ![s] = new]
  BY DEF SetState
<1>3. new \in SensorRecord /\ new.state = state /\ new.value = sensor[s].value
      /\ (state # "activated" => new.hasReading = FALSE)
  <2>1. sensor[s] \in SensorRecord
    BY <1>1
  <2> QED
    BY <2>1 DEF SensorRecord
<1> HIDE DEF new
<1>4. sensor' \in Seq(SensorRecord) /\ Len(sensor') = Len(sensor)
  BY <1>1, <1>2, <1>3, ExceptSeq
<1>5. DOMAIN sensor' = DOMAIN sensor /\ sensor'[s] = new /\ \A t \in Sensors : t # s => sensor'[t] = sensor[t]
  BY <1>1, <1>2
<1> QED
  BY <1>3, <1>4, <1>5 DEF Sensors

\* The handler's answer comes with the message; calls are made with none under way.
LEMMA BoardCallStep ==
  ASSUME SensorsInv, MainFree, NEW op \in SensorOps, NEW s \in Sensors, BoardCall(op, s),
         UNCHANGED <<senMixed, senFault>>
  PROVE  /\ senCall' = [op |-> op, s |-> s, answer |-> "none"] /\ senCall' # Quiet
         /\ senCall' \in {Quiet} \cup [op : SensorOps, s : Nat, answer : {"none", "ok", "refused"}]
         /\ senMsgs' \in Seq(SensorOps \X Nat)
         /\ WillPoll' <=> op = "start"
         /\ MessageInv'
<1>1. senMsgs \in Seq(SensorOps \X Nat) /\ s \in Nat
  BY SensorFacts
<1>2. senCall' = [op |-> op, s |-> s, answer |-> "none"] /\ senMsgs' = Append(senMsgs, <<op, s>>)
  BY DEF BoardCall
<1> DEFINE msg == <<op, s>>
<1>3. /\ senMsgs' \in Seq(SensorOps \X Nat) /\ senMsgs' # <<>>
      /\ senMsgs'[Len(senMsgs')] = msg
      /\ senMsgs = <<>> => senMsgs' = <<msg>>
  <2>1. msg \in SensorOps \X Nat /\ senMsgs' = Append(senMsgs, msg)
    BY <1>1, <1>2
  <2> HIDE DEF msg
  <2>2. /\ senMsgs' \in Seq(SensorOps \X Nat) /\ Len(senMsgs') = Len(senMsgs) + 1
        /\ senMsgs'[Len(senMsgs) + 1] = msg
    BY <1>1, <2>1, AppendProperties
  <2>3. Len(senMsgs) \in Nat
    BY <1>1
  <2>4. senMsgs' # <<>> /\ senMsgs'[Len(senMsgs')] = msg
    BY <2>2, <2>3
  <2>5. senMsgs = <<>> => senMsgs' = <<msg>>
    BY <2>1
  <2> QED
    BY <2>2, <2>4, <2>5
<1>4. MessageInv'
  <2>1. ~senMixed /\ senFault = "none" => senMsgs = <<>>
    BY DEF SensorsInv, MessageInv, MainFree, Quiet
  <2> QED
    BY <1>2, <1>3, <2>1 DEF MessageInv, SensorOps
<1>5. WillPoll' <=> op = "start"
  BY <1>3 DEF WillPoll
<1>6. senCall' # Quiet /\ senCall' \in [op : SensorOps, s : Nat, answer : {"none", "ok", "refused"}]
  BY <1>1, <1>2 DEF Quiet, SensorOps
<1> QED
  BY <1>2, <1>3, <1>4, <1>5, <1>6

\* What most steps do not change of an idle sensor.
LEMMA IdleStep ==
  ASSUME SensorsInv,
         \A s \in SensorOf("idle")' \ senPending' :
           /\ s \in SensorOf("idle") \ senPending /\ sensor'[s] = sensor[s]
           /\ HasSignal("change", s)' => HasSignal("change", s)
           /\ HasSignal("stop", s) => HasSignal("stop", s)'
  PROVE  IdleInv'
  BY DEF SensorsInv, IdleInv

LEMMA SensorCreateStep ==
  ASSUME SensorsInv, SensorCreate
  PROVE  SensorsInv'
<1> DEFINE new == [state |-> "unconnected", hasReading |-> FALSE, value |-> FALSE]
<1>1. /\ senCall = Quiet /\ senUp = "up" /\ sensor' = Append(sensor, new)
      /\ UNCHANGED <<senCall, senMsgs, senPoll, senRing, senUp, senShared, senPending, senMixed, senFault>>
  BY DEF SensorCreate, MainFree
<1>2. new \in SensorRecord /\ new.state = "unconnected"
  BY DEF SensorRecord, SensorStates
<1> HIDE DEF new
<1>3. /\ sensor' \in Seq(SensorRecord) /\ Len(sensor') = Len(sensor) + 1
      /\ \A t \in 1 .. Len(sensor) : sensor'[t] = sensor[t]
      /\ sensor'[Len(sensor) + 1] = new
  BY <1>1, <1>2, SensorFacts, AppendProperties
<1>4. /\ Sensors \subseteq Sensors'
      /\ \A t \in Sensors : sensor'[t] = sensor[t]
      /\ \A t \in Sensors' : t \in Sensors \/ sensor'[t].state = "unconnected"
  <2>1. Sensors' = 1 .. Len(sensor')
    BY <1>3 DEF Sensors
  <2>2. PICK n \in Nat : n = Len(sensor)
    BY SensorFacts
  <2>3. Sensors = 1 .. n /\ Sensors' = 1 .. n + 1
    BY <1>3, <2>1, <2>2, SensorFacts
  <2>4. \A t \in 1 .. n : sensor'[t] = sensor[t]
    BY <1>3, <2>2
  <2>5. sensor'[n + 1].state = "unconnected"
    BY <1>2, <1>3, <2>2
  <2> QED
    BY <2>3, <2>4, <2>5
<1>5. \A state \in {"idle", "activated", "freed"} : SensorOf(state)' = SensorOf(state)
  BY <1>4 DEF SensorOf
<1>6. \A kind, s : HasSignal(kind, s)' <=> HasSignal(kind, s)
  BY <1>1 DEF HasSignal
<1>7. SensorsType'
  BY <1>1, <1>3, <1>4 DEF SensorsInv, SensorsType
<1>8. IdleInv'
  <2>1. \A s \in SensorOf("idle")' \ senPending' : s \in SensorOf("idle") \ senPending /\ sensor'[s] = sensor[s]
    BY <1>1, <1>4, <1>5, SensorFacts
  <2> QED
    BY <1>6, <2>1, IdleStep
<1>9. WillPoll' <=> WillPoll
  BY <1>1 DEF WillPoll
<1>10. UpInv' /\ MessageInv' /\ CleanupInv'
  BY <1>1, <1>5, <1>9 DEF SensorsInv, UpInv, MessageInv, CleanupInv
<1> QED
  BY <1>7, <1>8, <1>10 DEF SensorsInv

LEMMA SensorStartStep ==
  ASSUME SensorsInv, NEW s \in Sensors, SensorStart(s)
  PROVE  SensorsInv'
<1>1. /\ MainFree /\ senUp = "up" /\ sensor' = SetState(s, "activating") /\ BoardCall("start", s)
      /\ senPending' = senPending \ {s} /\ UNCHANGED <<senPoll, senRing, senUp, senShared, senMixed, senFault>>
  BY DEF SensorStart
<1>2. "start" \in SensorOps /\ "activating" \in SensorStates
  BY DEF SensorOps, SensorStates
<1>3. /\ senCall' = [op |-> "start", s |-> s, answer |-> "none"]
      /\ senCall' \in {Quiet} \cup [op : SensorOps, s : Nat, answer : {"none", "ok", "refused"}]
      /\ senMsgs' \in Seq(SensorOps \X Nat)
      /\ WillPoll' /\ MessageInv'
  BY <1>1, <1>2, BoardCallStep
<1>4. /\ sensor' \in Seq(SensorRecord) /\ Sensors' = Sensors
      /\ \A t \in Sensors : t # s => sensor'[t] = sensor[t]
      /\ sensor'[s].state = "activating"
  BY <1>1, <1>2, SetStateStep
<1>5. SensorsType'
  BY <1>1, <1>3, <1>4 DEF SensorsInv, SensorsType
<1>6. IdleInv'
  <2>1. \A t \in SensorOf("idle")' \ senPending' : t \in SensorOf("idle") \ senPending /\ sensor'[t] = sensor[t]
    BY <1>1, <1>4 DEF SensorOf
  <2>2. \A kind, t : HasSignal(kind, t)' <=> HasSignal(kind, t)
    BY <1>1 DEF HasSignal
  <2> QED
    BY <2>1, <2>2, IdleStep
<1>7. UpInv' /\ CleanupInv'
  <2>1. SensorOf("freed") = {} => SensorOf("freed")' = {}
    BY <1>4 DEF SensorOf
  <2> QED
    BY <1>1, <1>3, <2>1 DEF SensorsInv, UpInv, CleanupInv
<1> QED
  BY <1>3, <1>5, <1>6, <1>7 DEF SensorsInv

\* Stopping, by the script or by the cleanup: the sensors are as they were.
LEMMA SensorStopStep ==
  ASSUME SensorsInv, NEW s \in Sensors, SensorStop(s) \/ FreeStops(s)
  PROVE  SensorsInv'
<1>1. /\ MainFree /\ senUp \in {"up", "cleanup"}
      /\ UNCHANGED <<sensor, senPoll, senRing, senUp, senShared, senPending, senMixed, senFault>>
  BY DEF SensorStop, FreeStops, Frees
<1>2. PICK op \in {"stop", "free"} : BoardCall(op, s) /\ senUp = (IF op = "stop" THEN "up" ELSE "cleanup")
  BY DEF SensorStop, FreeStops, Frees
<1>3. op \in SensorOps
  BY DEF SensorOps
<1>4. /\ senCall' = [op |-> op, s |-> s, answer |-> "none"]
      /\ senCall' \in {Quiet} \cup [op : SensorOps, s : Nat, answer : {"none", "ok", "refused"}]
      /\ senMsgs' \in Seq(SensorOps \X Nat)
      /\ MessageInv'
  BY <1>1, <1>2, <1>3, BoardCallStep
<1>5. /\ Sensors' = Sensors /\ Held' = Held
      /\ \A state \in {"idle", "activated", "freed"} : SensorOf(state)' = SensorOf(state)
  BY <1>1 DEF SensorOf, Sensors, Held
<1>6. SensorsType'
  BY <1>1, <1>4, <1>5 DEF SensorsInv, SensorsType
<1>7. IdleInv'
  <2>1. \A kind, t : HasSignal(kind, t)' <=> HasSignal(kind, t)
    BY <1>1 DEF HasSignal
  <2> QED
    BY <1>1, <1>5, <2>1, IdleStep
<1>8. UpInv'
  BY <1>1, <1>2, <1>4, <1>5 DEF SensorsInv, UpInv
<1>9. CleanupInv'
  <2> SUFFICES ASSUME ~senMixed, senFault = "none", senUp # "up" PROVE CleanupInv'
    BY <1>1 DEF CleanupInv
  <2>1. senUp = "cleanup" /\ op = "free"
    BY <1>1, <1>2
  <2> QED
    BY <1>1, <1>4, <1>5, <2>1 DEF SensorsInv, CleanupInv
<1> QED
  BY <1>4, <1>6, <1>7, <1>8, <1>9 DEF SensorsInv

\* What an answer or a timeout leaves of the call.
LEMMA AnsweredStep ==
  ASSUME SensorsInv, NEW op \in SensorOps, Answered(op)
  PROVE  /\ senCall # Quiet /\ senCall.op = op /\ senCall.s \in Sensors /\ senCall' = Quiet
         /\ UNCHANGED <<senMsgs, senPoll, senFault>>
         /\ ~senMixed' => ~senMixed /\ senCall.answer # "none"
         /\ WillPoll' <=> WillPoll
         /\ MessageInv'
<1>1. /\ senCall.op = op /\ senCall' = Quiet /\ UNCHANGED <<senMsgs, senPoll, senFault>>
      /\ ~senMixed' => ~senMixed /\ senCall.answer # "none"
  BY DEF Answered
<1>2. senCall # Quiet /\ senCall.s \in Sensors
  BY <1>1, SensorFacts DEF SensorOps
<1>3. WillPoll' <=> WillPoll
  BY <1>1 DEF WillPoll
<1>4. MessageInv'
  BY <1>1 DEF SensorsInv, MessageInv, Quiet
<1> QED
  BY <1>1, <1>2, <1>3, <1>4

LEMMA SensorStartedStep ==
  ASSUME SensorsInv, SensorStarted
  PROVE  SensorsInv'
<1>0. PICK s, kind : s = senCall.s /\ kind = IF senCall.answer = "ok" THEN "activate" ELSE "error"
  OBVIOUS
<1>1. /\ kind \in {"activate", "error"}
      /\ Answered("start") /\ sensor' = SetState(s, "activated")
      /\ senRing' = Signalled(Signalled(senRing, <<<<kind, s>>>>), <<<<"start", s>>>>)
      /\ senShared' = senShared \ {s} /\ UNCHANGED <<senUp, senPending>>
  BY <1>0 DEF SensorStarted
<1>2. "start" \in SensorOps /\ "activated" \in SensorStates
  BY DEF SensorOps, SensorStates
<1>3. /\ senCall # Quiet /\ senCall.op = "start" /\ s \in Sensors /\ senCall' = Quiet
      /\ UNCHANGED <<senMsgs, senPoll, senFault>>
      /\ ~senMixed' => ~senMixed
      /\ WillPoll' <=> WillPoll
      /\ MessageInv'
  BY <1>0, <1>1, <1>2, AnsweredStep
<1>4. /\ sensor' \in Seq(SensorRecord) /\ Sensors' = Sensors
      /\ \A t \in Sensors : t # s => sensor'[t] = sensor[t]
      /\ sensor'[s].state = "activated"
  BY <1>1, <1>2, <1>3, SetStateStep
<1>5. /\ senRing' \in Seq(SignalKinds \X Nat) /\ Len(senRing') <= SensorRing
      /\ \A x : Has(senRing, x) => Has(senRing', x)
      /\ \A x : Has(senRing', x) => Has(senRing, x) \/ x[1] # "change"
  <2>0. {kind, "start"} \subseteq SignalKinds /\ kind # "change" /\ s \in Nat
    BY <1>1, <1>3, SensorFacts DEF SignalKinds
  <2>1. PICK x1, x2 : x1 = <<kind, s>> /\ x2 = <<"start", s>>
    OBVIOUS
  <2>2. x1 \in SignalKinds \X Nat /\ x2 \in SignalKinds \X Nat /\ x1[1] # "change" /\ x2[1] # "change"
    BY <2>0, <2>1
  <2>3. <<x1>> \in Seq(SignalKinds \X Nat) /\ <<x2>> \in Seq(SignalKinds \X Nat)
    BY <2>2
  <2>4. PICK r : r = Signalled(senRing, <<x1>>)
    OBVIOUS
  <2>5. /\ r \in Seq(SignalKinds \X Nat) /\ Len(r) <= SensorRing
        /\ \A x : Has(senRing, x) => Has(r, x)
        /\ \A x : Has(r, x) => Has(senRing, x) \/ Has(<<x1>>, x)
    BY <2>3, <2>4, SensorFacts, SignalledHas
  <2>6. senRing' = Signalled(r, <<x2>>)
    BY <1>1, <2>1, <2>4
  <2>7. /\ senRing' \in Seq(SignalKinds \X Nat) /\ Len(senRing') <= SensorRing
        /\ \A x : Has(r, x) => Has(senRing', x)
        /\ \A x : Has(senRing', x) => Has(r, x) \/ Has(<<x2>>, x)
    BY <2>3, <2>5, <2>6, SignalledHas
  <2>8. \A x : (Has(<<x1>>, x) => x = x1) /\ (Has(<<x2>>, x) => x = x2)
    BY HasOne
  <2> QED
    BY <2>2, <2>5, <2>7, <2>8
<1>6. SensorsType'
  BY <1>1, <1>3, <1>4, <1>5 DEF SensorsInv, SensorsType
<1>7. IdleInv'
  <2>1. \A t \in SensorOf("idle")' \ senPending' : t \in SensorOf("idle") \ senPending /\ sensor'[t] = sensor[t]
    BY <1>1, <1>4 DEF SensorOf
  <2>3. \A t : (HasSignal("change", t)' => HasSignal("change", t)) /\ (HasSignal("stop", t) => HasSignal("stop", t)')
    BY <1>5, RingStep
  <2> QED
    BY <2>1, <2>3, IdleStep
<1>8. senUp = "up" \/ senMixed \/ senFault # "none"
  BY <1>3 DEF SensorsInv, CleanupInv
<1>9. UpInv'
  <2>1. SensorOf("freed") = {} => SensorOf("freed")' = {}
    BY <1>4 DEF SensorOf
  <2> QED
    BY <1>1, <1>3, <2>1 DEF SensorsInv, UpInv, Quiet
<1>10. CleanupInv'
  BY <1>1, <1>3, <1>8 DEF CleanupInv
<1> QED
  BY <1>3, <1>6, <1>7, <1>9, <1>10 DEF SensorsInv

LEMMA SensorStoppedStep ==
  ASSUME SensorsInv, SensorStopped
  PROVE  SensorsInv'
<1>0. PICK s, errors : s = senCall.s /\ errors = IF senCall.answer = "ok" THEN <<>> ELSE <<<<"error", s>>>>
  OBVIOUS
<1>1. /\ Answered("stop") /\ sensor' = SetState(s, "idle")
      /\ senRing' = Signalled(Signalled(senRing, errors), <<<<"stop", s>>>>)
      /\ senShared' = (senShared \ {s}) \cup (SensorOf("activated") \ {s})
      /\ senPending' = IF HasSignal("change", s) \/ Len(senRing \o errors) >= SensorRing
                       THEN senPending \cup {s} ELSE senPending
      /\ UNCHANGED senUp
  BY <1>0 DEF SensorStopped
<1>2. "stop" \in SensorOps /\ "idle" \in SensorStates
  BY DEF SensorOps, SensorStates
<1>3. /\ senCall # Quiet /\ senCall.op = "stop" /\ s \in Sensors /\ senCall' = Quiet
      /\ UNCHANGED <<senMsgs, senPoll, senFault>>
      /\ ~senMixed' => ~senMixed
      /\ MessageInv'
  BY <1>0, <1>1, <1>2, AnsweredStep
<1>4. /\ sensor' \in Seq(SensorRecord) /\ Sensors' = Sensors
      /\ \A t \in Sensors : t # s => sensor'[t] = sensor[t]
      /\ sensor'[s].state = "idle" /\ sensor'[s].hasReading = FALSE
  BY <1>1, <1>2, <1>3, SetStateStep
<1>5. /\ senRing' \in Seq(SignalKinds \X Nat) /\ Len(senRing') <= SensorRing
      /\ \A x : Has(senRing, x) => Has(senRing', x)
      /\ \A x : Has(senRing', x) => Has(senRing, x) \/ x[1] # "change"
      /\ Len(senRing) + Len(errors) < SensorRing => Has(senRing', <<"stop", s>>)
      /\ errors \in Seq(SignalKinds \X Nat)
  <2>1. PICK x1, x2 : x1 = <<"error", s>> /\ x2 = <<"stop", s>>
    OBVIOUS
  <2>2. x1 \in SignalKinds \X Nat /\ x2 \in SignalKinds \X Nat /\ x1[1] # "change" /\ x2[1] # "change"
    BY <1>3, <2>1, SensorFacts DEF SignalKinds
  <2>3. <<x1>> \in Seq(SignalKinds \X Nat) /\ <<x2>> \in Seq(SignalKinds \X Nat)
        /\ Len(<<x1>>) = 1 /\ Len(<<x2>>) = 1 /\ (<<x2>>)[1] = x2
    BY <2>2
  <2>4. PICK r : r = Signalled(senRing, errors)
    OBVIOUS
  <2>5. errors = <<>> \/ errors = <<x1>>
    BY <1>0, <2>1
  <2>6. errors \in Seq(SignalKinds \X Nat) /\ Len(errors) \in {0, 1}
    <3>1. (<<>>) \in Seq(SignalKinds \X Nat) /\ Len(<<>>) = 0
      OBVIOUS
    <3> QED
      BY <2>3, <2>5, <3>1
  <2>7. /\ r \in Seq(SignalKinds \X Nat) /\ Len(r) <= SensorRing
        /\ \A x : Has(senRing, x) => Has(r, x)
        /\ \A x : Has(r, x) => Has(senRing, x) \/ Has(errors, x)
        /\ Len(errors) = 1 /\ Len(senRing) < SensorRing => Len(r) = Len(senRing) + 1
    BY <2>4, <2>6, SensorFacts, SignalledHas
  <2>8. errors = <<>> => r = senRing
    BY <2>4, SensorFacts DEF Signalled
  <2>9. senRing' = Signalled(r, <<x2>>)
    BY <1>1, <2>1, <2>4
  <2>10. /\ senRing' \in Seq(SignalKinds \X Nat) /\ Len(senRing') <= SensorRing
         /\ \A x : Has(r, x) => Has(senRing', x)
         /\ \A x : Has(senRing', x) => Has(r, x) \/ Has(<<x2>>, x)
         /\ Len(r) < SensorRing => Has(senRing', x2)
    BY <2>3, <2>7, <2>9, SignalledHas
  <2>11. \A x : (Has(errors, x) => x = x1) /\ (Has(<<x2>>, x) => x = x2)
    <3>1. \A x : ~Has(<<>>, x)
      BY DEF Has
    <3> QED
      BY <2>5, <3>1, HasOne
  <2>12. Len(senRing) + Len(errors) < SensorRing => Len(r) < SensorRing
    <3>1. PICK n \in Nat : n = Len(senRing)
      BY SensorFacts
    <3>2. CASE errors = <<>>
      BY <2>8, <3>1, <3>2
    <3>3. CASE errors = <<x1>>
      BY <2>3, <2>7, <3>1, <3>3
    <3> QED
      BY <2>5, <3>2, <3>3
  <2>13. \A x : Has(senRing', x) => Has(senRing, x) \/ x[1] # "change"
    BY <2>2, <2>7, <2>10, <2>11
  <2> QED
    BY <2>1, <2>6, <2>7, <2>10, <2>12, <2>13
<1>6. SensorsType'
  BY <1>1, <1>3, <1>4, <1>5 DEF SensorsInv, SensorsType
<1>7. \A t : (HasSignal("change", t)' => HasSignal("change", t)) /\ (HasSignal("stop", t) => HasSignal("stop", t)')
  BY <1>5, RingStep
<1>8. IdleInv'
  <2> SUFFICES ASSUME NEW t \in SensorOf("idle")' \ senPending'
               PROVE  /\ ~sensor'[t].hasReading /\ ~HasSignal("change", t)'
                      /\ ~sensor'[t].value \/ HasSignal("stop", t)'
    BY DEF IdleInv
  <2>1. t \in Sensors /\ t \notin senPending
    BY <1>1, <1>4 DEF SensorOf
  <2>2. CASE t # s
    <3>1. t \in SensorOf("idle") \ senPending /\ sensor'[t] = sensor[t]
      BY <1>4, <2>1, <2>2 DEF SensorOf
    <3> QED
      BY <1>7, <3>1 DEF SensorsInv, IdleInv
  <2>3. CASE t = s
    <3>1. ~HasSignal("change", s) /\ ~(Len(senRing \o errors) >= SensorRing)
      BY <1>1, <2>3
    <3>2. Len(senRing) + Len(errors) < SensorRing
      <4>1. PICK n \in Nat, k \in Nat : n = Len(senRing) /\ k = Len(errors) /\ Len(senRing \o errors) = n + k
        BY <1>5, SensorFacts
      <4> QED
        BY <3>1, <4>1
    <3>3. HasSignal("stop", s)'
      <4>1. DOMAIN senRing' = 1 .. Len(senRing')
        BY <1>5
      <4> QED
        BY <1>5, <3>2, <4>1 DEF HasSignal, Has
    <3> QED
      BY <1>4, <1>7, <2>3, <3>1, <3>3
  <2> QED
    BY <2>2, <2>3
<1>9. UpInv'
  <2>1. /\ SensorOf("activated")' \subseteq senShared'
        /\ SensorOf("freed") = {} => SensorOf("freed")' = {}
    BY <1>1, <1>4 DEF SensorOf
  <2> QED
    BY <1>1, <1>3, <2>1 DEF SensorsInv, UpInv, Quiet
<1>10. CleanupInv'
  BY <1>1, <1>3 DEF SensorsInv, CleanupInv
<1> QED
  BY <1>3, <1>6, <1>8, <1>9, <1>10 DEF SensorsInv

LEMMA EmptySeqs ==
  /\ (<<>>) \in Seq(SensorRecord) /\ (<<>>) \in Seq(SensorOps \X Nat)
  /\ (<<>>) \in Seq(SignalKinds \X Nat) /\ Len(<<>>) = 0 /\ 0 <= SensorRing
  OBVIOUS

LEMMA NotEmpty ==
  ASSUME NEW S, NEW q \in Seq(S), q # <<>>
  PROVE  Len(q) \in Nat /\ Len(q) >= 1
<1>1. Len(q) \in Nat /\ Len(q) # 0
  BY EmptySeq
<1> QED
  BY <1>1

LEMMA SensorsNotEmpty ==
  ASSUME SensorsInv, sensor # <<>>
  PROVE  Sensors # {}
<1>1. PICK n \in Nat : n = Len(sensor) /\ n >= 1
  BY NotEmpty, SensorFacts
<1>2. Sensors = 1 .. n
  BY <1>1, SensorFacts
<1>3. 1 \in 1 .. n
  BY <1>1
<1> QED
  BY <1>2, <1>3

LEMMA SensorSignalStep ==
  ASSUME SensorsInv, SensorSignal
  PROVE  SensorsInv'
<1>0. PICK head, kind, s : head = senRing[1] /\ kind = head[1] /\ s = head[2]
  OBVIOUS
<1>1. /\ senRing # <<>> /\ senRing' = Tail(senRing)
      /\ sensor' = CASE kind = "change" -> [sensor EXCEPT ![s].value = TRUE, ![s].hasReading = TRUE]
                     [] kind = "stop"   -> [sensor EXCEPT ![s].value = FALSE]
                     [] OTHER           -> sensor
      /\ UNCHANGED <<senCall, senMsgs, senPoll, senUp, senShared, senPending, senMixed, senFault>>
  BY <1>0 DEF SensorSignal
<1>2. /\ senRing' \in Seq(SignalKinds \X Nat) /\ Len(senRing') <= SensorRing
      /\ head \in SignalKinds \X Nat /\ head = <<kind, s>> /\ Has(senRing, head)
      /\ \A x : Has(senRing', x) => Has(senRing, x)
      /\ \A x : Has(senRing, x) => x = head \/ Has(senRing', x)
  <2>1. PICK n \in Nat : n = Len(senRing) /\ n >= 1
    BY <1>1, SensorFacts, NotEmpty
  <2>2. /\ senRing' \in Seq(SignalKinds \X Nat) /\ Len(senRing') = n - 1
        /\ \A i \in 1 .. n - 1 : senRing'[i] = senRing[i + 1]
    BY <1>1, <2>1, SensorFacts
  <2>3. head \in SignalKinds \X Nat /\ head = <<kind, s>>
    <3>1. head \in SignalKinds \X Nat
      BY <1>0, <2>1, SensorFacts
    <3> QED
      BY <1>0, <3>1
  <2>4. Has(senRing, head)
    BY <1>0, <2>1 DEF Has
  <2>5. \A x : Has(senRing', x) => Has(senRing, x)
    <3> SUFFICES ASSUME NEW x, NEW i \in 1 .. n - 1, senRing'[i] = x PROVE Has(senRing, x)
      BY <2>2 DEF Has
    <3>1. i + 1 \in 1 .. Len(senRing)
      BY <2>1
    <3> QED
      BY <2>2, <3>1 DEF Has
  <2>6. ASSUME NEW x, Has(senRing, x)
        PROVE  x = head \/ Has(senRing', x)
    <3>1. PICK i \in 1 .. n : senRing[i] = x
      BY <2>1, <2>6 DEF Has
    <3>2. CASE i = 1
      BY <1>0, <3>1, <3>2
    <3>3. CASE i # 1
      <4>1. i - 1 \in 1 .. n - 1 /\ senRing'[i - 1] = x
        BY <2>2, <3>1, <3>3
      <4> QED
        BY <2>2, <4>1 DEF Has
    <3> QED
      BY <3>2, <3>3
  <2>7. Len(senRing') <= SensorRing
    BY <2>1, <2>2, SensorFacts
  <2> QED
    BY <2>2, <2>3, <2>4, <2>5, <2>6, <2>7
<1>3. /\ sensor' \in Seq(SensorRecord) /\ Sensors' = Sensors
      /\ \A t \in Sensors : sensor'[t].state = sensor[t].state
      /\ \A t \in Sensors : t # s \/ kind \notin {"change", "stop"} => sensor'[t] = sensor[t]
      /\ s \in Sensors /\ kind = "stop" => sensor'[s].value = FALSE /\ sensor'[s].hasReading = sensor[s].hasReading
  <2>1. sensor \in Seq(SensorRecord) /\ Sensors = 1 .. Len(sensor)
    BY SensorFacts
  <2>2. CASE s \notin Sensors \/ kind \notin {"change", "stop"}
    <3>1. sensor' = sensor
      BY <1>1, <2>1, <2>2 DEF Sensors
    <3> QED
      BY <2>1, <2>2, <3>1 DEF Sensors
  <2>3. CASE s \in Sensors /\ kind \in {"change", "stop"}
    <3>1. PICK new : /\ sensor' = [sensor EXCEPT ![s] = new]
                     /\ new \in SensorRecord /\ new.state = sensor[s].state
                     /\ kind = "stop" => new.value = FALSE /\ new.hasReading = sensor[s].hasReading
      <4>1. sensor[s] \in SensorRecord
        BY <2>1, <2>3
      <4>2. CASE kind = "change"
        <5> DEFINE new == [sensor[s] EXCEPT !.value = TRUE, !.hasReading = TRUE]
        <5>1. new \in SensorRecord /\ new.state = sensor[s].state
          BY <4>1 DEF SensorRecord
        <5>2. sensor' = [sensor EXCEPT ![s] = new]
          BY <1>1, <4>2
        <5> QED
          BY <4>2, <5>1, <5>2
      <4>3. CASE kind = "stop"
        <5> DEFINE new == [sensor[s] EXCEPT !.value = FALSE]
        <5>1. new \in SensorRecord /\ new.state = sensor[s].state
              /\ new.value = FALSE /\ new.hasReading = sensor[s].hasReading
          BY <4>1 DEF SensorRecord
        <5>2. sensor' = [sensor EXCEPT ![s] = new]
          BY <1>1, <4>3
        <5> QED
          BY <4>3, <5>1, <5>2
      <4> QED
        BY <2>3, <4>2, <4>3
    <3>2. sensor' \in Seq(SensorRecord) /\ Len(sensor') = Len(sensor)
      BY <2>1, <2>3, <3>1, ExceptSeq
    <3>3. Sensors' = Sensors /\ sensor'[s] = new /\ \A t \in Sensors : t # s => sensor'[t] = sensor[t]
      BY <2>1, <2>3, <3>1 DEF Sensors
    <3> QED
      BY <2>3, <3>1, <3>2, <3>3
  <2> QED
    BY <2>2, <2>3
<1>4. SensorsType'
  BY <1>1, <1>2, <1>3 DEF SensorsInv, SensorsType
<1>5. \A state : SensorOf(state)' = SensorOf(state)
  BY <1>3 DEF SensorOf
<1>6. IdleInv'
  <2> SUFFICES ASSUME NEW t \in SensorOf("idle")' \ senPending'
               PROVE  /\ ~sensor'[t].hasReading /\ ~HasSignal("change", t)'
                      /\ ~sensor'[t].value \/ HasSignal("stop", t)'
    BY DEF IdleInv
  <2>1. /\ t \in Sensors /\ ~sensor[t].hasReading /\ ~HasSignal("change", t)
        /\ ~sensor[t].value \/ HasSignal("stop", t)
    BY <1>1, <1>5, SensorFacts DEF SensorsInv, IdleInv
  <2>2. PICK x, y : x = <<"change", t>> /\ y = <<"stop", t>>
    OBVIOUS
  <2>3. /\ HasSignal("change", t) <=> Has(senRing, x)
        /\ HasSignal("stop", t) <=> Has(senRing, y)
    BY <2>2, SensorFacts
  <2>4. /\ HasSignal("change", t)' <=> Has(senRing', x)
        /\ HasSignal("stop", t)' <=> Has(senRing', y)
    <3>1. DOMAIN senRing' = 1 .. Len(senRing')
      BY <1>2
    <3> QED
      BY <2>2, <3>1 DEF HasSignal, Has
  <2>5. (head = x <=> kind = "change" /\ s = t) /\ (head = y <=> kind = "stop" /\ s = t)
    BY <1>2, <2>2
  <2>6. ~HasSignal("change", t)' /\ ~(kind = "change" /\ s = t)
    BY <1>2, <2>1, <2>3, <2>4, <2>5
  <2>7. CASE kind = "stop" /\ s = t
    BY <1>3, <2>1, <2>6, <2>7
  <2>8. CASE ~(kind = "stop" /\ s = t)
    <3>1. sensor'[t] = sensor[t]
      BY <1>3, <2>1, <2>6, <2>8
    <3>2. HasSignal("stop", t) => HasSignal("stop", t)'
      BY <1>2, <2>3, <2>4, <2>5, <2>8
    <3> QED
      BY <2>1, <2>6, <3>1, <3>2
  <2> QED
    BY <2>7, <2>8
<1>7. WillPoll' <=> WillPoll
  BY <1>1 DEF WillPoll
<1>8. UpInv' /\ MessageInv' /\ CleanupInv'
  <2>1. senUp = "up"
    BY DEF SensorSignal
  <2> QED
    BY <1>1, <1>5, <1>7, <2>1 DEF SensorsInv, UpInv, MessageInv, CleanupInv
<1> QED
  BY <1>4, <1>6, <1>8 DEF SensorsInv

LEMMA HandleSensorStep ==
  ASSUME SensorsInv, HandleSensor
  PROVE  SensorsInv'
<1>0. PICK msg, op : msg = senMsgs[1] /\ op = msg[1]
  OBVIOUS
<1> DEFINE own == senCall.answer = "none" /\ msg = <<senCall.op, senCall.s>> /\ Len(senMsgs) = 1
<1>1. /\ senMsgs # <<>> /\ senMsgs' = Tail(senMsgs) /\ senPoll' = (op = "start")
      /\ own => \E answer \in {"ok", "refused"} : senCall' = [senCall EXCEPT !.answer = answer]
      /\ ~own => senCall' = senCall
      /\ UNCHANGED <<sensor, senRing, senUp, senShared, senPending, senMixed, senFault>>
  BY <1>0 DEF HandleSensor
<1>2. msg \in SensorOps \X Nat /\ senMsgs' \in Seq(SensorOps \X Nat) /\ (WillPoll' <=> WillPoll)
  <2>1. PICK n \in Nat : n = Len(senMsgs) /\ n >= 1
    BY <1>1, SensorFacts, NotEmpty
  <2>2. /\ senMsgs' \in Seq(SensorOps \X Nat) /\ Len(senMsgs') = n - 1
        /\ \A i \in 1 .. n - 1 : senMsgs'[i] = senMsgs[i + 1]
    BY <1>1, <2>1, SensorFacts
  <2>3. msg \in SensorOps \X Nat
    BY <1>0, <2>1, SensorFacts
  <2>4. CASE n = 1
    <3>1. senMsgs' = <<>> /\ senMsgs[Len(senMsgs)] = msg
      BY <1>0, <2>1, <2>2, <2>4
    <3> QED
      BY <1>0, <1>1, <2>2, <2>3, <3>1 DEF WillPoll
  <2>5. CASE n > 1
    <3>1. senMsgs' # <<>> /\ senMsgs'[Len(senMsgs')] = senMsgs[Len(senMsgs)]
      BY <2>1, <2>2, <2>5
    <3> QED
      BY <1>1, <2>2, <2>3, <3>1 DEF WillPoll
  <2> QED
    BY <2>1, <2>4, <2>5
<1>3. /\ senCall' \in {Quiet} \cup [op : SensorOps, s : Nat, answer : {"none", "ok", "refused"}]
      /\ senCall'.op = senCall.op /\ senCall'.s = senCall.s /\ (senCall' = Quiet <=> senCall = Quiet)
      /\ own => senCall'.answer # "none" /\ senCall # Quiet
      /\ ~own => senCall' = senCall
  <2>1. CASE own
    <3>1. senCall # Quiet
      BY <1>2, <2>1 DEF Quiet, SensorOps
    <3>2. senCall \in [op : SensorOps, s : Nat, answer : {"none", "ok", "refused"}]
      BY <3>1 DEF SensorsInv, SensorsType
    <3>3. PICK answer \in {"ok", "refused"} : senCall' = [senCall EXCEPT !.answer = answer]
      BY <1>1, <2>1
    <3> QED
      BY <2>1, <3>1, <3>2, <3>3 DEF Quiet, SensorOps
  <2>2. CASE ~own
    BY <1>1, <2>2 DEF SensorsInv, SensorsType
  <2> QED
    BY <2>1, <2>2
<1>4. Sensors' = Sensors /\ Held' = Held /\ \A state : SensorOf(state)' = SensorOf(state)
  BY <1>1 DEF Sensors, Held, SensorOf
<1>5. SensorsType'
  BY <1>1, <1>2, <1>3, <1>4 DEF SensorsInv, SensorsType
<1>6. IdleInv'
  <2>1. \A kind, t : HasSignal(kind, t)' <=> HasSignal(kind, t)
    BY <1>1 DEF HasSignal
  <2> QED
    BY <1>1, <1>4, <2>1, IdleStep
<1>7. ~senMixed /\ senFault = "none" =>
        /\ own /\ senMsgs' = <<>> /\ op = senCall.op /\ senCall.op # "none"
  <2> SUFFICES ASSUME ~senMixed, senFault = "none"
               PROVE  own /\ senMsgs' = <<>> /\ op = senCall.op /\ senCall.op # "none"
    OBVIOUS
  <2>1. senCall.op # "none" /\ senCall.answer = "none" /\ senMsgs = <<<<senCall.op, senCall.s>>>>
    BY <1>1 DEF SensorsInv, MessageInv
  <2>2. msg = <<senCall.op, senCall.s>> /\ Len(senMsgs) = 1
    BY <1>0, <2>1
  <2>3. senMsgs' = <<>>
    BY <1>1, <2>1
  <2> QED
    BY <1>0, <2>1, <2>2, <2>3
<1> HIDE DEF own
<1>8. UpInv' /\ MessageInv'
  BY <1>1, <1>2, <1>3, <1>4, <1>7 DEF SensorsInv, UpInv, MessageInv
<1>9. CleanupInv'
  <2> SUFFICES ASSUME ~senMixed, senFault = "none", senUp # "up" PROVE CleanupInv'
    BY <1>1 DEF CleanupInv
  <2>1. senCall.op = "free" /\ senPoll' = FALSE
    BY <1>1, <1>7 DEF SensorsInv, CleanupInv
  <2> QED
    BY <1>1, <1>3, <1>4, <2>1 DEF SensorsInv, CleanupInv
<1> QED
  BY <1>5, <1>6, <1>8, <1>9 DEF SensorsInv

\* Readings go to activated sensors.
LEMMA FetchSensorStep ==
  ASSUME SensorsInv, FetchSensor
  PROVE  SensorsInv'
<1>1. PICK readings \in Readings : senRing' = Signalled(senRing, readings)
  BY DEF FetchSensor
<1>2. UNCHANGED <<sensor, senCall, senMsgs, senPoll, senUp, senShared, senPending, senMixed, senFault>>
  BY DEF FetchSensor
<1>3. /\ readings \in Seq(SignalKinds \X Nat)
      /\ \A x : Has(readings, x) => x[1] = "change" /\ x[2] \in SensorOf("activated")
  <2>1. PICK n \in Nat : n = Cardinality(SensorOf("activated"))
    <3>1. SensorOf("activated") \subseteq 1 .. Len(sensor) /\ IsFiniteSet(1 .. Len(sensor))
      BY SensorFacts, FS_Interval
    <3> QED
      BY <3>1, FS_Subset, FS_CardinalityType
  <2>2. readings \in [1 .. n -> {"change"} \X SensorOf("activated")]
    BY <2>1 DEF Readings
  <2>3. SensorOf("activated") \subseteq Nat /\ "change" \in SignalKinds
    BY SensorFacts DEF SignalKinds
  <2>4. {"change"} \X SensorOf("activated") \subseteq SignalKinds \X Nat
    BY <2>3
  <2>5. readings \in Seq({"change"} \X SensorOf("activated")) /\ Len(readings) = n
    BY <2>2
  <2>6. readings \in Seq(SignalKinds \X Nat)
    BY <2>4, <2>5
  <2>7. \A x : Has(readings, x) => x[1] = "change" /\ x[2] \in SensorOf("activated")
    BY <2>2, <2>5 DEF Has
  <2> QED
    BY <2>6, <2>7
<1>4. /\ senRing' \in Seq(SignalKinds \X Nat) /\ Len(senRing') <= SensorRing
      /\ \A x : Has(senRing, x) => Has(senRing', x)
      /\ \A x : Has(senRing', x) => Has(senRing, x) \/ Has(readings, x)
  BY <1>1, <1>3, SensorFacts, SignalledHas
<1>5. Sensors' = Sensors /\ Held' = Held /\ \A state : SensorOf(state)' = SensorOf(state)
  BY <1>2 DEF Sensors, Held, SensorOf
<1>6. SensorsType'
  BY <1>2, <1>4, <1>5 DEF SensorsInv, SensorsType
<1>7. IdleInv'
  <2>1. ASSUME NEW t \in SensorOf("idle")' \ senPending'
        PROVE  /\ HasSignal("change", t)' => HasSignal("change", t)
               /\ HasSignal("stop", t) => HasSignal("stop", t)'
    <3>1. PICK x, y : x = <<"change", t>> /\ y = <<"stop", t>>
      OBVIOUS
    <3>2. /\ HasSignal("change", t) <=> Has(senRing, x)
          /\ HasSignal("stop", t) <=> Has(senRing, y)
      BY <3>1, SensorFacts
    <3>3. /\ HasSignal("change", t)' <=> Has(senRing', x)
          /\ HasSignal("stop", t)' <=> Has(senRing', y)
      <4>1. DOMAIN senRing' = 1 .. Len(senRing')
        BY <1>4
      <4> QED
        BY <3>1, <4>1 DEF HasSignal, Has
    <3>4. ~Has(readings, x)
      <4>1. x[2] = t /\ t \notin SensorOf("activated")
        BY <1>2, <3>1 DEF SensorOf
      <4> QED
        BY <1>3, <4>1
    <3> QED
      BY <1>4, <3>2, <3>3, <3>4
  <2> QED
    BY <1>2, <1>5, <2>1, IdleStep
<1>8. WillPoll' <=> WillPoll
  BY <1>2 DEF WillPoll
<1>9. UpInv' /\ MessageInv' /\ CleanupInv'
  BY <1>2, <1>5, <1>8 DEF SensorsInv, UpInv, MessageInv, CleanupInv
<1> QED
  BY <1>6, <1>7, <1>9 DEF SensorsInv

\* The cleanup begins and ends.
LEMMA SensorCleanupStep ==
  ASSUME SensorsInv, SensorCleanup \/ FreeInstance
  PROVE  SensorsInv'
<1>1. /\ senCall = Quiet /\ senUp \in {"up", "cleanup"} /\ senUp' \in {"cleanup", "down"}
      /\ UNCHANGED <<sensor, senCall, senMsgs, senPoll, senPending, senFault>>
      /\ ~senMixed' => ~senMixed
  <2>1. CASE SensorCleanup
    BY <2>1 DEF SensorCleanup, MainFree
  <2>2. CASE FreeInstance
    BY <2>2 DEF FreeInstance, MainFree
  <2> QED
    BY <2>1, <2>2
<1>2. Sensors' = Sensors /\ Held' = Held /\ \A state : SensorOf(state)' = SensorOf(state)
  BY <1>1 DEF Sensors, Held, SensorOf
<1>3. senRing' \in Seq(SignalKinds \X Nat) /\ Len(senRing') <= SensorRing
  <2>1. senRing' = senRing \/ senRing' = <<>>
    BY DEF SensorCleanup, FreeInstance
  <2> QED
    BY <2>1, EmptySeqs, SensorFacts
<1>4. SensorsType'
  BY <1>1, <1>2, <1>3 DEF SensorsInv, SensorsType
<1>5. IdleInv'
  <2>1. CASE senRing' = senRing
    <3>1. \A kind, t : HasSignal(kind, t)' <=> HasSignal(kind, t)
      BY <2>1 DEF HasSignal
    <3> QED
      BY <1>1, <1>2, <3>1, IdleStep
  <2>2. CASE Held = {}
    <3>1. SensorOf("idle") \subseteq Held
      BY DEF SensorOf, Held
    <3> QED
      BY <1>2, <2>2, <3>1 DEF IdleInv
  <2> QED
    BY <2>1, <2>2 DEF SensorCleanup, FreeInstance
<1>6. UpInv' /\ MessageInv'
  BY <1>1 DEF SensorsInv, UpInv, MessageInv
<1>7. CleanupInv'
  <2> SUFFICES ASSUME ~senMixed', senFault = "none" PROVE CleanupInv'
    BY <1>1 DEF CleanupInv
  <2>1. CASE SensorCleanup
    <3>1. sensor # <<>> /\ SensorOf("activated") = Sensors /\ senUp' = "cleanup"
      BY <2>1 DEF SensorCleanup
    <3>2. Held = Sensors
      BY <3>1 DEF Held, SensorOf
    <3> QED
      BY <1>1, <1>2, <3>1, <3>2 DEF CleanupInv, Quiet
  <2>2. CASE FreeInstance
    <3>1. Held = {} /\ senUp = "cleanup"
      BY <2>2 DEF FreeInstance
    <3> QED
      BY <1>1, <1>2, <3>1 DEF SensorsInv, CleanupInv
  <2> QED
    BY <2>1, <2>2
<1> QED
  BY <1>4, <1>5, <1>6, <1>7 DEF SensorsInv

\* A handle is freed.
LEMMA FreeStep ==
  ASSUME SensorsInv, FreeStopped \/ \E s \in Sensors : FreeIdle(s)
  PROVE  SensorsInv'
<1>1. PICK s \in Sensors :
        /\ sensor' = SetState(s, "freed") /\ senCall' = Quiet
        /\ UNCHANGED <<senMsgs, senPoll, senRing, senUp, senPending, senFault>>
        /\ ~senMixed' => ~senMixed
        /\ senUp # "up" /\ MessageInv'
        /\ \/ senCall.op = "free" /\ (~senMixed' => senCall.answer # "none")
           \/ s \in Held /\ sensor[s].state # "activated"
  <2>1. CASE FreeStopped
    <3>1. Answered("free") /\ sensor' = SetState(senCall.s, "freed") /\ UNCHANGED <<senRing, senUp, senPending>>
      BY <2>1 DEF FreeStopped
    <3>2. /\ senCall.op = "free" /\ senCall.s \in Sensors /\ senCall' = Quiet
          /\ UNCHANGED <<senMsgs, senPoll, senFault>>
          /\ ~senMixed' => ~senMixed /\ senCall.answer # "none"
          /\ MessageInv'
      BY <3>1, AnsweredStep DEF SensorOps
    <3>3. senUp # "up"
      BY <3>2 DEF SensorsInv, UpInv
    <3> QED
      BY <3>1, <3>2, <3>3
  <2>2. ASSUME NEW s \in Sensors, FreeIdle(s)
        PROVE  /\ sensor' = SetState(s, "freed") /\ senCall' = Quiet
               /\ UNCHANGED <<senCall, senMsgs, senPoll, senRing, senUp, senPending, senMixed, senFault>>
               /\ senUp # "up" /\ s \in Held /\ sensor[s].state # "activated"
    BY <2>2 DEF FreeIdle, Frees, MainFree
  <2>3. UNCHANGED <<senCall, senMsgs, senMixed, senFault>> => MessageInv'
    BY DEF SensorsInv, MessageInv
  <2> QED
    BY <2>1, <2>2, <2>3
<1>2. "freed" \in SensorStates
  BY DEF SensorStates
<1>3. /\ sensor' \in Seq(SensorRecord) /\ Sensors' = Sensors /\ Len(sensor') = Len(sensor)
      /\ \A t \in Sensors : t # s => sensor'[t] = sensor[t]
      /\ sensor'[s].state = "freed"
  BY <1>1, <1>2, SetStateStep
<1>4. SensorsType'
  BY <1>1, <1>3 DEF SensorsInv, SensorsType
<1>5. IdleInv'
  <2>1. \A t \in SensorOf("idle")' \ senPending' : t \in SensorOf("idle") \ senPending /\ sensor'[t] = sensor[t]
    BY <1>1, <1>3 DEF SensorOf
  <2>2. \A kind, t : HasSignal(kind, t)' <=> HasSignal(kind, t)
    BY <1>1 DEF HasSignal
  <2> QED
    BY <2>1, <2>2, IdleStep
<1>6. UpInv'
  BY <1>1 DEF UpInv
<1>7. CleanupInv'
  <2> SUFFICES ASSUME ~senMixed', senFault = "none" PROVE CleanupInv'
    BY <1>1 DEF CleanupInv
  <2>1. ~senMixed /\ sensor # <<>> /\ Held \subseteq SensorOf("activated")
        /\ (senUp = "down" => Held = {} /\ senCall = Quiet)
        /\ (senCall.op = "free" /\ senCall.answer # "none" => ~senPoll)
    BY <1>1 DEF SensorsInv, CleanupInv
  <2>2. senCall.op = "free" /\ ~senPoll
    BY <1>1, <2>1 DEF SensorOf
  <2>3. senUp # "down"
    BY <2>1, <2>2 DEF Quiet
  <2>4. sensor' # <<>>
    <3>1. Len(sensor) # 0
      BY <2>1, SensorFacts, EmptySeq
    <3> QED
      BY <1>3, <3>1
  <2>5. Held' \subseteq SensorOf("activated")'
    BY <1>3, <2>1 DEF Held, SensorOf
  <2> QED
    BY <1>1, <2>2, <2>3, <2>4, <2>5 DEF CleanupInv, Quiet
<1> QED
  BY <1>1, <1>4, <1>5, <1>6, <1>7 DEF SensorsInv

LEMMA SensorFailsStep ==
  ASSUME NEW reason, SensorFails(reason), reason # "none"
  PROVE  SensorsInv'
<1>1. /\ senFault' # "none" /\ sensor' = <<>> /\ senCall' = Quiet /\ senMsgs' = <<>> /\ senPoll' = FALSE
      /\ senRing' = <<>> /\ senUp' = "down"
  BY DEF SensorFails
<1>2. SensorOf("idle")' = {}
  BY <1>1 DEF SensorOf, Sensors
<1>3. SensorsType'
  BY <1>1, EmptySeqs DEF SensorsType
<1> QED
  BY <1>1, <1>2, <1>3 DEF SensorsInv, UpInv, IdleInv, MessageInv, CleanupInv

LEMMA SensorsInvariant == SensorsSpec => []SensorsInv
<1>1. SensorsInit => SensorsInv
  <2> SUFFICES ASSUME SensorsInit PROVE SensorsInv
    OBVIOUS
  <2>1. /\ sensor = <<>> /\ senCall = Quiet /\ senMsgs = <<>> /\ senPoll = FALSE
        /\ senRing = <<>> /\ senUp = "up"
    BY DEF SensorsInit
  <2>2. \A state : SensorOf(state) = {}
    BY <2>1 DEF SensorOf, Sensors
  <2>3. SensorsType
    BY <2>1, EmptySeqs DEF SensorsType
  <2> QED
    BY <2>1, <2>2, <2>3 DEF SensorsInv, UpInv, IdleInv, MessageInv, CleanupInv, Quiet
<1>2. SensorsInv /\ [SensorsNext]_senVars => SensorsInv'
  <2> SUFFICES ASSUME SensorsInv, [SensorsNext]_senVars
               PROVE  SensorsInv'
    OBVIOUS
  <2>1. CASE UNCHANGED senVars
    <3>1. /\ Sensors' = Sensors /\ Held' = Held /\ WillPoll' = WillPoll
          /\ \A state : SensorOf(state)' = SensorOf(state)
          /\ \A kind, t : HasSignal(kind, t)' = HasSignal(kind, t)
      BY <2>1 DEF senVars, Sensors, Held, WillPoll, SensorOf, HasSignal
    <3> QED
      BY <2>1, <3>1 DEF senVars, SensorsInv, SensorsType, UpInv, IdleInv, MessageInv, CleanupInv
  <2>2. CASE FetchWhileFreed \/ SensorCollected
    BY <2>2, SensorFailsStep DEF FetchWhileFreed, SensorCollected
  <2>3. CASE \E s \in Sensors : SensorStart(s) \/ SensorStop(s) \/ FreeStops(s) \/ FreeIdle(s)
    BY <2>3, SensorStartStep, SensorStopStep, FreeStep
  <2>4. CASE SensorCreate \/ SensorStarted \/ SensorStopped \/ SensorSignal
    BY <2>4, SensorCreateStep, SensorStartedStep, SensorStoppedStep, SensorSignalStep
  <2>5. CASE HandleSensor \/ FetchSensor \/ SensorCleanup \/ FreeStopped \/ FreeInstance
    BY <2>5, HandleSensorStep, FetchSensorStep, SensorCleanupStep, FreeStep
  <2> QED
    BY <2>1, <2>2, <2>3, <2>4, <2>5 DEF SensorsNext
<1> QED
  BY <1>1, <1>2, PTL DEF SensorsSpec

\* Once its messages are handled the sensor core polls for what main holds activated, and an
\* idle sensor shows nothing once its signals are serviced, but for the sensors that were
\* stopped together or with a reading pending (zjs_sensor.c: zjs_sensor_start,
\* zjs_sensor_stop; arc_sensor.c; the ring).
THEOREM SensorsAgreeTheorem == SensorsSpec => []SensorsAgree
<1>1. SensorsInv => SensorsAgree
  <2> SUFFICES ASSUME SensorsInv PROVE SensorsAgree
    OBVIOUS
  <2>1. ActivatedIsPolled
    BY DEF SensorsInv, UpInv, WillPoll, ActivatedIsPolled, Quiet
  <2>2. IdleShowsNothing
    <3>1. senRing = <<>> => \A s : ~HasSignal("stop", s)
      BY DEF HasSignal
    <3> QED
      BY <3>1 DEF SensorsInv, IdleInv, IdleShowsNothing
  <2> QED
    BY <2>1, <2>2 DEF SensorsAgree
<1> QED
  BY <1>1, SensorsInvariant, PTL

\* A reading finds freed handles only after a cleanup that began with an idle sensor, or
\* after a timeout (zjs_sensor_free_handles, ipm_msg_receive_callback).
THEOREM CleanupStopsReadingsTheorem == SensorsSpec => CleanupStopsReadings
<1>1. SensorsInv /\ [SensorsNext]_senVars
        => (senFault = "none" /\ senFault' = "freed handles in interrupt" => senMixed)
  <2> SUFFICES ASSUME SensorsInv, [SensorsNext]_senVars,
                      senFault = "none", senFault' = "freed handles in interrupt"
               PROVE  senMixed
    OBVIOUS
  <2>1. FetchWhileFreed
    BY DEF SensorsNext, senVars, SensorCreate, SensorStarted, SensorStopped, SensorSignal, SensorStart,
       SensorStop, FreeStops, FreeIdle, HandleSensor, FetchSensor, SensorCleanup, FreeStopped,
       FreeInstance, SensorCollected, SensorFails, Answered
  <2>2. senPoll /\ (senUp = "down" \/ SensorOf("freed") # {})
    BY <2>1 DEF FetchWhileFreed, Polls
  <2>3. CASE senUp = "up"
    BY <2>2, <2>3 DEF SensorsInv, UpInv
  <2>4. CASE senUp # "up" /\ ~senMixed
    <3>1. sensor # <<>> /\ (senUp = "down" => Held = {}) /\ (Held # Sensors => ~senPoll)
      BY <2>4 DEF SensorsInv, CleanupInv
    <3>2. Sensors # {}
      BY <3>1, SensorsNotEmpty
    <3>3. SensorOf("freed") # {} => Held # Sensors
      BY DEF Held, SensorOf
    <3> QED
      BY <2>2, <3>1, <3>2, <3>3
  <2> QED
    BY <2>3, <2>4
<1> QED
  BY <1>1, SensorsInvariant, PTL DEF SensorsSpec, CleanupStopsReadings

-----------------------------------------------------------------------------
(***************************************************************************)
(* The Bluetooth thread.                                                   *)
(***************************************************************************)
ChrcIds    == Nat \X Nat \X Nat
Answer     == [req : Nat, ans : Nat]
ChrcRecord == [freed : BOOLEAN, found : BOOLEAN, read : Answer, write : Answer]
RequestOps == {"read", "write"}
ChrcKinds  == {"read", "write", "subscribe"}
ConnKinds  == {"accept", "disconnect"}
BleItems   == (ChrcKinds \X ChrcIds) \cup (ConnKinds \X Nat)
Requests   == [op : RequestOps, c : ChrcIds, n : Nat]
Answerers  == [op : RequestOps, c : ChrcIds, n : Nat, used : BOOLEAN]

BleType ==
  /\ Chrcs \subseteq ChrcIds /\ chrcs \in [Chrcs -> ChrcRecord]
  /\ bleReq \in {NoReq} \cup Requests /\ (bleReq # NoReq => bleReq.c \in Chrcs)
  /\ bleSem \in {0, 1}
  /\ bleRing \in Seq(BleItems) /\ Len(bleRing) <= BleRing
  /\ asked \subseteq Answerers /\ \A f \in asked : f.c \in Chrcs
  /\ conns \subseteq Nat /\ seen \subseteq Nat
  /\ bleCount \in [requests : Nat, clients : Nat]

\* Characteristics are freed by cleanup, or when services are set again.
FreedInv == (\E c \in Chrcs : chrcs[c].freed) => replaced \/ ~bleUp

\* The request under way is the latest of its characteristic, and its answer is the error
\* set beforehand until the semaphore is given.
LatestInv ==
  bleReq # NoReq =>
    /\ chrcs[bleReq.c][bleReq.op].req = bleReq.n
    /\ bleSem = 0 => chrcs[bleReq.c][bleReq.op].ans = 0

\* The semaphore is given for the request under way.
GivenInv ==
  bleSem = 1 =>
    /\ bleReq # NoReq
    /\ \/ chrcs[bleReq.c][bleReq.op].ans = bleReq.n
       \/ chrcs[bleReq.c][bleReq.op].ans = 0 /\ bleReq.n \in refused

\* One thing at a time will give it: a signal for the handler, or a function that the
\* script has not called.
PendingInv ==
  /\ \A i \in 1 .. Len(bleRing) : bleRing[i][1] \in RequestOps =>
       /\ bleReq # NoReq /\ bleRing[i] = <<bleReq.op, bleReq.c>> /\ bleSem = 0
       /\ \A j \in 1 .. Len(bleRing) : bleRing[j][1] \in RequestOps => i = j
       /\ \A f \in asked : f.used
  /\ \A f \in asked : ~f.used =>
       bleReq # NoReq /\ f.op = bleReq.op /\ f.c = bleReq.c /\ f.n = bleReq.n /\ bleSem = 0

RequestsInv == LatestInv /\ (~bleLate => GivenInv /\ PendingInv)

\* What the events that wait will make of "seen": a client's come once, in order, and the
\* last of them says whether it is connected.
Ordered(x, i, y, j) ==
  x[1] \in ConnKinds /\ y[1] \in ConnKinds /\ x[2] = y[2] =>
    /\ x[1] = y[1] => i = j
    /\ x[1] = "accept" /\ y[1] = "disconnect" => i < j

EventsOrder == \A i, j \in 1 .. Len(bleRing) : Ordered(bleRing[i], i, bleRing[j], j)

ClientInv(k) ==
  /\ k \in conns \/ k \in seen \/ Has(bleRing, <<"accept", k>>) \/ Has(bleRing, <<"disconnect", k>>) => k <= bleCount.clients
  /\ k \in seen => ~Has(bleRing, <<"accept", k>>)
  /\ k \in conns => ~Has(bleRing, <<"disconnect", k>>) /\ (k \in seen \/ Has(bleRing, <<"accept", k>>))
  /\ k \notin conns /\ (k \in seen \/ Has(bleRing, <<"accept", k>>)) => Has(bleRing, <<"disconnect", k>>)

ClientsInv == bleUp /\ ~bleLost => EventsOrder /\ \A k \in Nat : ClientInv(k)

BleInv ==
  /\ OwnAnswers
  /\ BleType
  /\ bleFault = "none" => FreedInv /\ RequestsInv /\ ClientsInv

-----------------------------------------------------------------------------
\* How a step changes the ring: what is in it afterwards was there, "d" places behind; and
\* what was there still is.
Shifts(d, kinds) ==
  \A j \in 1 .. Len(bleRing') : bleRing'[j][1] \in kinds =>
    j + d \in 1 .. Len(bleRing) /\ bleRing[j + d] = bleRing'[j]

Keeps(d, kinds) ==
  \A i \in 1 .. Len(bleRing) : bleRing[i][1] \in kinds =>
    i - d \in 1 .. Len(bleRing') /\ bleRing'[i - d] = bleRing[i]

LEMMA KindsApart == ConnKinds \cap ChrcKinds = {}
  BY DEF ConnKinds, ChrcKinds

LEMMA NextIndex == \A n \in Nat : \A i \in 1 .. n - 1 : i + 1 \in 1 .. n
  OBVIOUS

\* Two items are in order if they are of different clients, or kinds, or the same.
LEMMA OrderedKinds ==
  ASSUME NEW x, NEW y, NEW i, NEW j,
         x[1] \in ConnKinds /\ y[1] \in ConnKinds /\ x[2] = y[2] =>
           x[1] # y[1] /\ (x[1] = "accept" /\ y[1] = "disconnect" => i < j)
  PROVE  Ordered(x, i, y, j)
  BY Zenon DEF Ordered

\* A signal that finds no room is dropped; one that does is behind the others.
LEMMA BleSignalStep ==
  ASSUME BleType, NEW item \in BleItems, bleRing' = BleSignal(item)
  PROVE  /\ bleRing' \in Seq(BleItems) /\ Len(bleRing') <= BleRing
         /\ \A kinds : item[1] \notin kinds => Shifts(0, kinds) /\ Keeps(0, kinds)
         /\ Len(bleRing) # BleRing =>
              /\ Len(bleRing') = Len(bleRing) + 1
              /\ bleRing'[Len(bleRing) + 1] = item
              /\ \A i \in 1 .. Len(bleRing) : bleRing'[i] = bleRing[i]
         /\ Len(bleRing) = BleRing => bleRing' = bleRing
<1>1. PICK n \in Nat : n = Len(bleRing)
  BY LenProperties DEF BleType
<1>2. BleRing \in Nat /\ n <= BleRing
  BY <1>1, BleAssumption DEF BleType
<1>3. bleRing \in Seq(BleItems)
  BY DEF BleType
<1>4. CASE n = BleRing
  <2>1. bleRing' = bleRing
    BY <1>1, <1>2, <1>4 DEF BleSignal
  <2>2. \A kinds : Shifts(0, kinds) /\ Keeps(0, kinds)
    BY <1>1, <2>1 DEF Shifts, Keeps
  <2> QED
    BY <1>1, <1>2, <1>3, <1>4, <2>1, <2>2
<1>5. CASE n # BleRing
  <2>1. bleRing' = Append(bleRing, item)
    BY <1>1, <1>2, <1>5 DEF BleSignal
  <2>2. /\ bleRing' \in Seq(BleItems) /\ Len(bleRing') = n + 1 /\ bleRing'[n + 1] = item
        /\ \A i \in 1 .. n : bleRing'[i] = bleRing[i]
    BY <1>1, <1>3, <2>1, AppendProperties
  <2> HIDE DEF BleSignal
  <2> QED
    BY <1>1, <1>2, <1>5, <2>2 DEF Shifts, Keeps
<1> QED
  BY <1>4, <1>5

\* Main takes the first item.
LEMMA BleTailStep ==
  ASSUME BleType, bleRing # <<>>, bleRing' = Tail(bleRing)
  PROVE  /\ bleRing' \in Seq(BleItems) /\ Len(bleRing') <= BleRing
         /\ Len(bleRing) \in Nat \ {0} /\ Len(bleRing') = Len(bleRing) - 1
         /\ bleRing[1] = Head(bleRing) /\ bleRing[1] \in BleItems
         /\ \A i \in 1 .. Len(bleRing') : bleRing'[i] = bleRing[i + 1]
         /\ \A kinds : Shifts(1, kinds) /\ (Head(bleRing)[1] \notin kinds => Keeps(1, kinds))
<1>1. bleRing \in Seq(BleItems) /\ Len(bleRing) <= BleRing /\ BleRing \in Nat
  BY BleAssumption DEF BleType
<1>2. PICK n \in Nat : n = Len(bleRing)
  BY <1>1, LenProperties
<1>3. n # 0
  BY <1>1, <1>2, EmptySeq
<1>4. /\ bleRing' \in Seq(BleItems) /\ Len(bleRing') = n - 1
      /\ \A i \in 1 .. n - 1 : bleRing'[i] = bleRing[i + 1]
      /\ bleRing[1] = Head(bleRing) /\ bleRing[1] \in BleItems
  BY <1>1, <1>2, <1>3, HeadTailProperties, ElementOfSeq
<1> QED
  BY <1>1, <1>2, <1>3, <1>4 DEF Shifts, Keeps

\* The request under way is not touched by steps that put and take other items.
LEMMA RequestsKept ==
  ASSUME BleType, BleType', RequestsInv, NEW d \in {0, 1}, Shifts(d, RequestOps),
         UNCHANGED <<bleReq, bleSem, bleLate>>, asked' \subseteq asked, refused \subseteq refused',
         bleReq # NoReq => chrcs'[bleReq.c][bleReq.op] = chrcs[bleReq.c][bleReq.op]
  PROVE  RequestsInv'
<1>1. LatestInv'
  BY DEF RequestsInv, LatestInv
<1>2. ASSUME ~bleLate PROVE GivenInv'
  BY <1>2 DEF RequestsInv, GivenInv
<1>3. ASSUME ~bleLate PROVE PendingInv'
  <2>1. PendingInv
    BY <1>3 DEF RequestsInv
  <2>2. PICK n \in Nat, m \in Nat : n = Len(bleRing) /\ m = Len(bleRing')
    BY LenProperties DEF BleType
  <2>3. \A f \in asked' : ~f.used =>
          bleReq # NoReq /\ f.op = bleReq.op /\ f.c = bleReq.c /\ f.n = bleReq.n /\ bleSem = 0
    BY <2>1 DEF PendingInv
  <2>4. ASSUME NEW i \in 1 .. m, bleRing'[i][1] \in RequestOps
        PROVE  /\ bleReq # NoReq /\ bleRing'[i] = <<bleReq.op, bleReq.c>> /\ bleSem = 0
               /\ \A j \in 1 .. m : bleRing'[j][1] \in RequestOps => i = j
               /\ \A f \in asked' : f.used
    <3>1. i + d \in 1 .. n /\ bleRing[i + d] = bleRing'[i]
      BY <2>2, <2>4 DEF Shifts
    <3>2. /\ bleReq # NoReq /\ bleRing[i + d] = <<bleReq.op, bleReq.c>> /\ bleSem = 0
          /\ \A j \in 1 .. n : bleRing[j][1] \in RequestOps => i + d = j
          /\ \A f \in asked : f.used
      BY <2>1, <2>2, <2>4, <3>1 DEF PendingInv
    <3>3. ASSUME NEW j \in 1 .. m, bleRing'[j][1] \in RequestOps PROVE i = j
      <4>1. j + d \in 1 .. n /\ bleRing[j + d] = bleRing'[j]
        BY <2>2, <3>3 DEF Shifts
      <4>2. i + d = j + d
        BY <3>2, <3>3, <4>1
      <4> QED
        BY <2>2, <4>2
    <3> QED
      BY <3>1, <3>2, <3>3, Zenon
  <2> QED
    BY <2>2, <2>3, <2>4 DEF PendingInv
<1> QED
  BY <1>1, <1>2, <1>3 DEF RequestsInv

\* The same for what the script knows of the clients.
LEMMA ClientsKept ==
  ASSUME BleType, BleType', ClientsInv, NEW d \in {0, 1}, Shifts(d, ConnKinds), Keeps(d, ConnKinds),
         UNCHANGED <<conns, seen>>, bleCount'.clients = bleCount.clients, bleUp' => bleUp,
         bleLost => bleLost'
  PROVE  ClientsInv'
<1> SUFFICES ASSUME bleUp', ~bleLost' PROVE EventsOrder' /\ \A k \in Nat : ClientInv(k)'
  BY DEF ClientsInv
<1>1. EventsOrder /\ \A k \in Nat : ClientInv(k)
  BY DEF ClientsInv
<1>2. PICK n \in Nat, m \in Nat : n = Len(bleRing) /\ m = Len(bleRing')
  BY LenProperties DEF BleType
<1>3. EventsOrder'
  <2> SUFFICES ASSUME NEW i \in 1 .. m, NEW j \in 1 .. m,
                      bleRing'[i][1] \in ConnKinds, bleRing'[j][1] \in ConnKinds
               PROVE  Ordered(bleRing'[i], i, bleRing'[j], j)
    BY <1>2 DEF EventsOrder, Ordered
  <2>1. /\ i + d \in 1 .. n /\ bleRing[i + d] = bleRing'[i]
        /\ j + d \in 1 .. n /\ bleRing[j + d] = bleRing'[j]
    BY <1>2 DEF Shifts
  <2>2. Ordered(bleRing'[i], i + d, bleRing'[j], j + d)
    BY <1>1, <1>2, <2>1 DEF EventsOrder
  <2>3. (i + d = j + d => i = j) /\ (i + d < j + d => i < j)
    BY <1>2
  <2> QED
    BY <2>2, <2>3, Zenon DEF Ordered
<1>4. \A k \in Nat, kind \in ConnKinds : Has(bleRing', <<kind, k>>) <=> Has(bleRing, <<kind, k>>)
  <2> SUFFICES ASSUME NEW k \in Nat, NEW kind \in ConnKinds PROVE Has(bleRing', <<kind, k>>) <=> Has(bleRing, <<kind, k>>)
    OBVIOUS
  <2>1. \A i : bleRing[i] = <<kind, k>> => bleRing[i][1] \in ConnKinds
    OBVIOUS
  <2>2. \A i : bleRing'[i] = <<kind, k>> => bleRing'[i][1] \in ConnKinds
    OBVIOUS
  <2>3. Has(bleRing', <<kind, k>>) => Has(bleRing, <<kind, k>>)
    BY <1>2, <2>2 DEF Has, Shifts
  <2>4. Has(bleRing, <<kind, k>>) => Has(bleRing', <<kind, k>>)
    BY <1>2, <2>1 DEF Has, Keeps
  <2> QED
    BY <2>3, <2>4
<1> QED
  BY <1>1, <1>3, <1>4 DEF ClientInv, ConnKinds


-----------------------------------------------------------------------------
\* The undefined behaviour that ends a behaviour leaves nothing to be agreed on.
LEMMA BleFailsStep ==
  ASSUME NEW reason, reason # "none", BleFails(reason), BleInv
  PROVE  BleInv'
<1>1. bleFault' # "none" /\ OwnAnswers'
  BY DEF BleFails, OwnAnswers
<1>2. Chrcs' = {} /\ chrcs' = [c \in {} |-> NoAnswer]
  BY DEF BleFails, Chrcs, NoChrcs
<1>3. bleRing' \in Seq(BleItems) /\ Len(bleRing') <= BleRing
  BY EmptySeq, BleAssumption DEF BleFails
<1>4. chrcs' \in [Chrcs' -> ChrcRecord]
  BY <1>2
<1>5. bleCount' \in [requests : Nat, clients : Nat]
  BY DEF BleFails
<1> QED
  BY <1>1, <1>2, <1>3, <1>4, <1>5 DEF BleInv, BleType, BleFails

\* What the steps below rely on.
LEMMA BleFacts ==
  ASSUME BleInv, bleFault = "none"
  PROVE  BleType /\ FreedInv /\ RequestsInv /\ ClientsInv /\ OwnAnswers
BY DEF BleInv

\* Setting services again frees characteristics, but neither requests nor signals.
LEMMA SetServicesStep ==
  ASSUME NEW sizes, NEW good \in 0 .. 3, SetServices(sizes, good), BleInv, sizes \in Seq(Nat \ {0})
  PROVE  BleInv'
<1>1. bleFault = "none" /\ bleFault' = "none" /\ ~replaced /\ bleUp
  BY DEF SetServices, BleMain, BleAlive
<1>2. BleType /\ FreedInv /\ RequestsInv /\ ClientsInv /\ OwnAnswers
  BY <1>1, BleFacts
<1> DEFINE old == Freed
           new == Registered(sizes, good)
<1>3. /\ DOMAIN old = Chrcs
      /\ \A c \in Chrcs : /\ old[c] \in ChrcRecord
                          /\ old[c].read = chrcs[c].read /\ old[c].write = chrcs[c].write
  BY <1>2 DEF Freed, BleType, ChrcRecord
<1>4. DOMAIN new \subseteq ChrcIds
  <2> SUFFICES ASSUME NEW s \in 1 .. good, NEW i \in Linked(sizes[s])
               PROVE  <<IF Chrcs = {} THEN 1 ELSE 2, s, i>> \in ChrcIds
    BY DEF Registered
  <2>1. s \in Nat
    OBVIOUS
  <2>2. sizes[s] \in Nat
    BY <2>1 DEF SetServices
  <2> QED
    <3>1. i \in Nat
      BY <2>2 DEF Linked
    <3> QED
      BY <2>1, <3>1 DEF ChrcIds
<1>5. \A c \in DOMAIN new : new[c] \in ChrcRecord /\ ~new[c].freed
  BY DEF Registered, ChrcRecord, Answer, NoAnswer
<1>6. chrcs' = [c \in (DOMAIN old) \cup (DOMAIN new) |-> IF c \in DOMAIN old THEN old[c] ELSE new[c]]
  BY DEF SetServices, old, new, Freed
<1> HIDE DEF old, new
<1>7. Chrcs' = Chrcs \cup DOMAIN new
  BY <1>3, <1>6 DEF Chrcs
<1>8. \A c \in Chrcs : chrcs'[c].read = chrcs[c].read /\ chrcs'[c].write = chrcs[c].write
  BY <1>3, <1>6
<1>9. BleType'
  <2>1. Chrcs' \subseteq ChrcIds /\ chrcs' \in [Chrcs' -> ChrcRecord]
    BY <1>2, <1>3, <1>4, <1>5, <1>6, <1>7 DEF BleType
  <2> QED
    BY <1>2, <1>7, <2>1 DEF BleType, SetServices, scriptVars
<1>10. FreedInv'
  BY <1>1, <1>3, <1>5, <1>6 DEF FreedInv, SetServices, Chrcs
<1>11. RequestsInv'
  <2>1. bleReq # NoReq => chrcs'[bleReq.c][bleReq.op] = chrcs[bleReq.c][bleReq.op]
    BY <1>2, <1>8 DEF BleType, Requests, RequestOps
  <2>2. Shifts(0, RequestOps)
    BY <1>2 DEF Shifts, SetServices, BleType
  <2> QED
    BY <1>2, <1>9, <2>1, <2>2, RequestsKept DEF SetServices, scriptVars
<1>12. ClientsInv'
  <2>1. Shifts(0, ConnKinds) /\ Keeps(0, ConnKinds)
    BY <1>2 DEF Shifts, Keeps, SetServices, BleType
  <2> QED
    BY <1>2, <1>9, <2>1, ClientsKept DEF SetServices, scriptVars
<1> QED
  BY <1>2, <1>9, <1>10, <1>11, <1>12 DEF BleInv, OwnAnswers, SetServices


\* Steps that only take a signal which is neither a request nor an event of a client, or
\* that of a freed characteristic.
LEMMA TakeStep ==
  ASSUME BleInv, bleFault = "none", bleRing # <<>>, bleRing' = Tail(bleRing),
         Head(bleRing)[1] \notin ConnKinds,
         UNCHANGED <<chrcs, bleReq, bleSem, asked, conns, seen, bleUp, bleLast, history, bleFault>>
  PROVE  BleInv'
<1>1. BleType /\ FreedInv /\ RequestsInv /\ ClientsInv /\ OwnAnswers
  BY BleFacts
<1>2. BleType'
  BY <1>1, BleTailStep DEF BleType, Chrcs, history
<1>3. RequestsInv'
  BY <1>1, <1>2, BleTailStep, RequestsKept DEF history
<1>4. ClientsInv'
  BY <1>1, <1>2, BleTailStep, ClientsKept DEF history
<1> QED
  BY <1>1, <1>2, <1>3, <1>4 DEF BleInv, OwnAnswers, FreedInv, Chrcs, history

\* The handler of a request gives the script a function to answer it.
LEMMA HandlerCalledStep ==
  ASSUME NEW c \in Chrcs, NEW op \in RequestOps, HandlerCalled(op, c), BleInv
  PROVE  BleInv'
<1> DEFINE f == [op |-> op, c |-> c, n |-> chrcs[c][op].req, used |-> FALSE]
<1>1. /\ bleFault = "none" /\ bleRing # <<>> /\ bleRing' = Tail(bleRing)
      /\ Head(bleRing) = <<op, c>>
      /\ asked' = asked \cup {f}
      /\ UNCHANGED <<chrcs, bleReq, bleSem, conns, seen, bleUp, bleLast, history, bleFault>>
  BY DEF HandlerCalled, BleMain, BleAlive
<1>2. BleType /\ FreedInv /\ RequestsInv /\ ClientsInv /\ OwnAnswers
  BY <1>1, BleFacts
<1>3. chrcs[c][op].req \in Nat /\ c \in ChrcIds
  BY <1>2 DEF BleType, ChrcRecord, Answer, RequestOps
<1>4. f \in Answerers
  BY <1>3 DEF Answerers
<1>5. BleType'
  <2>1. bleRing' \in Seq(BleItems) /\ Len(bleRing') <= BleRing
    BY <1>1, <1>2, BleTailStep
  <2>2. f.c \in Chrcs
    OBVIOUS
  <2> HIDE DEF f
  <2>3. asked' \subseteq Answerers /\ \A g \in asked' : g.c \in Chrcs
    BY <1>1, <1>2, <1>4, <2>2 DEF BleType
  <2> QED
    BY <1>1, <1>2, <2>1, <2>3 DEF BleType, Chrcs, history
<1>6. ClientsInv'
  <2>1. Head(bleRing)[1] \notin ConnKinds
    BY <1>1 DEF ConnKinds, RequestOps
  <2> QED
    BY <1>1, <1>2, <1>5, <2>1, BleTailStep, ClientsKept DEF history
<1>7. LatestInv'
  BY <1>1, <1>2 DEF RequestsInv, LatestInv
<1>8. ASSUME ~bleLate PROVE GivenInv' /\ PendingInv'
  <2>1. GivenInv /\ PendingInv
    BY <1>2, <1>8, Zenon DEF RequestsInv
  <2>2. PICK n \in Nat \ {0} : n = Len(bleRing) /\ Len(bleRing') = n - 1
    BY <1>1, <1>2, BleTailStep, Zenon
  <2>3. bleRing[1] = <<op, c>> /\ \A i \in 1 .. n - 1 : bleRing'[i] = bleRing[i + 1]
    BY <1>1, <1>2, <2>2, BleTailStep
  <2>4. /\ bleReq # NoReq /\ bleReq.op = op /\ bleReq.c = c /\ bleSem = 0
        /\ \A j \in 1 .. n : bleRing[j][1] \in RequestOps => 1 = j
        /\ \A g \in asked : g.used
    BY <2>1, <2>2, <2>3 DEF PendingInv
  <2>5. f.n = bleReq.n
    BY <1>2, <2>4 DEF RequestsInv, LatestInv
  <2>6. \A i \in 1 .. n - 1 : bleRing'[i][1] \notin RequestOps
    BY <2>3, <2>4
  <2>7. PendingInv'
    BY <1>1, <2>2, <2>4, <2>5, <2>6 DEF PendingInv
  <2> QED
    BY <1>1, <2>1, <2>7 DEF GivenInv, history
<1>9. RequestsInv'
  BY <1>1, <1>7, <1>8 DEF RequestsInv, history
<1> QED
  BY <1>1, <1>2, <1>5, <1>6, <1>9 DEF BleInv, OwnAnswers, FreedInv, Chrcs, history

\* The thread's request: nothing is left of an earlier one.
LEMMA AttrRequestStep ==
  ASSUME NEW c \in Chrcs, NEW op \in RequestOps, AttrRequest(op, c), BleInv
  PROVE  BleInv'
<1> DEFINE n == bleCount.requests + 1
<1>1. /\ bleFault = "none" /\ bleReq = NoReq
      /\ chrcs' = [chrcs EXCEPT ![c][op] = [req |-> n, ans |-> 0]]
      /\ bleReq' = [op |-> op, c |-> c, n |-> n]
      /\ bleCount' = [bleCount EXCEPT !.requests = n]
      /\ bleRing' = BleSignal(<<op, c>>)
      /\ UNCHANGED <<bleSem, asked, conns, seen, bleUp, bleLast, refused, bleLate, bleLost, replaced,
                     bleFault>>
  BY DEF AttrRequest, BtIdle, BleAlive, scriptVars
<1>2. BleType /\ FreedInv /\ RequestsInv /\ ClientsInv /\ OwnAnswers
  BY <1>1, BleFacts
<1>3. n \in Nat /\ c \in ChrcIds /\ op \in {"read", "write"}
  BY <1>2 DEF BleType, RequestOps
<1>4. <<op, c>> \in BleItems /\ op \notin ConnKinds
  BY <1>3 DEF BleItems, ChrcKinds, ConnKinds
<1>5. Chrcs' = Chrcs
  BY <1>1, <1>2 DEF Chrcs, BleType
<1>6. /\ chrcs' \in [Chrcs -> ChrcRecord] /\ \A d \in Chrcs : chrcs'[d].freed = chrcs[d].freed
      /\ chrcs'[c][op] = [req |-> n, ans |-> 0]
  <2>1. \A d \in Chrcs : d # c => chrcs'[d] = chrcs[d]
    BY <1>1, <1>2 DEF BleType
  <2>2. chrcs[c] \in ChrcRecord
    BY <1>2 DEF BleType
  <2>3. CASE op = "read"
    <3>1. chrcs'[c] = [chrcs[c] EXCEPT !.read = [req |-> n, ans |-> 0]]
      BY <1>1, <1>2, <2>3 DEF BleType
    <3>2. chrcs'[c] \in ChrcRecord /\ chrcs'[c].freed = chrcs[c].freed
          /\ chrcs'[c].read = [req |-> n, ans |-> 0]
      BY <1>3, <2>2, <3>1 DEF ChrcRecord, Answer
    <3> QED
      BY <1>1, <1>2, <2>1, <2>3, <3>2 DEF BleType
  <2>4. CASE op = "write"
    <3>1. chrcs'[c] = [chrcs[c] EXCEPT !.write = [req |-> n, ans |-> 0]]
      BY <1>1, <1>2, <2>4 DEF BleType
    <3>2. chrcs'[c] \in ChrcRecord /\ chrcs'[c].freed = chrcs[c].freed
          /\ chrcs'[c].write = [req |-> n, ans |-> 0]
      BY <1>3, <2>2, <3>1 DEF ChrcRecord, Answer
    <3> QED
      BY <1>1, <1>2, <2>1, <2>4, <3>2 DEF BleType
  <2> QED
    BY <1>3, <2>3, <2>4
<1>7. BleType'
  <2>1. bleReq' \in Requests /\ bleReq'.c \in Chrcs'
    BY <1>1, <1>3, <1>5 DEF Requests, RequestOps
  <2>2. bleRing' \in Seq(BleItems) /\ Len(bleRing') <= BleRing
    BY <1>1, <1>2, <1>4, BleSignalStep
  <2>3. bleCount' \in [requests : Nat, clients : Nat]
    BY <1>1, <1>2, <1>3 DEF BleType
  <2> QED
    BY <1>1, <1>2, <1>5, <1>6, <2>1, <2>2, <2>3 DEF BleType
<1>8. ClientsInv'
  <2>1. Shifts(0, ConnKinds) /\ Keeps(0, ConnKinds)
    BY <1>1, <1>2, <1>4, BleSignalStep
  <2>2. bleCount'.clients = bleCount.clients
    BY <1>1, <1>2 DEF BleType
  <2> QED
    BY <1>1, <1>2, <1>7, <2>1, <2>2, ClientsKept
<1>9. LatestInv'
  BY <1>1, <1>6 DEF LatestInv
<1>10. ASSUME ~bleLate PROVE GivenInv' /\ PendingInv'
  <2>1. bleSem = 0 /\ PendingInv
    BY <1>1, <1>2, <1>10 DEF RequestsInv, GivenInv, BleType
  <2>2. PICK m \in Nat, k \in Nat : m = Len(bleRing) /\ k = Len(bleRing')
    BY <1>2, <1>7, LenProperties DEF BleType
  <2>3. \A i \in 1 .. m : bleRing[i][1] \notin RequestOps
    BY <1>1, <2>1, <2>2 DEF PendingInv
  <2>4. \A f \in asked : f.used
    BY <1>1, <2>1 DEF PendingInv
  <2>5. \/ bleRing' = bleRing
        \/ k = m + 1 /\ bleRing'[m + 1] = <<op, c>> /\ \A i \in 1 .. m : bleRing'[i] = bleRing[i]
    BY <1>1, <1>2, <1>4, <2>2, BleSignalStep
  <2>6. bleReq' # NoReq /\ bleReq'.op = op /\ bleReq'.c = c
    BY <1>1, <1>3 DEF NoReq
  <2>7. ASSUME NEW i \in 1 .. k, bleRing'[i][1] \in RequestOps
        PROVE  i = m + 1 /\ bleRing'[i] = <<op, c>> /\ k = m + 1
    <3>1. CASE bleRing' = bleRing
      BY <2>2, <2>3, <2>7, <3>1
    <3>2. CASE k = m + 1 /\ bleRing'[m + 1] = <<op, c>> /\ \A j \in 1 .. m : bleRing'[j] = bleRing[j]
      BY <2>2, <2>3, <2>7, <3>2
    <3> QED
      BY <2>5, <3>1, <3>2
  <2>8. asked' = asked /\ bleSem' = 0 /\ k = Len(bleRing')
    BY <1>1, <2>1, <2>2
  <2>9. PendingInv'
    BY <2>4, <2>6, <2>7, <2>8 DEF PendingInv
  <2> QED
    BY <1>1, <2>1, <2>9 DEF GivenInv
<1>11. RequestsInv'
  BY <1>1, <1>9, <1>10 DEF RequestsInv
<1>12. FreedInv'
  BY <1>1, <1>2, <1>5, <1>6 DEF FreedInv
<1> QED
  BY <1>1, <1>2, <1>7, <1>8, <1>11, <1>12 DEF BleInv, OwnAnswers


\* The answer the thread goes on with is that of its own request.
LEMMA RequestAnsweredStep ==
  ASSUME RequestAnswered, BleInv
  PROVE  BleInv'
<1>1. /\ bleFault = "none" /\ bleReq # NoReq /\ bleSem = 1
      /\ bleSem' = 0 /\ bleReq' = NoReq
      /\ bleLast' = [n |-> bleReq.n, got |-> chrcs[bleReq.c][bleReq.op].ans]
      /\ UNCHANGED <<chrcs, bleRing, asked, conns, seen, bleUp, history, bleFault>>
  BY DEF RequestAnswered, BleAlive, scriptVars
<1>2. BleType /\ FreedInv /\ RequestsInv /\ ClientsInv /\ OwnAnswers
  BY <1>1, BleFacts
<1>3. BleType'
  BY <1>1, <1>2 DEF BleType, Chrcs, history
<1>4. OwnAnswers'
  BY <1>1, <1>2 DEF OwnAnswers, RequestsInv, GivenInv, history
<1>5. RequestsInv'
  <2>1. LatestInv'
    BY <1>1 DEF LatestInv
  <2>2. ASSUME ~bleLate PROVE PendingInv'
    BY <1>1, <1>2, <2>2 DEF RequestsInv, PendingInv, history
  <2> QED
    BY <1>1, <2>1, <2>2 DEF RequestsInv, GivenInv, history
<1>6. ClientsInv'
  <2>1. Shifts(0, ConnKinds) /\ Keeps(0, ConnKinds)
    BY <1>1, <1>2 DEF Shifts, Keeps, BleType
  <2> QED
    BY <1>1, <1>2, <1>3, <2>1, ClientsKept DEF history
<1> QED
  BY <1>1, <1>2, <1>3, <1>4, <1>5, <1>6 DEF BleInv, FreedInv, Chrcs, history

LEMMA RequestTimesOutStep ==
  ASSUME RequestTimesOut, BleInv
  PROVE  BleInv'
<1>1. /\ bleFault = "none" /\ bleReq' = NoReq /\ bleLate' = TRUE
      /\ UNCHANGED <<chrcs, bleSem, bleRing, asked, conns, seen, bleUp, bleLast, refused, bleLost,
                     replaced, bleCount, bleFault>>
  BY DEF RequestTimesOut, BleAlive, scriptVars
<1>2. BleType /\ FreedInv /\ RequestsInv /\ ClientsInv /\ OwnAnswers
  BY <1>1, BleFacts
<1>3. BleType'
  BY <1>1, <1>2 DEF BleType, Chrcs
<1>4. RequestsInv'
  BY <1>1 DEF RequestsInv, LatestInv
<1>5. ClientsInv'
  <2>1. Shifts(0, ConnKinds) /\ Keeps(0, ConnKinds)
    BY <1>1, <1>2 DEF Shifts, Keeps, BleType
  <2> QED
    BY <1>1, <1>2, <1>3, <2>1, ClientsKept
<1> QED
  BY <1>1, <1>2, <1>3, <1>4, <1>5 DEF BleInv, OwnAnswers, FreedInv, Chrcs

\* The script answers, with arguments that are valid or not: the first time, it is the
\* request under way that it answers.
LEMMA GivesStep ==
  ASSUME NEW f \in asked, BleInv, bleFault = "none",
         Chrcs' = Chrcs, chrcs' \in [Chrcs -> ChrcRecord],
         \A c \in Chrcs : /\ chrcs'[c].freed = chrcs[c].freed
                          /\ chrcs'[c].read.req = chrcs[c].read.req
                          /\ chrcs'[c].write.req = chrcs[c].write.req,
         bleSem' = 1, asked' = (asked \ {f}) \cup {[f EXCEPT !.used = TRUE]},
         refused \subseteq refused', bleLate' = (bleLate \/ f.used),
         \/ chrcs'[f.c][f.op].ans = f.n
         \/ chrcs'[f.c][f.op].ans = chrcs[f.c][f.op].ans /\ f.n \in refused',
         UNCHANGED <<bleReq, bleRing, conns, seen, bleUp, bleLast, bleLost, replaced, bleCount,
                     bleFault>>
  PROVE  BleInv'
<1> DEFINE g == [f EXCEPT !.used = TRUE]
<1>1. BleType /\ FreedInv /\ RequestsInv /\ ClientsInv /\ OwnAnswers
  BY BleFacts
<1>2. f \in Answerers /\ f.c \in Chrcs
  BY <1>1 DEF BleType
<1>3. g \in Answerers /\ g.used /\ g.c \in Chrcs
  BY <1>2 DEF Answerers
<1> HIDE DEF g
<1>4. asked' = (asked \ {f}) \cup {g}
  BY DEF g
<1>5. BleType'
  <2>1. asked' \subseteq Answerers /\ \A h \in asked' : h.c \in Chrcs
    BY <1>1, <1>3, <1>4 DEF BleType
  <2> QED
    BY <1>1, <2>1 DEF BleType
<1>6. LatestInv'
  BY <1>1 DEF RequestsInv, LatestInv, BleType, Requests, RequestOps
<1>7. ASSUME ~bleLate' PROVE GivenInv' /\ PendingInv'
  <2>1. ~f.used /\ GivenInv /\ PendingInv
    BY <1>1, <1>7 DEF RequestsInv
  <2>2. bleReq # NoReq /\ f.op = bleReq.op /\ f.c = bleReq.c /\ f.n = bleReq.n /\ bleSem = 0
    BY <2>1 DEF PendingInv
  <2>3. chrcs[f.c][f.op].ans = 0
    BY <1>1, <2>2 DEF RequestsInv, LatestInv
  <2>4. GivenInv'
    BY <2>2, <2>3 DEF GivenInv
  <2>5. \A h \in asked : ~h.used => h = f
    <3> SUFFICES ASSUME NEW h \in asked, ~h.used PROVE h = f
      OBVIOUS
    <3>1. h.op = f.op /\ h.c = f.c /\ h.n = f.n /\ h.used = FALSE /\ f.used = FALSE
      BY <1>1, <2>1, <2>2 DEF PendingInv, BleType, Answerers
    <3>2. h \in Answerers
      BY <1>1 DEF BleType
    <3> QED
      BY <1>2, <3>1, <3>2 DEF Answerers
  <2>6. \A h \in asked' : h.used
    BY <1>3, <1>4, <2>5
  <2>7. \A i \in 1 .. Len(bleRing) : bleRing[i][1] \notin RequestOps
    BY <2>1 DEF PendingInv
  <2> QED
    BY <2>4, <2>6, <2>7 DEF PendingInv
<1>8. RequestsInv'
  BY <1>6, <1>7 DEF RequestsInv
<1>9. ClientsInv'
  <2>1. Shifts(0, ConnKinds) /\ Keeps(0, ConnKinds)
    BY <1>1 DEF Shifts, Keeps, BleType
  <2> QED
    BY <1>1, <1>5, <2>1, ClientsKept
<1>10. FreedInv' /\ OwnAnswers'
  BY <1>1 DEF FreedInv, OwnAnswers
<1> QED
  BY <1>1, <1>5, <1>8, <1>9, <1>10 DEF BleInv

LEMMA ScriptAnswersStep ==
  ASSUME NEW f \in asked, ScriptAnswers(f) \/ ScriptAnswersBadly(f), BleInv
  PROVE  BleInv'
<1>1. bleFault = "none"
  BY DEF ScriptAnswers, ScriptAnswersBadly, BleMain, BleAlive
<1>2. BleType
  BY <1>1, BleFacts
<1>3. f \in Answerers /\ f.c \in Chrcs /\ f.op \in {"read", "write"} /\ f.n \in Nat
  BY <1>2 DEF BleType, Answerers, RequestOps
<1>4. CASE ScriptAnswersBadly(f)
  <2>1. Chrcs' = Chrcs /\ chrcs' = chrcs /\ chrcs' \in [Chrcs -> ChrcRecord]
    BY <1>2, <1>4 DEF ScriptAnswersBadly, Chrcs, BleType
  <2>2. /\ bleSem' = 1 /\ asked' = (asked \ {f}) \cup {[f EXCEPT !.used = TRUE]}
        /\ refused \subseteq refused' /\ f.n \in refused' /\ bleLate' = (bleLate \/ f.used)
        /\ UNCHANGED <<bleReq, bleRing, conns, seen, bleUp, bleLast, bleLost, replaced, bleCount,
                       bleFault>>
    BY <1>4 DEF ScriptAnswersBadly
  <2> QED
    BY <1>1, <2>1, <2>2, GivesStep, Zenon
<1>5. CASE ScriptAnswers(f)
  <2>1. chrcs' = [chrcs EXCEPT ![f.c][f.op].ans = f.n] /\ Chrcs' = Chrcs
    BY <1>2, <1>5 DEF ScriptAnswers, Chrcs, BleType
  <2>2. \A c \in Chrcs : c # f.c => chrcs'[c] = chrcs[c]
    BY <1>2, <2>1 DEF BleType
  <2>3. \A c \in Chrcs : chrcs[c] \in ChrcRecord
    BY <1>2 DEF BleType
  <2>4. /\ chrcs'[f.c] \in ChrcRecord /\ chrcs'[f.c].freed = chrcs[f.c].freed
        /\ chrcs'[f.c].read.req = chrcs[f.c].read.req
        /\ chrcs'[f.c].write.req = chrcs[f.c].write.req
        /\ chrcs'[f.c][f.op].ans = f.n
    <3>1. CASE f.op = "read"
      <4>1. chrcs'[f.c] = [chrcs[f.c] EXCEPT !.read = [chrcs[f.c].read EXCEPT !.ans = f.n]]
        BY <1>2, <1>3, <2>1, <3>1 DEF BleType
      <4> QED
        BY <1>3, <2>3, <3>1, <4>1 DEF ChrcRecord, Answer
    <3>2. CASE f.op = "write"
      <4>1. chrcs'[f.c] = [chrcs[f.c] EXCEPT !.write = [chrcs[f.c].write EXCEPT !.ans = f.n]]
        BY <1>2, <1>3, <2>1, <3>2 DEF BleType
      <4> QED
        BY <1>3, <2>3, <3>2, <4>1 DEF ChrcRecord, Answer
    <3> QED
      BY <1>3, <3>1, <3>2
  <2>5. chrcs' \in [Chrcs -> ChrcRecord]
    BY <1>2, <1>3, <2>1, <2>2, <2>3, <2>4 DEF BleType
  <2>6. \A c \in Chrcs : /\ chrcs'[c].freed = chrcs[c].freed
                         /\ chrcs'[c].read.req = chrcs[c].read.req
                         /\ chrcs'[c].write.req = chrcs[c].write.req
    BY <2>2, <2>4
  <2>7. /\ bleSem' = 1 /\ asked' = (asked \ {f}) \cup {[f EXCEPT !.used = TRUE]}
        /\ refused' = refused /\ bleLate' = (bleLate \/ f.used)
        /\ UNCHANGED <<bleReq, bleRing, conns, seen, bleUp, bleLast, bleLost, replaced, bleCount,
                       bleFault>>
    BY <1>5 DEF ScriptAnswers
  <2> QED
    BY <1>1, <2>1, <2>4, <2>5, <2>6, <2>7, GivesStep, Zenon
<1> QED
  BY <1>4, <1>5


\* An event of a client is put behind those that wait, or lost.
LEMMA EventPutStep ==
  ASSUME NEW k \in Nat, NEW kind \in ConnKinds, BleInv, bleFault = "none",
         bleRing' = BleSignal(<<kind, k>>),
         bleLost' = (bleLost \/ Len(bleRing) = BleRing),
         conns' \subseteq Nat, bleCount' \in [requests : Nat, clients : Nat],
         UNCHANGED <<chrcs, bleReq, bleSem, asked, seen, bleUp, bleLast, refused, bleLate, replaced,
                     bleFault>>
  PROVE  /\ BleType' /\ OwnAnswers' /\ FreedInv' /\ RequestsInv'
         /\ ~bleLost' =>
              /\ ~bleLost
              /\ \A x : Has(bleRing', x) <=> Has(bleRing, x) \/ x = <<kind, k>>
         /\ ~bleLost' /\ EventsOrder /\ ~Has(bleRing, <<kind, k>>) /\ (kind = "accept" => ~Has(bleRing, <<"disconnect", k>>))
              => EventsOrder'
<1>1. BleType /\ FreedInv /\ RequestsInv /\ ClientsInv /\ OwnAnswers
  BY BleFacts
<1>2. <<kind, k>> \in BleItems /\ kind \notin RequestOps /\ kind \in {"accept", "disconnect"}
  BY DEF BleItems, ConnKinds, RequestOps
<1>3. BleType'
  BY <1>1, <1>2, BleSignalStep DEF BleType, Chrcs
<1>4. RequestsInv'
  BY <1>1, <1>2, <1>3, BleSignalStep, RequestsKept
<1>5. FreedInv' /\ OwnAnswers'
  BY <1>1 DEF FreedInv, OwnAnswers, Chrcs
<1>6. ASSUME ~bleLost'
      PROVE  /\ ~bleLost
             /\ \A x : Has(bleRing', x) <=> Has(bleRing, x) \/ x = <<kind, k>>
             /\ EventsOrder /\ ~Has(bleRing, <<kind, k>>) /\ (kind = "accept" => ~Has(bleRing, <<"disconnect", k>>))
                  => EventsOrder'
  <2>1. ~bleLost /\ Len(bleRing) # BleRing
    BY <1>6
  <2>2. PICK n \in Nat : n = Len(bleRing)
    BY <1>1, LenProperties DEF BleType
  <2>3. /\ Len(bleRing') = n + 1 /\ bleRing'[n + 1] = <<kind, k>>
        /\ \A i \in 1 .. n : bleRing'[i] = bleRing[i]
    BY <1>1, <1>2, <2>1, <2>2, BleSignalStep
  <2>4. ASSUME NEW x PROVE Has(bleRing', x) <=> Has(bleRing, x) \/ x = <<kind, k>>
    <3>1. Has(bleRing', x) => Has(bleRing, x) \/ x = <<kind, k>>
      <4> SUFFICES ASSUME NEW i \in 1 .. n + 1, bleRing'[i] = x, i # n + 1
                   PROVE  \E j \in 1 .. n : bleRing[j] = x
        BY <2>2, <2>3 DEF Has
      <4>1. i \in 1 .. n
        BY <2>2
      <4> QED
        BY <2>3, <4>1
    <3>2. Has(bleRing, x) => Has(bleRing', x)
      <4> SUFFICES ASSUME NEW i \in 1 .. n, bleRing[i] = x PROVE \E j \in 1 .. n + 1 : bleRing'[j] = x
        BY <2>2, <2>3 DEF Has
      <4>1. i \in 1 .. n + 1
        BY <2>2
      <4> QED
        BY <2>3, <4>1
    <3>3. Has(bleRing', <<kind, k>>)
      <4>1. n + 1 \in 1 .. Len(bleRing')
        BY <2>2, <2>3
      <4> QED
        BY <2>3, <4>1 DEF Has
    <3> QED
      BY <3>1, <3>2, <3>3
  <2>5. ASSUME EventsOrder, ~Has(bleRing, <<kind, k>>), kind = "accept" => ~Has(bleRing, <<"disconnect", k>>)
        PROVE  EventsOrder'
    <3> SUFFICES ASSUME NEW i \in 1 .. n + 1, NEW j \in 1 .. n + 1
                 PROVE  Ordered(bleRing'[i], i, bleRing'[j], j)
      BY <2>3 DEF EventsOrder
    <3>1. CASE i \in 1 .. n /\ j \in 1 .. n
      BY <2>2, <2>3, <2>5, <3>1 DEF EventsOrder
    <3>2. ASSUME NEW l \in 1 .. n, bleRing[l][1] \in ConnKinds, bleRing[l][2] = k
          PROVE  bleRing[l][1] # kind /\ (kind = "accept" => bleRing[l][1] # "disconnect")
      <4>1. bleRing[l] \in BleItems
        BY <1>1, <2>2, ElementOfSeq DEF BleType
      <4>2. bleRing[l] = <<bleRing[l][1], k>>
        BY <3>2, <4>1 DEF BleItems
      <4>3. Has(bleRing, bleRing[l])
        BY <2>2, Zenon DEF Has
      <4> QED
        BY <2>5, <4>2, <4>3, Zenon
    <3>3. <<kind, k>>[1] = kind /\ <<kind, k>>[2] = k
      OBVIOUS
    <3>4. CASE i = n + 1 /\ j = n + 1
      BY <1>2, <2>3, <3>3, <3>4 DEF Ordered
    <3>5. CASE i \in 1 .. n /\ j = n + 1
      <4>1. bleRing'[i] = bleRing[i] /\ bleRing'[j] = <<kind, k>>
        BY <2>3, <3>5
      <4>3. i < j
        BY <3>5
      <4>2. bleRing[i][1] \in ConnKinds /\ bleRing[i][2] = k => bleRing[i][1] # kind
        BY <3>2, <3>5
      <4> QED
        BY <3>3, <4>1, <4>2, <4>3, OrderedKinds
    <3>6. CASE i = n + 1 /\ j \in 1 .. n
      <4>1. bleRing'[i] = <<kind, k>> /\ bleRing'[j] = bleRing[j]
        BY <2>3, <3>6
      <4>2. bleRing[j][1] \in ConnKinds /\ bleRing[j][2] = k =>
              bleRing[j][1] # kind /\ ~(kind = "accept" /\ bleRing[j][1] = "disconnect")
        BY <3>2, <3>6
      <4> QED
        BY <3>3, <4>1, <4>2, OrderedKinds
    <3>7. (i \in 1 .. n \/ i = n + 1) /\ (j \in 1 .. n \/ j = n + 1)
      BY <2>2
    <3> QED
      BY <3>1, <3>4, <3>5, <3>6, <3>7, Zenon
  <2> QED
    BY <2>1, <2>4, <2>5
<1> QED
  BY <1>3, <1>4, <1>5, <1>6

LEMMA ConnectedStep ==
  ASSUME Connected, BleInv
  PROVE  BleInv'
<1> DEFINE k == bleCount.clients + 1
<1>1. /\ bleFault = "none" /\ bleUp
      /\ conns' = conns \cup {k}
      /\ bleRing' = BleSignal(<<"accept", k>>)
      /\ bleLost' = (bleLost \/ Len(bleRing) = BleRing)
      /\ bleCount' = [bleCount EXCEPT !.clients = k]
      /\ UNCHANGED <<chrcs, bleReq, bleSem, asked, seen, bleUp, bleLast, refused, bleLate, replaced,
                     bleFault>>
  BY DEF Connected, BtIdle, BleAlive, scriptVars
<1>2. BleType /\ ClientsInv
  BY <1>1, BleFacts
<1>3. /\ k \in Nat /\ conns' \subseteq Nat /\ bleCount' \in [requests : Nat, clients : Nat]
      /\ bleCount'.clients = k /\ bleCount.clients \in Nat
  BY <1>1, <1>2 DEF BleType
<1> HIDE DEF k
<1>4. "accept" \in ConnKinds
  BY DEF ConnKinds
<1>5. /\ BleType' /\ OwnAnswers' /\ FreedInv' /\ RequestsInv'
      /\ ~bleLost' =>
           /\ ~bleLost
           /\ \A x : Has(bleRing', x) <=> Has(bleRing, x) \/ x = <<"accept", k>>
      /\ ~bleLost' /\ EventsOrder /\ ~Has(bleRing, <<"accept", k>>) /\ ~Has(bleRing, <<"disconnect", k>>) => EventsOrder'
  BY <1>1, <1>3, <1>4, EventPutStep
<1>6. ASSUME ~bleLost' PROVE EventsOrder' /\ \A j \in Nat : ClientInv(j)'
  <2>1. EventsOrder /\ \A j \in Nat : ClientInv(j)
    BY <1>1, <1>2, <1>5, <1>6 DEF ClientsInv
  <2>2. k \notin conns /\ k \notin seen /\ ~Has(bleRing, <<"accept", k>>) /\ ~Has(bleRing, <<"disconnect", k>>)
    <3>1. ~(k <= bleCount.clients)
      BY <1>3 DEF k
    <3> QED
      BY <1>3, <2>1, <3>1 DEF ClientInv
  <2>3. ASSUME NEW j \in Nat PROVE ClientInv(j)'
    <3>1. CASE j = k
      BY <1>1, <1>3, <1>5, <1>6, <2>2, <3>1 DEF ClientInv, ConnKinds
    <3>2. CASE j # k
      <4>1. (Has(bleRing', <<"accept", j>>) <=> Has(bleRing, <<"accept", j>>)) /\ (Has(bleRing', <<"disconnect", j>>) <=> Has(bleRing, <<"disconnect", j>>))
        BY <1>5, <1>6, <3>2
      <4>2. (j \in conns' <=> j \in conns) /\ (j \in seen' <=> j \in seen)
        BY <1>1, <3>2
      <4>3. j <= bleCount.clients => j <= bleCount'.clients
        BY <1>3 DEF k
      <4> QED
        BY <2>1, <4>1, <4>2, <4>3 DEF ClientInv
    <3> QED
      BY <3>1, <3>2
  <2> QED
    BY <1>5, <1>6, <2>1, <2>2, <2>3
<1> QED
  BY <1>1, <1>5, <1>6 DEF BleInv, ClientsInv

LEMMA DisconnectedStep ==
  ASSUME NEW k \in Nat, Disconnected(k), BleInv
  PROVE  BleInv'
<1>1. /\ bleFault = "none" /\ bleUp /\ k \in conns
      /\ conns' = conns \ {k}
      /\ bleRing' = BleSignal(<<"disconnect", k>>)
      /\ bleLost' = (bleLost \/ Len(bleRing) = BleRing)
      /\ UNCHANGED <<chrcs, bleReq, bleSem, asked, seen, bleUp, bleLast, refused, bleLate, replaced,
                     bleCount, bleFault>>
  BY DEF Disconnected, BtIdle, BleAlive, scriptVars, ReleaseConnection
<1>2. BleType /\ ClientsInv
  BY <1>1, BleFacts
<1>3. conns' \subseteq Nat /\ bleCount' \in [requests : Nat, clients : Nat]
  BY <1>1, <1>2 DEF BleType
<1>4. "disconnect" \in ConnKinds
  BY DEF ConnKinds
<1>5. /\ BleType' /\ OwnAnswers' /\ FreedInv' /\ RequestsInv'
      /\ ~bleLost' =>
           /\ ~bleLost
           /\ \A x : Has(bleRing', x) <=> Has(bleRing, x) \/ x = <<"disconnect", k>>
      /\ ~bleLost' /\ EventsOrder /\ ~Has(bleRing, <<"disconnect", k>>) => EventsOrder'
  BY <1>1, <1>3, <1>4, EventPutStep
<1>6. ASSUME ~bleLost' PROVE EventsOrder' /\ \A j \in Nat : ClientInv(j)'
  <2>1. EventsOrder /\ \A j \in Nat : ClientInv(j)
    BY <1>1, <1>2, <1>5, <1>6 DEF ClientsInv
  <2>2. ~Has(bleRing, <<"disconnect", k>>)
    BY <1>1, <2>1 DEF ClientInv
  <2>3. ASSUME NEW j \in Nat PROVE ClientInv(j)'
    <3>1. CASE j = k
      BY <1>1, <1>5, <1>6, <2>1, <3>1 DEF ClientInv, ConnKinds
    <3>2. CASE j # k
      <4>1. (Has(bleRing', <<"accept", j>>) <=> Has(bleRing, <<"accept", j>>)) /\ (Has(bleRing', <<"disconnect", j>>) <=> Has(bleRing, <<"disconnect", j>>))
        BY <1>5, <1>6, <3>2
      <4>2. (j \in conns' <=> j \in conns) /\ (j \in seen' <=> j \in seen) /\ bleCount' = bleCount
        BY <1>1, <3>2
      <4> QED
        BY <2>1, <4>1, <4>2 DEF ClientInv
    <3> QED
      BY <3>1, <3>2
  <2> QED
    BY <1>5, <1>6, <2>1, <2>2, <2>3
<1> QED
  BY <1>1, <1>5, <1>6 DEF BleInv, ClientsInv

\* The script hears of a client: what is to come of it is what it now knows.
LEMMA ClientEventStep ==
  ASSUME ClientEvent, BleInv
  PROVE  BleInv'
<1> DEFINE kind == Head(bleRing)[1]
           k    == Head(bleRing)[2]
<1>1. /\ bleFault = "none" /\ bleRing # <<>> /\ bleRing' = Tail(bleRing)
      /\ kind \in {"accept", "disconnect"}
      /\ seen' = IF kind = "accept" THEN seen \cup {k} ELSE seen \ {k}
      /\ UNCHANGED <<chrcs, bleReq, bleSem, asked, conns, bleUp, bleLast, history, bleFault>>
  BY DEF ClientEvent, BleMain, BleAlive
<1>2. BleType /\ FreedInv /\ RequestsInv /\ ClientsInv /\ OwnAnswers
  BY <1>1, BleFacts
<1>3. Head(bleRing) = <<kind, k>> /\ k \in Nat
  <2>1. Head(bleRing) \in BleItems
    BY <1>1, <1>2, BleTailStep
  <2>2. kind \notin ChrcKinds
    BY <1>1, KindsApart, Zenon DEF ConnKinds
  <2> QED
    BY <2>1, <2>2 DEF BleItems
<1>4. PICK n \in Nat \ {0} : n = Len(bleRing) /\ Len(bleRing') = n - 1
  BY <1>1, <1>2, BleTailStep, Zenon
<1>5. bleRing[1] = <<kind, k>> /\ \A i \in 1 .. n - 1 : bleRing'[i] = bleRing[i + 1]
  BY <1>1, <1>2, <1>3, <1>4, BleTailStep
<1> HIDE DEF kind, k
<1>6. BleType'
  <2>1. bleRing' \in Seq(BleItems) /\ Len(bleRing') <= BleRing
    BY <1>1, <1>2, BleTailStep
  <2>2. seen' \subseteq Nat
    BY <1>1, <1>2, <1>3 DEF BleType
  <2> QED
    BY <1>1, <1>2, <2>1, <2>2 DEF BleType, Chrcs, history
<1>7. RequestsInv'
  BY <1>1, <1>2, <1>6, BleTailStep, RequestsKept DEF history
<1>8. ASSUME bleUp', ~bleLost' PROVE EventsOrder' /\ \A j \in Nat : ClientInv(j)'
  <2>1. EventsOrder /\ \A j \in Nat : ClientInv(j)
    BY <1>1, <1>2, <1>8 DEF ClientsInv, history
  <2>2. EventsOrder'
    <3> SUFFICES ASSUME NEW i \in 1 .. n - 1, NEW j \in 1 .. n - 1
                 PROVE  Ordered(bleRing'[i], i, bleRing'[j], j)
      BY <1>4 DEF EventsOrder
    <3>1. i + 1 \in 1 .. n /\ j + 1 \in 1 .. n
      BY <1>4, NextIndex
    <3>2. Ordered(bleRing'[i], i + 1, bleRing'[j], j + 1)
      BY <1>4, <1>5, <2>1, <3>1 DEF EventsOrder
    <3>3. (i + 1 = j + 1 => i = j) /\ (i + 1 < j + 1 => i < j)
      OBVIOUS
    <3> QED
      BY <3>2, <3>3, Zenon DEF Ordered
  <2>3. Has(bleRing, <<kind, k>>) /\ ~Has(bleRing', <<kind, k>>) /\ (kind = "disconnect" => ~Has(bleRing, <<"accept", k>>))
    <3>1. \A i \in 2 .. n : bleRing[i] # <<kind, k>> /\ (kind = "disconnect" => bleRing[i] # <<"accept", k>>)
      BY <1>1, <1>4, <1>5, <2>1 DEF EventsOrder, Ordered, ConnKinds
    <3>2. kind = "disconnect" => bleRing[1] # <<"accept", k>>
      BY <1>5
    <3>3. Has(bleRing, <<kind, k>>)
      BY <1>4, <1>5 DEF Has
    <3>4. ~Has(bleRing', <<kind, k>>)
      <4> SUFFICES ASSUME NEW i \in 1 .. n - 1 PROVE bleRing'[i] # <<kind, k>>
        BY <1>4 DEF Has
      <4>1. i + 1 \in 2 .. n
        BY <1>4
      <4> QED
        BY <1>5, <3>1, <4>1
    <3>5. kind = "disconnect" => ~Has(bleRing, <<"accept", k>>)
      <4> SUFFICES ASSUME kind = "disconnect", NEW i \in 1 .. n PROVE bleRing[i] # <<"accept", k>>
        BY <1>4 DEF Has
      <4>1. i = 1 \/ i \in 2 .. n
        BY <1>4
      <4> QED
        BY <3>1, <3>2, <4>1
    <3> QED
      BY <3>3, <3>4, <3>5
  <2>4. ASSUME NEW x, x # <<kind, k>> PROVE Has(bleRing', x) <=> Has(bleRing, x)
    <3>1. bleRing[1] # x
      BY <1>5, <2>4
    <3>2. Has(bleRing', x) => Has(bleRing, x)
      <4> SUFFICES ASSUME NEW i \in 1 .. n - 1, bleRing'[i] = x PROVE \E j \in 1 .. n : bleRing[j] = x
        BY <1>4 DEF Has
      <4>1. i + 1 \in 1 .. n
        BY <1>4
      <4> QED
        BY <1>5, <4>1
    <3>3. Has(bleRing, x) => Has(bleRing', x)
      <4> SUFFICES ASSUME NEW i \in 1 .. n, bleRing[i] = x PROVE \E j \in 1 .. n - 1 : bleRing'[j] = x
        BY <1>4 DEF Has
      <4>1. i - 1 \in 1 .. n - 1 /\ (i - 1) + 1 = i
        BY <1>4, <3>1
      <4> QED
        BY <1>5, <4>1
    <3> QED
      BY <3>2, <3>3
  <2>5. ASSUME NEW j \in Nat PROVE ClientInv(j)'
    <3>1. CASE j # k
      <4>1. (Has(bleRing', <<"accept", j>>) <=> Has(bleRing, <<"accept", j>>)) /\ (Has(bleRing', <<"disconnect", j>>) <=> Has(bleRing, <<"disconnect", j>>))
        BY <2>4, <3>1 DEF ConnKinds
      <4>2. (j \in seen' <=> j \in seen) /\ conns' = conns /\ bleCount' = bleCount
        BY <1>1, <3>1 DEF history
      <4> QED
        BY <2>1, <4>1, <4>2 DEF ClientInv
    <3>2. CASE j = k /\ kind = "accept"
      <4>1. Has(bleRing', <<"disconnect", k>>) <=> Has(bleRing, <<"disconnect", k>>)
        BY <1>3, <2>4, <3>2 DEF ConnKinds
      <4>2. Has(bleRing, <<"accept", k>>) /\ ~Has(bleRing', <<"accept", k>>)
        BY <2>3, <3>2
      <4>3. k \in seen' /\ conns' = conns /\ bleCount' = bleCount
        BY <1>1, <3>2 DEF history
      <4> QED
        BY <1>3, <2>1, <3>2, <4>1, <4>2, <4>3 DEF ClientInv
    <3>3. CASE j = k /\ kind = "disconnect"
      <4>1. ~Has(bleRing, <<"accept", k>>) /\ ~Has(bleRing', <<"accept", k>>)
        BY <1>3, <2>3, <2>4, <3>3 DEF ConnKinds
      <4>2. Has(bleRing, <<"disconnect", k>>) /\ ~Has(bleRing', <<"disconnect", k>>)
        BY <2>3, <3>3
      <4>3. k \notin seen' /\ conns' = conns /\ bleCount' = bleCount
        BY <1>1, <3>3 DEF history
      <4> QED
        BY <1>3, <2>1, <3>3, <4>1, <4>2, <4>3 DEF ClientInv
    <3> QED
      BY <1>1, <3>1, <3>2, <3>3
  <2> QED
    BY <2>2, <2>5
<1> QED
  BY <1>1, <1>2, <1>6, <1>7, <1>8 DEF BleInv, ClientsInv, OwnAnswers, FreedInv, Chrcs, history


\* A subscription's signal is neither a request nor an event of a client.
LEMMA SubscribedStep ==
  ASSUME NEW c \in Chrcs, Subscribed(c), BleInv
  PROVE  BleInv'
<1>1. /\ bleFault = "none" /\ bleRing' = BleSignal(<<"subscribe", c>>)
      /\ UNCHANGED <<chrcs, bleReq, bleSem, asked, conns, seen, bleUp, bleLast, history, bleFault>>
  BY DEF Subscribed, BtIdle, BleAlive, scriptVars
<1>2. BleType /\ FreedInv /\ RequestsInv /\ ClientsInv /\ OwnAnswers
  BY <1>1, BleFacts
<1>3. <<"subscribe", c>> \in BleItems /\ "subscribe" \notin RequestOps /\ "subscribe" \notin ConnKinds
  BY <1>2 DEF BleItems, ChrcKinds, ConnKinds, RequestOps, BleType
<1>4. /\ bleRing' \in Seq(BleItems) /\ Len(bleRing') <= BleRing
      /\ Shifts(0, RequestOps) /\ Shifts(0, ConnKinds) /\ Keeps(0, ConnKinds)
  BY <1>1, <1>2, <1>3, BleSignalStep
<1>5. BleType'
  BY <1>1, <1>2, <1>4 DEF BleType, Chrcs, history
<1>6. RequestsInv'
  BY <1>1, <1>2, <1>4, <1>5, RequestsKept DEF history
<1>7. ClientsInv'
  BY <1>1, <1>2, <1>4, <1>5, ClientsKept DEF history
<1> QED
  BY <1>1, <1>2, <1>5, <1>6, <1>7 DEF BleInv, OwnAnswers, FreedInv, Chrcs, history

\* After cleanup nothing is promised but to the request that waits.
LEMMA BleCleanupStep ==
  ASSUME BleCleanup, BleInv
  PROVE  BleInv'
<1>1. /\ bleFault = "none" /\ bleUp' = FALSE
      /\ chrcs' = Freed /\ conns' = {} /\ bleRing' = <<>> /\ asked' = {} /\ seen' = {}
      /\ bleLast' = [n |-> 0, got |-> 0]
      /\ UNCHANGED <<bleReq, bleSem, refused, bleLate, bleLost, replaced, bleCount, bleFault>>
  BY DEF BleCleanup, BleMain, BleAlive
<1>2. BleType /\ RequestsInv
  BY <1>1, BleFacts
<1>3. /\ Chrcs' = Chrcs
      /\ \A c \in Chrcs : /\ chrcs'[c] \in ChrcRecord
                          /\ chrcs'[c].read = chrcs[c].read /\ chrcs'[c].write = chrcs[c].write
  BY <1>1, <1>2 DEF Freed, BleType, ChrcRecord, Chrcs
<1>4. bleRing' \in Seq(BleItems) /\ Len(bleRing') = 0 /\ BleRing \in Nat
  BY <1>1, EmptySeq, BleAssumption
<1>5. BleType'
  <2>1. chrcs' \in [Chrcs' -> ChrcRecord]
    BY <1>1, <1>3 DEF Freed
  <2> QED
    BY <1>1, <1>2, <1>3, <1>4, <2>1 DEF BleType
<1>6. RequestsInv'
  <2>1. Shifts(0, RequestOps)
    BY <1>4 DEF Shifts
  <2>2. bleReq # NoReq => chrcs'[bleReq.c][bleReq.op] = chrcs[bleReq.c][bleReq.op]
    BY <1>2, <1>3 DEF BleType, Requests, RequestOps
  <2> QED
    BY <1>1, <1>2, <1>5, <2>1, <2>2, RequestsKept
<1> QED
  BY <1>1, <1>5, <1>6 DEF BleInv, OwnAnswers, FreedInv, ClientsInv

\* Main's place in the list of connections is in no part of the invariant.
LEMMA WalkStep ==
  ASSUME BleInv, UNCHANGED <<chrcs, bleReq, bleSem, bleRing, asked, conns, seen, bleUp, bleLast,
                             history, bleFault>>
  PROVE  BleInv'
<1>1. BleType' /\ OwnAnswers'
  BY DEF BleInv, BleType, OwnAnswers, Chrcs, history
<1>2. ASSUME bleFault = "none" PROVE FreedInv' /\ RequestsInv' /\ ClientsInv'
  <2>1. BleType /\ FreedInv /\ RequestsInv /\ ClientsInv
    BY <1>2, BleFacts
  <2>2. Shifts(0, RequestOps) /\ Shifts(0, ConnKinds) /\ Keeps(0, ConnKinds)
    BY <2>1 DEF Shifts, Keeps, BleType
  <2>3. RequestsInv'
    BY <1>1, <2>1, <2>2, RequestsKept DEF history
  <2>4. ClientsInv'
    BY <1>1, <2>1, <2>2, ClientsKept DEF history
  <2> QED
    BY <2>1, <2>3, <2>4 DEF FreedInv, Chrcs, history
<1> QED
  BY <1>1, <1>2 DEF BleInv

LEMMA BleInvariant == BleSpec => []BleInv
<1>1. BleInit => BleInv
  <2> SUFFICES ASSUME BleInit PROVE BleInv
    OBVIOUS
  <2>1. /\ chrcs = [c \in {} |-> NoAnswer] /\ bleReq = NoReq /\ bleSem = 0 /\ bleRing = <<>>
        /\ asked = {} /\ conns = {} /\ seen = {} /\ bleLast = [n |-> 0, got |-> 0]
        /\ bleCount = [requests |-> 0, clients |-> 0]
    BY DEF BleInit, NoChrcs
  <2>2. bleRing \in Seq(BleItems) /\ Len(bleRing) = 0 /\ BleRing \in Nat
    BY <2>1, EmptySeq, BleAssumption
  <2>3. Chrcs = {} /\ chrcs \in [{} -> ChrcRecord]
    BY <2>1 DEF Chrcs
  <2>4. BleType
    BY <2>1, <2>2, <2>3 DEF BleType
  <2>5. FreedInv /\ RequestsInv /\ OwnAnswers
    BY <2>1, <2>2, <2>3 DEF FreedInv, RequestsInv, LatestInv, GivenInv, PendingInv, OwnAnswers
  <2>6. ClientsInv
    BY <2>1, <2>2 DEF ClientsInv, EventsOrder, ClientInv, Has
  <2> QED
    BY <2>4, <2>5, <2>6 DEF BleInv
<1>2. BleInv /\ [BleNext]_bleVars => BleInv'
  <2> SUFFICES ASSUME BleInv, [BleNext]_bleVars PROVE BleInv'
    OBVIOUS
  <2>1. CASE bleVars' = bleVars
    BY <2>1, WalkStep DEF bleVars, history
  <2>2. ASSUME NEW sizes \in ServiceSets, NEW good \in 0 .. 3, SetServices(sizes, good) PROVE BleInv'
    BY <2>2, SetServicesStep, BleAssumption
  <2>3. ASSUME NEW c \in Chrcs, NEW op \in {"read", "write"}, AttrRequest(op, c) \/ HandlerCalled(op, c)
        PROVE  BleInv'
    BY <2>3, AttrRequestStep, HandlerCalledStep DEF RequestOps
  <2>4. ASSUME NEW c \in Chrcs, SkipFreed(c) PROVE BleInv'
    <3>1. Head(bleRing)[1] \notin ConnKinds
      BY <2>4 DEF SkipFreed, ConnKinds
    <3> QED
      BY <2>4, <3>1, TakeStep DEF SkipFreed, BleMain, BleAlive, scriptVars
  <2>5. ASSUME NEW c \in Chrcs, Notify(c) PROVE BleInv'
    <3>1. Head(bleRing)[1] \notin ConnKinds
      BY <2>5 DEF Notify, ConnKinds
    <3> QED
      BY <2>5, <3>1, TakeStep DEF Notify, BleMain, BleAlive
  <2>6. ASSUME NEW c \in Chrcs, Subscribed(c) PROVE BleInv'
    BY <2>6, SubscribedStep
  <2>7. CASE \/ \E c \in Chrcs : HandlerReadsFreed(c)
             \/ RequestOfFreed \/ AnsweredForFreed \/ NotifyFreed \/ StackUsesHandle
             \/ \E f \in asked : ScriptAnswersFreed(f)
    BY <2>7, BleFailsStep DEF HandlerReadsFreed, RequestOfFreed, AnsweredForFreed, NotifyFreed,
                              StackUsesHandle, ScriptAnswersFreed
  <2>8. CASE RequestAnswered
    BY <2>8, RequestAnsweredStep
  <2>9. CASE RequestTimesOut
    BY <2>9, RequestTimesOutStep
  <2>10. ASSUME NEW f \in asked, ScriptAnswers(f) \/ ScriptAnswersBadly(f) PROVE BleInv'
    BY <2>10, ScriptAnswersStep
  <2>11. CASE Connected
    BY <2>11, ConnectedStep
  <2>12. CASE ClientEvent
    BY <2>12, ClientEventStep
  <2>13. CASE NotifyNext
    BY <2>13, WalkStep DEF NotifyNext
  <2>14. CASE BleCleanup
    BY <2>14, BleCleanupStep
  <2>15. ASSUME NEW k \in 1 .. bleCount.clients, Disconnected(k) PROVE BleInv'
    <3>1. bleCount.clients \in Nat
      BY <2>15, BleFacts DEF BleType, Disconnected, BtIdle, BleAlive
    <3> QED
      BY <2>15, <3>1, DisconnectedStep
  <2> QED
    BY <2>1, <2>2, <2>3, <2>4, <2>5, <2>6, <2>7, <2>8, <2>9, <2>10, <2>11, <2>12, <2>13, <2>14, <2>15
    DEF BleNext
<1> QED
  BY <1>1, <1>2, PTL DEF BleSpec

\* An attribute request returns the script's answer to this very request unless one has
\* timed out or was answered twice, and the script knows of the clients that are connected
\* (src/zjs_ble.c, l.277 to l.424).
THEOREM ClientsAgreeTheorem == BleSpec => []ClientsAgree
<1>1. BleInv => ClientsAgree
  <2> SUFFICES ASSUME BleInv, bleFault = "none", bleUp, ~bleLost,
                      \A i \in DOMAIN bleRing : bleRing[i][1] \notin {"accept", "disconnect"}
               PROVE  seen = conns
    BY DEF BleInv, ClientsAgree, SeenAreConnected
  <2>1. BleType /\ \A k \in Nat : ClientInv(k)
    BY BleFacts DEF ClientsInv
  <2>2. \A k : ~Has(bleRing, <<"accept", k>>) /\ ~Has(bleRing, <<"disconnect", k>>)
    BY <2>1 DEF Has, BleType
  <2>3. \A k \in Nat : k \in seen <=> k \in conns
    BY <2>1, <2>2 DEF ClientInv
  <2> QED
    BY <2>1, <2>3 DEF BleType
<1> QED
  BY <1>1, BleInvariant, PTL

\* Where main is in the list: at a client that is connected, or that has left since, so that
\* the event which says so waits until main has gone through the list.
WalkInv ==
  bleFault = "none" /\ bleWalk # 0 =>
    /\ bleUp
    /\ bleWalk \in conns \/ bleLost \/ \E i \in DOMAIN bleRing : bleRing[i] = <<"disconnect", bleWalk>>

\* An item stays in the ring, or is lost, when another is added.
LEMMA BleSignalKeeps ==
  ASSUME BleType, NEW item \in BleItems, bleRing' = BleSignal(item), NEW x,
         \E i \in DOMAIN bleRing : bleRing[i] = x
  PROVE  \E i \in DOMAIN bleRing' : bleRing'[i] = x
<1>1. PICK n \in Nat : n = Len(bleRing)
  BY LenProperties DEF BleType
<1>2. bleRing \in Seq(BleItems) /\ bleRing' \in Seq(BleItems)
  BY BleSignalStep DEF BleType
<1>3. Len(bleRing') \in Nat /\ DOMAIN bleRing' = 1 .. Len(bleRing') /\ DOMAIN bleRing = 1 .. n
  BY <1>1, <1>2, LenProperties
<1>4. (Len(bleRing') = n + 1 /\ \A i \in 1 .. n : bleRing'[i] = bleRing[i]) \/ bleRing' = bleRing
  BY <1>1, BleSignalStep
<1>5. CASE bleRing' = bleRing
  BY <1>5
<1>6. CASE Len(bleRing') = n + 1 /\ \A i \in 1 .. n : bleRing'[i] = bleRing[i]
  <2>1. PICK i \in 1 .. n : bleRing[i] = x
    BY <1>3
  <2> QED
    BY <1>1, <1>3, <1>6, <2>1
<1> QED
  BY <1>4, <1>5, <1>6

LEMMA WalkInvariant == BleSpec => []WalkInv
<1>1. BleInit => WalkInv
  BY DEF BleInit, WalkInv
<1>2. BleInv /\ WalkInv /\ [BleNext]_bleVars => WalkInv'
  <2> SUFFICES ASSUME BleInv, WalkInv, [BleNext]_bleVars, bleFault' = "none", bleWalk' # 0
               PROVE  WalkInv'
    BY DEF WalkInv
  <2>1. CASE UNCHANGED bleVars
    BY <2>1 DEF WalkInv, bleVars
  <2>2. CASE \/ \E sizes \in ServiceSets, good \in 0 .. 3 : SetServices(sizes, good)
             \/ \E c \in Chrcs, op \in {"read", "write"} : HandlerCalled(op, c)
             \/ \E c \in Chrcs : SkipFreed(c)
             \/ \E f \in asked : ScriptAnswers(f) \/ ScriptAnswersBadly(f)
             \/ ClientEvent \/ BleCleanup
    <3>1. bleWalk = 0 /\ bleWalk' = bleWalk
      BY <2>2 DEF SetServices, HandlerCalled, SkipFreed, ScriptAnswers, ScriptAnswersBadly, ClientEvent,
                  BleCleanup, BleMain, scriptVars
    <3> QED
      BY <3>1
  <2>3. CASE \/ \E c \in Chrcs : HandlerReadsFreed(c)
             \/ RequestOfFreed \/ AnsweredForFreed \/ NotifyFreed \/ StackUsesHandle
             \/ \E f \in asked : ScriptAnswersFreed(f)
    BY <2>3 DEF HandlerReadsFreed, RequestOfFreed, AnsweredForFreed, NotifyFreed, StackUsesHandle,
                ScriptAnswersFreed, BleFails
  <2>4. CASE RequestAnswered \/ RequestTimesOut
    <3>1. UNCHANGED <<bleFault, bleWalk, bleUp, conns, bleLost, bleRing>>
      BY <2>4 DEF RequestAnswered, RequestTimesOut, scriptVars, history
    <3> QED
      BY <3>1 DEF WalkInv
  <2>5. ASSUME NEW item \in BleItems, bleRing' = BleSignal(item),
               UNCHANGED <<bleFault, bleWalk, bleUp>>, conns \subseteq conns', bleLost => bleLost'
        PROVE  WalkInv'
    <3>1. BleType
      BY <2>5, BleFacts
    <3> QED
      BY <2>5, <3>1, BleSignalKeeps DEF WalkInv
  <2>6. ASSUME NEW c \in Chrcs, NEW op \in {"read", "write"}, AttrRequest(op, c) PROVE WalkInv'
    <3>1. <<op, c>> \in BleItems
      BY <2>6, BleFacts DEF BleType, BleItems, ChrcKinds, AttrRequest, BtIdle, BleAlive
    <3>2. /\ bleRing' = BleSignal(<<op, c>>)
          /\ UNCHANGED <<bleFault, bleWalk, bleUp, conns, bleLost>>
      BY <2>6 DEF AttrRequest, scriptVars
    <3> QED
      BY <2>5, <3>1, <3>2
  <2>7. ASSUME NEW c \in Chrcs, Subscribed(c) PROVE WalkInv'
    <3>1. <<"subscribe", c>> \in BleItems
      BY <2>7, BleFacts DEF BleType, BleItems, ChrcKinds, Subscribed, BtIdle, BleAlive
    <3>2. /\ bleRing' = BleSignal(<<"subscribe", c>>)
          /\ UNCHANGED <<bleFault, bleWalk, bleUp, conns, bleLost>>
      BY <2>7 DEF Subscribed, scriptVars, history
    <3> QED
      BY <2>5, <3>1, <3>2
  <2>8. CASE Connected
    <3>1. bleCount.clients \in Nat
      BY <2>8, BleFacts DEF BleType, Connected, BtIdle, BleAlive
    <3>2. <<"accept", bleCount.clients + 1>> \in BleItems
      BY <3>1 DEF BleItems, ConnKinds
    <3>3. /\ bleRing' = BleSignal(<<"accept", bleCount.clients + 1>>)
          /\ conns \subseteq conns' /\ (bleLost => bleLost')
          /\ UNCHANGED <<bleFault, bleWalk, bleUp>>
      BY <2>8 DEF Connected, scriptVars
    <3> QED
      BY <2>5, <3>2, <3>3
  <2>9. ASSUME NEW k \in 1 .. bleCount.clients, Disconnected(k) PROVE WalkInv'
    <3>1. BleType /\ k \in Nat /\ bleFault = "none"
      BY <2>9, BleFacts DEF BleType, Disconnected, BtIdle, BleAlive
    <3>2. <<"disconnect", k>> \in BleItems
      BY <3>1 DEF BleItems, ConnKinds
    <3>3. /\ bleRing' = BleSignal(<<"disconnect", k>>)
          /\ bleLost' = (bleLost \/ Len(bleRing) = BleRing)
          /\ conns' = conns \ {k}
          /\ UNCHANGED <<bleFault, bleWalk, bleUp>>
      BY <2>9 DEF Disconnected, ReleaseConnection, scriptVars
    <3>4. CASE bleWalk \notin conns
      BY <3>1, <3>2, <3>3, <3>4, BleSignalKeeps DEF WalkInv
    <3>5. CASE bleWalk \in conns /\ bleWalk # k
      BY <3>1, <3>3, <3>5 DEF WalkInv
    <3>6. CASE bleWalk = k
      <4>1. CASE Len(bleRing) = BleRing
        BY <3>1, <3>3, <3>6, <4>1 DEF WalkInv
      <4>2. CASE Len(bleRing) # BleRing
        <5>1. /\ bleRing'[Len(bleRing) + 1] = <<"disconnect", k>>
              /\ Len(bleRing') = Len(bleRing) + 1 /\ bleRing' \in Seq(BleItems)
          BY <3>1, <3>2, <3>3, <4>2, BleSignalStep
        <5>2. Len(bleRing) \in Nat /\ DOMAIN bleRing' = 1 .. Len(bleRing')
          BY <3>1, <5>1, LenProperties DEF BleType
        <5> QED
          BY <3>1, <3>3, <3>6, <5>1, <5>2 DEF WalkInv
      <4> QED
        BY <4>1, <4>2
    <3> QED
      BY <3>4, <3>5, <3>6
  <2>10. CASE NotifyNext \/ \E c \in Chrcs : Notify(c)
    <3>1. bleWalk' \in conns' /\ bleUp'
      <4>1. CASE NotifyNext
        <5>1. bleUp /\ UNCHANGED <<conns, bleUp>>
          BY <4>1 DEF NotifyNext, BleAlive, WalkInv
        <5>2. bleWalk' \in conns
          BY <4>1 DEF NotifyNext, WalkTo
        <5> QED
          BY <5>1, <5>2
      <4>2. ASSUME NEW c \in Chrcs, Notify(c) PROVE bleWalk' \in conns' /\ bleUp'
        <5>1. bleUp /\ UNCHANGED <<conns, bleUp>>
          BY <4>2 DEF Notify, BleMain
        <5>2. bleWalk' \in conns
          BY <4>2 DEF Notify, WalkTo
        <5> QED
          BY <5>1, <5>2
      <4> QED
        BY <2>10, <4>1, <4>2
    <3> QED
      BY <3>1 DEF WalkInv
  <2> QED
    BY <2>1, <2>2, <2>3, <2>4, <2>6, <2>7, <2>8, <2>9, <2>10 DEF BleNext, bleVars
<1> QED
  BY <1>1, <1>2, BleInvariant, PTL DEF BleSpec

\* The data of a write are read late only if a request timed out or was answered twice; the
\* attributes are used after they were freed only if services were set again or after a
\* cleanup, as the handle; and main meets a connection that was freed only while the event
\* which says so waits or was lost (l.391, l.152, l.424 to l.430, l.529, l.548).
THEOREM BleFaultsExplainedTheorem == BleSpec => BleFaultsExplained
<1> DEFINE Explained ==
      /\ bleFault' = "data of a request that is over" => bleLate
      /\ bleFault' \in {"freed attribute", "freed characteristic"} => replaced \/ ~bleUp
      /\ bleFault' = "no handle" => ~bleUp
      /\ bleFault' = "freed connection" =>
           bleUp /\ (bleLost \/ \E i \in DOMAIN bleRing : bleRing[i] = <<"disconnect", bleWalk>>)
<1>1. BleInv /\ WalkInv /\ [BleNext]_bleVars => (bleFault = "none" => Explained)
  <2> SUFFICES ASSUME BleInv, WalkInv, [BleNext]_bleVars, bleFault = "none", bleFault' # "none"
               PROVE  Explained
    OBVIOUS
  <2>1. BleType /\ FreedInv /\ RequestsInv
    BY BleFacts
  <2>2. ASSUME NEW c \in Chrcs, HandlerReadsFreed(c) PROVE bleLate
    <3> SUFFICES ASSUME ~bleLate PROVE FALSE
      OBVIOUS
    <3>1. bleRing \in Seq(BleItems) /\ bleRing # <<>> /\ Head(bleRing) = <<"write", c>>
      BY <2>1, <2>2 DEF BleType, HandlerReadsFreed
    <3>2. bleRing[1] = <<"write", c>> /\ 1 \in 1 .. Len(bleRing)
      <4>1. PICK n \in Nat : n = Len(bleRing)
        BY <3>1, LenProperties
      <4>2. n # 0
        BY <3>1, <4>1, EmptySeq
      <4> QED
        BY <3>1, <4>1, <4>2, HeadTailProperties
    <3>3. bleReq # NoReq /\ <<"write", c>> = <<bleReq.op, bleReq.c>>
      BY <2>1, <3>2 DEF RequestsInv, PendingInv, RequestOps
    <3>4. chrcs[c].write.req = bleReq.n
      BY <2>1, <3>3 DEF RequestsInv, LatestInv
    <3> QED
      BY <2>2, <3>4 DEF HandlerReadsFreed
  <2>3. \/ \E c \in Chrcs : HandlerReadsFreed(c)
        \/ RequestOfFreed \/ AnsweredForFreed \/ NotifyFreed \/ StackUsesHandle
        \/ \E f \in asked : ScriptAnswersFreed(f)
    BY DEF BleNext, bleVars, SetServices, SkipFreed, AttrRequest, HandlerCalled,
           Subscribed, Notify, RequestAnswered, RequestTimesOut, ScriptAnswers,
           ScriptAnswersBadly, Connected, ClientEvent, NotifyNext, BleCleanup, Disconnected, history
  <2>4. CASE \E c \in Chrcs : HandlerReadsFreed(c)
    BY <2>2, <2>4 DEF HandlerReadsFreed, BleFails
  <2>5. CASE RequestOfFreed \/ AnsweredForFreed \/ \E f \in asked : ScriptAnswersFreed(f)
    <3>1. \E c \in Chrcs : chrcs[c].freed
      BY <2>1, <2>5 DEF RequestOfFreed, AnsweredForFreed, ScriptAnswersFreed, BleType
    <3>2. bleFault' \in {"freed attribute", "freed characteristic"}
      BY <2>5 DEF RequestOfFreed, AnsweredForFreed, ScriptAnswersFreed, BleFails
    <3> QED
      BY <2>1, <3>1, <3>2 DEF FreedInv
  <2>6. CASE NotifyFreed
    BY <2>6 DEF NotifyFreed, BleFails, WalkInv
  <2>7. CASE StackUsesHandle
    BY <2>7 DEF StackUsesHandle, BleFails
  <2> QED
    BY <2>3, <2>4, <2>5, <2>6, <2>7
<1> QED
  BY <1>1, BleInvariant, WalkInvariant, PTL DEF BleSpec, BleFaultsExplained

-----------------------------------------------------------------------------
(***************************************************************************)
(* The pattern matching engine.                                            *)
(***************************************************************************)
Modes == [net : BOOLEAN, knn : BOOLEAN]

PmeType ==
  /\ nsr \in Modes /\ nsrSave \in Modes
  /\ pmeSet \in BOOLEAN /\ pmeBroken \in BOOLEAN
  /\ pmeModes \subseteq {"save", "restore"}
  /\ pmeOp.op \in {"idle", "saveNeurons", "save", "restoreNeurons", "restore"}
  /\ {"op", "at", "array"} \subseteq DOMAIN pmeOp

\* While a save or a restore goes on, the register it keeps has the classifier mode of the
\* device; and unless one has broken off, the modes are those of what goes on.
PmeInv ==
  /\ PmeType
  /\ nsr.knn = pmeSet
  /\ pmeOp.op \in {"save", "restore"} => nsrSave.knn = nsr.knn
  /\ ~pmeBroken => /\ pmeModes = {"save", "restore"} \cap {pmeOp.op}
                   /\ pmeOp.op \notin {"save", "restore"} => ~nsr.net

\* The calls of the script that are one call of the sensor core.
LEMMA PmeCallStep ==
  ASSUME PmeInv, PmeReady, UNCHANGED <<pmeOp, pmeBroken>>, pmeSet' \in BOOLEAN,
         nsr' \in Modes, nsrSave' \in Modes, pmeModes' = pmeModes,
         nsr'.knn = pmeSet', nsr.net = FALSE => nsr'.net = FALSE
  PROVE  PmeInv'
<1>1. pmeOp.op = "idle" /\ pmeOp'.op = "idle" /\ pmeBroken' = pmeBroken
  BY DEF PmeReady, PmeIdle
<1> QED
  BY <1>1 DEF PmeInv, PmeType, Modes

LEMMA PmeSimpleStep ==
  ASSUME PmeInv,
         \/ PmeBegin \/ PmeLooks
         \/ \E v \in Vectors : PmeLearn(v)
         \/ \E n \in 1 .. MaxNeurons : PmeRead(n)
         \/ \E knn \in BOOLEAN : PmeSetMode(knn) \/ PmeConfigure(knn)
  PROVE  PmeInv'
<1>1. nsr \in Modes /\ nsrSave \in Modes /\ pmeSet \in BOOLEAN /\ nsr.knn = pmeSet
  BY DEF PmeInv, PmeType
<1>2. [nsr EXCEPT !.net = FALSE] \in Modes /\ [nsr EXCEPT !.net = FALSE].knn = nsr.knn
  BY <1>1 DEF Modes
<1>3. CASE PmeBegin \/ PmeLooks \/ \E v \in Vectors : PmeLearn(v)
  BY <1>1, <1>3, PmeCallStep DEF PmeBegin, PmeLooks, PmeLearn, PmeCall, Answers, Begin, Learn, device
<1>4. ASSUME NEW n \in 1 .. MaxNeurons, PmeRead(n)
      PROVE  PmeInv'
  <2>1. /\ PmeReady /\ UNCHANGED <<pmeOp, pmeBroken, pmeSet>> /\ pmeModes' = pmeModes
        /\ \/ nsrSave' = nsr /\ nsr' = [nsr EXCEPT !.net = FALSE]
           \/ UNCHANGED <<nsr, nsrSave>>
    BY <1>4 DEF PmeRead, PmeCall, Answers, ReadNeuron, device
  <2>2. nsr' \in Modes /\ nsrSave' \in Modes /\ nsr'.knn = pmeSet' /\ (nsr.net = FALSE => nsr'.net = FALSE)
    BY <1>1, <1>2, <2>1 DEF Modes
  <2> QED
    BY <1>1, <2>1, <2>2, PmeCallStep
<1>5. ASSUME NEW knn \in BOOLEAN, PmeSetMode(knn)
      PROVE  PmeInv'
  <2>1. /\ PmeReady /\ UNCHANGED <<pmeOp, pmeBroken, nsrSave, pmeModes>>
        /\ nsr' = [nsr EXCEPT !.knn = knn] \/ nsr' = nsr
        /\ pmeSet' = IF nsr' # nsr THEN knn ELSE pmeSet
    BY <1>5 DEF PmeSetMode, PmeCall, Answers, SetClassifierMode, device
  <2>2. nsr' \in Modes /\ nsr'.knn = pmeSet' /\ nsr'.net = nsr.net
    BY <1>1, <2>1 DEF Modes
  <2> QED
    BY <1>1, <2>1, <2>2, PmeCallStep
<1> QED
  BY <1>3, <1>4, <1>5 DEF PmeConfigure

\* A call of saveNeurons or restoreNeurons begins.
LEMMA PmeOpBegins ==
  ASSUME PmeInv, SaveNeurons \/ \E bad \in 0 .. MaxNeurons : RestoreNeurons(bad)
  PROVE  PmeInv'
<1>1. pmeOp = PmeIdle /\ UNCHANGED device /\ UNCHANGED pmeSet /\ UNCHANGED pmeBroken
  BY DEF SaveNeurons, RestoreNeurons, PmeReady
<1>2. PICK op \in {"saveNeurons", "restoreNeurons"} :
        \E count, array : pmeOp' = [op |-> op, at |-> 0, count |-> count, array |-> array]
  BY DEF SaveNeurons, RestoreNeurons, PmeIdle
<1>3. pmeOp.op = "idle" /\ UNCHANGED <<nsr, nsrSave, pmeModes>>
  BY <1>1 DEF PmeIdle, device
<1>4. {"op", "at", "array"} \subseteq DOMAIN pmeOp' /\ pmeOp'.op = op
  <2>1. PICK count, array : pmeOp' = [op |-> op, at |-> 0, count |-> count, array |-> array]
    BY <1>2
  <2> QED
    BY <2>1
<1> QED
  BY <1>1, <1>3, <1>4 DEF PmeInv, PmeType

\* It goes on, each call of the sensor core with success or not.
LEMMA PmeOpGoes ==
  ASSUME PmeInv, SaveBegins \/ SaveIterates \/ SaveEnds \/ RestoreBegins \/ RestoreIterates \/ RestoreEnds
  PROVE  PmeInv'
<1>1. /\ PmeType /\ nsr.knn = pmeSet
      /\ pmeOp.op \in {"save", "restore"} => nsrSave.knn = nsr.knn
      /\ ~pmeBroken => /\ pmeModes = {"save", "restore"} \cap {pmeOp.op}
                       /\ pmeOp.op \notin {"save", "restore"} => ~nsr.net
  BY DEF PmeInv
<1>2. PICK ok \in BOOLEAN :
        \/ Goes("saveNeurons", [pmeOp EXCEPT !.op = "save", !.at = 1], ok) /\ Answers(BeginSaveMode, ok)
        \/ /\ Goes("save", [pmeOp EXCEPT !.at = @ + 1, !.array = Append(@, Cut(Read))], ok)
           /\ Answers(IterateToSave, ok)
        \/ Goes("save", PmeIdle, ok) /\ Answers(EndSaveMode, ok)
        \/ Goes("restoreNeurons", [pmeOp EXCEPT !.op = "restore", !.at = 1], ok) /\ Answers(BeginRestoreMode, ok)
        \/ /\ Goes("restore", [pmeOp EXCEPT !.at = @ + 1], ok)
           /\ \/ ok = FALSE /\ UNCHANGED device
              \/ Answers(IterateToRestore(Padded(pmeOp.array[pmeOp.at])), ok)
        \/ Goes("restore", PmeIdle, ok) /\ Answers(EndRestoreMode, ok)
  BY DEF SaveBegins, SaveIterates, SaveEnds, RestoreBegins, RestoreIterates, RestoreEnds
<1> DEFINE Fits(op) == {"op", "at", "array"} \subseteq DOMAIN op
<1>0. {"op", "at", "array"} \subseteq DOMAIN pmeOp
  BY <1>1 DEF PmeType
<1>a. ASSUME NEW op, NEW next, Goes(op, next, ok), Fits(next)
      PROVE  /\ pmeSet' = pmeSet /\ pmeBroken' = (pmeBroken \/ ~ok)
             /\ ~ok => pmeOp'.op = "idle"
             /\ Fits(pmeOp')
  BY <1>a DEF Goes, Break, PmeIdle
<1>b. /\ Fits(PmeIdle) /\ Fits([pmeOp EXCEPT !.op = "save", !.at = 1])
      /\ Fits([pmeOp EXCEPT !.op = "restore", !.at = 1]) /\ Fits([pmeOp EXCEPT !.at = @ + 1])
      /\ Fits([pmeOp EXCEPT !.at = @ + 1, !.array = Append(@, Cut(Read))])
  BY <1>1 DEF PmeType, PmeIdle
<1>3. /\ pmeSet' = pmeSet /\ pmeBroken' = (pmeBroken \/ ~ok)
      /\ ~ok => pmeOp'.op = "idle"
      /\ Fits(pmeOp')
  <2> HIDE DEF Fits
  <2> QED
    BY <1>2, <1>a, <1>b
<1>4. CASE /\ Goes("saveNeurons", [pmeOp EXCEPT !.op = "save", !.at = 1], ok)
           /\ Answers(BeginSaveMode, ok)
  <2>1. /\ pmeOp.op = "saveNeurons" /\ (ok => pmeOp' = [pmeOp EXCEPT !.op = "save", !.at = 1])
        /\ \/ nsrSave' = nsr /\ nsr' = [nsr EXCEPT !.net = TRUE] /\ pmeModes' = pmeModes \cup {"save"}
           \/ ~ok /\ UNCHANGED <<nsr, nsrSave, pmeModes>>
    BY <1>4 DEF Goes, Answers, BeginSaveMode, BeginNet, device
  <2>2. ok => pmeOp'.op = "save"
    BY <1>0, <2>1
  <2>3. nsr' \in Modes /\ nsrSave' \in Modes /\ nsr'.knn = nsr.knn /\ (ok => nsrSave'.knn = nsr'.knn)
    BY <1>1, <2>1 DEF PmeType, Modes
  <2>4. pmeModes' \subseteq {"save", "restore"} /\ (ok /\ ~pmeBroken => pmeModes' = {"save"})
    BY <1>1, <2>1 DEF PmeType
  <2> QED
    BY <1>1, <1>3, <2>1, <2>2, <2>3, <2>4 DEF PmeInv, PmeType, Modes
<1>5. CASE /\ Goes("save", [pmeOp EXCEPT !.at = @ + 1, !.array = Append(@, Cut(Read))], ok)
           /\ Answers(IterateToSave, ok)
  <2>1. pmeOp.op = "save" /\ (ok => pmeOp'.op = "save") /\ UNCHANGED <<nsr, nsrSave, pmeModes>>
    BY <1>5 DEF Goes, Answers, IterateToSave, device
  <2> QED
    BY <1>1, <1>3, <2>1 DEF PmeInv, PmeType
<1>6. CASE Goes("save", PmeIdle, ok) /\ Answers(EndSaveMode, ok)
  <2>1. /\ pmeOp.op = "save" /\ pmeOp'.op = "idle"
        /\ \/ nsr' = [nsrSave EXCEPT !.net = FALSE] /\ nsrSave' = nsrSave /\ pmeModes' = pmeModes \ {"save"}
           \/ ~ok /\ UNCHANGED <<nsr, nsrSave, pmeModes>>
    BY <1>6 DEF Goes, Answers, EndSaveMode, EndNet, device, PmeIdle
  <2> QED
    BY <1>1, <1>3, <2>1 DEF PmeInv, PmeType, Modes
<1>7. CASE /\ Goes("restoreNeurons", [pmeOp EXCEPT !.op = "restore", !.at = 1], ok)
           /\ Answers(BeginRestoreMode, ok)
  <2>1. /\ pmeOp.op = "restoreNeurons" /\ (ok => pmeOp' = [pmeOp EXCEPT !.op = "restore", !.at = 1])
        /\ \/ nsrSave' = nsr /\ nsr' = [nsr EXCEPT !.net = TRUE] /\ pmeModes' = pmeModes \cup {"restore"}
           \/ ~ok /\ UNCHANGED <<nsr, nsrSave, pmeModes>>
    BY <1>7 DEF Goes, Answers, BeginRestoreMode, BeginNet, device
  <2>2. ok => pmeOp'.op = "restore"
    BY <1>0, <2>1
  <2>3. nsr' \in Modes /\ nsrSave' \in Modes /\ nsr'.knn = nsr.knn /\ (ok => nsrSave'.knn = nsr'.knn)
    BY <1>1, <2>1 DEF PmeType, Modes
  <2>4. pmeModes' \subseteq {"save", "restore"} /\ (ok /\ ~pmeBroken => pmeModes' = {"restore"})
    BY <1>1, <2>1 DEF PmeType
  <2> QED
    BY <1>1, <1>3, <2>1, <2>2, <2>3, <2>4 DEF PmeInv, PmeType, Modes
<1>8. CASE /\ Goes("restore", [pmeOp EXCEPT !.at = @ + 1], ok)
           /\ \/ ok = FALSE /\ UNCHANGED device
              \/ Answers(IterateToRestore(Padded(pmeOp.array[pmeOp.at])), ok)
  <2>1. pmeOp.op = "restore" /\ (ok => pmeOp'.op = "restore") /\ UNCHANGED <<nsr, nsrSave, pmeModes>>
    BY <1>8 DEF Goes, Answers, IterateToRestore, device
  <2> QED
    BY <1>1, <1>3, <2>1 DEF PmeInv, PmeType
<1>9. CASE Goes("restore", PmeIdle, ok) /\ Answers(EndRestoreMode, ok)
  <2>1. /\ pmeOp.op = "restore" /\ pmeOp'.op = "idle"
        /\ \/ nsr' = [nsrSave EXCEPT !.net = FALSE] /\ nsrSave' = nsrSave /\ pmeModes' = pmeModes \ {"restore"}
           \/ ~ok /\ UNCHANGED <<nsr, nsrSave, pmeModes>>
    BY <1>9 DEF Goes, Answers, EndRestoreMode, EndNet, device, PmeIdle
  <2> QED
    BY <1>1, <1>3, <2>1 DEF PmeInv, PmeType, Modes
<1> QED
  BY <1>2, <1>4, <1>5, <1>6, <1>7, <1>8, <1>9

LEMMA PmeInvariant == PmeSpec => []PmeInv
<1>1. PmeInit => PmeInv
  <2> SUFFICES ASSUME PmeInit PROVE PmeInv
    OBVIOUS
  <2>1. pmeOp.op = "idle" /\ {"op", "at", "array"} \subseteq DOMAIN pmeOp
    BY DEF PmeInit, PmeIdle
  <2>2. nsr \in Modes /\ nsrSave \in Modes /\ nsr.net = FALSE /\ nsr.knn = FALSE
    BY DEF PmeInit, Modes
  <2> QED
    BY <2>1, <2>2 DEF PmeInit, PmeInv, PmeType
<1>2. PmeInv /\ [PmeNext]_pmeVars => PmeInv'
  <2> SUFFICES ASSUME PmeInv, [PmeNext]_pmeVars
               PROVE  PmeInv'
    OBVIOUS
  <2>1. CASE UNCHANGED pmeVars
    BY <2>1 DEF PmeInv, PmeType
  <2>2. CASE PmeNext
    BY <2>1, <2>2, PmeSimpleStep, PmeOpBegins, PmeOpGoes DEF PmeNext
  <2> QED
    BY <2>1, <2>2
<1> QED
  BY <1>1, <1>2, PTL DEF PmeSpec

\* Calls leave the device in normal mode and with the classifier mode that was set last,
\* also when a save or a restore breaks off (arc_curie_pme.c: curie_pme_begin_save_mode to
\* curie_pme_end_restore_mode, arc_pme.c).
THEOREM ModesAreKeptTheorem == PmeSpec => []ModesAreKept
<1>1. PmeInv => ModesAreKept
  BY DEF PmeInv, ModesAreKept, NormalUnlessBroken, ClassifierModeKept, PmeIdle
<1> QED
  BY <1>1, PmeInvariant, PTL

\* What a save and a restore make of a vector.
VectorSize == Len(CHOOSE w \in Vectors : TRUE)
Learnable  == {v \in [1 .. VectorSize -> Nat] : Vectors # {}}

LEMMA VectorFacts ==
  ASSUME NEW v \in Learnable
  PROVE  VectorSize \in Nat /\ v \in Seq(Nat) /\ Len(v) = VectorSize /\ DOMAIN v = 1 .. VectorSize
<1>1. VectorSize \in Nat
  BY PmeAssumption DEF Learnable, VectorSize
<1> QED
  BY <1>1 DEF Learnable

LEMMA VectorsLearnable == Vectors \subseteq Learnable
<1> SUFFICES ASSUME NEW v \in Vectors PROVE v \in Learnable
  OBVIOUS
<1>1. (CHOOSE w \in Vectors : TRUE) \in Vectors
  OBVIOUS
<1>2. v \in Seq(Nat) /\ Len(v) = VectorSize
  BY <1>1, PmeAssumption DEF VectorSize
<1>3. v \in [1 .. Len(v) -> Nat]
  BY <1>2
<1> QED
  BY <1>2, <1>3 DEF Learnable

LEMMA LeastIndex ==
  ASSUME NEW T \in SUBSET Nat, T # {}
  PROVE  \E x \in T : \A y \in T : x <= y
<1> DEFINE R == {ss \in Nat \X Nat : ss[1] < ss[2]}
<1>1. IsWellFoundedOn(R, Nat)
  BY NatLessThanWellFounded DEF OpToRel
<1>2. \E x \in T : \A y \in T : <<y, x>> \notin R
  BY <1>1, WFMin, Zenon
<1>3. \A x, y \in Nat : <<y, x>> \notin R => x <= y
  OBVIOUS
<1> QED
  BY <1>2, <1>3

\* A saved vector holds the components before the first zero.
LEMMA CutFacts ==
  ASSUME NEW v \in Learnable
  PROVE  /\ Cut(v) \in Seq(Nat) /\ Len(Cut(v)) <= VectorSize
         /\ \A i \in 1 .. Len(Cut(v)) : Cut(v)[i] = v[i] /\ v[i] # 0
         /\ Len(Cut(v)) < VectorSize => v[Len(Cut(v)) + 1] = 0
<1>1. VectorSize \in Nat /\ v \in Seq(Nat) /\ Len(v) = VectorSize /\ DOMAIN v = 1 .. VectorSize
  BY VectorFacts
<1> DEFINE zeros == {i \in DOMAIN v : v[i] = 0}
<1>2. CASE zeros = {}
  <2>1. Cut(v) = v
    BY <1>2 DEF Cut
  <2> QED
    BY <1>1, <1>2, <2>1
<1>3. CASE zeros # {}
  <2> DEFINE first == CHOOSE i \in zeros : \A j \in zeros : i <= j
  <2>1. zeros \in SUBSET Nat
    BY <1>1
  <2>2. first \in zeros /\ \A j \in zeros : first <= j
    <3> HIDE DEF zeros
    <3>1. \E i \in zeros : \A j \in zeros : i <= j
      BY <1>3, <2>1, LeastIndex
    <3> QED
      BY <3>1
  <2>3. Cut(v) = SubSeq(v, 1, first - 1)
    BY <1>3 DEF Cut
  <2>4. first \in 1 .. VectorSize /\ v[first] = 0
    BY <1>1, <2>2
  <2> HIDE DEF first
  <2>5. /\ SubSeq(v, 1, first - 1) \in Seq(Nat) /\ Len(SubSeq(v, 1, first - 1)) = first - 1
        /\ \A i \in 1 .. first - 1 : SubSeq(v, 1, first - 1)[i] = v[i]
    BY <1>1, <2>4
  <2>6. \A i \in 1 .. first - 1 : v[i] # 0
    BY <1>1, <2>2, <2>4
  <2> HIDE DEF zeros
  <2> QED
    BY <1>1, <2>3, <2>4, <2>5, <2>6
<1> QED
  BY <1>2, <1>3

\* To fill up what is left of a vector gives one that is cut in the same place.
LEMMA PaddedFacts ==
  ASSUME NEW v \in Learnable
  PROVE  Padded(Cut(v)) \in Learnable /\ Cut(Padded(Cut(v))) = Cut(v)
<1> DEFINE c == Cut(v)
           p == Padded(c)
           d == Cut(p)
<1>1. VectorSize \in Nat
  BY VectorFacts
<1>2. /\ c \in Seq(Nat) /\ Len(c) <= VectorSize
      /\ \A i \in 1 .. Len(c) : c[i] # 0
  BY CutFacts
<1> HIDE DEF c
<1>3. p = [i \in 1 .. VectorSize |-> IF i <= Len(c) THEN c[i] ELSE 0]
  BY DEF Padded, VectorSize
<1>4. Len(c) \in Nat /\ \A i \in 1 .. Len(c) : c[i] \in Nat
  BY <1>2
<1>5. p \in Learnable
  <2>1. p \in [1 .. VectorSize -> Nat]
    BY <1>1, <1>2, <1>3, <1>4
  <2> QED
    BY <2>1 DEF Learnable
<1>6. /\ d \in Seq(Nat) /\ Len(d) <= VectorSize
      /\ \A i \in 1 .. Len(d) : d[i] = p[i] /\ p[i] # 0
      /\ Len(d) < VectorSize => p[Len(d) + 1] = 0
  BY <1>5, CutFacts
<1> HIDE DEF d, p
<1>7. Len(d) \in Nat
  BY <1>6
<1>8. ~(Len(d) < Len(c))
  <2> SUFFICES ASSUME Len(d) < Len(c) PROVE FALSE
    OBVIOUS
  <2>1. Len(d) + 1 \in 1 .. VectorSize /\ Len(d) + 1 \in 1 .. Len(c) /\ Len(d) < VectorSize
    BY <1>1, <1>2, <1>4, <1>7
  <2>2. p[Len(d) + 1] = c[Len(d) + 1]
    BY <1>3, <1>4, <1>7, <2>1
  <2> QED
    BY <1>2, <1>6, <2>1, <2>2
<1>9. ~(Len(c) < Len(d))
  <2> SUFFICES ASSUME Len(c) < Len(d) PROVE FALSE
    OBVIOUS
  <2>1. Len(c) + 1 \in 1 .. VectorSize /\ Len(c) + 1 \in 1 .. Len(d) /\ ~(Len(c) + 1 <= Len(c))
    BY <1>1, <1>4, <1>6, <1>7
  <2>2. p[Len(c) + 1] = 0
    BY <1>3, <2>1
  <2> QED
    BY <1>6, <2>1, <2>2
<1>10. Len(c) = Len(d)
  BY <1>4, <1>7, <1>8, <1>9
<1>11. \A i \in 1 .. Len(c) : d[i] = c[i]
  <2> SUFFICES ASSUME NEW i \in 1 .. Len(c) PROVE d[i] = c[i]
    OBVIOUS
  <2>1. i \in 1 .. VectorSize /\ i <= Len(c)
    BY <1>1, <1>2, <1>4
  <2> QED
    BY <1>3, <1>6, <1>10, <2>1
<1>12. d = c
  BY <1>2, <1>6, <1>10, <1>11, SeqEqual
<1> QED
  BY <1>5, <1>12 DEF c, p, d

LEMMA SeqFacts ==
  ASSUME NEW S, NEW s \in Seq(S)
  PROVE  /\ Len(s) \in Nat /\ DOMAIN s = 1 .. Len(s)
         /\ \A i \in 1 .. Len(s) : s[i] \in S
         /\ \A x \in S : /\ Append(s, x) \in Seq(S) /\ Len(Append(s, x)) = Len(s) + 1
                         /\ Append(s, x)[Len(s) + 1] = x
                         /\ \A i \in 1 .. Len(s) : Append(s, x)[i] = s[i]
         /\ \A m \in 0 .. Len(s) : /\ SubSeq(s, 1, m) \in Seq(S) /\ Len(SubSeq(s, 1, m)) = m
                                   /\ \A i \in 1 .. m : SubSeq(s, 1, m)[i] = s[i]
         /\ SubSeq(s, 1, Len(s)) = s /\ SubSeq(s, 1, 0) = <<>>
<1>1. /\ Len(s) \in Nat /\ DOMAIN s = 1 .. Len(s)
      /\ \A i \in 1 .. Len(s) : s[i] \in S
  BY LenProperties, ElementOfSeq
<1>2. \A x \in S : /\ Append(s, x) \in Seq(S) /\ Len(Append(s, x)) = Len(s) + 1
                   /\ Append(s, x)[Len(s) + 1] = x
                   /\ \A i \in 1 .. Len(s) : Append(s, x)[i] = s[i]
  BY AppendProperties
<1>3. \A m \in 0 .. Len(s) : /\ SubSeq(s, 1, m) \in Seq(S) /\ Len(SubSeq(s, 1, m)) = m
                             /\ \A i \in 1 .. m : SubSeq(s, 1, m)[i] = s[i]
  BY <1>1
<1>4. SubSeq(s, 1, Len(s)) = s /\ SubSeq(s, 1, 0) = <<>>
  BY <1>1
<1> QED
  BY <1>1, <1>2, <1>3, <1>4

\* An array of saved vectors and the neurons that they were saved from.
CutsOf(array, ns) == Len(array) = Len(ns) /\ \A i \in 1 .. Len(ns) : array[i] = Cut(ns[i])

\* As long as nothing has broken off, a save has copied the neurons before the one that it has
\* come to, and a restore has written back as many, from the array of the latest save.
SavedInv ==
  /\ neurons \in Seq(Learnable) /\ pmeSaved.was \in Seq(Learnable)
  /\ CutsOf(pmeSaved.array, pmeSaved.was)
  /\ pmeOp \in [op : {"idle", "saveNeurons", "save", "restoreNeurons", "restore"},
                at : Nat, count : Nat, array : Seq(Seq(Nat))]
  /\ pmeSaved.array \in Seq(Seq(Nat))
  /\ pmeOp.op = "saveNeurons" => pmeOp.count = Len(neurons) /\ pmeOp.array = <<>>
  /\ pmeOp.op = "save" =>
       /\ pmeOp.at \in 1 .. Len(neurons) + 1 /\ pmeOp.count = Len(neurons) /\ chain = pmeOp.at
       /\ CutsOf(pmeOp.array, SubSeq(neurons, 1, pmeOp.at - 1))
  /\ pmeOp.op \in {"restoreNeurons", "restore"} => pmeOp.array = pmeSaved.array
  /\ pmeOp.op = "restore" =>
       /\ pmeOp.at \in 1 .. Len(pmeOp.array) + 1 /\ chain = pmeOp.at
       /\ Len(neurons) = pmeOp.at - 1
       /\ \A i \in 1 .. pmeOp.at - 1 : neurons[i] = Padded(pmeOp.array[i])

SavedInvUnlessBroken == pmeBroken \/ SavedInv

\* Between the script's calls, only neurons are learned and forgotten.
LEMMA SavedCallStep ==
  ASSUME SavedInv, PmeInv, ~pmeBroken,
         \/ PmeBegin \/ PmeLooks
         \/ \E v \in Vectors : PmeLearn(v)
         \/ \E n \in 1 .. MaxNeurons : PmeRead(n)
         \/ \E knn \in BOOLEAN : PmeSetMode(knn) \/ PmeConfigure(knn)
  PROVE  SavedInv'
<1>1. UNCHANGED <<pmeOp, pmeSaved>> /\ pmeOp = PmeIdle
  BY DEF PmeBegin, PmeLooks, PmeLearn, PmeRead, PmeSetMode, PmeConfigure, PmeCall, PmeReady
<1>2. pmeOp.op = "idle" /\ nsr.net = FALSE
  BY <1>1 DEF PmeIdle, PmeInv, PmeType, Modes
<1>3. \/ neurons' = neurons \/ neurons' = <<>>
      \/ \E v \in Vectors : neurons' = Append(neurons, v)
  <2>1. ASSUME NEW v \in Vectors, PmeLearn(v)
        PROVE  neurons' = neurons \/ neurons' = Append(neurons, v)
    BY <1>2, <2>1 DEF PmeLearn, PmeCall, Answers, Learn, device
  <2> QED
    BY <2>1 DEF PmeBegin, PmeLooks, PmeRead, PmeSetMode, PmeConfigure, PmeCall, Answers, Begin,
                Forget, ReadNeuron, SetClassifierMode, device
<1>4. neurons' \in Seq(Learnable)
  <2>1. neurons \in Seq(Learnable) /\ <<>> \in Seq(Learnable)
    BY EmptySeq DEF SavedInv
  <2> QED
    <3>1. ASSUME NEW v \in Vectors PROVE Append(neurons, v) \in Seq(Learnable)
      <4>1. v \in Learnable
        BY VectorsLearnable
      <4> QED
        BY <2>1, <4>1, AppendProperties
    <3> QED
      BY <1>3, <2>1, <3>1
<1> QED
  BY <1>1, <1>2, <1>4 DEF SavedInv

\* saveNeurons and restoreNeurons are called.
LEMMA SavedOpBegins ==
  ASSUME SavedInv, SaveNeurons \/ \E bad \in 0 .. MaxNeurons : RestoreNeurons(bad)
  PROVE  SavedInv'
<1>1. UNCHANGED <<neurons, chain, pmeSaved>>
  BY DEF SaveNeurons, RestoreNeurons, device
<1>2. /\ Len(neurons) \in Nat /\ pmeSaved.array \in Seq(Seq(Nat)) /\ <<>> \in Seq(Seq(Nat))
      /\ MaxNeurons \in Nat
  BY PmeAssumption DEF SavedInv
<1>3. CASE SaveNeurons
  <2>1. pmeOp' = [op |-> "saveNeurons", at |-> 0, count |-> Len(neurons), array |-> <<>>]
    BY <1>3 DEF SaveNeurons, PmeIdle
  <2> QED
    BY <1>1, <1>2, <2>1 DEF SavedInv
<1>4. ASSUME NEW bad \in 0 .. MaxNeurons, RestoreNeurons(bad)
      PROVE  SavedInv'
  <2>1. pmeOp' = [op |-> "restoreNeurons", at |-> 0, count |-> bad, array |-> pmeSaved.array]
    BY <1>4 DEF RestoreNeurons, PmeIdle
  <2> QED
    BY <1>1, <1>2, <2>1 DEF SavedInv
<1> QED
  BY <1>3, <1>4

\* A call of the sensor core that succeeds has been handled.
LEMMA Handled ==
  ASSUME NEW op, NEW next, NEW ok \in BOOLEAN, Goes(op, next, ok), ~pmeBroken'
  PROVE  ok = TRUE /\ pmeOp.op = op /\ pmeOp' = next
BY DEF Goes, Break

LEMMA OpMoves ==
  ASSUME NEW Ops, NEW o \in [op : Ops, at : Nat, count : Nat, array : Seq(Seq(Nat))],
         NEW at \in Nat, NEW array \in Seq(Seq(Nat)), NEW p,
         \/ p = [o EXCEPT !.at = at] /\ array = o.array
         \/ p = [o EXCEPT !.at = at, !.array = array]
  PROVE  /\ p.op = o.op /\ p.at = at /\ p.count = o.count /\ p.array = array
         /\ p \in [op : Ops, at : Nat, count : Nat, array : Seq(Seq(Nat))]
<1>1. DOMAIN o = {"op", "at", "count", "array"}
  OBVIOUS
<1>2. p.op = o.op /\ p.at = at /\ p.count = o.count /\ p.array = array
  BY <1>1
<1>3. p \in [op : Ops, at : Nat, count : Nat, array : Seq(Seq(Nat))]
  BY <1>1
<1> QED
  BY <1>2, <1>3

LEMMA SaveStep ==
  ASSUME SavedInv, SaveBegins \/ SaveIterates \/ SaveEnds, ~pmeBroken'
  PROVE  SavedInv'
<1>1. /\ neurons \in Seq(Learnable) /\ Len(neurons) \in Nat
      /\ pmeOp \in [op : {"idle", "saveNeurons", "save", "restoreNeurons", "restore"},
                    at : Nat, count : Nat, array : Seq(Seq(Nat))]
      /\ pmeSaved.array \in Seq(Seq(Nat)) /\ pmeSaved.was \in Seq(Learnable)
      /\ CutsOf(pmeSaved.array, pmeSaved.was)
  BY SeqFacts DEF SavedInv
<1>2. CASE SaveBegins
  <2>1. /\ pmeOp.op = "saveNeurons" /\ pmeOp' = [pmeOp EXCEPT !.op = "save", !.at = 1]
        /\ BeginSaveMode /\ pmeSaved' = pmeSaved
    BY <1>2, Handled DEF SaveBegins, Answers
  <2>2. /\ pmeOp' \in [op : {"save"}, at : {1}, count : Nat, array : Seq(Seq(Nat))]
        /\ pmeOp'.count = pmeOp.count /\ pmeOp'.array = pmeOp.array
    BY <1>1, <2>1
  <2>3. pmeOp.count = Len(neurons) /\ pmeOp.array = <<>>
    BY <2>1 DEF SavedInv
  <2>4. neurons' = neurons /\ chain' = 1
    BY <2>1 DEF BeginSaveMode, BeginNet
  <2>5. CutsOf(pmeOp'.array, SubSeq(neurons', 1, pmeOp'.at - 1))
    <3>1. SubSeq(neurons, 1, 0) = <<>>
      BY <1>1
    <3> QED
      BY <2>2, <2>3, <2>4, <3>1 DEF CutsOf
  <2> QED
    BY <1>1, <2>1, <2>2, <2>3, <2>4, <2>5 DEF SavedInv
<1>3. CASE SaveIterates
  <2>1. /\ pmeOp.op = "save" /\ pmeOp.at <= pmeOp.count
        /\ pmeOp' = [pmeOp EXCEPT !.at = @ + 1, !.array = Append(@, Cut(Read))]
        /\ IterateToSave /\ pmeSaved' = pmeSaved
    BY <1>3, Handled DEF SaveIterates, Answers
  <2>2. /\ pmeOp.at \in 1 .. Len(neurons) + 1 /\ pmeOp.count = Len(neurons) /\ chain = pmeOp.at
        /\ CutsOf(pmeOp.array, SubSeq(neurons, 1, pmeOp.at - 1))
    BY <2>1 DEF SavedInv
  <2>3. neurons' = neurons /\ chain' = chain + 1
    BY <2>1 DEF IterateToSave
  <2>4. pmeOp.at \in 1 .. Len(neurons) /\ neurons[pmeOp.at] \in Learnable /\ Read = neurons[pmeOp.at]
    BY <1>1, <2>1, <2>2 DEF Read
  <2>5. Cut(Read) \in Seq(Nat)
    BY <2>4, CutFacts
  <2>6. /\ pmeOp'.op = "save" /\ pmeOp'.at = pmeOp.at + 1 /\ pmeOp'.count = pmeOp.count
        /\ pmeOp'.array = Append(pmeOp.array, Cut(Read))
        /\ pmeOp' \in [op : {"save"}, at : Nat, count : Nat, array : Seq(Seq(Nat))]
    <3>1. pmeOp.at + 1 \in Nat /\ Append(pmeOp.array, Cut(Read)) \in Seq(Seq(Nat))
      BY <1>1, <2>5, AppendProperties
    <3> QED
      BY <1>1, <2>1, <3>1, OpMoves
  <2>7. CutsOf(pmeOp'.array, SubSeq(neurons', 1, pmeOp'.at - 1))
    <3> DEFINE m == pmeOp.at
               a == pmeOp.array
               x == Cut(neurons[m])
               before == SubSeq(neurons, 1, m - 1)
               now == SubSeq(neurons, 1, m)
    <3>1. /\ Len(before) = m - 1 /\ \A i \in 1 .. m - 1 : before[i] = neurons[i]
          /\ Len(now) = m /\ \A i \in 1 .. m : now[i] = neurons[i]
      <4>1. m - 1 \in 0 .. Len(neurons) /\ m \in 0 .. Len(neurons)
        BY <1>1, <2>4
      <4> QED
        BY <1>1, <4>1, SeqFacts
    <3>2. a \in Seq(Seq(Nat)) /\ Len(a) = m - 1 /\ \A i \in 1 .. m - 1 : a[i] = Cut(neurons[i])
      BY <1>1, <2>2, <3>1 DEF CutsOf
    <3>3. x \in Seq(Nat) /\ m \in Nat \ {0}
      BY <2>4, <2>5
    <3> HIDE DEF m, a, x
    <3>4. /\ Len(Append(a, x)) = m /\ Append(a, x)[m] = x
          /\ \A i \in 1 .. m - 1 : Append(a, x)[i] = a[i]
      BY <3>2, <3>3
    <3>5. \A i \in 1 .. m : i = m \/ i \in 1 .. m - 1
      BY <3>3
    <3>6. CutsOf(Append(a, x), now)
      BY <3>1, <3>2, <3>4, <3>5 DEF CutsOf, x
    <3>7. pmeOp'.array = Append(a, x) /\ SubSeq(neurons', 1, pmeOp'.at - 1) = now
      <4>1. (pmeOp.at + 1) - 1 = pmeOp.at
        BY <1>1
      <4> QED
        BY <2>3, <2>4, <2>6, <4>1 DEF a, m, x
    <3> QED
      BY <3>6, <3>7
  <2> QED
    <3>1. pmeOp.at + 1 \in 1 .. Len(neurons) + 1
      BY <1>1, <2>4
    <3> QED
      BY <1>1, <2>1, <2>2, <2>3, <2>6, <2>7, <3>1 DEF SavedInv
<1>4. CASE SaveEnds
  <2>1. /\ pmeOp.op = "save" /\ pmeOp.at > pmeOp.count /\ pmeOp' = PmeIdle
        /\ EndSaveMode /\ pmeSaved' = [array |-> pmeOp.array, was |-> neurons]
    BY <1>4, Handled DEF SaveEnds, Answers
  <2>2. /\ pmeOp.at \in 1 .. Len(neurons) + 1 /\ pmeOp.count = Len(neurons)
        /\ CutsOf(pmeOp.array, SubSeq(neurons, 1, pmeOp.at - 1))
    BY <2>1 DEF SavedInv
  <2>3. SubSeq(neurons, 1, pmeOp.at - 1) = neurons
    BY <1>1, <2>1, <2>2
  <2>4. neurons' = neurons
    BY <2>1 DEF EndSaveMode
  <2>5. pmeOp' \in [op : {"idle"}, at : Nat, count : Nat, array : Seq(Seq(Nat))]
    BY <2>1 DEF PmeIdle
  <2> QED
    BY <1>1, <2>1, <2>2, <2>3, <2>4, <2>5 DEF SavedInv
<1> QED
  BY <1>2, <1>3, <1>4

LEMMA RestoreStep ==
  ASSUME SavedInv, RestoreBegins \/ RestoreIterates \/ RestoreEnds, ~pmeBroken'
  PROVE  SavedInv'
<1>1. /\ neurons \in Seq(Learnable) /\ Len(neurons) \in Nat
      /\ pmeOp \in [op : {"idle", "saveNeurons", "save", "restoreNeurons", "restore"},
                    at : Nat, count : Nat, array : Seq(Seq(Nat))]
      /\ pmeSaved.array \in Seq(Seq(Nat)) /\ pmeSaved.was \in Seq(Learnable)
      /\ CutsOf(pmeSaved.array, pmeSaved.was)
  BY SeqFacts DEF SavedInv
<1>2. CASE RestoreBegins
  <2>1. /\ pmeOp.op = "restoreNeurons" /\ pmeOp' = [pmeOp EXCEPT !.op = "restore", !.at = 1]
        /\ BeginRestoreMode /\ pmeSaved' = pmeSaved
    BY <1>2, Handled DEF RestoreBegins, Answers
  <2>2. /\ pmeOp' \in [op : {"restore"}, at : {1}, count : Nat, array : Seq(Seq(Nat))]
        /\ pmeOp'.array = pmeOp.array /\ pmeOp'.at = 1
    BY <1>1, <2>1
  <2>3. pmeOp.array = pmeSaved.array
    BY <2>1 DEF SavedInv
  <2>4. neurons' = <<>> /\ chain' = 1
    BY <2>1 DEF BeginRestoreMode, BeginNet, Forget
  <2>5. Len(pmeOp.array) \in Nat
    BY <1>1
  <2> QED
    BY <1>1, <2>1, <2>2, <2>3, <2>4, <2>5 DEF SavedInv
<1>3. CASE RestoreIterates
  <2>1. /\ pmeOp.op = "restore" /\ pmeOp.at <= Len(pmeOp.array)
        /\ pmeOp' = [pmeOp EXCEPT !.at = @ + 1]
        /\ IterateToRestore(Padded(pmeOp.array[pmeOp.at])) /\ pmeSaved' = pmeSaved
    BY <1>3, Handled DEF RestoreIterates, Answers
  <2>2. /\ pmeOp.array = pmeSaved.array
        /\ pmeOp.at \in 1 .. Len(pmeOp.array) + 1 /\ chain = pmeOp.at
        /\ Len(neurons) = pmeOp.at - 1
        /\ \A i \in 1 .. pmeOp.at - 1 : neurons[i] = Padded(pmeOp.array[i])
    BY <2>1 DEF SavedInv
  <2>3. /\ pmeOp'.op = "restore" /\ pmeOp'.at = pmeOp.at + 1 /\ pmeOp'.array = pmeOp.array
        /\ pmeOp' \in [op : {"restore"}, at : Nat, count : Nat, array : Seq(Seq(Nat))]
    <3>1. pmeOp.at + 1 \in Nat
      BY <1>1
    <3> QED
      BY <1>1, <2>1, <3>1, OpMoves
  <2> DEFINE m == pmeOp.at
             a == pmeOp.array
             x == Padded(a[m])
  <2>4. m \in Nat /\ m >= 1 /\ m <= Len(a) /\ Len(a) \in Nat /\ m \in 1 .. Len(a)
    BY <1>1, <2>1, <2>2
  <2>5. x \in Learnable
    <3>1. pmeSaved.was[m] \in Learnable /\ a[m] = Cut(pmeSaved.was[m])
      <4>1. m \in 1 .. Len(pmeSaved.was) /\ a[m] = pmeSaved.array[m]
        BY <1>1, <2>2, <2>4 DEF CutsOf
      <4> QED
        BY <1>1, <4>1, ElementOfSeq DEF CutsOf
    <3> QED
      BY <3>1, PaddedFacts
  <2> HIDE DEF x
  <2>6. neurons' = Append(neurons, x) /\ chain' = chain + 1
    <3>1. m > Len(neurons)
      BY <2>2, <2>4
    <3> QED
      BY <2>1, <2>2, <3>1 DEF IterateToRestore, WriteNeuron, x
  <2>7. /\ neurons' \in Seq(Learnable) /\ Len(neurons') = m /\ neurons'[m] = x
        /\ \A i \in 1 .. m - 1 : neurons'[i] = neurons[i]
    <3>1. Len(neurons) + 1 = m
      BY <2>2, <2>4
    <3> QED
      BY <1>1, <2>2, <2>5, <2>6, <3>1, AppendProperties
  <2>8. \A i \in 1 .. m : neurons'[i] = Padded(a[i])
    <3>1. \A i \in 1 .. m : i = m \/ i \in 1 .. m - 1
      BY <2>4
    <3> QED
      BY <2>2, <2>7, <3>1 DEF x
  <2>9. m + 1 \in 1 .. Len(a) + 1 /\ (m + 1) - 1 = m
    BY <2>4
  <2> QED
    BY <1>1, <2>1, <2>2, <2>3, <2>6, <2>7, <2>8, <2>9 DEF SavedInv
<1>4. CASE RestoreEnds
  <2>1. pmeOp' = PmeIdle /\ EndRestoreMode /\ pmeSaved' = pmeSaved
    BY <1>4, Handled DEF RestoreEnds, Answers
  <2>2. neurons' = neurons
    BY <2>1 DEF EndRestoreMode
  <2>3. pmeOp' \in [op : {"idle"}, at : Nat, count : Nat, array : Seq(Seq(Nat))]
    BY <2>1 DEF PmeIdle
  <2> QED
    BY <1>1, <2>1, <2>2, <2>3 DEF SavedInv
<1> QED
  BY <1>2, <1>3, <1>4

\* A restore that comes to its end has written every neuron back.
LEMMA RestoreIsComplete ==
  ASSUME SavedInv, RestoreEnds, ~pmeBroken'
  PROVE  /\ Len(neurons') = Len(pmeSaved.was)
         /\ \A i \in DOMAIN pmeSaved.was : SameUpToZero(neurons'[i], pmeSaved.was[i])
<1>1. pmeOp.op = "restore" /\ pmeOp.at > Len(pmeOp.array) /\ EndRestoreMode
  BY Handled DEF RestoreEnds, Answers
<1>2. /\ pmeOp.array = pmeSaved.array /\ pmeOp.at \in 1 .. Len(pmeOp.array) + 1
      /\ Len(neurons) = pmeOp.at - 1
      /\ \A i \in 1 .. pmeOp.at - 1 : neurons[i] = Padded(pmeOp.array[i])
      /\ CutsOf(pmeSaved.array, pmeSaved.was) /\ pmeSaved.was \in Seq(Learnable)
      /\ Len(pmeSaved.array) \in Nat
  BY <1>1 DEF SavedInv
<1>3. neurons' = neurons
  BY <1>1 DEF EndRestoreMode
<1>4. Len(neurons) = Len(pmeSaved.was) /\ pmeOp.at - 1 = Len(pmeSaved.was)
  BY <1>1, <1>2 DEF CutsOf
<1>5. ASSUME NEW i \in DOMAIN pmeSaved.was
      PROVE  Cut(neurons[i]) = Cut(pmeSaved.was[i])
  <2>1. i \in 1 .. Len(pmeSaved.was) /\ pmeSaved.was[i] \in Learnable
    BY <1>2
  <2>2. neurons[i] = Padded(Cut(pmeSaved.was[i]))
    BY <1>2, <1>4, <2>1 DEF CutsOf
  <2> QED
    BY <2>1, <2>2, PaddedFacts
<1> QED
  BY <1>3, <1>4, <1>5 DEF SameUpToZero

LEMMA SavedInvariant == PmeSpec => []SavedInvUnlessBroken
<1>1. PmeInit => SavedInvUnlessBroken
  BY DEF PmeInit, SavedInvUnlessBroken, SavedInv, CutsOf, PmeIdle
<1>2. PmeInv /\ SavedInvUnlessBroken /\ [PmeNext]_pmeVars => SavedInvUnlessBroken'
  <2> SUFFICES ASSUME PmeInv, SavedInvUnlessBroken, [PmeNext]_pmeVars, ~pmeBroken'
               PROVE  SavedInv'
    BY DEF SavedInvUnlessBroken
  <2>1. CASE UNCHANGED pmeVars
    BY <2>1 DEF SavedInvUnlessBroken, SavedInv
  <2>2. CASE PmeNext
    <3>1. ~pmeBroken
      BY <2>1, <2>2
      DEF PmeNext, PmeBegin, PmeLooks, PmeLearn, PmeRead, PmeSetMode, PmeConfigure, PmeCall, SaveNeurons,
          RestoreNeurons, SaveBegins, SaveIterates, SaveEnds, RestoreBegins, RestoreIterates,
          RestoreEnds, Goes, Break
    <3>2. SavedInv
      BY <3>1 DEF SavedInvUnlessBroken
    <3> QED
      BY <2>1, <2>2, <3>1, <3>2, SavedCallStep, SavedOpBegins, SaveStep, RestoreStep DEF PmeNext
  <2> QED
    BY <2>1, <2>2
<1> QED
  BY <1>1, <1>2, PmeInvariant, PTL DEF PmeSpec

\* As long as no call has broken off, a restore gives back the neurons that the latest save
\* found, but for components after a zero (zjs_pme_save_neurons, zjs_pme_restore_neurons).
THEOREM SavedIsRestoredTheorem == PmeSpec => SavedIsRestored
<1> DEFINE Restored == /\ Len(neurons') = Len(pmeSaved.was)
                       /\ \A i \in DOMAIN pmeSaved.was : SameUpToZero(neurons'[i], pmeSaved.was[i])
           Ends == pmeOp.op = "restore" /\ pmeOp' = PmeIdle /\ ~pmeBroken'
<1>1. SavedInvUnlessBroken /\ [PmeNext]_pmeVars => [Ends => Restored]_pmeVars
  <2> SUFFICES ASSUME SavedInvUnlessBroken, PmeNext, Ends
               PROVE  Restored
    BY DEF Ends
  <2>1. pmeOp.op = "restore" /\ pmeOp # PmeIdle /\ pmeOp'.op = "idle"
    BY DEF PmeIdle
  <2>2. RestoreIterates \/ RestoreEnds
    BY <2>1 DEF PmeNext, PmeBegin, PmeLooks, PmeLearn, PmeRead, PmeSetMode, PmeConfigure, PmeCall,
                PmeReady, SaveNeurons, RestoreNeurons, SaveBegins, SaveIterates, SaveEnds,
                RestoreBegins, Goes
  <2>3. ~pmeBroken /\ SavedInv
    BY <2>2 DEF RestoreIterates, RestoreEnds, Goes, Break, SavedInvUnlessBroken
  <2>4. ~RestoreIterates
    <3> SUFFICES ASSUME RestoreIterates PROVE FALSE
      OBVIOUS
    <3>1. pmeOp' = [pmeOp EXCEPT !.at = @ + 1]
      BY Handled DEF RestoreIterates
    <3> QED
      BY <2>1, <2>3, <3>1 DEF SavedInv
  <2> QED
    BY <2>2, <2>3, <2>4, RestoreIsComplete
<1> QED
  BY <1>1, SavedInvariant, PTL DEF PmeSpec, SavedIsRestored

-----------------------------------------------------------------------------
(***************************************************************************)
(* Together.                                                               *)
(***************************************************************************)
\* A behaviour of the composition is one of each part, which stutters while another is
\* looked at.
LEMMA Parts == Spec => IpmSpec /\ SensorsSpec /\ PmeSpec /\ BleSpec
<1>1. Init => IpmInit /\ SensorsInit /\ PmeInit /\ BleInit
  BY DEF Init
<1>2. [Next]_peerVars => [IpmNext]_ipmVars /\ [SensorsNext]_senVars /\ [PmeNext]_pmeVars /\ [BleNext]_bleVars
  BY DEF Next, peerVars
<1> QED
  BY <1>1, <1>2, PTL DEF Spec, IpmSpec, SensorsSpec, PmeSpec, BleSpec

\* Main agrees with the sensor core, its sensors, the pattern matching engine and the
\* Bluetooth thread, whichever it works with, and gets back the neurons that it saved.
THEOREM PeersAgree ==
  Spec => [](CoresAgree /\ SensorsAgree /\ ModesAreKept /\ ClientsAgree) /\ SavedIsRestored
BY Parts, CoresAgreeTheorem, SensorsAgreeTheorem, ModesAreKeptTheorem, ClientsAgreeTheorem,
   SavedIsRestoredTheorem, PTL

\* Freed memory is used by an interrupt, the sensor core or another thread only after what
\* FaultsExplained names.
THEOREM FaultsExplainedTheorem == Spec => FaultsExplained
BY Parts, IpmFaultsExplained, CleanupStopsReadingsTheorem, BleFaultsExplainedTheorem, PTL
   DEF FaultsExplained
=============================================================================
