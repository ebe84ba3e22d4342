-------------------------------- MODULE Ipm --------------------------------
(***************************************************************************)
(* Calls from the x86 core to the sensor core (ARC) by inter-processor     *)
(* messages: src/zjs_ipm.c and the callers zjs_aio_a101.c,                 *)
(* zjs_grove_lcd_ipm.c and zjs_i2c_ipm_handler.c on one side,              *)
(* arc/src/main.c with its handlers on the other.                          *)
(*                                                                         *)
(* A message is sent as a pointer, and the other core's interrupt handler  *)
(* has copied it when the driver's send returns, so a send and its         *)
(* reception are one step.  A call of the script blocks on its device's    *)
(* semaphore until a reply or a timeout.  One analog pin is modelled; what *)
(* the devices measure is left out.                                        *)
(***************************************************************************)
EXTENDS Integers, Sequences, FiniteSets

CONSTANTS
  IpmDevices,  \* the devices called: a subset of "aio", "glcd", "i2c"
  IpmQueue,    \* QUEUE_SIZE of the sensor core
  MaxIpmCalls, \* model bound: calls and closes of a behaviour
  MaxChanges   \* model bound: changes of the analog pin

ASSUME IpmAssumption ==
  /\ IpmDevices \subseteq {"aio", "glcd", "i2c"}
  /\ IpmQueue \in Nat \ {0}
  /\ {MaxIpmCalls, MaxChanges} \subseteq Nat

VARIABLES
  ipmCall,   \* main's blocking call, and whose message its reply structure holds
  ipmSem,    \* the semaphore of each device
  ipmSlots,  \* msg_queue
  arc,       \* where the sensor core's loop is: a slot, before or after its handler
  arcReady,  \* the devices its handlers have opened
  arcPin,    \* pin_send_updates and pin_user_data of the pin
  aioPins,   \* the aio_handle_t made: "open" or "freed"
  ipmLast,   \* history: the latest call that returned a result
  ipmLate,   \* history: a call has timed out
  ipmPinned, \* history: what the latest message about the pin's updates asks for
  ipmCrossed, \* history: a message about updates was skipped, the queue being full, or
              \* was sent while another waited
  ipmCount,  \* history: calls, closes and changes so far
  ipmFault   \* the undefined behaviour that ended this behaviour, or "none"

ipmVars == <<ipmCall, ipmSem, ipmSlots, arc, arcReady, arcPin, aioPins, ipmLast, ipmLate,
             ipmPinned, ipmCrossed, ipmCount, ipmFault>>

DONE     == [dev |-> "done", op |-> "none", call |-> 0, pin |-> 0]
NoCall   == [dev |-> "none", op |-> "none", call |-> 0, reply |-> 0, ok |-> FALSE]
NoUpdate == [updates |-> FALSE, pin |-> 0]
IpmOps   == [aio |-> {"open", "read"}, glcd |-> {"init", "print", "clear"}, i2c |-> {"open", "read"}]
Asleep   == [at |-> 1, handled |-> FALSE]

\* Undefined behaviour: of the rest nothing is known any more.
IpmFails(reason) ==
  /\ ipmFault' = reason
  /\ ipmCall' = NoCall /\ ipmSem' = [d \in IpmDevices |-> 0] /\ ipmLast' = NoCall
  /\ ipmSlots' = [i \in 1 .. IpmQueue |-> DONE] /\ arc' = Asleep /\ arcReady' = {}
  /\ arcPin' = NoUpdate /\ ipmPinned' = NoUpdate /\ aioPins' = <<>>
  /\ ipmLate' = FALSE /\ ipmCrossed' = FALSE /\ ipmCount' = [calls |-> 0, changes |-> 0]

-----------------------------------------------------------------------------
(***************************************************************************)
(* The x86 core.                                                           *)
(***************************************************************************)
\* queue_message, in the sensor core's interrupt: the first free slot, if any.
FreeSlots == {i \in 1 .. IpmQueue : ipmSlots[i] = DONE}
QueueMessage(msg) ==
  \/ FreeSlots = {} /\ UNCHANGED ipmSlots
  \/ \E i \in FreeSlots :
       (\A j \in FreeSlots : i <= j) /\ ipmSlots' = [ipmSlots EXCEPT ![i] = msg]

MainRuns ==
  /\ ipmFault = "none"
  /\ ipmCall = NoCall
  /\ ipmCount.calls < MaxIpmCalls
  /\ ipmCount' = [ipmCount EXCEPT !.calls = @ + 1]

\* zjs_*_ipm_send_sync, first half: the message is sent with the address of a reply
\* structure on the stack, and main blocks.  The semaphore is taken as it is.
SendSync(dev, op) ==
  /\ MainRuns
  /\ ipmCall' = [NoCall EXCEPT !.dev = dev, !.op = op, !.call = ipmCount.calls + 1]
  /\ QueueMessage([dev |-> dev, op |-> op, call |-> ipmCount.calls + 1, pin |-> 0])
  /\ UNCHANGED <<ipmSem, arc, arcReady, arcPin, aioPins, ipmLast, ipmLate, ipmPinned, ipmCrossed,
                 ipmFault>>

UpdatesWait == \E i \in 1 .. IpmQueue : ipmSlots[i].op \in {"subscribe", "unsubscribe"}

\* zjs_aio_ipm_send_async: not waited for.
SendUpdates(updates, pin) ==
  /\ ipmPinned' = [updates |-> updates, pin |-> IF updates THEN pin ELSE 0]
  /\ ipmCrossed' = (ipmCrossed \/ FreeSlots = {} \/ UpdatesWait)
  /\ QueueMessage([dev |-> "aio", op |-> IF updates THEN "subscribe" ELSE "unsubscribe",
                   call |-> 0, pin |-> pin])

SemTaken == ipmSem' = [ipmSem EXCEPT ![ipmCall.dev] = 0]
Waiting  == ipmFault = "none" /\ ipmCall # NoCall

\* The call returns what its reply structure holds.  The display's text is freed here.
GlcdReturns == ipmCall.dev = "glcd" /\ UNCHANGED <<ipmSlots, aioPins, ipmPinned, ipmCrossed>>

\* The I2C functions return the error code of the message they sent, which is never set.
I2cReturns == ipmCall.dev = "i2c" /\ UNCHANGED <<ipmSlots, aioPins, ipmPinned, ipmCrossed>>

\* A pin that was opened gets a handle, which the sensor core sends back in its events.
AioReturns ==
  /\ ipmCall.dev = "aio"
  /\ IF ipmCall.op = "open" /\ ipmCall.ok
     THEN /\ aioPins' = Append(aioPins, "open")
          /\ SendUpdates(TRUE, Len(aioPins) + 1)
     ELSE UNCHANGED <<ipmSlots, aioPins, ipmPinned, ipmCrossed>>

\* Second half, with the semaphore given.
ReplyTaken ==
  /\ Waiting
  /\ ipmSem[ipmCall.dev] = 1
  /\ SemTaken
  /\ GlcdReturns \/ I2cReturns \/ AioReturns
  /\ ipmLast' = ipmCall
  /\ ipmCall' = NoCall
  /\ UNCHANGED <<arc, arcReady, arcPin, ipmLate, ipmCount, ipmFault>>

\* Second half, without a reply in time: an error, but for I2C, which returns none.
ReplyTimesOut ==
  /\ Waiting
  /\ ipmSem[ipmCall.dev] = 0
  /\ ipmLate' = TRUE
  /\ ipmCall' = NoCall
  /\ UNCHANGED <<ipmSem, ipmSlots, arc, arcReady, arcPin, aioPins, ipmLast, ipmPinned,
                 ipmCrossed, ipmCount, ipmFault>>

\* aio_free_cb, by close() or when an open pin's object is collected.  The object keeps
\* the handle's address: to close it again is undefined behaviour.
AioFree(pin) ==
  /\ MainRuns
  /\ pin \in DOMAIN aioPins
  /\ aioPins[pin] = "open"
  /\ SendUpdates(FALSE, pin)
  /\ aioPins' = [aioPins EXCEPT ![pin] = "freed"]
  /\ UNCHANGED <<ipmCall, ipmSem, arc, arcReady, arcPin, ipmLast, ipmLate, ipmFault>>

AioFreeAgain(pin) ==
  /\ ipmFault = "none"
  /\ ipmCall = NoCall
  /\ pin \in DOMAIN aioPins
  /\ aioPins[pin] = "freed"
  /\ IpmFails("closed again")

-----------------------------------------------------------------------------
(***************************************************************************)
(* The sensor core's loop, and the replies in the x86 core's interrupt.    *)
(***************************************************************************)
Message   == IF arc.at <= IpmQueue THEN ipmSlots[arc.at] ELSE DONE
Unchanged == UNCHANGED <<ipmSlots, aioPins, ipmLast, ipmLate, ipmPinned, ipmCrossed, ipmCount, ipmFault>>

\* ipm_msg_receive_callback with a synchronous message: it is copied to the address the
\* call gave, where its reply structure was.  If that call has timed out, another call's
\* reply may be there, or nothing in use.
Reply(ok) ==
  /\ ipmSem' = [ipmSem EXCEPT ![Message.dev] = 1]
  /\ LET copied == [ipmCall EXCEPT !.reply = Message.call, !.ok = ok]
     IN  \/ ipmCall.call = Message.call /\ ipmCall' = copied
         \/ ipmCall.call # Message.call /\ UNCHANGED ipmCall
         \/ ipmCall.call \notin {0, Message.call} /\ ipmCall' = copied

Handling(dev) ==
  /\ ipmFault = "none"
  /\ ~arc.handled
  /\ Message.dev = dev
  /\ arc' = [arc EXCEPT !.handled = TRUE]

\* arc_handle_glcd: init opens the display, if there is one.  A text is read where main
\* has it.
HandleGlcd ==
  /\ Handling("glcd")
  /\ \/ Message.op = "init" /\ \E found \in BOOLEAN :
          /\ arcReady' = IF found THEN arcReady \cup {"glcd"} ELSE arcReady
          /\ Reply("glcd" \in arcReady')
     \/ Message.op # "init" /\ Reply("glcd" \in arcReady) /\ UNCHANGED arcReady
  /\ Message.op = "print" /\ "glcd" \in arcReady => ipmCall.call = Message.call
  /\ UNCHANGED arcPin /\ Unchanged

HandleFreedText ==
  /\ ipmFault = "none" /\ ~arc.handled
  /\ Message.dev = "glcd" /\ Message.op = "print" /\ "glcd" \in arcReady
  /\ ipmCall.call # Message.call
  /\ IpmFails("freed text")

\* zjs_i2c_handler.c: to read or write needs a bus that was opened, and may fail then too.
I2cHandler(op, works) ==
  /\ arcReady' = IF op = "open" /\ works THEN arcReady \cup {"i2c"} ELSE arcReady
  /\ Reply(works /\ "i2c" \in arcReady')

\* arc_handle_i2c.
HandleI2c ==
  /\ Handling("i2c")
  /\ \E works \in BOOLEAN : I2cHandler(Message.op, works)
  /\ UNCHANGED arcPin /\ Unchanged

\* arc_handle_aio: what it does for the pin's updates; and a plausible mistake.
PinAfterOpenResets(msg) == IF msg.op = "subscribe" THEN [updates |-> TRUE, pin |-> msg.pin] ELSE NoUpdate
PinAfter(msg) ==
  CASE msg.op = "subscribe"   -> [updates |-> TRUE, pin |-> msg.pin]
    [] msg.op = "unsubscribe" -> NoUpdate
    [] OTHER                  -> arcPin

HandleAio ==
  /\ Handling("aio")
  /\ arcPin' = PinAfter(Message)
  /\ IF Message.op \in {"open", "read"} THEN Reply(TRUE) ELSE UNCHANGED <<ipmCall, ipmSem>>
  /\ UNCHANGED arcReady /\ Unchanged

\* process_messages: only after its handler is a slot free, and the next is looked at.
NextSlot ==
  /\ ipmFault = "none"
  /\ arc.handled
  /\ ipmSlots' = [ipmSlots EXCEPT ![arc.at] = DONE]
  /\ arc' = [at |-> arc.at + 1, handled |-> FALSE]
  /\ UNCHANGED <<ipmCall, ipmSem, arcReady, arcPin, aioPins, ipmLast, ipmLate, ipmPinned,
                 ipmCrossed, ipmCount, ipmFault>>

\* The loop has reached a free slot or the end; then arc_process_aio_updates sends a
\* change with the address it was given, and the interrupt handler uses that handle.
EndPass == ipmFault = "none" /\ ~arc.handled /\ Message = DONE
Changes == arcPin.updates /\ ipmCount.changes < MaxChanges

PinUnchanged ==
  /\ EndPass /\ arc # Asleep
  /\ arc' = Asleep
  /\ UNCHANGED <<ipmCall, ipmSem, ipmSlots, arcReady, arcPin, aioPins, ipmLast, ipmLate,
                 ipmPinned, ipmCrossed, ipmCount, ipmFault>>

PinChanges ==
  /\ EndPass /\ Changes
  /\ aioPins[arcPin.pin] = "open"
  /\ ipmCount' = [ipmCount EXCEPT !.changes = @ + 1]
  /\ arc' = Asleep
  /\ UNCHANGED <<ipmCall, ipmSem, ipmSlots, arcReady, arcPin, aioPins, ipmLast, ipmLate,
                 ipmPinned, ipmCrossed, ipmFault>>

PinChangesFreed ==
  /\ EndPass /\ Changes
  /\ aioPins[arcPin.pin] = "freed"
  /\ IpmFails("freed pin")

-----------------------------------------------------------------------------
IpmInit ==
  /\ ipmCall = NoCall /\ ipmSem = [d \in IpmDevices |-> 0] /\ ipmLast = NoCall
  /\ ipmSlots = [i \in 1 .. IpmQueue |-> DONE] /\ arc = Asleep /\ arcReady = {}
  /\ arcPin = NoUpdate /\ ipmPinned = NoUpdate /\ aioPins = <<>>
  /\ ipmLate = FALSE /\ ipmCrossed = FALSE /\ ipmCount = [calls |-> 0, changes |-> 0]
  /\ ipmFault = "none"

IpmMain ==
  \/ \E dev \in IpmDevices : \E op \in IpmOps[dev] : SendSync(dev, op)
  \/ ReplyTaken \/ ReplyTimesOut
  \/ \E pin \in DOMAIN aioPins : AioFree(pin) \/ AioFreeAgain(pin)

IpmArc ==
  \/ HandleGlcd \/ HandleFreedText \/ HandleI2c \/ HandleAio \/ NextSlot
  \/ PinUnchanged \/ PinChanges \/ PinChangesFreed

\* Nothing to do: the script is over, or the behaviour is.
IpmRests ==
  /\ ipmFault # "none" \/ ipmCall = NoCall
  /\ UNCHANGED ipmVars

IpmNext == IpmMain \/ IpmArc \/ IpmRests

IpmSpec == IpmInit /\ [][IpmNext]_ipmVars

-----------------------------------------------------------------------------
(***************************************************************************)
(* Properties.                                                             *)
(***************************************************************************)
\* A call returns the answer to its own message, unless an earlier call has timed out: then
\* the answers may lag behind the calls for ever, or lie in another call's reply.
AnswersAreOwn == ipmLate \/ ipmLast.reply = ipmLast.call

\* The sensor core reads a text of the display that main has freed only after a timeout.
TextsOutliveReads ==
  [][ipmFault # ipmFault' /\ ipmFault' = "freed text" => ipmLate]_ipmVars

\* With no message about the pin's updates on its way the sensor core does what the
\* latest asked for: unless one was skipped, or sent while another waited, for the loop
\* may pass the slot of the first and handle the second before it.
UpdatesAgree == ipmCrossed \/ UpdatesWait \/ arcPin = ipmPinned

\* The two cores agree about each call and about what was asked.
CoresAgree == AnswersAreOwn /\ UpdatesAgree

\* Otherwise a change names a freed handle only while the message that should stop the
\* changes waits.
ChangesNameOpenPins ==
  [][ipmFault # ipmFault' /\ ipmFault' = "freed pin" => ipmCrossed \/ UpdatesWait]_ipmVars
=============================================================================
