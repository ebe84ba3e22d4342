------------------------------- MODULE Timers -------------------------------
(***************************************************************************)
(* setTimeout, setInterval, clearTimeout and clearInterval                 *)
(* (src/zjs_timers.c) on top of the callback module.  In the Zephyr build  *)
(* a kernel timer signals the callback from an interrupt; in the Linux     *)
(* build the main loop tests every timer on each pass.                     *)
(*                                                                         *)
(* A JavaScript timer object holds the address of a zjs_timer_t, and the   *)
(* allocator may give that address to a later timer.  A timer is named by  *)
(* the number it was made with, and "at" is its address.  What Callbacks   *)
(* says of a registered callback is reduced to: its signals are delivered  *)
(* in order, skipped once it is removed, and lost when the ring is full.   *)
(***************************************************************************)
EXTENDS Integers, Sequences, SequencesExt

CONSTANTS
  Addresses,     \* model bound: where the allocator can put a zjs_timer_t
  MaxTimers,     \* model bound: timers made in a behaviour
  MaxIteration,  \* ZJS_MAX_CB_LOOP_ITERATION
  Environments   \* the builds and the scripts explored, as records

ASSUME TimersAssumption ==
  /\ MaxTimers \in Nat /\ MaxIteration \in Nat \ {0}
  /\ Environments \subseteq [linux : BOOLEAN, careful : BOOLEAN, allocFails : BOOLEAN, slow : BOOLEAN,
                             stops : BOOLEAN, timers : 0 .. MaxTimers, room : Nat]

VARIABLES
  env,         \* the environment, which never changes
  timer,       \* history: every timer made, with its fields
  list,        \* zjs_timers: the timers allocated, linked in the order they were made
  armed,       \* Zephyr: timers whose kernel timer runs
  registered,  \* timers whose callback is registered
  handles,     \* timers whose JavaScript object the script can still use
  ring,        \* the pending signals
  calling,     \* the timer whose function is being called, or 0
  pc,          \* where main is: "script", or a place in the main loop
  count,       \* local of zjs_service_callbacks
  cursor,      \* Linux: the "tm" of zjs_timers_process_events, or 0 at the end
  cleared,     \* history: timers cleared through their own object
  called,      \* history: timers whose function was called
  lost         \* history, for Careful scripts: timers with a signal that found the ring full

mainVars == <<calling, pc, count, cursor>>
history  == <<cleared, called, lost>>
vars     == <<env, timer, list, armed, registered, handles, ring, mainVars, history>>

Linux         == env.linux       \* the Linux build, not the Zephyr build
Careful       == env.careful     \* scripts clear no timeouts, and an interval only once
AllocFails    == env.allocFails  \* memory may run out
SlowIntervals == env.slow        \* a kernel timer expires only after its last signal was taken
Stops         == env.stops       \* the script may be stopped and another one started
RingItems     == env.room        \* signals the ring buffer has room for

Serials == 1 .. MaxTimers
Made    == DOMAIN timer

\* completed is used in the Linux build only.
TimerRecord == [at : Addresses, repeat : BOOLEAN, completed : BOOLEAN]

\* The timers, one at most, that live at an address.
Occupants(address) == {n \in list : timer[n].at = address}

\* The first of some timers of the list, or 0 if there is none.
FirstOf(timers) == IF timers = {} THEN {0} ELSE {n \in timers : \A m \in timers : n <= m}

InJs == pc = "script" \/ calling # 0

\* The signal of a timer is put into the ring, when there is a callback to signal and room.
Signal(n) ==
  /\ ring' = IF n \in registered /\ Len(ring) < RingItems THEN Append(ring, n) ELSE ring
  /\ lost' = IF Careful /\ n \in registered /\ Len(ring) >= RingItems
             THEN lost \cup {n} ELSE lost

\* Mutant: the kernel timer goes on.
DeleteUnstopped(gone) ==
  /\ list' = list \ gone
  /\ armed' = armed
  /\ registered' = registered \
       {n \in gone : timer[n].repeat \/ (Linux /\ ~timer[n].completed)}

\* Mutant: the callback stays registered.
DeleteKeepsCallback(gone) ==
  /\ list' = list \ gone
  /\ armed' = armed \ gone
  /\ UNCHANGED registered

\* What delete_timer does to the list, the kernel timers and the callbacks, when
\* the timers are in the list.
Delete(gone) ==
  /\ list' = list \ gone
  /\ armed' = armed \ gone
  /\ registered' = registered \
       {n \in gone : timer[n].repeat \/ (Linux /\ ~timer[n].completed)}

-----------------------------------------------------------------------------
\* add_timer_helper: a timer is allocated at any free address, its callback is
\* registered, and it is started.
SetTimer(repeat) ==
  /\ InJs
  /\ Len(timer) < env.timers
  /\ \E address \in Addresses :
       /\ Occupants(address) = {}
       /\ timer' = Append(timer, [at |-> address, repeat |-> repeat, completed |-> FALSE])
  /\ LET n == Len(timer) + 1
     IN  /\ list' = list \cup {n}
         /\ armed' = IF Linux THEN {} ELSE armed \cup {n}
         /\ \/ registered' = registered \cup {n} /\ handles' = handles \cup {n}
            \/ AllocFails /\ UNCHANGED <<registered, handles>>
  /\ UNCHANGED <<env, ring, mainVars, history>>

\* add_timer returns NULL, and the helper reads handle->callback_id.
SetTimerFails ==
  /\ InJs
  /\ AllocFails
  /\ pc' = "crashed"
  /\ calling' = 0
  /\ armed' = {}
  /\ UNCHANGED <<env, timer, list, registered, handles, ring, count, cursor, history>>

\* clearTimeout and clearInterval: delete whatever timer is at the address that
\* the object holds.
Clear(n) ==
  /\ InJs
  /\ n \in handles
  /\ Careful => timer[n].repeat /\ n \notin cleared
  /\ Delete(Occupants(timer[n].at))
  /\ cleared' = cleared \cup {n}
  /\ UNCHANGED <<env, timer, handles, ring, mainVars, called, lost>>

\* Mutant: the signal is dropped while a function is being called.
ExpireWhenIdle(n) ==
  /\ n \in armed
  /\ SlowIntervals => n \notin ToSet(ring)
  /\ IF calling = 0 THEN Signal(n) ELSE UNCHANGED <<ring, lost>>
  /\ armed' = IF timer[n].repeat THEN armed ELSE armed \ {n}
  /\ UNCHANGED <<env, timer, list, registered, handles, mainVars, cleared, called>>

\* Zephyr: the kernel timer runs timer_callback in an interrupt.
Expire(n) ==
  /\ n \in armed
  /\ SlowIntervals => n \notin ToSet(ring)
  /\ Signal(n)
  /\ armed' = IF timer[n].repeat THEN armed ELSE armed \ {n}
  /\ UNCHANGED <<env, timer, list, registered, handles, mainVars, cleared, called>>

-----------------------------------------------------------------------------
\* zjs_service_callbacks.
InService == pc \in {"service1", "service2"} /\ calling = 0

EndScript ==
  /\ pc = "script"
  /\ pc' = "service1"
  /\ UNCHANGED <<env, timer, list, armed, registered, handles, ring, calling, count, cursor,
                 history>>

TakeSignal ==
  /\ InService
  /\ ring # <<>>
  /\ count < MaxIteration
  /\ count' = count + 1
  /\ ring' = Tail(ring)

Call ==
  /\ TakeSignal
  /\ Head(ring) \in registered
  /\ calling' = Head(ring)
  /\ called' = called \cup {Head(ring)}
  /\ UNCHANGED <<env, timer, list, armed, registered, handles, pc, cursor, cleared, lost>>

Skip ==
  /\ TakeSignal
  /\ Head(ring) \notin registered
  /\ UNCHANGED <<env, timer, list, armed, registered, handles, calling, pc, cursor, history>>

\* The function of an interval returns.
ReturnInterval ==
  /\ calling # 0
  /\ timer[calling].repeat
  /\ calling' = 0
  /\ UNCHANGED <<env, timer, list, armed, registered, handles, ring, pc, count, cursor, history>>

\* The function of a timeout returns: its callback is removed and, in the Zephyr
\* build, post_timer deletes the timer that is at its address now, unless that is
\* an interval.  (Memory that is no timer's is not in the list either.)
ReturnTimeout ==
  /\ calling # 0
  /\ ~timer[calling].repeat
  /\ calling' = 0
  /\ LET gone == {n \in Occupants(timer[calling].at) : ~Linux /\ ~timer[n].repeat}
     IN  /\ list' = list \ gone
         /\ armed' = armed \ gone
  /\ registered' = registered \ {calling}
  /\ UNCHANGED <<env, timer, handles, ring, pc, count, cursor, history>>

EndService ==
  /\ InService
  /\ ring = <<>> \/ count = MaxIteration
  /\ count' = 0
  /\ IF Linux /\ pc = "service1"
     THEN pc' = "process" /\ cursor' \in FirstOf(list)
     ELSE pc' = "service1" /\ cursor' = 0
  /\ UNCHANGED <<env, timer, list, armed, registered, handles, ring, calling, history>>

-----------------------------------------------------------------------------
\* Linux: zjs_timers_process_events.  tm->next is read when tm may have been freed;
\* it is the last field, which the allocator leaves as it was.
Advance == cursor' \in FirstOf({n \in list : n > cursor})

AtTimer == pc = "process" /\ cursor # 0

\* Mutant: a timer is deleted whether it is completed or not.
ProcessAny ==
  /\ AtTimer
  /\ Delete({cursor})
  /\ Advance
  /\ UNCHANGED <<env, timer, handles, ring, calling, pc, count, history>>

ProcessCompleted ==
  /\ AtTimer
  /\ timer[cursor].completed
  /\ Delete({cursor})
  /\ Advance
  /\ UNCHANGED <<env, timer, handles, ring, calling, pc, count, history>>

\* zjs_port_timer_test says that it has expired: an interval is started again, a
\* timeout is deleted next time around.
ProcessExpired(n) ==
  /\ AtTimer
  /\ n = cursor
  /\ ~timer[n].completed
  /\ Signal(n)
  /\ timer' = [timer EXCEPT ![n].completed = ~timer[n].repeat]
  /\ Advance
  /\ UNCHANGED <<env, list, armed, registered, handles, calling, pc, count, cleared, called>>

ProcessWaiting ==
  /\ AtTimer
  /\ ~timer[cursor].completed
  /\ Advance
  /\ UNCHANGED <<env, timer, list, armed, registered, handles, ring, calling, pc, count, history>>

EndProcess ==
  /\ pc = "process"
  /\ cursor = 0
  /\ pc' = "service2"
  /\ UNCHANGED <<env, timer, list, armed, registered, handles, ring, calling, count, cursor,
                 history>>

-----------------------------------------------------------------------------
\* zjs_stop_js, called at the top of the main loop: zjs_timers_cleanup frees every
\* timer, all callbacks are removed, and another script starts without the objects.
\* The Linux build empties the ring too.
Cleanup ==
  /\ Stops
  /\ InService
  /\ pc = "service1" /\ count = 0
  /\ list' = {}
  /\ armed' = armed \ list
  /\ registered' = {}
  /\ handles' = {}
  /\ ring' = IF Linux THEN <<>> ELSE ring
  /\ pc' = "script"
  /\ UNCHANGED <<env, timer, calling, count, cursor, history>>

Init ==
  /\ env \in Environments
  /\ timer = <<>>
  /\ list = {}
  /\ armed = {} /\ registered = {} /\ handles = {}
  /\ ring = <<>>
  /\ calling = 0
  /\ pc = "script"
  /\ count = 0
  /\ cursor = 0
  /\ cleared = {}
  /\ called = {}
  /\ lost = {}

Script ==
  \/ \E repeat \in BOOLEAN : SetTimer(repeat)
  \/ SetTimerFails
  \/ \E n \in Serials : Clear(n)

Main ==
  \/ EndScript \/ Call \/ Skip \/ ReturnInterval \/ ReturnTimeout \/ EndService
  \/ ProcessCompleted \/ (\E n \in Serials : ProcessExpired(n)) \/ ProcessWaiting \/ EndProcess

\* A null pointer was used: what follows is not described.
Crashed == pc = "crashed" /\ UNCHANGED vars

Next == Script \/ Main \/ (\E n \in Serials : Expire(n)) \/ Cleanup \/ Crashed

Spec == Init /\ [][Next]_vars

\* Main goes on, scripts end and functions return.  A kernel timer that runs
\* expires.  In the Linux build a timer that is tested on every pass is found
\* expired again and again, if not each time: zjs_port_timer_test returns 0 when the
\* time elapsed is a multiple of 256.
FairSpec ==
  /\ Spec
  /\ WF_vars(Main)
  /\ \A n \in Serials : WF_vars(Expire(n)) /\ SF_vars(ProcessExpired(n))

-----------------------------------------------------------------------------
(***************************************************************************)
(* Properties.                                                             *)
(***************************************************************************)
\* Every variable has its type, and no address is used twice.
TypeOK ==
  /\ env \in Environments
  /\ timer \in Seq(TimerRecord) /\ Len(timer) <= env.timers
  /\ list \subseteq Made
  /\ armed \subseteq Made /\ registered \subseteq Made /\ handles \subseteq Made
  /\ ring \in Seq(Made) /\ Len(ring) <= RingItems
  /\ calling \in Made \cup {0}
  /\ pc \in {"script", "service1", "process", "service2", "crashed"}
  /\ count \in 0 .. MaxIteration
  /\ cursor \in Made \cup {0}
  /\ cleared \subseteq Made
  /\ called \subseteq Made
  /\ lost \subseteq Made
  /\ \A n, m \in list : timer[n].at = timer[m].at => n = m

\* A kernel timer that runs belongs to a timer that is allocated, whatever the
\* script clears or stops: the interrupt never runs on freed memory.
ArmedIsListed == armed \subseteq list

\* A callback stays registered only as long as its timer exists or its signal is
\* pending or being handled: nothing else could ever remove it.  A signal that the
\* ring refuses leaves it behind.  This is for Careful scripts: in the Zephyr build
\* clearTimeout leaves the callback registered.
NoCallbackLeaks == Careful /\ pc # "crashed" =>
  \A n \in registered : n \in list \/ n \in ToSet(ring) \/ calling = n \/ n \in lost

\* What is done with a timer that was freed: its function may still be called, which is
\* then given arguments that were released, and post_timer then reads the freed timer.
\* That happens to no interval; to a timeout of the Linux build only once it is completed;
\* and to one of the Zephyr build only when a timer with its address was cleared.
OutlivedIsExplained ==
  \A n \in registered \ list :
    /\ ~timer[n].repeat
    /\ IF Linux THEN timer[n].completed ELSE \E m \in cleared : timer[m].at = timer[n].at

\* The interrupt never runs on freed memory and a freed timer's function is called only
\* in the cases named, whatever scripts do; and no callback of a careful script outlives
\* both its timer and its signals.
TimersAreSound == TypeOK /\ ArmedIsListed /\ OutlivedIsExplained /\ NoCallbackLeaks

\* Once an interval has been cleared, its function is not called again, not even
\* for a signal that was pending then.
ClearedIntervalIsQuiet ==
  [][\A n \in cleared : timer[n].repeat /\ calling = 0 => calling' # n]_vars

\* A timer is deleted only for itself: cleared through its own object, after its own
\* function was called, once completed, or when the script is stopped; for Careful scripts,
\* which never clear through the object of a timer whose address another may have.
DeletedForItself ==
  [][Careful => \A n \in list \ list' :
       n \in cleared' \/ calling = n \/ pc' = "script" \/ timer[n].completed]_vars

\* The function of a timeout that is not cleared is called, as long as memory does not run
\* out, the ring has room, no script is stopped and none clears the object of another timer.
TimeoutIsCalled ==
  \A n \in Serials :
    (Careful /\ SlowIntervals /\ ~AllocFails /\ ~Stops)
      /\ n \in list /\ n \in handles /\ ~timer[n].repeat
      ~> n \in called \/ n \in cleared \/ n \notin handles \/ n \in lost
=============================================================================
