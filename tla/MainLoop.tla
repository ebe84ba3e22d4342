------------------------------ MODULE MainLoop ------------------------------
(***************************************************************************)
(* The main loop of the Zephyr build (src/main.c): each pass services      *)
(* callbacks, polls the registered service routines, services callbacks    *)
(* again and blocks on a semaphore that every signal gives                 *)
(* (src/zjs_util.c).  The table of service routines is that of             *)
(* src/zjs_modules.c.                                                      *)
(*                                                                         *)
(* A pending callback is a place in a line here; module Callbacks says     *)
(* what is done with each.  "mark" follows one of them.                    *)
(***************************************************************************)
EXTENDS Integers, Sequences

CONSTANTS
  LoopItems,         \* callbacks the ring buffer has room for
  MaxLoopIteration,  \* ZJS_MAX_CB_LOOP_ITERATION
  MaxSends,          \* model bound: signals sent by one callback's function
  Threads,           \* TRUE if other threads signal, not only interrupt handlers
  Routines,          \* the service routines there are
  Polling,           \* those that end with zjs_loop_unblock(): aio and sensors
  Timed,             \* those that return a time: OCF
  TableSize          \* NUM_SERVICE_ROUTINES

ASSUME MainLoopAssumption ==
  /\ LoopItems \in Nat /\ MaxLoopIteration \in Nat \ {0} /\ MaxSends \in Nat
  /\ Threads \in BOOLEAN
  /\ Polling \subseteq Routines /\ Timed \subseteq Routines
  /\ TableSize \in Nat

VARIABLES
  pending,            \* number of callbacks in the ring
  mark,               \* how many of them are before a chosen one, -1 if none is chosen
  block,              \* the semaphore, 0 or 1
  giving,             \* a thread has signalled and not given the semaphore yet
  loopPc,             \* where main is
  loopCount,          \* local of zjs_service_callbacks
  limited,            \* history: the last service call ended at its iteration limit
  table,              \* svc_routine_map up to num_routines
  wait_time,          \* local of main: -1 is K_FOREVER
  registeredRoutines  \* history: routines registered and not unregistered

loopVars == <<pending, mark, block, giving, loopPc, loopCount, limited, table, wait_time, registeredRoutines>>
tableVars == <<table, registeredRoutines>>

Forever == -1

Lesser(a, b) == IF a < b THEN a ELSE b

\* The routines in the table.
Called == {table[i] : i \in DOMAIN table}

InLoopService == loopPc \in {"service1", "service2"}

-----------------------------------------------------------------------------
\* The signals of others.  The chosen callback may be any that is put.
Arrive ==
  \/ /\ pending < LoopItems
     /\ pending' = pending + 1
     /\ mark' \in {mark} \cup (IF mark = -1 THEN {pending} ELSE {})
  \/ /\ pending = LoopItems
     /\ UNCHANGED <<pending, mark>>

\* Mutant: the handler does not give the semaphore.
InterruptSilent ==
  /\ Arrive
  /\ UNCHANGED <<block, giving, loopPc, loopCount, limited, tableVars, wait_time>>

\* zjs_signal_callback in an interrupt handler: nothing comes between the put
\* and zjs_loop_unblock().
Interrupt ==
  /\ Arrive
  /\ block' = 1
  /\ UNCHANGED <<giving, loopPc, loopCount, limited, tableVars, wait_time>>

\* The same in a thread, which main may preempt between the two.
ThreadPut ==
  /\ Threads
  /\ ~giving
  /\ Arrive
  /\ giving' = TRUE
  /\ UNCHANGED <<block, loopPc, loopCount, limited, tableVars, wait_time>>

ThreadGive ==
  /\ giving
  /\ giving' = FALSE
  /\ block' = 1
  /\ UNCHANGED <<pending, mark, loopPc, loopCount, limited, tableVars, wait_time>>

-----------------------------------------------------------------------------

\* One callback is taken out and called, and may signal others.
ServiceOne ==
  /\ InLoopService
  /\ pending > 0
  /\ loopCount < MaxLoopIteration
  /\ loopCount' = loopCount + 1
  /\ \E sends \in 0 .. MaxSends :
       /\ pending' = Lesser(pending - 1 + sends, LoopItems)
       /\ block' = IF sends > 0 THEN 1 ELSE block
  /\ mark' = IF mark = -1 THEN -1 ELSE mark - 1
  /\ UNCHANGED <<giving, loopPc, limited, tableVars, wait_time>>

EndLoopService ==
  /\ InLoopService
  /\ pending = 0 \/ loopCount = MaxLoopIteration
  /\ loopCount' = 0
  /\ limited' = (loopCount = MaxLoopIteration)
  /\ loopPc' = IF loopPc = "service1" THEN "routines" ELSE "block"
  /\ UNCHANGED <<pending, mark, block, giving, tableVars, wait_time>>

\* Mutant: a routine that polls does not unblock the loop.
ServiceRoutinesQuietly ==
  /\ loopPc = "routines"
  /\ \E time \in IF Called \cap Timed # {} THEN {0, 1, Forever} ELSE {Forever} :
       wait_time' = Lesser(Forever, time)
  /\ loopPc' = "service2"
  /\ UNCHANGED <<pending, mark, block, giving, loopCount, limited, tableVars>>

\* zjs_service_routines: what each routine in the table returns is folded into
\* "wait", which starts as K_FOREVER, and that into wait_time.
ServiceRoutines ==
  /\ loopPc = "routines"
  /\ block' = IF Called \cap Polling # {} THEN 1 ELSE block
  /\ \E time \in IF Called \cap Timed # {} THEN {0, 1, Forever} ELSE {Forever} :
       wait_time' = Lesser(Forever, time)
  /\ loopPc' = "service2"
  /\ UNCHANGED <<pending, mark, giving, loopCount, limited, tableVars>>

\* zjs_loop_block(): k_sem_take waits for the semaphore, or until the time is over.
Block ==
  /\ loopPc = "block"
  /\ block = 1 \/ wait_time # Forever
  /\ block' = 0
  /\ wait_time' = Forever
  /\ loopPc' = "service1"
  /\ UNCHANGED <<pending, mark, giving, loopCount, limited, tableVars>>

-----------------------------------------------------------------------------
\* A module registers its routine when it is loaded, if the table has room, and
\* unregisters it when it is cleaned up: that shortens the table by its last entry.
Register(routine) ==
  /\ InLoopService
  /\ routine \notin registeredRoutines
  /\ Len(table) < TableSize
  /\ table' = Append(table, routine)
  /\ registeredRoutines' = registeredRoutines \cup {routine}
  /\ UNCHANGED <<pending, mark, block, giving, loopPc, loopCount, limited, wait_time>>

Unregister(routine) ==
  /\ InLoopService
  /\ routine \in registeredRoutines
  /\ registeredRoutines' = registeredRoutines \ {routine}
  /\ table' = IF routine \in Called
              THEN SubSeq(table, 1, Len(table) - 1)
              ELSE table
  /\ UNCHANGED <<pending, mark, block, giving, loopPc, loopCount, limited, wait_time>>

-----------------------------------------------------------------------------
\* The script may have signalled before the loop starts.
LoopInit ==
  /\ pending \in 0 .. LoopItems
  /\ mark \in -1 .. pending - 1
  /\ block = IF pending > 0 THEN 1 ELSE 0
  /\ giving = FALSE
  /\ loopPc = "service1"
  /\ loopCount = 0
  /\ limited = FALSE
  /\ table = <<>>
  /\ wait_time = Forever
  /\ registeredRoutines = {}

LoopOthers == Interrupt \/ ThreadPut

LoopModules == \E routine \in Routines : Register(routine) \/ Unregister(routine)

LoopMain == ServiceOne \/ EndLoopService \/ ServiceRoutines \/ Block

LoopNext == LoopOthers \/ ThreadGive \/ LoopModules \/ LoopMain

LoopSpec == LoopInit /\ [][LoopNext]_loopVars

\* Main runs whenever it can, and a thread that main preempted goes on.
LoopFairSpec == LoopSpec /\ WF_loopVars(LoopMain) /\ WF_loopVars(ThreadGive)

-----------------------------------------------------------------------------
(***************************************************************************)
(* Properties.                                                             *)
(***************************************************************************)
\* Every variable has its type; the semaphore counts to one.
LoopTypeOK ==
  /\ pending \in 0 .. LoopItems
  /\ mark \in -1 .. LoopItems - 1
  /\ mark < pending
  /\ block \in {0, 1}
  /\ giving \in BOOLEAN
  /\ loopPc \in {"service1", "routines", "service2", "block"}
  /\ loopCount \in 0 .. MaxLoopIteration
  /\ limited \in BOOLEAN
  /\ table \in Seq(Routines) /\ Len(table) <= TableSize
  /\ wait_time \in Int
  /\ registeredRoutines \subseteq Routines

\* Main does not sleep on signalled work: when it waits for the semaphore, either
\* nothing is pending, or the thread that put the work is about to wake it, or the
\* service routine stopped at its iteration limit.
NoSleepWithWork ==
  LoopTypeOK /\ (loopPc = "block" /\ block = 0 /\ pending > 0 => giving \/ limited)

\* Once main calls a routine that polls, and as long as that routine stays in the
\* table, main does not sleep on what it left behind at the iteration limit, however
\* much is pending.
EveryOneServicedByPolling ==
  \A place \in 0 .. LoopItems - 1 :
    mark = place /\ loopPc = "routines" /\ Called \cap Polling # {}
      ~> mark = -1 \/ Called \cap Polling = {}
=============================================================================
