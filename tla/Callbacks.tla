------------------------------ MODULE Callbacks ------------------------------
(***************************************************************************)
(* The callback module of ZJS (src/zjs_callbacks.c): the map of registered *)
(* callbacks, the ring buffer of pending signals and flush commands, and   *)
(* the service routine that the main loop calls to run them.               *)
(*                                                                         *)
(* Three kinds of actor touch this state.  The main thread registers and   *)
(* removes callbacks and is the only one to take items out of the ring; it *)
(* is described step by step, because an interrupt may come between any    *)
(* two of its steps.  An interrupt handler (or a cooperative thread) only  *)
(* signals and takes no lock.  A preemptible thread only signals too, but  *)
(* under cb_mutex, so it never runs inside one of main's critical sections.*)
(*                                                                         *)
(* The ring is a sequence of items here; module RingBuffer describes it    *)
(* word by word.  Counters that only choose what is logged are left out.   *)
(***************************************************************************)
EXTENDS Integers, Sequences, FiniteSets

CONSTANTS
  InitialSize,   \* INITIAL_CALLBACK_SIZE: slots allocated at start
  ChunkSize,     \* CB_CHUNK_SIZE: slots added when the map is full
  MaxSize,       \* model bound: largest map explored
  RingWords,     \* size of the ring in 32-bit words; one word is never used
  ArgWords,      \* model bound: the argument sizes explored, in words
  MaxIteration,  \* ZJS_MAX_CB_LOOP_ITERATION: items handled by one service call
  MaxRegs,       \* model bound: number of registrations explored
  Linux,         \* TRUE for the Linux build: the ring is initialized again by stopJS
  Interrupts,    \* TRUE if interrupt handlers signal callbacks
  Threads,       \* TRUE if other preemptible threads signal callbacks
  QuietSources,  \* TRUE if an interrupt source stops before its callback is removed
  MapAllocFails, \* TRUE if the allocation of a larger map may fail
  StopsJs        \* TRUE if the program may be stopped and restarted (stopJS)

ASSUME SizeAssumption ==
  /\ InitialSize \in Nat \ {0}
  /\ ChunkSize \in Nat \ {0}
  /\ MaxSize \in Nat
  /\ InitialSize <= MaxSize

ASSUME RingAssumption ==
  /\ RingWords \in Nat
  /\ RingWords > 1
  /\ ArgWords \subseteq Nat
  /\ MaxIteration \in Nat \ {0}

ASSUME EnvironmentAssumption ==
  /\ MaxRegs \in Nat \ {0}
  /\ {Linux, Interrupts, Threads, QuietSources, MapAllocFails, StopsJs} \subseteq BOOLEAN

VARIABLES
  cb_map,      \* slot of every id: what the map points to, if anything
  cb_size,     \* one more than the largest id ever used
  cb_limit,    \* the number of slots allocated
  ring,        \* pending items, oldest first
  used,        \* words of the ring in use
  pc,          \* where the main thread is
  back,        \* where it returns to from a call
  target,      \* the id an unfinished removal is about
  idx,         \* loop index of the loops over cb_map
  skip_flush,  \* local of zjs_remove_all_callbacks
  adding,      \* the registration an unfinished new_id() is for
  count,       \* local of zjs_service_callbacks
  cur,         \* the signal being handled and the callback it called
  regs,        \* history: number of registrations made so far
  called,      \* history: once registrations whose function has been called
  held,        \* history: argument references acquired and not yet released
  tainted,     \* history: a flush command was refused or FLUSH_ALL used, and the
               \*   ring has not been empty since
  skewed,      \* history: a signal was handled for another registration than its own
  epoch,       \* history: registrations made before the last stopJS
  leaked,      \* cb_mutex was left locked by a failed new_id()
  fault        \* the undefined behaviour met, if any

cbVars   == <<cb_map, cb_size, cb_limit>>
ringVars == <<ring, used>>
mainVars == <<pc, back, target, idx, skip_flush, adding, count, cur>>
history  == <<regs, called, held, tainted, skewed, epoch>>
vars     == <<cbVars, ringVars, mainVars, history, leaked, fault>>

Ids  == 0 .. MaxSize - 1
Regs == 1 .. MaxRegs

(***************************************************************************)
(* A slot points to nothing ("null"), to a callback ("live"), to one with  *)
(* CB_REMOVED_BIT set ("removed"), or to memory given back to the          *)
(* allocator ("freed").  "reg" tells registrations that share an id apart. *)
(***************************************************************************)
Slots == [st : {"null", "live", "removed", "freed"}, reg : Nat, js : BOOLEAN, once : BOOLEAN]
Null  == [st |-> "null", reg |-> 0, js |-> FALSE, once |-> FALSE]

Kinds == [js : BOOLEAN, once : BOOLEAN]
CKind == [js |-> FALSE, once |-> FALSE]

(***************************************************************************)
(* "sig" is a signal, "one" and "all" are CB_FLUSH_ONE and CB_FLUSH_ALL.   *)
(* reg is the registration that was signalled and js whether the signal    *)
(* acquired its arguments.                                                 *)
(***************************************************************************)
Items == [kind : {"sig", "one", "all"}, id : Ids, reg : Nat, words : Nat, js : BOOLEAN]

Signalled(id, w) ==
  [kind |-> "sig", id |-> id, reg |-> cb_map[id].reg, words |-> w, js |-> cb_map[id].js]
FlushOne(id) == [kind |-> "one", id |-> id, reg |-> 0, words |-> 0, js |-> FALSE]
FlushAll     == [kind |-> "all", id |-> 0, reg |-> 0, words |-> 0, js |-> FALSE]

Works  == [id : Ids, reg : Nat, to : Nat, js : BOOLEAN, words : Nat]
NoWork == [id |-> 0, reg |-> 0, to |-> 0, js |-> FALSE, words |-> 0]

-----------------------------------------------------------------------------
(***************************************************************************)
(* Ring operations: an item takes a header word and its argument words.    *)
(***************************************************************************)

Fits(item) == used + item.words + 1 <= RingWords - 1

Put(item) ==
  /\ ring' = Append(ring, item)
  /\ used' = used + item.words + 1

Get ==
  /\ ring' = Tail(ring)
  /\ used' = used - (Head(ring).words + 1)

Running == fault = "none"

\* Main returns from a call, and its locals are gone.
ReturnTo(place) == pc' = place /\ back' = "top"

\* The main thread is in JavaScript: the script itself or a callback's function.
InJs == Running /\ pc \in {"top", "body"}

\* The main thread holds cb_mutex, or it can never be taken again.
Locked ==
  leaked \/ cur # NoWork \/ pc \in {"grow", "free"} \/ (pc = "flush" /\ back = "all")

-----------------------------------------------------------------------------
(***************************************************************************)
(* Signalling: a signal for an id without a callback, or with a removed    *)
(* one, is dropped; so is one the ring has no room for, after giving back  *)
(* the argument references it took.                                        *)
(***************************************************************************)
\* Mutant: the check for an empty slot is dropped.
DeliverableUnchecked(id) == id < cb_size /\ cb_map[id].st # "removed"

Deliverable(id) == id < cb_size /\ cb_map[id].st = "live"

Signal(id, w) ==
  IF Deliverable(id) /\ Fits(Signalled(id, w))
  THEN /\ Put(Signalled(id, w))
       /\ held' = held + (IF cb_map[id].js THEN w ELSE 0)
  ELSE UNCHANGED <<ring, used, held>>

MainSignal(id, w) ==
  /\ InJs
  /\ Signal(id, w)
  /\ UNCHANGED <<cbVars, mainVars, regs, called, tainted, skewed, epoch, leaked, fault>>

ThreadSignal(id, w) ==
  /\ Threads
  /\ Running
  /\ ~Locked
  /\ Signal(id, w)
  /\ UNCHANGED <<cbVars, mainVars, regs, called, tainted, skewed, epoch, leaked, fault>>

\* The handler reads cb_map without a lock, so it can meet a map or a callback
\* that main has freed and not replaced yet.
Interrupt(id, w) ==
  /\ Interrupts
  /\ Running
  /\ QuietSources => cb_map[id].st \in {"null", "live"}
  /\ IF pc = "grow" \/ cb_map[id].st = "freed"
     THEN /\ fault' = "use_after_free"
          /\ UNCHANGED <<ring, used, held>>
     ELSE /\ Signal(id, w)
          /\ UNCHANGED fault
  /\ UNCHANGED <<cbVars, mainVars, regs, called, tainted, skewed, epoch, leaked>>

-----------------------------------------------------------------------------
(***************************************************************************)
(* Registration.  new_id() enlarges a full map first; the lowest free id   *)
(* is used.                                                                *)
(***************************************************************************)
\* Mutant: new_id() takes the slot of a callback that is only marked as removed.
FreeIdsOrRemoved == {id \in Ids : id < cb_limit /\ cb_map[id].st \in {"null", "removed"}}

FreeIds == {id \in Ids : id < cb_limit /\ cb_map[id].st = "null"}

\* The model has room for one more registration.
CanAdd == regs < MaxRegs /\ (cb_size < cb_limit \/ cb_limit + ChunkSize <= MaxSize)

\* The scan of new_id() for a free slot and the store into it.
Store(kind) ==
  \E id \in FreeIds :
    /\ \A other \in FreeIds : id <= other
    /\ cb_map' = [cb_map EXCEPT ![id] =
                    [st |-> "live", reg |-> regs + 1, js |-> kind.js, once |-> kind.once]]
    /\ cb_size' = IF id >= cb_size THEN id + 1 ELSE cb_size
    /\ regs' = regs + 1

\* A registration by a caller that continues at "next"; a full map is enlarged first.
StartAdd(kind, next) ==
  /\ CanAdd
  /\ IF cb_size < cb_limit
     THEN /\ Store(kind)
          /\ pc' = next
          /\ UNCHANGED <<cb_limit, back, adding>>
     ELSE /\ cb_limit' = cb_limit + ChunkSize
          /\ pc' = "grow"
          /\ back' = next
          /\ adding' = kind
          /\ UNCHANGED <<cb_map, cb_size, regs>>

\* add_callback_priv and zjs_add_c_callback; a once callback is a JS callback
Add(kind) ==
  /\ InJs
  /\ StartAdd(kind, pc)
  /\ UNCHANGED <<ringVars, target, idx, skip_flush, count, cur, called, held, tainted,
                 skewed, epoch, leaked, fault>>

\* The new map is filled and the old one freed; now cb_map is replaced.
AddGrown ==
  /\ Running
  /\ pc = "grow"
  /\ Store(adding)
  /\ ReturnTo(back)
  /\ adding' = CKind
  /\ UNCHANGED <<cb_limit, ringVars, target, idx, skip_flush, count, cur, called, held,
                 tainted, skewed, epoch, leaked, fault>>

\* new_id() returns -1 with the mutex held and the limit raised, and the
\* caller stores through cb_map[-1].
AddGrowFails ==
  /\ MapAllocFails
  /\ InJs
  /\ regs < MaxRegs
  /\ cb_size >= cb_limit
  /\ cb_limit' = cb_limit + ChunkSize
  /\ leaked' = TRUE
  /\ fault' = "out_of_bounds"
  /\ UNCHANGED <<cb_map, cb_size, ringVars, mainVars, history>>

-----------------------------------------------------------------------------
(***************************************************************************)
(* Removal: mark the callback, then queue a command that frees it once     *)
(* everything signalled before has been handled.                           *)
(***************************************************************************)
Mark(id) == cb_map' = [cb_map EXCEPT ![id].st = "removed"]

\* The deferred-work callback is the first registration since zjs_init_callbacks,
\* and nobody else knows its id.
RemoveCallback(id) ==
  /\ InJs
  /\ cb_map[id].st = "live"
  /\ cb_map[id].reg # epoch + 1
  /\ Mark(id)
  /\ target' = id
  /\ back' = pc
  /\ pc' = "flush"
  /\ UNCHANGED <<cb_size, cb_limit, ringVars, idx, skip_flush, adding, count, cur, regs, called,
                 held, tainted, skewed, epoch, leaked, fault>>

QueueFlush ==
  /\ Running
  /\ pc = "flush"
  /\ Fits(FlushOne(target))
  /\ Put(FlushOne(target))
  /\ target' = 0
  /\ ReturnTo(back)
  /\ UNCHANGED <<cbVars, idx, skip_flush, adding, count, cur, history, leaked, fault>>

\* zjs_free_callback releases the memory and then clears the slot.
FreeSlot(id) ==
  /\ cb_map' = [cb_map EXCEPT ![id].st = "freed"]
  /\ target' = id
  /\ pc' = "free"

\* Mutant: when the command is refused the callback is left as it is.
QueueFlushGivesUp ==
  /\ Running
  /\ pc = "flush"
  /\ ~Fits(FlushOne(target))
  /\ target' = 0
  /\ ReturnTo(back)
  /\ UNCHANGED <<cbVars, ringVars, idx, skip_flush, adding, count, cur, history, leaked, fault>>

\* No room for the command: the callback is freed at once.
QueueFlushFails ==
  /\ Running
  /\ pc = "flush"
  /\ ~Fits(FlushOne(target))
  /\ FreeSlot(target)
  /\ tainted' = TRUE
  /\ UNCHANGED <<cb_size, cb_limit, ringVars, back, idx, skip_flush, adding, count, cur, regs,
                 called, held, skewed, epoch, leaked, fault>>

ClearSlot ==
  /\ Running
  /\ pc = "free"
  /\ cb_map' = [cb_map EXCEPT ![target] = Null]
  /\ target' = 0
  /\ ReturnTo(back)
  /\ UNCHANGED <<cb_size, cb_limit, ringVars, idx, skip_flush, adding, count, cur, history, leaked,
                 fault>>

-----------------------------------------------------------------------------
(***************************************************************************)
(* stopJS: zjs_remove_all_callbacks followed by zjs_init_callbacks, called *)
(* from the shell.  A script that calls it ends, with jerry_cleanup, the   *)
(* engine that runs it: nothing can be said of what follows.               *)
(***************************************************************************)
\* Mutant: the commands for single callbacks are skipped although FLUSH_ALL was refused.
RemoveAllSkips ==
  /\ StopsJs
  /\ Running
  /\ pc = "top"
  /\ CanAdd
  /\ IF Fits(FlushAll) THEN Put(FlushAll) ELSE UNCHANGED ringVars
  /\ skip_flush' = TRUE
  /\ tainted' = TRUE
  /\ idx' = 0
  /\ pc' = "all"
  /\ UNCHANGED <<cbVars, back, target, adding, count, cur, regs, called, held, skewed, epoch,
                 leaked, fault>>

RemoveAll ==
  /\ StopsJs
  /\ Running
  /\ pc = "top"
  /\ CanAdd
  /\ IF Fits(FlushAll)
     THEN Put(FlushAll) /\ skip_flush' = TRUE
     ELSE skip_flush' = FALSE /\ UNCHANGED ringVars
  /\ tainted' = TRUE
  /\ idx' = 0
  /\ pc' = "all"
  /\ UNCHANGED <<cbVars, back, target, adding, count, cur, regs, called, held, skewed, epoch,
                 leaked, fault>>

RemoveNext ==
  /\ Running
  /\ pc = "all"
  /\ idx < cb_size
  /\ idx' = idx + 1
  /\ IF cb_map[idx].st = "live"
     THEN /\ Mark(idx)
          /\ IF skip_flush
             THEN UNCHANGED <<target, back, pc>>
             ELSE target' = idx /\ back' = "all" /\ pc' = "flush"
     ELSE UNCHANGED <<cb_map, target, back, pc>>
  /\ UNCHANGED <<cb_size, cb_limit, ringVars, skip_flush, adding, count, cur, regs, called, held,
                 tainted, skewed, epoch, leaked, fault>>

\* The Linux build empties the ring; both register the deferred-work callback.
InitCallbacks ==
  /\ Running
  /\ pc = "all"
  /\ idx >= cb_size
  /\ IF Linux THEN ring' = <<>> /\ used' = 0 ELSE UNCHANGED ringVars
  /\ held' = IF Linux THEN 0 ELSE held
  /\ epoch' = regs
  /\ idx' = 0
  /\ skip_flush' = FALSE
  /\ StartAdd(CKind, "top")
  /\ UNCHANGED <<target, count, cur, called, tainted, skewed, leaked, fault>>

-----------------------------------------------------------------------------
(***************************************************************************)
(* zjs_service_callbacks: up to MaxIteration items are taken out.          *)
(***************************************************************************)
StartService ==
  /\ Running
  /\ pc = "top"
  /\ count' = 0
  /\ pc' = "service"
  /\ UNCHANGED <<cbVars, ringVars, back, target, idx, skip_flush, adding, cur, history, leaked,
                 fault>>

\* The iteration limit, or an empty ring; then nothing stale is left in it.
EndService ==
  /\ Running
  /\ pc = "service"
  /\ ring = <<>> \/ count >= MaxIteration
  /\ tainted' = (tainted /\ ring # <<>>)
  /\ pc' = "top"
  /\ count' = 0
  /\ UNCHANGED <<cbVars, ringVars, back, target, idx, skip_flush, adding, cur, regs, 
                 called, held, skewed, epoch, leaked, fault>>

Servicing(kind) ==
  /\ Running
  /\ pc = "service"
  /\ ring # <<>>
  /\ count < MaxIteration
  /\ Head(ring).kind = kind

ServiceFlushOne ==
  /\ Servicing("one")
  /\ Get
  /\ count' = count + 1
  /\ IF cb_map[Head(ring).id].st = "removed"
     THEN FreeSlot(Head(ring).id) /\ back' = "service"
     ELSE UNCHANGED <<cb_map, target, pc, back>>
  /\ UNCHANGED <<cb_size, cb_limit, idx, skip_flush, adding, cur, history, leaked,
                 fault>>

ServiceFlushAll ==
  /\ Servicing("all")
  /\ Get
  /\ count' = count + 1
  /\ idx' = 0
  /\ pc' = "freeall"
  /\ UNCHANGED <<cbVars, back, target, skip_flush, adding, cur, history, leaked, fault>>

FreeNext ==
  /\ Running
  /\ pc = "freeall"
  /\ IF idx >= cb_size
     THEN /\ pc' = "service"
          /\ idx' = 0
          /\ UNCHANGED <<cb_map, target, back>>
     ELSE /\ idx' = idx + 1
          /\ IF cb_map[idx].st = "removed"
             THEN FreeSlot(idx) /\ back' = "freeall"
             ELSE UNCHANGED <<cb_map, target, pc, back>>
  /\ UNCHANGED <<cb_size, cb_limit, ringVars, skip_flush, adding, count, cur, history,
                 leaked, fault>>

-----------------------------------------------------------------------------
(***************************************************************************)
(* Handling a signal: zjs_call_callback and the release of the arguments.  *)
(***************************************************************************)
\* The slot belongs to another registration than the signal.
Skew(item) == skewed' = (skewed \/ cb_map[item.id].reg # item.reg)

\* The callback is there and not removed: its function is called.
ServiceCall ==
  /\ Servicing("sig")
  /\ Get
  /\ count' = count + 1
  /\ LET item == Head(ring)
         slot == cb_map[item.id]
     IN  /\ slot.st = "live"
         /\ cur' = [id |-> item.id, reg |-> item.reg, to |-> slot.reg, js |-> slot.js,
                    words |-> item.words]
         /\ called' = IF slot.once THEN called \cup {slot.reg} ELSE called
         /\ Skew(item)
  /\ pc' = "body"
  /\ UNCHANGED <<cbVars, back, target, idx, skip_flush, adding, regs, held, tainted, epoch,
                 leaked, fault>>

\* Mutant: the arguments of a callback that is not called are not released.
ServiceSkipKeeps ==
  /\ Servicing("sig")
  /\ Get
  /\ count' = count + 1
  /\ cb_map[Head(ring).id].st = "removed"
  /\ Skew(Head(ring))
  /\ UNCHANGED <<cbVars, pc, back, target, idx, skip_flush, adding, cur, regs, called, held,
                 tainted, epoch, leaked, fault>>

\* A removed callback is not called, but its arguments are released, even the
\* values of an engine that stopJS has ended.
ServiceSkip ==
  /\ Servicing("sig")
  /\ Get
  /\ count' = count + 1
  /\ LET item == Head(ring)
         slot == cb_map[item.id]
     IN  /\ slot.st = "removed"
         /\ held' = held - (IF slot.js THEN item.words ELSE 0)
         /\ fault' = IF slot.js /\ item.words > 0 /\ item.reg <= epoch THEN "stale_value" ELSE fault
         /\ Skew(item)
  /\ UNCHANGED <<cbVars, pc, back, target, idx, skip_flush, adding, cur, regs, called,
                 tainted, epoch, leaked>>

\* The slot is empty: with arguments the code reads the flags of a null callback.
ServiceMissing ==
  /\ Servicing("sig")
  /\ Get
  /\ count' = count + 1
  /\ cb_map[Head(ring).id].st = "null"
  /\ fault' = IF Head(ring).words > 0 THEN "null_callback" ELSE fault
  /\ Skew(Head(ring))
  /\ UNCHANGED <<cbVars, pc, back, target, idx, skip_flush, adding, cur, regs, called, held,
                 tainted, epoch, leaked>>

Return ==
  /\ Running
  /\ pc = "body"
  /\ cur # NoWork
  /\ pc' = IF cur.js THEN "post" ELSE "release"
  /\ UNCHANGED <<cbVars, ringVars, back, target, idx, skip_flush, adding, count, cur, history,
                 leaked, fault>>

\* Mutant: a once callback is not removed after its call.
PostKeepsOnce ==
  /\ Running
  /\ pc = "post"
  /\ pc' = "release"
  /\ UNCHANGED <<cbVars, ringVars, back, target, idx, skip_flush, adding, count, cur, history,
                 leaked, fault>>

\* The post function of whatever the slot holds now, and the end of a once callback.
Post ==
  /\ Running
  /\ pc = "post"
  /\ IF cb_map[cur.id].st = "live" /\ cb_map[cur.id].once
     THEN /\ Mark(cur.id)
          /\ target' = cur.id
          /\ back' = "release"
          /\ pc' = "flush"
     ELSE /\ pc' = "release"
          /\ UNCHANGED <<cb_map, target, back>>
  /\ UNCHANGED <<cb_size, cb_limit, ringVars, idx, skip_flush, adding, count, cur, regs, called,
                 held, tainted, skewed, epoch, leaked, fault>>

Release ==
  /\ Running
  /\ pc = "release"
  /\ held' = held - (IF cur.js THEN cur.words ELSE 0)
  /\ cur' = NoWork
  /\ pc' = "service"
  /\ UNCHANGED <<cbVars, ringVars, back, target, idx, skip_flush, adding, count, regs, 
                 called, tainted, skewed, epoch, leaked, fault>>

-----------------------------------------------------------------------------
\* After undefined behaviour nothing more is claimed.
Faulted ==
  /\ ~Running
  /\ UNCHANGED vars

\* zjs_init_callbacks has registered the deferred-work callback under id 0.
Init ==
  /\ cb_map = [id \in Ids |-> IF id = 0 THEN [st |-> "live", reg |-> 1, js |-> FALSE, once |-> FALSE]
                                        ELSE Null]
  /\ cb_size = 1
  /\ cb_limit = InitialSize
  /\ ring = <<>>
  /\ used = 0
  /\ pc = "top"
  /\ back = "top"
  /\ target = 0
  /\ idx = 0
  /\ skip_flush = FALSE
  /\ adding = CKind
  /\ count = 0
  /\ cur = NoWork
  /\ regs = 1
  /\ called = {}
  /\ held = 0
  /\ tainted = FALSE
  /\ skewed = FALSE
  /\ epoch = 0
  /\ leaked = FALSE
  /\ fault = "none"

\* Every call JavaScript or native code can make into the module from main.
Calls ==
  \/ \E kind \in Kinds : (kind.once => kind.js) /\ Add(kind)
  \/ AddGrowFails
  \/ \E id \in Ids : RemoveCallback(id)
  \/ \E id \in Ids, w \in ArgWords : MainSignal(id, w)
  \/ RemoveAll

\* The steps main takes by itself.
Main ==
  \/ AddGrown
  \/ QueueFlush \/ QueueFlushFails \/ ClearSlot
  \/ RemoveNext \/ InitCallbacks
  \/ StartService \/ EndService
  \/ ServiceFlushOne \/ ServiceFlushAll \/ FreeNext
  \/ ServiceCall \/ ServiceSkip \/ ServiceMissing
  \/ Return \/ Post \/ Release

Others == \E id \in Ids, w \in ArgWords : ThreadSignal(id, w) \/ Interrupt(id, w)

Next == Calls \/ Main \/ Others \/ Faulted

Spec == Init /\ [][Next]_vars

\* The main loop goes on: main takes its next step when it has one, and a
\* callback's function returns.
FairSpec == Spec /\ WF_vars(Main)

-----------------------------------------------------------------------------
(***************************************************************************)
(* Properties.                                                             *)
(***************************************************************************)
Places == {"top", "body", "grow", "flush", "free", "all", "service", "freeall", "post", "release"}

\* Every variable has its type, the ring never overflows (get_space keeps one
\* word free) and cb_size stays within the allocated map.
TypeOK ==
  /\ cb_map \in [Ids -> Slots]
  /\ cb_size \in 0 .. MaxSize
  /\ cb_limit \in Nat
  /\ ring \in Seq(Items)
  /\ used \in Int /\ used <= RingWords - 1
  /\ pc \in Places
  /\ back \in Places
  /\ target \in Ids
  /\ idx \in Nat
  /\ skip_flush \in BOOLEAN
  /\ adding \in Kinds
  /\ count \in Nat
  /\ cur \in Works
  /\ regs \in Nat
  /\ called \subseteq Nat
  /\ held \in Int
  /\ tainted \in BOOLEAN /\ skewed \in BOOLEAN /\ leaked \in BOOLEAN
  /\ epoch \in Nat
  /\ fault \in {"none", "use_after_free", "out_of_bounds", "null_callback", "stale_value"}

Pending(kind, id) == \E i \in DOMAIN ring : ring[i].kind = kind /\ ring[i].id = id

\* A signal is handed to the registration it was sent to, never to a later one
\* that was given the same id: the flush command queued by zjs_remove_callback
\* keeps the id taken until every earlier signal has been handled.
StaleNeverDelivered == ~tainted /\ cur # NoWork => cur.to = cur.reg

\* After a callback's function returns, zjs_call_callback goes on with the post
\* function and the once flag of cb_map[id]: they are those of the callback it
\* called, even if that function removed it and registered others.
PostOfOwner == ~tainted /\ cur # NoWork =>
  /\ cb_map[cur.id].reg = cur.to
  /\ cb_map[cur.id].st \in {"live", "removed"}

\* A callback registered with zjs_add_callback_once is called at most once,
\* however often it was signalled before its first call or during it.
OnceCalledOnce ==
  [][cur = NoWork /\ cur' # NoWork /\ cb_map[cur'.id].once => cur'.to \notin called]_vars

\* A removed callback is never forgotten: a flush command that will free it is
\* in the ring or about to be put there, so its memory and its id come back.
RemovedWillBeFreed ==
  \A id \in Ids : cb_map[id].st = "removed" =>
    \/ Pending("one", id)
    \/ \E i \in DOMAIN ring : ring[i].kind = "all"
    \/ pc = "flush" /\ target = id
    \/ pc = "freeall" /\ id >= idx
    \/ pc = "free" /\ back = "freeall" /\ id >= idx

\* What undefined behaviour there is, and why.  An interrupt meets freed memory while main
\* replaces the map (new_id), or while it frees a callback whose source was not quiet
\* (zjs_free_callback), and nothing else does; the map is written out of bounds only when
\* its growth fails; a signal finds its slot empty only after a flush command was refused
\* or stopJS used, and values of an ended engine are released only after stopJS.
UndefinedExplained ==
  /\ fault = "use_after_free" =>
       Interrupts /\ (pc = "grow" \/ (pc = "free" /\ ~QuietSources))
  /\ fault = "out_of_bounds" => MapAllocFails /\ leaked
  /\ fault = "null_callback" => tainted
  /\ fault = "stale_value" => tainted /\ epoch > 0

\* A callback marked as removed is freed in the end, unless the program met
\* undefined behaviour before.
RemovedIsFreed ==
  \A id \in Ids : cb_map[id].st = "removed" ~> (cb_map[id].st # "removed" \/ ~Running)

-----------------------------------------------------------------------------
(***************************************************************************)
(* The inductive invariant behind StaleNeverDelivered, PostOfOwner and     *)
(* UndefinedExplained.                                                     *)
(***************************************************************************)
InCall == pc \in {"body", "post", "release"} \/ back \in {"body", "release"}

\* The locals of main agree with the place it is at, and with the map.
PlaceInv ==
  /\ \A id \in Ids : cb_map[id].st \in {"live", "removed"} => cb_map[id].reg > 0
  /\ back # "top" => pc \in {"grow", "flush", "free"}
  /\ back \in {"top", "body", "release", "service", "all", "freeall"}
  /\ back = "service" => pc = "free"
  /\ cur # NoWork <=> InCall
  /\ pc = "flush" => cb_map[target].st = "removed"
  /\ \A id \in Ids : cb_map[id].st = "freed" <=> pc = "free" /\ target = id

\* No stopJS is under way.
NoFlushAll ==
  /\ \A i \in DOMAIN ring : ring[i].kind # "all"
  /\ pc \notin {"all", "freeall"}
  /\ back \notin {"all", "freeall"}

\* A pending signal finds the registration it was sent to.
SignalInv ==
  \A i \in DOMAIN ring : ring[i].kind = "sig" =>
    /\ cb_map[ring[i].id].reg = ring[i].reg
    /\ cb_map[ring[i].id].st \in {"live", "removed"}

\* A pending flush command is for a removed callback and is the last item about it.
FlushInv ==
  /\ \A i \in DOMAIN ring : ring[i].kind = "one" =>
       /\ cb_map[ring[i].id].st = "removed"
       /\ \A j \in DOMAIN ring : j > i => ring[j].id # ring[i].id
  /\ pc = "flush" => ~Pending("one", target)

\* The callback being called keeps its slot until the call is over.
CallInv == cur # NoWork =>
  /\ cur.to = cur.reg
  /\ cb_map[cur.id].reg = cur.to
  /\ cb_map[cur.id].st \in {"live", "removed"}

\* What holds at every step: the first part always, the others from one time
\* the ring is found empty to the next refused flush command or stopJS.
Clean == NoFlushAll /\ SignalInv /\ FlushInv /\ CallInv

IInv == PlaceInv /\ (~tainted => Clean)
=============================================================================
