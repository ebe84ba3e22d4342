------------------------------- MODULE Events -------------------------------
(***************************************************************************)
(* Event emitters (src/zjs_event.c): lists of listeners that scripts       *)
(* change, also while they are being called, and events deferred by other  *)
(* modules, which wait in the callback ring under the one id emit_id.      *)
(*                                                                         *)
(* Of the callback module this much is kept: signals wait in order, one    *)
(* that does not fit is dropped, and one whose callback has been removed   *)
(* is skipped.  Module Callbacks says how.                                 *)
(***************************************************************************)
EXTENDS Integers, Sequences, SequencesExt, Functions

CONSTANTS
  Emitters,     \* emitter objects
  Names,        \* event names
  Funcs,        \* JavaScript functions
  MaxListeners, \* model bound: listeners ever added
  MaxDepth,     \* model bound: emissions within emissions
  RingItems     \* deferred events the ring has room for

ASSUME EventsAssumption ==
  /\ MaxListeners \in Nat /\ MaxDepth \in Nat \ {0} /\ RingItems \in Nat

VARIABLES
  live,     \* emitters that exist
  events,   \* handle->events of each: records [name, listeners, freed]
  func,     \* the function of each listener_t that is allocated
  added,    \* number of listeners ever added; each is known by its number
  emit_id,  \* the registration of emit_event_callback, 0 if there is none
  ring,     \* deferred events: [obj, name, id]
  current,  \* the deferred event being handled: a sequence of one or none
  stack,    \* the emissions under way: [obj, name, calls], innermost first
  fault     \* undefined behaviour that has happened

vars == <<live, events, func, added, emit_id, ring, current, stack, fault>>
listVars == <<events, func, added>>
ringVars == <<emit_id, ring, current>>

\* Registrations of emit_event_callback differ while signals for them are pending.
Ids == 1 .. RingItems + 2

EventRecord == [name : Names, listeners : Seq(1 .. MaxListeners), freed : BOOLEAN]

Event(name, listeners) == [name |-> name, listeners |-> listeners, freed |-> FALSE]

Pending(id) ==
  \/ \E i \in DOMAIN ring : ring[i].id = id
  \/ \E i \in DOMAIN current : current[i].id = id

\* zjs_add_c_callback gives emit_id a registration no pending signal was sent to.
FreshId == CHOOSE id \in Ids : ~Pending(id)

Deferred == [obj : Emitters, name : Names, id : Ids]

\* A script runs: in a listener, or called by something other than this module.
Script == stack # <<>> \/ current = <<>>

-----------------------------------------------------------------------------
\* ZJS_LIST_FIND_CMP compares names along the list, up to the event it looks for: it
\* reads the memory of a freed one that comes before it.
ReadsFreed(e, name) ==
  \E i \in DOMAIN events[e] :
    events[e][i].freed /\ \A j \in 1 .. i - 1 : events[e][j].name # name

Has(e, name) == ~ReadsFreed(e, name) /\ \E i \in DOMAIN events[e] : events[e][i].name = name

Place(e, name) == CHOOSE i \in DOMAIN events[e] : events[e][i].name = name

Listeners(e, name) == events[e][Place(e, name)].listeners

SetListeners(e, name, listeners) ==
  events' = [events EXCEPT ![e][Place(e, name)].listeners = listeners]

NoEventFreed == \A e \in live : \A i \in DOMAIN events[e] : ~events[e][i].freed

Elements(list) == {list[i] : i \in DOMAIN list}

AllListeners(e) == UNION {Elements(events[e][i].listeners) : i \in DOMAIN events[e]}

\* free_listener for each of the nodes.
Free(nodes) == func' = Restrict(func, DOMAIN func \ nodes)

-----------------------------------------------------------------------------
\* Mutant: the prototype, and with it emit_id, is set up for every emitter.
MakeEmitterAnew(e) ==
  /\ Script
  /\ e \notin live
  /\ e \notin {ring[i].obj : i \in DOMAIN ring}
  /\ live' = live \cup {e}
  /\ events' = [events EXCEPT ![e] = <<>>]
  /\ emit_id' = FreshId
  /\ UNCHANGED <<func, added, ring, current, stack, fault>>

\* A new object; one that is still named by a deferred event is not this one.  The
\* first emitter registers emit_event_callback, with the prototype.
MakeEmitter(e) ==
  /\ Script
  /\ e \notin live
  /\ e \notin {ring[i].obj : i \in DOMAIN ring}
  /\ live' = live \cup {e}
  /\ events' = [events EXCEPT ![e] = <<>>]
  /\ emit_id' = IF emit_id = 0 THEN FreshId ELSE emit_id
  /\ UNCHANGED <<func, added, ring, current, stack, fault>>

\* Mutant: a listener is put at the front of the list.
OnPrepends(e, name, f) ==
  /\ Script /\ e \in live /\ ~ReadsFreed(e, name)
  /\ added < MaxListeners
  /\ added' = added + 1
  /\ func' = [n \in DOMAIN func \cup {added'} |-> IF n = added' THEN f ELSE func[n]]
  /\ \/ Has(e, name) /\ SetListeners(e, name, <<added'>> \o Listeners(e, name))
     \/ ~Has(e, name) /\ events' = [events EXCEPT ![e] = Append(@, Event(name, <<added'>>))]
  /\ UNCHANGED <<live, stack, ringVars, fault>>

\* zjs_add_event_listener appends a listener, and an event if the name is new.
On(e, name, f) ==
  /\ Script /\ e \in live /\ ~ReadsFreed(e, name)
  /\ added < MaxListeners
  /\ added' = added + 1
  /\ func' = [n \in DOMAIN func \cup {added'} |-> IF n = added' THEN f ELSE func[n]]
  /\ \/ Has(e, name) /\ SetListeners(e, name, Append(Listeners(e, name), added'))
     \/ ~Has(e, name) /\ events' = [events EXCEPT ![e] = Append(@, Event(name, <<added'>>))]
  /\ UNCHANGED <<live, stack, ringVars, fault>>

\* There is no memory for the listener: the event, new or not, is freed and stays
\* in the list.  Model bound: this happens while no freed event is in a list.
OnFails(e, name) ==
  /\ Script /\ e \in live /\ NoEventFreed
  /\ \/ /\ Has(e, name)
        /\ events' = [events EXCEPT ![e][Place(e, name)].freed = TRUE]
     \/ /\ ~Has(e, name)
        /\ events' = [events EXCEPT ![e] = Append(@, [Event(name, <<>>) EXCEPT !.freed = TRUE])]
  /\ UNCHANGED <<live, func, added, stack, ringVars, fault>>

\* The first listener with the function is taken from the list and freed.
RemoveListener(e, name, f) ==
  /\ Script /\ e \in live /\ Has(e, name)
  /\ LET list == Listeners(e, name)
         same == {i \in DOMAIN list : func[list[i]] = f}
     IN \E i \in same :
          /\ \A j \in same : i <= j
          /\ SetListeners(e, name, RemoveAt(list, i))
          /\ Free({list[i]})
  /\ UNCHANGED <<live, added, stack, ringVars, fault>>

\* remove_all_listeners: the event stays, without listeners.
RemoveAllListeners(e, name) ==
  /\ Script /\ e \in live /\ Has(e, name)
  /\ Free(Elements(Listeners(e, name)))
  /\ SetListeners(e, name, <<>>)
  /\ UNCHANGED <<live, added, stack, ringVars, fault>>

\* zjs_destroy_emitter, which a module calls when it is done with an emitter.
DestroyEmitter(e) ==
  /\ Script /\ e \in live
  /\ \A i \in DOMAIN events[e] : ~events[e][i].freed
  /\ Free(AllListeners(e))
  /\ events' = [events EXCEPT ![e] = [i \in DOMAIN @ |-> [@[i] EXCEPT !.listeners = <<>>]]]
  /\ UNCHANGED <<live, added, stack, ringVars, fault>>

-----------------------------------------------------------------------------
\* zjs_emit_event calls the first listener; one call is under way in each frame.
Frame(e, name) == [obj |-> e, name |-> name, calls |-> <<Listeners(e, name)[1]>>]

Emittable(e, name) == Has(e, name) /\ Listeners(e, name) # <<>>

Emit(e, name) ==
  /\ Script /\ e \in live /\ Emittable(e, name)
  /\ Len(stack) < MaxDepth
  /\ stack' = <<Frame(e, name)>> \o stack
  /\ UNCHANGED <<live, listVars, ringVars, fault>>

Top == Head(stack)
Called == Top.calls[Len(Top.calls)]   \* the local "listener"

\* The listeners that follow the one called, which is still allocated.
Following ==
  LET list == Listeners(Top.obj, Top.name)
  IN SubSeq(list, 1 + CHOOSE i \in DOMAIN list : list[i] = Called, Len(list))

\* The listener returns and the next one is called.
CallNext ==
  /\ stack # <<>> /\ Called \in DOMAIN func
  /\ Following # <<>>
  /\ stack' = <<[Top EXCEPT !.calls = Append(@, Following[1])]>> \o Tail(stack)
  /\ UNCHANGED <<live, listVars, ringVars, fault>>

\* Mutant: a listener that fails ends the emission.
EndEmissionOnError ==
  /\ stack # <<>> /\ Called \in DOMAIN func
  /\ stack' = Tail(stack)
  /\ UNCHANGED <<live, listVars, ringVars, fault>>

\* The last listener returns.
EndEmission ==
  /\ stack # <<>> /\ Called \in DOMAIN func
  /\ Following = <<>>
  /\ stack' = Tail(stack)
  /\ UNCHANGED <<live, listVars, ringVars, fault>>

-----------------------------------------------------------------------------

Room == Len(ring) < RingItems

\* zjs_defer_emit_event_priv, from any thread or handler of a module that knows the
\* object.  One that is dropped is lost with its argument.
Defer(e, name) ==
  /\ e \in live
  /\ \/ Room /\ ring' = Append(ring, [obj |-> e, name |-> name, id |-> emit_id])
     \/ ~Room /\ UNCHANGED ring
  /\ UNCHANGED <<live, listVars, stack, emit_id, current, fault>>

Idle == stack = <<>> /\ current = <<>> /\ ring # <<>>

\* The callback was removed with the prototype: the signal is skipped, and its
\* argument lost.
SkipDeferred ==
  /\ Idle /\ Head(ring).id # emit_id
  /\ ring' = Tail(ring)
  /\ UNCHANGED <<live, listVars, stack, emit_id, current, fault>>

\* The pre function returns false, and cleans up after itself.
CancelDeferred ==
  /\ Idle /\ Head(ring).id = emit_id /\ Head(ring).obj \in live
  /\ ring' = Tail(ring)
  /\ UNCHANGED <<live, listVars, stack, emit_id, current, fault>>

\* emit_event_callback calls the listeners, if there are any.
EmitDeferred ==
  LET e == Head(ring).obj
      name == Head(ring).name
  IN /\ Idle /\ Head(ring).id = emit_id /\ e \in live /\ ~ReadsFreed(e, name)
     /\ ring' = Tail(ring)
     /\ current' = <<Head(ring)>>
     /\ stack' = IF Emittable(e, name) THEN <<Frame(e, name)>> ELSE <<>>
     /\ UNCHANGED <<live, listVars, emit_id, fault>>

\* The post function releases the argument.
Post ==
  /\ stack = <<>> /\ current # <<>>
  /\ current' = <<>>
  /\ UNCHANGED <<live, listVars, stack, emit_id, ring, fault>>

-----------------------------------------------------------------------------
\* The engine collects an emitter no listener is being called for: it calls
\* zjs_emitter_free_cb.  Deferred events do not keep it.
Collect(e) ==
  /\ e \in live /\ e \notin {stack[i].obj : i \in DOMAIN stack}
  /\ \A i \in DOMAIN events[e] : ~events[e][i].freed
  /\ live' = live \ {e}
  /\ Free(AllListeners(e))
  /\ events' = [events EXCEPT ![e] = <<>>]
  /\ UNCHANGED <<added, stack, ringVars, fault>>

\* The prototype goes after the last emitter: zjs_event_proto_free_cb.
CollectPrototype ==
  /\ live = {} /\ emit_id # 0
  /\ emit_id' = 0
  /\ UNCHANGED <<live, listVars, stack, ring, current, fault>>

-----------------------------------------------------------------------------
\* Undefined behaviour: the walk over the listeners reads one that was freed while
\* it was called; a lookup, or the walk that frees an emitter, reads a freed event
\* (one of these walks can always come next); a deferred event names an object that is gone.
WalkFreed ==
  /\ stack # <<>> /\ Called \notin DOMAIN func
  /\ fault' = "freed_listener"

LookupFreed ==
  /\ ~NoEventFreed
  /\ fault' = "freed_event"

StaleObject ==
  /\ Idle /\ Head(ring).id = emit_id /\ Head(ring).obj \notin live
  /\ fault' = "stale_object"

Undefined ==
  /\ WalkFreed \/ LookupFreed \/ StaleObject
  /\ UNCHANGED <<live, listVars, stack, ringVars>>

Faulted == fault # "none" /\ UNCHANGED vars

-----------------------------------------------------------------------------
Init ==
  /\ live = {} /\ events = [e \in Emitters |-> <<>>]
  /\ func = <<>> /\ added = 0
  /\ emit_id = 0 /\ ring = <<>> /\ current = <<>>
  /\ stack = <<>> /\ fault = "none"

Scripts ==
  \/ \E e \in Emitters : MakeEmitter(e) \/ DestroyEmitter(e)
  \/ \E e \in Emitters, name \in Names :
       \/ OnFails(e, name) \/ RemoveAllListeners(e, name) \/ Emit(e, name)
       \/ \E f \in Funcs : On(e, name, f) \/ RemoveListener(e, name, f)

Main == CallNext \/ EndEmission \/ SkipDeferred \/ CancelDeferred \/ EmitDeferred \/ Post

Others == \E e \in Emitters : Collect(e) \/ \E name \in Names : Defer(e, name)

Next ==
  \/ /\ fault = "none"
     /\ Scripts \/ Main \/ Others \/ CollectPrototype \/ Undefined
  \/ Faulted

Spec == Init /\ [][Next]_vars

-----------------------------------------------------------------------------
(***************************************************************************)
(* Properties.                                                             *)
(***************************************************************************)
\* Every variable has its type.
TypeOK ==
  /\ live \subseteq Emitters
  /\ events \in [Emitters -> Seq(EventRecord)]
  /\ added \in 0 .. MaxListeners
  /\ DOMAIN func \subseteq 1 .. added /\ \A n \in DOMAIN func : func[n] \in Funcs
  /\ emit_id \in {0} \cup Ids
  /\ ring \in Seq(Deferred) /\ Len(ring) <= RingItems
  /\ current \in Seq(Deferred) /\ Len(current) <= 1
  /\ stack \in Seq([obj : Emitters, name : Names, calls : Seq(1 .. MaxListeners)])
  /\ Len(stack) <= MaxDepth
  /\ fault \in {"none", "freed_listener", "freed_event", "stale_object"}

Increasing(s) == \A i, j \in DOMAIN s : i < j => s[i] < s[j]

\* However listeners add, remove and emit, an emission calls a listener at most
\* once, and in the order in which they were added.
InOrder == \A d \in DOMAIN stack : Increasing(stack[d].calls)

\* The allocated listeners are those in the lists of emitters that live, in the order in
\* which they were added: no removal forgets one, or frees one that stays listed.
ListenersListed ==
  /\ DOMAIN func = UNION {AllListeners(e) : e \in live}
  /\ \A e \in live : \A i \in DOMAIN events[e] : Increasing(events[e][i].listeners)

\* Emissions call in order, once, and what is allocated stays listed once: what was removed
\* is neither called later nor leaked.
CalledOnceInOrder == TypeOK /\ ListenersListed /\ InOrder

\* When an emission ends, every listener that is in the list then has been called by
\* it, whatever was added or removed while it went on.
AllListenersCalled ==
  [][Len(stack') < Len(stack) =>
       Elements(Listeners(Top.obj, Top.name)) \subseteq Elements(Top.calls)]_vars

\* A deferred event of an emitter that lives is not skipped: emit_id is the one it was
\* deferred with, although the prototype that owns it comes and goes.
LiveEventsNotSkipped == \A i \in DOMAIN ring : ring[i].obj \in live => ring[i].id = emit_id
=============================================================================
