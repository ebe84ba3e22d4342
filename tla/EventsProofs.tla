---------------------------- MODULE EventsProofs ----------------------------
(***************************************************************************)
(* Theorems about module Events, for every value of its constants: what    *)
(* becomes of deferred events, and whom an emission calls.                 *)
(***************************************************************************)
EXTENDS Events, FiniteSetTheorems, SequenceTheorems, TLAPS

USE DEF vars, listVars, ringVars

\* The types of what the deferred events are made of.
DeferType ==
  /\ live \subseteq Emitters
  /\ emit_id \in {0} \cup Ids
  /\ ring \in Seq(Deferred) /\ Len(ring) <= RingItems
  /\ current \in Seq(Deferred) /\ Len(current) <= 1

\* An emitter that lives keeps the prototype, and the prototype its callback.
PrototypeKept == live # {} => emit_id # 0

DeferInv == DeferType /\ PrototypeKept /\ LiveEventsNotSkipped

\* Registrations never run out: fewer signals are pending than there are ids.
LEMMA FreshIdExists ==
  ASSUME DeferType
  PROVE  FreshId \in Ids /\ ~Pending(FreshId)
<1>1. SUFFICES ASSUME \A id \in Ids : Pending(id)
               PROVE  FALSE
  BY DEF FreshId
<1> DEFINE where == [id \in Ids |-> IF \E i \in DOMAIN ring : ring[i].id = id
                                    THEN CHOOSE i \in DOMAIN ring : ring[i].id = id
                                    ELSE 0]
           places == 0 .. Len(ring)
<1>2. Len(ring) \in Nat /\ DOMAIN ring = 1 .. Len(ring) /\ RingItems \in Nat
  BY EventsAssumption DEF DeferType
<1>3. DOMAIN current \subseteq {1}
  <2>1. Len(current) \in Nat /\ DOMAIN current = 1 .. Len(current) /\ Len(current) <= 1
    BY DEF DeferType
  <2> QED
    BY <2>1
<1>4. where \in [Ids -> places]
  BY <1>2
<1>5. IsFiniteSet(Ids) /\ Cardinality(Ids) = RingItems + 2
  BY <1>2, FS_Interval DEF Ids
<1>6. IsFiniteSet(places) /\ Cardinality(places) = Len(ring) + 1
  BY <1>2, FS_Interval
<1>7. Cardinality(places) < Cardinality(Ids)
  BY <1>2, <1>5, <1>6 DEF DeferType
<1>8. PICK x, y \in Ids : x # y /\ where[x] = where[y]
  <2> HIDE DEF where, places
  <2> QED
    BY <1>4, <1>5, <1>6, <1>7, FS_PigeonHole, Zenon
<1>9. ASSUME NEW id \in Ids
      PROVE  \/ where[id] # 0 /\ ring[where[id]].id = id
             \/ where[id] = 0 /\ 1 \in DOMAIN current /\ current[1].id = id
  <2>1. CASE \E i \in DOMAIN ring : ring[i].id = id
    BY <2>1, <1>2
  <2>2. CASE ~\E i \in DOMAIN ring : ring[i].id = id
    BY <2>2, <1>1, <1>3 DEF Pending
  <2> QED
    BY <2>1, <2>2
<1> QED
  BY <1>8, <1>9

\* A new emitter is in no pending event; the first one brings a new registration.
LEMMA MakeEmitterStep ==
  ASSUME DeferInv, NEW e \in Emitters, MakeEmitter(e)
  PROVE  DeferInv'
<1>1. live' = live \cup {e} /\ UNCHANGED <<ring, current>>
  BY DEF MakeEmitter
<1>2. emit_id' = IF emit_id = 0 THEN FreshId ELSE emit_id
  BY DEF MakeEmitter
<1>3. FreshId \in Ids
  BY FreshIdExists DEF DeferInv
<1>4. DeferType'
  BY <1>1, <1>2, <1>3 DEF DeferInv, DeferType
<1>5. PrototypeKept'
  BY <1>2, <1>3, EventsAssumption DEF PrototypeKept, Ids
<1>6. LiveEventsNotSkipped'
  <2>1. \A i \in DOMAIN ring : ring[i].obj # e
    BY DEF MakeEmitter
  <2>2. emit_id = 0 => live = {}
    BY DEF DeferInv, PrototypeKept
  <2> QED
    BY <1>1, <1>2, <2>1, <2>2 DEF DeferInv, LiveEventsNotSkipped
<1> QED
  BY <1>1, <1>4, <1>5, <1>6 DEF DeferInv

\* An event is deferred for an emitter that lives, with the registration there is.
LEMMA DeferStep ==
  ASSUME DeferInv, NEW e \in Emitters, NEW name \in Names, Defer(e, name)
  PROVE  DeferInv'
<1> DEFINE item == [obj |-> e, name |-> name, id |-> emit_id]
<1>1. UNCHANGED <<live, emit_id, current>> /\ e \in live
  BY DEF Defer
<1>2. CASE ~Room
  BY <1>1, <1>2 DEF Defer, DeferInv, DeferType, PrototypeKept, LiveEventsNotSkipped
<1>3. CASE Room
  <2>1. ring' = Append(ring, item) /\ Len(ring) < RingItems
    BY <1>3 DEF Defer, Room
  <2>2. item \in Deferred
    BY <1>1 DEF DeferInv, DeferType, PrototypeKept, Deferred
  <2>3. /\ ring' \in Seq(Deferred) /\ Len(ring') = Len(ring) + 1
        /\ \A i \in DOMAIN ring' : (i \in DOMAIN ring /\ ring'[i] = ring[i]) \/ ring'[i] = item
    <3> HIDE DEF item
    <3> QED
      BY <2>1, <2>2 DEF DeferInv, DeferType
  <2>4. DeferType'
    BY <1>1, <2>1, <2>3, EventsAssumption DEF DeferInv, DeferType
  <2>5. LiveEventsNotSkipped'
    BY <1>1, <2>3 DEF DeferInv, LiveEventsNotSkipped
  <2> QED
    BY <1>1, <2>4, <2>5 DEF DeferInv, PrototypeKept
<1> QED
  BY <1>2, <1>3

\* The oldest event is taken out: skipped, cancelled or emitted.
LEMMA TakeStep ==
  ASSUME DeferInv, SkipDeferred \/ CancelDeferred \/ EmitDeferred
  PROVE  DeferInv'
<1>1. ring' = Tail(ring) /\ ring # <<>> /\ current = <<>> /\ UNCHANGED <<live, emit_id>>
  BY DEF SkipDeferred, CancelDeferred, EmitDeferred, Idle
<1>2. current' = current \/ current' = <<Head(ring)>>
  BY DEF SkipDeferred, CancelDeferred, EmitDeferred
<1>3. /\ ring' \in Seq(Deferred) /\ Len(ring') = Len(ring) - 1 /\ Head(ring) \in Deferred
      /\ \A i \in DOMAIN ring' : i + 1 \in DOMAIN ring /\ ring'[i] = ring[i + 1]
  BY <1>1 DEF DeferInv, DeferType
<1>4. current' \in Seq(Deferred) /\ Len(current') <= 1
  <2>1. CASE current' = current
    BY <2>1 DEF DeferInv, DeferType
  <2>2. CASE current' = <<Head(ring)>>
    <3>1. <<Head(ring)>> \in Seq(Deferred) /\ Len(<<Head(ring)>>) = 1
      BY <1>3
    <3> QED
      BY <2>2, <3>1
  <2> QED
    BY <1>2, <2>1, <2>2
<1>5. DeferType'
  BY <1>1, <1>3, <1>4, EventsAssumption DEF DeferInv, DeferType
<1>6. LiveEventsNotSkipped'
  BY <1>1, <1>3 DEF DeferInv, LiveEventsNotSkipped
<1> QED
  BY <1>1, <1>5, <1>6 DEF DeferInv, PrototypeKept

\* The event has been handled.
LEMMA PostStep ==
  ASSUME DeferInv, Post
  PROVE  DeferInv'
<1>1. current' = <<>> /\ UNCHANGED <<live, emit_id, ring>>
  BY DEF Post
<1>2. current' \in Seq(Deferred) /\ Len(current') <= 1
  BY <1>1, EmptySeq
<1> QED
  BY <1>1, <1>2 DEF DeferInv, DeferType, PrototypeKept, LiveEventsNotSkipped

\* Collection takes away emitters first and the registration after the last.
LEMMA CollectStep ==
  ASSUME DeferInv, CollectPrototype \/ \E e \in Emitters : Collect(e)
  PROVE  DeferInv'
<1>1. UNCHANGED <<ring, current>>
  BY DEF CollectPrototype, Collect
<1>2. CASE CollectPrototype
  BY <1>1, <1>2 DEF CollectPrototype, DeferInv, DeferType, PrototypeKept,
                    LiveEventsNotSkipped
<1>3. CASE \E e \in Emitters : Collect(e)
  <2>1. live' \subseteq live /\ emit_id' = emit_id
    BY <1>3 DEF Collect
  <2> QED
    BY <1>1, <2>1 DEF DeferInv, DeferType, PrototypeKept, LiveEventsNotSkipped
<1> QED
  BY <1>2, <1>3

\* No other step touches deferred events: they are about lists and emissions.
LEMMA OtherStep ==
  ASSUME DeferInv, UNCHANGED <<live, emit_id, ring, current>>
  PROVE  DeferInv'
BY DEF DeferInv, DeferType, PrototypeKept, LiveEventsNotSkipped

\* The inductive invariant, of zjs_defer_emit_event_priv, emit_event_callback and the
\* prototype: until something undefined happens and after it.
THEOREM DeferInvariant == Spec => []DeferInv
<1>1. Init => DeferInv
  BY EventsAssumption DEF Init, DeferInv, DeferType, PrototypeKept, LiveEventsNotSkipped
<1>2. DeferInv /\ [Next]_vars => DeferInv'
  <2> SUFFICES ASSUME DeferInv, [Next]_vars
               PROVE  DeferInv'
    OBVIOUS
  <2>1. CASE \E e \in Emitters : MakeEmitter(e)
    BY <2>1, MakeEmitterStep
  <2>2. CASE \E e \in Emitters : DestroyEmitter(e)
    BY <2>2, OtherStep DEF DestroyEmitter
  <2>3. CASE \E e \in Emitters, name \in Names :
               \/ OnFails(e, name) \/ RemoveAllListeners(e, name) \/ Emit(e, name)
               \/ \E f \in Funcs : On(e, name, f) \/ RemoveListener(e, name, f)
    <3>1. ASSUME NEW e \in Emitters, NEW name \in Names, OnFails(e, name)
          PROVE  DeferInv'
      BY <3>1, OtherStep DEF OnFails
    <3>2. ASSUME NEW e \in Emitters, NEW name \in Names, RemoveAllListeners(e, name)
          PROVE  DeferInv'
      BY <3>2, OtherStep DEF RemoveAllListeners
    <3>3. ASSUME NEW e \in Emitters, NEW name \in Names, Emit(e, name)
          PROVE  DeferInv'
      BY <3>3, OtherStep DEF Emit
    <3>4. ASSUME NEW e \in Emitters, NEW name \in Names, NEW f \in Funcs, On(e, name, f)
          PROVE  DeferInv'
      BY <3>4, OtherStep DEF On
    <3>5. ASSUME NEW e \in Emitters, NEW name \in Names, NEW f \in Funcs, RemoveListener(e, name, f)
          PROVE  DeferInv'
      BY <3>5, OtherStep DEF RemoveListener
    <3> QED
      BY <2>3, <3>1, <3>2, <3>3, <3>4, <3>5
  <2>4. CASE CallNext \/ EndEmission
    BY <2>4, OtherStep DEF CallNext, EndEmission
  <2>5. CASE SkipDeferred \/ CancelDeferred \/ EmitDeferred
    BY <2>5, TakeStep
  <2>6. CASE Post
    BY <2>6, PostStep
  <2>7. CASE \E e \in Emitters, name \in Names : Defer(e, name)
    BY <2>7, DeferStep
  <2>8. CASE CollectPrototype \/ \E e \in Emitters : Collect(e)
    BY <2>8, CollectStep
  <2>9. CASE Undefined \/ Faulted \/ UNCHANGED vars
    BY <2>9, OtherStep DEF Undefined, Faulted
  <2> QED
    BY <2>1, <2>2, <2>3, <2>4, <2>5, <2>6, <2>7, <2>8, <2>9 DEF Next, Scripts, Main, Others
<1> QED
  BY <1>1, <1>2, PTL DEF Spec

\* A deferred event of an emitter that lives is not skipped: its registration is the
\* one emit_event_callback has now (emit_id, zjs_event.c:46-48, 476).
THEOREM NotSkipped == Spec => []LiveEventsNotSkipped
BY DeferInvariant, PTL DEF DeferInv

-----------------------------------------------------------------------------
(***************************************************************************)
(* The lists of listeners and the emissions that walk them.                *)
(***************************************************************************)

\* Listener n is in the list of the event at place i of emitter e.
In(n, e, i) == i \in DOMAIN events[e] /\ n \in Elements(events[e][i].listeners)

Type ==
  /\ live \subseteq Emitters
  /\ events \in [Emitters -> Seq(EventRecord)]
  /\ added \in 0 .. MaxListeners
  /\ DOMAIN func \subseteq 1 .. added /\ \A n \in DOMAIN func : func[n] \in Funcs
  /\ fault \in {"none", "freed_listener", "freed_event", "stale_object"}

OneOfEachName ==
  \A e \in Emitters : \A i, j \in DOMAIN events[e] : events[e][i].name = events[e][j].name => i = j

ListsInOrder == \A e \in Emitters : \A i \in DOMAIN events[e] : Increasing(events[e][i].listeners)

\* A listener is in one list, and in a list as long as it is allocated.
OneListEach ==
  \A n \in DOMAIN func : \A d, e \in Emitters : \A i \in DOMAIN events[d], j \in DOMAIN events[e] :
    In(n, d, i) /\ In(n, e, j) => d = e /\ i = j

ListedAllocated ==
  \A e \in Emitters : \A i \in DOMAIN events[e] : Elements(events[e][i].listeners) \subseteq DOMAIN func

AllocatedListed == \A n \in DOMAIN func : \E e \in Emitters : \E i \in DOMAIN events[e] : In(n, e, i)

DeadAreEmpty == \A e \in Emitters \ live : events[e] = <<>>

ListInv ==
  /\ Type /\ OneOfEachName /\ ListsInOrder /\ OneListEach /\ ListedAllocated /\ AllocatedListed
  /\ DeadAreEmpty

FrameType == [obj : Emitters, name : Names, calls : Seq(1 .. MaxListeners)]

Latest(f) == f.calls[Len(f.calls)]

\* An emission is at the event at place p: the listener called is in its list until it is
\* freed, and so far the emission has called all that precede it there.
At(f, p) ==
  /\ p \in DOMAIN events[f.obj] /\ events[f.obj][p].name = f.name
  /\ Latest(f) \in DOMAIN func => In(Latest(f), f.obj, p)
  /\ \A n \in 1 .. MaxListeners : In(n, f.obj, p) /\ n <= Latest(f) => n \in Elements(f.calls)

FrameOK(f) ==
  /\ f.obj \in live /\ f.calls # <<>> /\ Increasing(f.calls)
  /\ Latest(f) <= added
  /\ \E p \in DOMAIN events[f.obj] : At(f, p)

FramesOK == \A d \in DOMAIN stack : FrameOK(stack[d])

WalkInv == stack \in Seq(FrameType) /\ Len(stack) <= MaxDepth /\ FramesOK

EventsInv == ListInv /\ WalkInv

-----------------------------------------------------------------------------
\* Lemmas about lists.
LEMMA AppendList ==
  ASSUME NEW T, NEW s \in Seq(T), NEW x \in T
  PROVE  /\ Append(s, x) \in Seq(T) /\ Len(Append(s, x)) = Len(s) + 1
         /\ Append(s, x) # <<>> /\ Append(s, x)[Len(s) + 1] = x
         /\ \A i \in DOMAIN s : Append(s, x)[i] = s[i]
         /\ Elements(Append(s, x)) = Elements(s) \cup {x}
<1>1. /\ Append(s, x) \in Seq(T) /\ Len(Append(s, x)) = Len(s) + 1
      /\ DOMAIN Append(s, x) = 1 .. Len(s) + 1 /\ DOMAIN s = 1 .. Len(s) /\ Len(s) \in Nat
      /\ Append(s, x)[Len(s) + 1] = x
      /\ \A i \in 1 .. Len(s) : Append(s, x)[i] = s[i]
  OBVIOUS
<1>2. Append(s, x) # <<>>
  BY <1>1, EmptySeq
<1> DEFINE t == Append(s, x)
<1> HIDE DEF t
<1>3. 1 .. Len(s) + 1 = (1 .. Len(s)) \cup {Len(s) + 1}
  BY <1>1
<1>4. {t[i] : i \in 1 .. Len(s) + 1} = {s[i] : i \in 1 .. Len(s)} \cup {x}
  <2>1. t[Len(s) + 1] = x /\ \A i \in 1 .. Len(s) : t[i] = s[i]
    BY <1>1 DEF t
  <2> QED
    BY <1>3, <2>1
<1>5. DOMAIN t = 1 .. Len(s) + 1 /\ DOMAIN s = 1 .. Len(s)
  BY <1>1 DEF t
<1>6. Elements(t) = Elements(s) \cup {x}
  BY <1>4, <1>5 DEF Elements
<1> QED
  BY <1>1, <1>2, <1>6 DEF t

LEMMA AppendInOrder ==
  ASSUME NEW s \in Seq(Int), NEW x \in Int, Increasing(s), \A i \in DOMAIN s : s[i] < x
  PROVE  Increasing(Append(s, x))
<1> DEFINE t == Append(s, x)
<1>1. /\ t \in Seq(Int) /\ Len(t) = Len(s) + 1 /\ t[Len(s) + 1] = x /\ Len(s) \in Nat
      /\ \A i \in DOMAIN s : t[i] = s[i]
  BY AppendList
<1>2. DOMAIN t = 1 .. Len(s) + 1 /\ DOMAIN s = 1 .. Len(s)
  BY <1>1
<1> HIDE DEF t
<1>3. ASSUME NEW i \in DOMAIN t, NEW j \in DOMAIN t, i < j
      PROVE  t[i] < t[j]
  <2>1. i \in DOMAIN s /\ t[i] = s[i]
    BY <1>1, <1>2, <1>3
  <2>2. CASE j = Len(s) + 1
    BY <1>1, <2>1, <2>2
  <2>3. CASE j # Len(s) + 1
    <3>1. j \in DOMAIN s /\ t[j] = s[j]
      BY <1>1, <1>2, <2>3
    <3> QED
      BY <1>3, <2>1, <3>1 DEF Increasing
  <2> QED
    BY <2>2, <2>3
<1> QED
  BY <1>3 DEF t, Increasing

\* In a list in order, a place is known by what is there, and later is greater.
LEMMA OrderedPlaces ==
  ASSUME NEW s \in Seq(Int), Increasing(s), NEW i \in DOMAIN s, NEW j \in DOMAIN s
  PROVE  (s[i] = s[j] => i = j) /\ (s[i] <= s[j] => i <= j)
<1>1. /\ i \in Int /\ j \in Int /\ s[i] \in Int /\ s[j] \in Int
      /\ (i < j => s[i] < s[j]) /\ (j < i => s[j] < s[i])
  BY LenProperties DEF Increasing
<1> QED
  BY <1>1

LEMMA RemoveFromList ==
  ASSUME NEW T, T \subseteq Int, NEW s \in Seq(T), Increasing(s), NEW i \in DOMAIN s
  PROVE  /\ RemoveAt(s, i) \in Seq(T) /\ Increasing(RemoveAt(s, i))
         /\ Elements(RemoveAt(s, i)) = Elements(s) \ {s[i]}
<1> DEFINE a == SubSeq(s, 1, i - 1)
           b == SubSeq(s, i + 1, Len(s))
           t == RemoveAt(s, i)
<1>1. Len(s) \in Nat /\ DOMAIN s = 1 .. Len(s) /\ i \in 1 .. Len(s) /\ s \in [DOMAIN s -> T]
  BY LenProperties
<1>2. \A k \in DOMAIN s : s[k] \in T
  BY <1>1
<1>3. /\ a \in Seq(T) /\ Len(a) = i - 1 /\ \A k \in 1 .. i - 1 : a[k] = s[k]
  <2>1. \A k \in 1 .. i - 1 : s[k] \in T
    BY <1>1, <1>2
  <2>2. 1 \in Int /\ i - 1 \in Int
    BY <1>1
  <2>3. /\ a \in Seq(T) /\ Len(a) = (IF 1 <= i - 1 THEN i - 1 - 1 + 1 ELSE 0)
        /\ \A k \in 1 .. i - 1 - 1 + 1 : a[k] = s[1 + k - 1]
    BY <2>1, <2>2, SubSeqProperties
  <2>4. /\ i - 1 - 1 + 1 = i - 1 /\ (IF 1 <= i - 1 THEN i - 1 - 1 + 1 ELSE 0) = i - 1
        /\ \A k \in 1 .. i - 1 : 1 + k - 1 = k
    BY <1>1
  <2> HIDE DEF a
  <2> QED
    BY <2>3, <2>4
<1>4. /\ b \in Seq(T) /\ Len(b) = Len(s) - i /\ \A k \in 1 .. Len(s) - i : b[k] = s[i + k]
  <2>1. \A k \in i + 1 .. Len(s) : s[k] \in T
    BY <1>1, <1>2
  <2>2. i + 1 \in Int /\ Len(s) \in Int
    BY <1>1
  <2>3. /\ b \in Seq(T) /\ Len(b) = (IF i + 1 <= Len(s) THEN Len(s) - (i + 1) + 1 ELSE 0)
        /\ \A k \in 1 .. Len(s) - (i + 1) + 1 : b[k] = s[i + 1 + k - 1]
    BY <2>1, <2>2, SubSeqProperties
  <2>4. Len(s) - (i + 1) + 1 = Len(s) - i /\ \A k \in 1 .. Len(s) - i : i + 1 + k - 1 = i + k
    BY <1>1
  <2>5. (IF i + 1 <= Len(s) THEN Len(s) - (i + 1) + 1 ELSE 0) = Len(s) - i
    <3>1. i \in Int /\ Len(s) \in Int /\ i <= Len(s)
      BY <1>1
    <3> QED
      BY <3>1
  <2> HIDE DEF b
  <2> QED
    BY <2>3, <2>4, <2>5
<1> HIDE DEF a, b
<1>5. /\ t = a \o b /\ t \in Seq(T) /\ Len(t) = Len(s) - 1
      /\ \A k \in 1 .. Len(s) - 1 : t[k] = IF k <= i - 1 THEN a[k] ELSE b[k - (i - 1)]
  <2>1. t = a \o b
    BY DEF RemoveAt, a, b
  <2>2. /\ a \o b \in Seq(T) /\ Len(a \o b) = Len(a) + Len(b)
        /\ \A k \in 1 .. Len(a) + Len(b) : (a \o b)[k] = IF k <= Len(a) THEN a[k] ELSE b[k - Len(a)]
    BY <1>3, <1>4, ConcatProperties
  <2>3. Len(a) = i - 1 /\ Len(a) + Len(b) = Len(s) - 1
    BY <1>1, <1>3, <1>4
  <2> HIDE DEF t
  <2> QED
    BY <2>1, <2>2, <2>3
<1>6. DOMAIN t = 1 .. Len(s) - 1
  BY <1>1, <1>5, LenProperties
<1> HIDE DEF t
<1>7. \A k \in 1 .. Len(s) - 1 : t[k] = IF k < i THEN s[k] ELSE s[k + 1]
  <2> SUFFICES ASSUME NEW k \in 1 .. Len(s) - 1
               PROVE  t[k] = IF k < i THEN s[k] ELSE s[k + 1]
    OBVIOUS
  <2>1. CASE k < i
    <3>1. k \in 1 .. i - 1 /\ k <= i - 1
      BY <1>1, <2>1
    <3> QED
      BY <1>3, <1>5, <2>1, <3>1
  <2>2. CASE ~(k < i)
    <3>1. ~(k <= i - 1) /\ k - (i - 1) \in 1 .. Len(s) - i /\ i + (k - (i - 1)) = k + 1
      BY <1>1, <2>2
    <3>2. t[k] = b[k - (i - 1)] /\ b[k - (i - 1)] = s[i + (k - (i - 1))]
      BY <1>4, <1>5, <3>1
    <3> QED
      BY <2>2, <3>1, <3>2
  <2> QED
    BY <2>1, <2>2
<1>8. Increasing(t)
  <2> SUFFICES ASSUME NEW j \in DOMAIN t, NEW k \in DOMAIN t, j < k
               PROVE  t[j] < t[k]
    BY DEF Increasing
  <2>1. PICK j2 \in DOMAIN s : t[j] = s[j2] /\ j2 = IF j < i THEN j ELSE j + 1
    BY <1>1, <1>6, <1>7
  <2>2. PICK k2 \in DOMAIN s : t[k] = s[k2] /\ k2 = IF k < i THEN k ELSE k + 1
    BY <1>1, <1>6, <1>7
  <2>3. j2 < k2
    BY <1>1, <1>6, <2>1, <2>2
  <2> QED
    BY <2>1, <2>2, <2>3 DEF Increasing
<1>9. Elements(t) = Elements(s) \ {s[i]}
  <2>1. ASSUME NEW k \in DOMAIN t
        PROVE  t[k] \in Elements(s) \ {s[i]}
    <3>1. PICK k2 \in DOMAIN s : t[k] = s[k2] /\ k2 # i
      BY <1>1, <1>6, <1>7
    <3>2. s \in Seq(Int)
      BY <1>1, <1>2
    <3>3. s[k2] # s[i]
      BY <3>1, <3>2, OrderedPlaces
    <3> QED
      BY <3>1, <3>3 DEF Elements
  <2>2. ASSUME NEW k \in DOMAIN s, s[k] # s[i]
        PROVE  s[k] \in Elements(t)
    <3>1. k # i /\ k \in Int /\ i \in Int
      BY <1>1, <2>2
    <3>2. PICK k2 \in DOMAIN t : t[k2] = s[k]
      <4>1. CASE k < i
        <5>1. k \in DOMAIN t /\ t[k] = s[k]
          BY <1>1, <1>6, <1>7, <4>1
        <5> QED
          BY <5>1
      <4>2. CASE k > i
        <5>1. k - 1 \in DOMAIN t /\ ~(k - 1 < i) /\ (k - 1) + 1 = k
          BY <1>1, <1>6, <4>2
        <5>2. t[k - 1] = s[(k - 1) + 1]
          BY <1>6, <1>7, <5>1
        <5> QED
          BY <5>1, <5>2
      <4> QED
        BY <3>1, <4>1, <4>2
    <3> QED
      BY <3>2 DEF Elements
  <2> QED
    BY <2>1, <2>2 DEF Elements
<1> QED
  BY <1>5, <1>8, <1>9 DEF t

-----------------------------------------------------------------------------
\* What a step does to lists: listeners leave theirs as they are freed, and a new one
\* comes to place p of emitter e.
Change(e, p) ==
  /\ added' \in {added, added + 1}
  /\ \A n \in DOMAIN func' : n \in DOMAIN func \/ (n = added + 1 /\ n = added' /\ In(n, e, p)')
  /\ \A n \in 1 .. MaxListeners, x \in Emitters, i \in Nat :
       /\ In(n, x, i)' => \/ In(n, x, i) /\ n \in DOMAIN func'
                          \/ n = added + 1 /\ n \in DOMAIN func' /\ x = e /\ i = p
       /\ In(n, x, i) /\ n \in DOMAIN func' => In(n, x, i)'

\* The events of an emitter keep their places.
KeepsPlaces(e) ==
  \A i \in DOMAIN events[e] : i \in DOMAIN events'[e] /\ events'[e][i].name = events[e][i].name

LEMMA InTyped ==
  ASSUME Type, NEW n, NEW e \in Emitters, NEW i, In(n, e, i)
  PROVE  n \in 1 .. MaxListeners /\ i \in Nat
<1>1. events[e] \in Seq(EventRecord) /\ i \in DOMAIN events[e]
  BY DEF Type, In
<1>2. i \in Nat /\ events[e][i] \in EventRecord
  BY <1>1
<1>3. events[e][i].listeners \in Seq(1 .. MaxListeners)
  BY <1>2 DEF EventRecord
<1>4. PICK k \in DOMAIN events[e][i].listeners : n = events[e][i].listeners[k]
  BY DEF In, Elements
<1> DEFINE l == events[e][i].listeners
<1>5. l \in [1 .. Len(l) -> 1 .. MaxListeners] /\ DOMAIN l = 1 .. Len(l)
  BY <1>3, LenProperties
<1> HIDE DEF l
<1>6. \A j \in DOMAIN l : l[j] \in 1 .. MaxListeners
  BY <1>5
<1> QED
  BY <1>2, <1>4, <1>6 DEF l

LEMMA ListedIsAllocated ==
  ASSUME Type, ListedAllocated, NEW n, NEW e \in Emitters, NEW i, In(n, e, i)
  PROVE  n \in DOMAIN func /\ n \in 1 .. added
BY DEF Type, ListedAllocated, In

LEMMA ChangeStep ==
  ASSUME ListInv, NEW e \in Emitters, NEW p \in Nat, Change(e, p),
         Type', OneOfEachName', ListsInOrder', DeadAreEmpty'
  PROVE  ListInv'
<1>1. \A n, x, i : x \in Emitters /\ In(n, x, i)' => n \in 1 .. MaxListeners /\ i \in Nat
  <2> SUFFICES ASSUME NEW n, NEW x \in Emitters, NEW i, In(n, x, i)'
               PROVE  n \in 1 .. MaxListeners /\ i \in Nat
    OBVIOUS
  <2>1. events'[x] \in Seq(EventRecord) /\ i \in DOMAIN events'[x]
    BY DEF Type, In
  <2>2. i \in Nat /\ events'[x][i] \in EventRecord
    BY <2>1
  <2>3. events'[x][i].listeners \in Seq(1 .. MaxListeners)
    BY <2>2 DEF EventRecord
  <2>4. PICK k \in DOMAIN events'[x][i].listeners : n = events'[x][i].listeners[k]
    BY DEF In, Elements
  <2> DEFINE l == events'[x][i].listeners
  <2>5. l \in [1 .. Len(l) -> 1 .. MaxListeners] /\ DOMAIN l = 1 .. Len(l)
    BY <2>3, LenProperties
  <2> HIDE DEF l
  <2>6. \A j \in DOMAIN l : l[j] \in 1 .. MaxListeners
    BY <2>5
  <2> QED
    BY <2>2, <2>4, <2>6 DEF l
<1>2. \A n, x, i : x \in Emitters /\ In(n, x, i) => n \in DOMAIN func /\ n \in 1 .. added
  BY ListedIsAllocated DEF ListInv
<1>3. added \in Nat
  BY EventsAssumption DEF ListInv, Type
<1>4. ListedAllocated'
  <2> SUFFICES ASSUME NEW x \in Emitters, NEW i \in DOMAIN events'[x],
                      NEW n \in Elements(events'[x][i].listeners)
               PROVE  n \in DOMAIN func'
    BY DEF ListedAllocated
  <2>1. In(n, x, i)'
    BY DEF In
  <2> QED
    BY <2>1, <1>1 DEF Change
<1>5. AllocatedListed'
  <2> SUFFICES ASSUME NEW n \in DOMAIN func'
               PROVE  \E x \in Emitters : \E i \in DOMAIN events'[x] : In(n, x, i)'
    BY DEF AllocatedListed
  <2>1. \E x \in Emitters : \E i : In(n, x, i)'
    <3>1. CASE n \in DOMAIN func
      <4>1. PICK x \in Emitters : \E i \in DOMAIN events[x] : In(n, x, i)
        BY <3>1 DEF ListInv, AllocatedListed
      <4>2. PICK i \in DOMAIN events[x] : In(n, x, i)
        BY <4>1
      <4>3. n \in 1 .. MaxListeners /\ i \in Nat
        BY <4>2, InTyped DEF ListInv
      <4> QED
        BY <4>2, <4>3 DEF Change
    <3>2. CASE n \notin DOMAIN func
      BY <3>2 DEF Change
    <3> QED
      BY <3>1, <3>2
  <2>2. PICK x \in Emitters : \E i : In(n, x, i)'
    BY <2>1
  <2>3. PICK i : In(n, x, i)'
    BY <2>2
  <2>4. i \in DOMAIN events'[x]
    BY <2>3 DEF In
  <2> QED
    BY <2>3, <2>4
<1>6. OneListEach'
  <2> SUFFICES ASSUME NEW n \in DOMAIN func', NEW c \in Emitters, NEW d \in Emitters,
                      NEW i \in DOMAIN events'[c], NEW j \in DOMAIN events'[d],
                      In(n, c, i)', In(n, d, j)'
               PROVE  c = d /\ i = j
    BY DEF OneListEach
  <2>1. n \in 1 .. MaxListeners /\ i \in Nat /\ j \in Nat
    BY <1>1
  <2>2. \/ In(n, c, i)
        \/ n = added + 1 /\ c = e /\ i = p
    BY <2>1 DEF Change
  <2>3. \/ In(n, d, j)
        \/ n = added + 1 /\ d = e /\ j = p
    BY <2>1 DEF Change
  <2>4. CASE In(n, c, i) /\ In(n, d, j)
    <3>1. i \in DOMAIN events[c] /\ j \in DOMAIN events[d] /\ n \in DOMAIN func
      BY <2>4, <1>2 DEF In
    <3> QED
      BY <2>4, <3>1 DEF ListInv, OneListEach
  <2>5. (In(n, c, i) \/ In(n, d, j)) => n # added + 1
    BY <1>2, <1>3
  <2> QED
    BY <2>2, <2>3, <2>4, <2>5
<1> QED
  BY <1>4, <1>5, <1>6 DEF ListInv

\* An emission under way survives a change of the lists.
LEMMA FrameStep ==
  ASSUME ListInv, ListInv', NEW e \in Emitters, NEW p \in Nat, Change(e, p),
         NEW f \in FrameType, FrameOK(f), f.obj \in live', KeepsPlaces(f.obj)
  PROVE  FrameOK(f)'
<1>1. f.obj \in Emitters /\ f.calls \in Seq(1 .. MaxListeners)
  BY DEF FrameType
<1>2. PICK q \in DOMAIN events[f.obj] : At(f, q)
  BY DEF FrameOK
<1> DEFINE m == Latest(f)
<1>3. m \in 1 .. MaxListeners
  <2>1. Len(f.calls) \in 1 .. Len(f.calls)
    BY <1>1, EmptySeq, LenProperties DEF FrameOK
  <2> QED
    BY <1>1, <2>1, ElementOfSeq DEF Latest
<1>4. m <= added /\ added \in Nat /\ added' \in {added, added + 1}
  BY EventsAssumption DEF FrameOK, ListInv, Type, Change
<1>5. q \in Nat /\ events[f.obj] \in Seq(EventRecord)
  <2>1. events[f.obj] \in Seq(EventRecord)
    BY <1>1 DEF ListInv, Type
  <2> QED
    BY <2>1
<1> HIDE DEF m
<1>6. q \in DOMAIN events'[f.obj] /\ events'[f.obj][q].name = f.name
  BY <1>2 DEF KeepsPlaces, At
<1>7. m \in DOMAIN func' => In(m, f.obj, q)'
  <2> SUFFICES ASSUME m \in DOMAIN func'
               PROVE  In(m, f.obj, q)'
    OBVIOUS
  <2>1. m # added + 1
    BY <1>3, <1>4
  <2>2. m \in DOMAIN func
    BY <2>1 DEF Change
  <2>3. In(m, f.obj, q)
    BY <1>2, <2>2 DEF At, m
  <2> QED
    BY <1>1, <1>3, <1>5, <2>3 DEF Change
<1>8. ASSUME NEW n \in 1 .. MaxListeners, In(n, f.obj, q)', n <= m
      PROVE  n \in Elements(f.calls)
  <2>1. n # added + 1
    BY <1>3, <1>4, <1>8
  <2>2. In(n, f.obj, q)
    BY <1>1, <1>5, <1>8, <2>1 DEF Change
  <2> QED
    BY <1>2, <1>8, <2>2 DEF At, m
<1>9. At(f, q)'
  BY <1>6, <1>7, <1>8 DEF At, m, Latest
<1>10. (Latest(f) <= added)'
  BY <1>3, <1>4 DEF m, Latest
<1> QED
  BY <1>6, <1>9, <1>10 DEF FrameOK

-----------------------------------------------------------------------------
\* The steps that change lists.  The place of a name is the only one it has.
LEMMA PlaceOfName ==
  ASSUME OneOfEachName, NEW e \in Emitters, NEW p \in DOMAIN events[e]
  PROVE  Place(e, events[e][p].name) = p
BY DEF OneOfEachName, Place

\* One list is set.
LEMMA SetList ==
  ASSUME ListInv, NEW e \in Emitters, NEW p \in DOMAIN events[e],
         NEW l \in Seq(1 .. MaxListeners), Increasing(l),
         events' = [events EXCEPT ![e][p].listeners = l], live' = live
  PROVE  /\ events' \in [Emitters -> Seq(EventRecord)]
         /\ \A x \in Emitters : DOMAIN events'[x] = DOMAIN events[x]
         /\ \A x \in Emitters : KeepsPlaces(x)
         /\ OneOfEachName' /\ ListsInOrder' /\ (e \in live => DeadAreEmpty')
         /\ \A n, x, i : x \in Emitters =>
              (In(n, x, i)' <=> IF x = e /\ i = p THEN n \in Elements(l) ELSE In(n, x, i))
<1>1. events \in [Emitters -> Seq(EventRecord)] /\ events[e] \in Seq(EventRecord)
  BY DEF ListInv, Type
<1>2. p \in 1 .. Len(events[e]) /\ events[e][p] \in EventRecord
  BY <1>1
<1> DEFINE r == [events[e][p] EXCEPT !.listeners = l]
           s == [events[e] EXCEPT ![p] = r]
<1>3. r \in EventRecord /\ r.listeners = l /\ r.name = events[e][p].name
  BY <1>2 DEF EventRecord
<1>4. events' = [events EXCEPT ![e] = s]
  OBVIOUS
<1> HIDE DEF r
<1>5. s \in Seq(EventRecord) /\ DOMAIN s = DOMAIN events[e]
  BY <1>1, <1>2, <1>3, ExceptSeq
<1>6. s[p] = r /\ \A i \in DOMAIN events[e] : i # p => s[i] = events[e][i]
  BY <1>1
<1> HIDE DEF s
<1>7. \A x \in Emitters : events'[x] = IF x = e THEN s ELSE events[x]
  BY <1>1, <1>4
<1>8. events' \in [Emitters -> Seq(EventRecord)]
  BY <1>1, <1>4, <1>5
<1>9. \A x \in Emitters : /\ DOMAIN events'[x] = DOMAIN events[x]
                          /\ \A i \in DOMAIN events[x] : events'[x][i].name = events[x][i].name
  BY <1>3, <1>5, <1>6, <1>7
<1>10. \A x \in Emitters : \A i \in DOMAIN events[x] :
         events'[x][i].listeners = IF x = e /\ i = p THEN l ELSE events[x][i].listeners
  BY <1>3, <1>5, <1>6, <1>7
<1>11. OneOfEachName'
  BY <1>9 DEF OneOfEachName, ListInv
<1>12. ListsInOrder'
  BY <1>9, <1>10 DEF ListsInOrder, ListInv
<1>13. e \in live => DeadAreEmpty'
  BY <1>7 DEF DeadAreEmpty, ListInv
<1>14. ASSUME NEW n, NEW x \in Emitters, NEW i
       PROVE  In(n, x, i)' <=> IF x = e /\ i = p THEN n \in Elements(l) ELSE In(n, x, i)
  BY <1>9, <1>10 DEF In
<1> QED
  BY <1>8, <1>9, <1>11, <1>12, <1>13, <1>14 DEF KeepsPlaces

\* An event is added, with a name that is new.
LEMMA AddEvent ==
  ASSUME ListInv, NEW e \in live, NEW r \in EventRecord, Increasing(r.listeners),
         \A i \in DOMAIN events[e] : events[e][i].name # r.name,
         events' = [events EXCEPT ![e] = Append(@, r)], live' = live
  PROVE  /\ events' \in [Emitters -> Seq(EventRecord)]
         /\ \A x \in Emitters : KeepsPlaces(x)
         /\ OneOfEachName' /\ ListsInOrder' /\ DeadAreEmpty'
         /\ \A n, x, i : x \in Emitters =>
              (In(n, x, i)' <=> IF x = e /\ i = Len(events[e]) + 1 THEN n \in Elements(r.listeners)
                                                                   ELSE In(n, x, i))
<1>1. events \in [Emitters -> Seq(EventRecord)] /\ events[e] \in Seq(EventRecord) /\ e \in Emitters
  BY DEF ListInv, Type
<1> DEFINE s == Append(events[e], r)
           p == Len(events[e]) + 1
<1>2. /\ s \in Seq(EventRecord) /\ Len(s) = p /\ s[p] = r
      /\ \A i \in DOMAIN events[e] : s[i] = events[e][i]
  BY <1>1, AppendList
<1>3. DOMAIN s = DOMAIN events[e] \cup {p} /\ p \notin DOMAIN events[e]
  BY <1>1, <1>2
<1>4. events' = [events EXCEPT ![e] = s]
  OBVIOUS
<1> HIDE DEF s, p
<1>5. \A x \in Emitters : events'[x] = IF x = e THEN s ELSE events[x]
  BY <1>1, <1>4
<1>6. events' \in [Emitters -> Seq(EventRecord)]
  BY <1>1, <1>2, <1>4
<1>7. \A x \in Emitters : KeepsPlaces(x)
  BY <1>2, <1>3, <1>5 DEF KeepsPlaces
<1>8. OneOfEachName'
  <2> SUFFICES ASSUME NEW x \in Emitters, NEW i \in DOMAIN events'[x], NEW j \in DOMAIN events'[x],
                      events'[x][i].name = events'[x][j].name
               PROVE  i = j
    BY DEF OneOfEachName
  <2>1. CASE x # e
    BY <1>5, <2>1 DEF ListInv, OneOfEachName
  <2>2. CASE x = e
    BY <1>1, <1>2, <1>3, <1>5, <2>2 DEF ListInv, OneOfEachName
  <2> QED
    BY <2>1, <2>2
<1>9. ListsInOrder'
  BY <1>1, <1>2, <1>3, <1>5 DEF ListInv, ListsInOrder
<1>10. DeadAreEmpty'
  BY <1>5 DEF DeadAreEmpty, ListInv
<1>11. ASSUME NEW n, NEW x \in Emitters, NEW i
       PROVE  In(n, x, i)' <=> IF x = e /\ i = p THEN n \in Elements(r.listeners) ELSE In(n, x, i)
  <2>1. CASE x # e
    BY <1>5, <2>1 DEF In
  <2>2. CASE x = e /\ i = p
    BY <1>2, <1>3, <1>5, <2>2 DEF In
  <2>3. CASE x = e /\ i # p
    <3>1. i \in DOMAIN s <=> i \in DOMAIN events[e]
      BY <1>3, <2>3
    <3>2. i \in DOMAIN events[e] => s[i] = events[e][i]
      BY <1>2
    <3> QED
      BY <1>5, <2>3, <3>1, <3>2 DEF In
  <2> QED
    BY <2>1, <2>2, <2>3
<1> QED
  BY <1>6, <1>7, <1>8, <1>9, <1>10, <1>11 DEF p

\* Listeners are freed, and leave their lists.
LEMMA Removal ==
  ASSUME ListInv, NEW nodes, DOMAIN func' = DOMAIN func \ nodes, added' = added,
         \A n, x, i : x \in Emitters => (In(n, x, i)' <=> In(n, x, i) /\ n \notin nodes),
         NEW e, NEW p
  PROVE  Change(e, p)
<1>1. \A n, x, i : x \in Emitters /\ In(n, x, i) => n \in DOMAIN func
  BY ListedIsAllocated DEF ListInv
<1> QED
  BY <1>1 DEF Change

\* Emissions under way are not disturbed by it.
LEMMA WalkStep ==
  ASSUME EventsInv, ListInv', NEW e \in Emitters, NEW p \in Nat, Change(e, p), stack' = stack,
         \A d \in DOMAIN stack : stack[d].obj \in live' /\ KeepsPlaces(stack[d].obj)
  PROVE  EventsInv'
<1>1. ASSUME NEW d \in DOMAIN stack
      PROVE  FrameOK(stack[d])'
  <2>1. PICK f \in FrameType : f = stack[d]
    BY DEF EventsInv, WalkInv
  <2>2. FrameOK(f) /\ f.obj \in live' /\ KeepsPlaces(f.obj)
    BY <2>1 DEF EventsInv, WalkInv, FramesOK
  <2>3. FrameOK(f)'
    BY <2>2, FrameStep DEF EventsInv
  <2>4. stack'[d] = f
    BY <2>1
  <2> QED
    BY <2>3, <2>4 DEF FrameOK, At, Latest
<1> QED
  BY <1>1 DEF EventsInv, WalkInv, FramesOK

\* zjs_add_event_listener.
LEMMA OnStep ==
  ASSUME EventsInv, NEW e \in Emitters, NEW name \in Names, NEW f \in Funcs, On(e, name, f)
  PROVE  EventsInv'
<1>0. PICK n : n = added + 1
  OBVIOUS
<1>1. /\ e \in live /\ ~ReadsFreed(e, name) /\ added < MaxListeners /\ added' = n
      /\ live' = live /\ stack' = stack /\ fault' = fault
      /\ func' = [m \in DOMAIN func \cup {added'} |-> IF m = added' THEN f ELSE func[m]]
  BY <1>0 DEF On
<1>2. ListInv /\ Type /\ FramesOK
  BY DEF EventsInv, ListInv, WalkInv
<1>3. added \in Nat /\ n \in 1 .. MaxListeners /\ DOMAIN func \subseteq 1 .. added
  BY <1>0, <1>1, <1>2, EventsAssumption DEF Type
<1>4. DOMAIN func' = DOMAIN func \cup {n} /\ \A m \in DOMAIN func' : func'[m] \in Funcs
  BY <1>1, <1>2 DEF Type
<1>5. DOMAIN func' \subseteq 1 .. added' /\ added' \in 0 .. MaxListeners
  BY <1>0, <1>1, <1>3, <1>4
<1>6. \A m, x, i : x \in Emitters /\ In(m, x, i) => m \in DOMAIN func /\ m # n
  <2>1. n \notin 1 .. added
    BY <1>0, <1>3
  <2>2. \A m, x, i : x \in Emitters /\ In(m, x, i) => m \in DOMAIN func /\ m \in 1 .. added
    BY <1>2, ListedIsAllocated DEF ListInv
  <2> QED
    BY <2>1, <2>2, Zenon
<1>7. \A d \in DOMAIN stack : stack[d].obj \in live' /\ stack[d].obj \in Emitters
  BY <1>1, <1>2 DEF FramesOK, FrameOK, Type
<1>8. CASE Has(e, name)
  <2>1. events' = [events EXCEPT ![e][Place(e, name)].listeners = Append(Listeners(e, name), n)]
    BY <1>1, <1>8 DEF On, SetListeners
  <2>2. PICK p \in DOMAIN events[e] : events[e][p].name = name
    BY <1>8 DEF Has
  <2>3. Place(e, name) = p
    BY <1>2, <2>2, PlaceOfName DEF ListInv
  <2>4. PICK l : l = events[e][p].listeners
    OBVIOUS
  <2>5. l \in Seq(1 .. MaxListeners) /\ p \in Nat
    <3>1. events[e] \in Seq(EventRecord)
      BY <1>2 DEF Type
    <3>2. events[e][p] \in EventRecord /\ p \in Nat
      BY <3>1
    <3> QED
      BY <2>4, <3>2 DEF EventRecord
  <2>6. Listeners(e, name) = l
    BY <2>3, <2>4 DEF Listeners
  <2>7. Increasing(l)
    BY <1>2, <2>4 DEF ListInv, ListsInOrder
  <2>8. \A k \in DOMAIN l : l[k] < n
    <3>1. \A k \in DOMAIN l : In(l[k], e, p)
      BY <2>4 DEF In, Elements
    <3>2. \A k \in DOMAIN l : l[k] \in DOMAIN func
      BY <1>6, <3>1
    <3> QED
      BY <1>0, <1>3, <3>2
  <2>9. PICK t : t = Append(l, n)
    OBVIOUS
  <2>10. t \in Seq(1 .. MaxListeners) /\ Elements(t) = Elements(l) \cup {n}
    <3> DEFINE T == 1 .. MaxListeners
    <3>1. l \in Seq(T) /\ n \in T
      BY <1>3, <2>5
    <3> HIDE DEF T
    <3>2. t \in Seq(T) /\ Elements(t) = Elements(l) \cup {n}
      BY <2>9, <3>1, AppendList
    <3> QED
      BY <3>2 DEF T
  <2>11. Increasing(t)
    <3>1. l \in Seq(Int) /\ n \in Int
      BY <1>3, <2>5, EventsAssumption
    <3> QED
      BY <2>7, <2>8, <2>9, <3>1, AppendInOrder
  <2>12. events' = [events EXCEPT ![e][p].listeners = t]
    BY <2>1, <2>3, <2>6, <2>9
  <2>13. /\ events' \in [Emitters -> Seq(EventRecord)]
         /\ \A x \in Emitters : KeepsPlaces(x)
         /\ OneOfEachName' /\ ListsInOrder' /\ DeadAreEmpty'
         /\ \A m, x, i : x \in Emitters =>
              (In(m, x, i)' <=> IF x = e /\ i = p THEN m \in Elements(t) ELSE In(m, x, i))
    BY <1>1, <1>2, <2>10, <2>11, <2>12, SetList
  <2>14. \A m : In(m, e, p) <=> m \in Elements(l)
    BY <2>4 DEF In
  <2>15. Change(e, p)
    BY <1>0, <1>1, <1>4, <1>6, <2>10, <2>13, <2>14 DEF Change
  <2>16. Type'
    BY <1>1, <1>2, <1>4, <1>5, <2>13 DEF Type
  <2>17. ListInv'
    BY <1>2, <2>5, <2>13, <2>15, <2>16, ChangeStep
  <2> QED
    BY <1>1, <1>7, <2>5, <2>13, <2>15, <2>17, WalkStep
<1>9. CASE ~Has(e, name)
  <2> DEFINE r == Event(name, <<n>>)
  <2>0. PICK p : p = Len(events[e]) + 1
    OBVIOUS
  <2>1. events' = [events EXCEPT ![e] = Append(@, r)]
    BY <1>1, <1>9 DEF On
  <2>2. r \in EventRecord /\ r.name = name /\ r.listeners = <<n>>
    BY <1>3 DEF Event, EventRecord
  <2>3. Increasing(<<n>>) /\ Elements(<<n>>) = {n}
    BY DEF Increasing, Elements
  <2>4. \A i \in DOMAIN events[e] : events[e][i].name # name
    BY <1>1, <1>9 DEF Has
  <2>5. p \in Nat
    <3>1. events[e] \in Seq(EventRecord)
      BY <1>2 DEF Type
    <3> QED
      BY <2>0, <3>1
  <2> HIDE DEF r
  <2>6. /\ events' \in [Emitters -> Seq(EventRecord)]
        /\ \A x \in Emitters : KeepsPlaces(x)
        /\ OneOfEachName' /\ ListsInOrder' /\ DeadAreEmpty'
        /\ \A m, x, i : x \in Emitters =>
             (In(m, x, i)' <=> IF x = e /\ i = p THEN m \in Elements(r.listeners) ELSE In(m, x, i))
    BY <1>1, <1>2, <2>0, <2>1, <2>2, <2>3, <2>4, AddEvent
  <2>7. \A m : ~In(m, e, p)
    <3>1. events[e] \in Seq(EventRecord)
      BY <1>2 DEF Type
    <3>2. p \notin DOMAIN events[e]
      BY <2>0, <3>1
    <3> QED
      BY <3>2 DEF In
  <2>8. Change(e, p)
    <3>1. \A m, x, i : x \in Emitters =>
            (In(m, x, i)' <=> IF x = e /\ i = p THEN m = n ELSE In(m, x, i))
      BY <2>2, <2>3, <2>6
    <3>2. added' = added + 1 /\ DOMAIN func' = DOMAIN func \cup {added + 1}
      BY <1>0, <1>1, <1>4
    <3>3. \A m \in DOMAIN func' : m \in DOMAIN func \/ (m = added + 1 /\ m = added' /\ In(m, e, p)')
      <4>1. In(n, e, p)'
        BY <3>1
      <4> QED
        BY <1>0, <3>2, <4>1
    <3>4. ASSUME NEW m, NEW x \in Emitters, NEW i
          PROVE  /\ In(m, x, i)' => \/ In(m, x, i) /\ m \in DOMAIN func'
                                    \/ m = added + 1 /\ m \in DOMAIN func' /\ x = e /\ i = p
                 /\ In(m, x, i) /\ m \in DOMAIN func' => In(m, x, i)'
      <4>1. CASE x = e /\ i = p
        BY <1>0, <2>7, <3>1, <3>2, <4>1
      <4>2. CASE ~(x = e /\ i = p)
        BY <1>6, <3>1, <3>2, <4>2
      <4> QED
        BY <4>1, <4>2
    <3> QED
      BY <3>2, <3>3, <3>4 DEF Change
  <2>9. Type'
    BY <1>1, <1>2, <1>4, <1>5, <2>6 DEF Type
  <2>10. ListInv'
    BY <1>2, <2>5, <2>6, <2>8, <2>9, ChangeStep
  <2> QED
    BY <1>1, <1>7, <2>5, <2>6, <2>8, <2>10, WalkStep
<1> QED
  BY <1>8, <1>9

\* An event is freed where it is, or with it a new one that gets no listener.
LEMMA OnFailsStep ==
  ASSUME EventsInv, NEW e \in Emitters, NEW name \in Names, OnFails(e, name)
  PROVE  EventsInv'
<1>1. /\ e \in live /\ NoEventFreed /\ UNCHANGED <<live, func, added, stack, fault>>
  BY DEF OnFails
<1>2. ListInv /\ Type /\ FramesOK
  BY DEF EventsInv, ListInv, WalkInv
<1>3. events \in [Emitters -> Seq(EventRecord)] /\ events[e] \in Seq(EventRecord)
  BY <1>2 DEF Type
<1>4. \A d \in DOMAIN stack : stack[d].obj \in live' /\ stack[d].obj \in Emitters
  BY <1>1, <1>2 DEF FramesOK, FrameOK, Type
<1>5. /\ events' \in [Emitters -> Seq(EventRecord)]
      /\ \A x \in Emitters : KeepsPlaces(x)
      /\ OneOfEachName' /\ ListsInOrder' /\ DeadAreEmpty'
      /\ \A n, x, i : x \in Emitters => (In(n, x, i)' <=> In(n, x, i))
  <2>1. CASE Has(e, name)
    <3>1. PICK p \in DOMAIN events[e] : p = Place(e, name)
      <4>1. PICK q \in DOMAIN events[e] : events[e][q].name = name
        BY <2>1 DEF Has
      <4> QED
        BY <4>1, <1>2, PlaceOfName DEF ListInv
    <3> DEFINE r == [events[e][p] EXCEPT !.freed = TRUE]
               s == [events[e] EXCEPT ![p] = r]
    <3>2. events' = [events EXCEPT ![e] = s]
      <4>1. ~(~Has(e, name))
        BY <2>1
      <4> QED
        BY <3>1, <4>1 DEF OnFails
    <3>3. p \in 1 .. Len(events[e]) /\ events[e][p] \in EventRecord
      BY <1>3
    <3>4. r \in EventRecord /\ r.listeners = events[e][p].listeners /\ r.name = events[e][p].name
      BY <3>3 DEF EventRecord
    <3> HIDE DEF r
    <3>5. s \in Seq(EventRecord) /\ DOMAIN s = DOMAIN events[e]
      BY <1>3, <3>3, <3>4, ExceptSeq
    <3>6. \A i \in DOMAIN events[e] : s[i].name = events[e][i].name /\ s[i].listeners = events[e][i].listeners
      BY <1>3, <3>4
    <3> HIDE DEF s
    <3>7. \A x \in Emitters : events'[x] = IF x = e THEN s ELSE events[x]
      BY <1>3, <3>2
    <3>8. events' \in [Emitters -> Seq(EventRecord)]
      BY <1>3, <3>2, <3>5
    <3>9. \A x \in Emitters : /\ DOMAIN events'[x] = DOMAIN events[x]
                              /\ \A i \in DOMAIN events[x] : /\ events'[x][i].name = events[x][i].name
                                                             /\ events'[x][i].listeners = events[x][i].listeners
      BY <3>5, <3>6, <3>7
    <3>10. OneOfEachName' /\ ListsInOrder'
      BY <1>2, <3>9 DEF OneOfEachName, ListsInOrder, ListInv
    <3>11. DeadAreEmpty'
      BY <1>1, <1>2, <3>7 DEF DeadAreEmpty, ListInv
    <3> QED
      BY <3>8, <3>9, <3>10, <3>11 DEF KeepsPlaces, In
  <2>2. CASE ~Has(e, name)
    <3> DEFINE r == [Event(name, <<>>) EXCEPT !.freed = TRUE]
    <3>1. events' = [events EXCEPT ![e] = Append(@, r)]
      BY <2>2 DEF OnFails
    <3>2. r \in EventRecord /\ r.name = name /\ r.listeners = <<>>
      BY EmptySeq DEF Event, EventRecord
    <3>3. Increasing(<<>>) /\ Elements(<<>>) = {}
      BY DEF Increasing, Elements
    <3>4. \A i \in DOMAIN events[e] : events[e][i].name # name
      BY <1>1, <2>2 DEF Has, ReadsFreed, NoEventFreed
    <3> HIDE DEF r
    <3>5. /\ events' \in [Emitters -> Seq(EventRecord)]
          /\ \A x \in Emitters : KeepsPlaces(x)
          /\ OneOfEachName' /\ ListsInOrder' /\ DeadAreEmpty'
          /\ \A m, x, i : x \in Emitters =>
               (In(m, x, i)' <=> IF x = e /\ i = Len(events[e]) + 1 THEN m \in Elements(r.listeners)
                                                                    ELSE In(m, x, i))
      BY <1>1, <1>2, <3>1, <3>2, <3>3, <3>4, AddEvent
    <3>6. Len(events[e]) + 1 \notin DOMAIN events[e]
      BY <1>3
    <3>7. \A m : ~In(m, e, Len(events[e]) + 1)
      BY <3>6 DEF In
    <3> QED
      BY <3>2, <3>3, <3>5, <3>7
  <2> QED
    BY <2>1, <2>2
<1>6. Change(e, 0)
  <2>1. DOMAIN func' = DOMAIN func \ {} /\ added' = added
    BY <1>1
  <2>2. \A n, x, i : x \in Emitters => (In(n, x, i)' <=> In(n, x, i) /\ n \notin {})
    BY <1>5
  <2> QED
    BY <1>2, <2>1, <2>2, Removal
<1>7. Type'
  BY <1>1, <1>2, <1>5 DEF Type
<1>8. ListInv'
  BY <1>2, <1>5, <1>6, <1>7, ChangeStep
<1> QED
  BY <1>1, <1>4, <1>5, <1>6, <1>8, WalkStep

\* zjs_remove_event_listener.
LEMMA RemoveListenerStep ==
  ASSUME EventsInv, NEW e \in Emitters, NEW name \in Names, NEW f \in Funcs, RemoveListener(e, name, f)
  PROVE  EventsInv'
<1>1. /\ e \in live /\ Has(e, name) /\ UNCHANGED <<live, added, stack, fault>>
  BY DEF RemoveListener
<1>2. ListInv /\ Type /\ FramesOK
  BY DEF EventsInv, ListInv, WalkInv
<1>3. PICK p \in DOMAIN events[e] : events[e][p].name = name
  BY <1>1 DEF Has
<1>4. Place(e, name) = p
  BY <1>2, <1>3, PlaceOfName DEF ListInv
<1>5. PICK l : l = events[e][p].listeners
  OBVIOUS
<1>6. l \in Seq(1 .. MaxListeners) /\ p \in Nat /\ Increasing(l)
  <2>1. events[e] \in Seq(EventRecord)
    BY <1>2 DEF Type
  <2>2. events[e][p] \in EventRecord /\ p \in Nat
    BY <2>1
  <2> QED
    BY <1>2, <1>5, <2>2 DEF EventRecord, ListInv, ListsInOrder
<1>7. Listeners(e, name) = l
  BY <1>4, <1>5 DEF Listeners
<1>8. PICK i \in DOMAIN l : /\ SetListeners(e, name, RemoveAt(l, i))
                            /\ Free({l[i]})
  BY <1>7 DEF RemoveListener
<1>9. PICK t : t = RemoveAt(l, i)
  OBVIOUS
<1>10. t \in Seq(1 .. MaxListeners) /\ Increasing(t) /\ Elements(t) = Elements(l) \ {l[i]}
  <2> DEFINE T == 1 .. MaxListeners
  <2>1. l \in Seq(T) /\ T \subseteq Int
    BY <1>6, EventsAssumption
  <2> HIDE DEF T
  <2>2. t \in Seq(T) /\ Increasing(t) /\ Elements(t) = Elements(l) \ {l[i]}
    BY <1>6, <1>9, <2>1, RemoveFromList
  <2> QED
    BY <2>2 DEF T
<1>11. events' = [events EXCEPT ![e][p].listeners = t]
  BY <1>4, <1>8, <1>9 DEF SetListeners
<1>12. /\ events' \in [Emitters -> Seq(EventRecord)]
       /\ \A x \in Emitters : KeepsPlaces(x)
       /\ OneOfEachName' /\ ListsInOrder' /\ DeadAreEmpty'
       /\ \A m, x, j : x \in Emitters =>
            (In(m, x, j)' <=> IF x = e /\ j = p THEN m \in Elements(t) ELSE In(m, x, j))
  BY <1>1, <1>2, <1>10, <1>11, SetList
<1>13. \A m : In(m, e, p) <=> m \in Elements(l)
  BY <1>5 DEF In
<1>14. PICK n : n = l[i] /\ In(n, e, p)
  BY <1>13 DEF Elements
<1>15. func' = [m \in DOMAIN func \ {n} |-> func[m]]
  BY <1>8, <1>14 DEF Free, Restrict
<1>16. \A m, x, j : x \in Emitters => (In(m, x, j)' <=> In(m, x, j) /\ m \notin {n})
  <2>1. \A x, j : x \in Emitters /\ In(n, x, j) => x = e /\ j = p
    <3>1. n \in DOMAIN func
      BY <1>2, <1>14, ListedIsAllocated DEF ListInv
    <3>2. \A x, j : In(n, x, j) => j \in DOMAIN events[x]
      BY DEF In
    <3> QED
      BY <1>2, <1>14, <3>1, <3>2 DEF ListInv, OneListEach
  <2> QED
    BY <1>10, <1>12, <1>13, <1>14, <2>1
<1>17. Change(e, p)
  BY <1>1, <1>2, <1>15, <1>16, Removal
<1>18. Type'
  BY <1>1, <1>2, <1>12, <1>15 DEF Type
<1>19. ListInv'
  BY <1>2, <1>6, <1>12, <1>17, <1>18, ChangeStep
<1>20. \A d \in DOMAIN stack : stack[d].obj \in live' /\ stack[d].obj \in Emitters
  BY <1>1, <1>2 DEF FramesOK, FrameOK, Type
<1> QED
  BY <1>1, <1>6, <1>12, <1>17, <1>19, <1>20, WalkStep

\* remove_all_listeners.
LEMMA RemoveAllStep ==
  ASSUME EventsInv, NEW e \in Emitters, NEW name \in Names, RemoveAllListeners(e, name)
  PROVE  EventsInv'
<1>1. /\ e \in live /\ Has(e, name) /\ UNCHANGED <<live, added, stack, fault>>
  BY DEF RemoveAllListeners
<1>2. ListInv /\ Type /\ FramesOK
  BY DEF EventsInv, ListInv, WalkInv
<1>3. PICK p \in DOMAIN events[e] : events[e][p].name = name
  BY <1>1 DEF Has
<1>4. Place(e, name) = p
  BY <1>2, <1>3, PlaceOfName DEF ListInv
<1>5. PICK nodes : nodes = Elements(Listeners(e, name))
  OBVIOUS
<1>6. \A m : In(m, e, p) <=> m \in nodes
  BY <1>4, <1>5 DEF Listeners, In
<1>7. p \in Nat
  <2>1. events[e] \in Seq(EventRecord)
    BY <1>2 DEF Type
  <2> QED
    BY <2>1
<1>8. <<>> \in Seq(1 .. MaxListeners) /\ Increasing(<<>>) /\ Elements(<<>>) = {}
  BY EmptySeq DEF Increasing, Elements
<1>9. events' = [events EXCEPT ![e][p].listeners = <<>>]
  BY <1>4 DEF RemoveAllListeners, SetListeners
<1>10. /\ events' \in [Emitters -> Seq(EventRecord)]
       /\ \A x \in Emitters : KeepsPlaces(x)
       /\ OneOfEachName' /\ ListsInOrder' /\ DeadAreEmpty'
       /\ \A m, x, j : x \in Emitters =>
            (In(m, x, j)' <=> IF x = e /\ j = p THEN m \in Elements(<<>>) ELSE In(m, x, j))
  BY <1>1, <1>2, <1>8, <1>9, SetList
<1>11. func' = [m \in DOMAIN func \ nodes |-> func[m]]
  BY <1>5 DEF RemoveAllListeners, Free, Restrict
<1>12. \A m, x, j : x \in Emitters => (In(m, x, j)' <=> In(m, x, j) /\ m \notin nodes)
  <2>1. ASSUME NEW m \in nodes, NEW x \in Emitters, NEW j, In(m, x, j)
        PROVE  x = e /\ j = p
    <3>1. m \in DOMAIN func /\ In(m, e, p)
      BY <1>2, <1>6, <2>1, ListedIsAllocated DEF ListInv
    <3>2. j \in DOMAIN events[x]
      BY <2>1 DEF In
    <3> QED
      BY <1>2, <2>1, <3>1, <3>2 DEF ListInv, OneListEach
  <2> QED
    BY <1>6, <1>8, <1>10, <2>1
<1>13. Change(e, p)
  BY <1>1, <1>2, <1>11, <1>12, Removal
<1>14. Type'
  BY <1>1, <1>2, <1>10, <1>11 DEF Type
<1>15. ListInv'
  BY <1>2, <1>7, <1>10, <1>13, <1>14, ChangeStep
<1>16. \A d \in DOMAIN stack : stack[d].obj \in live' /\ stack[d].obj \in Emitters
  BY <1>1, <1>2 DEF FramesOK, FrameOK, Type
<1> QED
  BY <1>1, <1>7, <1>10, <1>13, <1>15, <1>16, WalkStep

\* All the listeners of an emitter leave it.
LEMMA EmptiesEmitter ==
  ASSUME ListInv, NEW e \in Emitters, Free(AllListeners(e)), added' = added,
         \A n, x, i : x \in Emitters => (In(n, x, i)' <=> x # e /\ In(n, x, i)),
         NEW p
  PROVE  /\ Change(e, p)
         /\ DOMAIN func' \subseteq DOMAIN func /\ \A n \in DOMAIN func' : func'[n] = func[n]
<1>1. PICK nodes : nodes = AllListeners(e)
  OBVIOUS
<1>2. func' = [m \in DOMAIN func \ nodes |-> func[m]]
  BY <1>1 DEF Free, Restrict
<1>3. \A m : m \in nodes <=> \E i : In(m, e, i)
  BY <1>1 DEF AllListeners, In
<1>4. \A n, x, i : x \in Emitters => (In(n, x, i)' <=> In(n, x, i) /\ n \notin nodes)
  <2>1. ASSUME NEW m \in nodes, NEW x \in Emitters, NEW j, In(m, x, j)
        PROVE  x = e
    <3>1. PICK i : In(m, e, i)
      BY <1>3
    <3>2. m \in DOMAIN func
      BY <3>1, ListedIsAllocated DEF ListInv
    <3>3. j \in DOMAIN events[x] /\ i \in DOMAIN events[e]
      BY <2>1, <3>1 DEF In
    <3> QED
      BY <2>1, <3>1, <3>2, <3>3 DEF ListInv, OneListEach
  <2> QED
    BY <1>3, <2>1
<1> QED
  BY <1>2, <1>4, Removal

\* zjs_destroy_emitter and zjs_emitter_free_cb.
LEMMA DestroyStep ==
  ASSUME EventsInv, NEW e \in Emitters, DestroyEmitter(e)
  PROVE  EventsInv'
<1>1. /\ e \in live /\ UNCHANGED <<live, added, stack, fault>> /\ Free(AllListeners(e))
      /\ events' = [events EXCEPT ![e] = [i \in DOMAIN @ |-> [@[i] EXCEPT !.listeners = <<>>]]]
  BY DEF DestroyEmitter
<1>2. ListInv /\ Type /\ FramesOK
  BY DEF EventsInv, ListInv, WalkInv
<1>3. events \in [Emitters -> Seq(EventRecord)] /\ events[e] \in Seq(EventRecord)
  BY <1>2 DEF Type
<1>4. PICK s : s = [i \in DOMAIN events[e] |-> [events[e][i] EXCEPT !.listeners = <<>>]]
  OBVIOUS
<1>5. events' = [events EXCEPT ![e] = s]
  BY <1>1, <1>4
<1>6. \A x \in Emitters : events'[x] = IF x = e THEN s ELSE events[x]
  BY <1>3, <1>5
<1>7. \A i \in DOMAIN events[e] : /\ s[i] \in EventRecord /\ s[i].name = events[e][i].name
                                  /\ s[i].listeners = <<>>
  <2>1. \A i \in DOMAIN events[e] : events[e][i] \in EventRecord
    BY <1>3
  <2>2. <<>> \in Seq(1 .. MaxListeners)
    BY EmptySeq
  <2> QED
    BY <1>4, <2>1, <2>2 DEF EventRecord
<1>8. s \in Seq(EventRecord) /\ DOMAIN s = DOMAIN events[e]
  <2>1. Len(events[e]) \in Nat /\ DOMAIN events[e] = 1 .. Len(events[e])
    BY <1>3
  <2>2. s \in [1 .. Len(events[e]) -> EventRecord]
    BY <1>4, <1>7, <2>1
  <2> QED
    BY <2>1, <2>2, <1>4
<1>9. events' \in [Emitters -> Seq(EventRecord)]
  BY <1>3, <1>5, <1>8
<1>10. \A x \in Emitters : KeepsPlaces(x)
  BY <1>6, <1>7, <1>8 DEF KeepsPlaces
<1>11. OneOfEachName'
  BY <1>2, <1>6, <1>7, <1>8 DEF ListInv, OneOfEachName
<1>12. ListsInOrder'
  <2>1. Increasing(<<>>)
    BY DEF Increasing
  <2> QED
    BY <1>2, <1>6, <1>7, <1>8, <2>1 DEF ListInv, ListsInOrder
<1>13. DeadAreEmpty'
  BY <1>1, <1>2, <1>6 DEF ListInv, DeadAreEmpty
<1>14. \A n, x, i : x \in Emitters => (In(n, x, i)' <=> x # e /\ In(n, x, i))
  <2>1. Elements(<<>>) = {}
    BY DEF Elements
  <2>2. \A n, i : ~In(n, e, i)'
    BY <1>6, <1>7, <1>8, <2>1 DEF In
  <2>3. \A n, x, i : x \in Emitters /\ x # e => (In(n, x, i)' <=> In(n, x, i))
    BY <1>6 DEF In
  <2> QED
    BY <2>2, <2>3
<1>15. /\ Change(e, 0)
       /\ DOMAIN func' \subseteq DOMAIN func /\ \A n \in DOMAIN func' : func'[n] = func[n]
  BY <1>1, <1>2, <1>14, EmptiesEmitter
<1>16. Type'
  BY <1>1, <1>2, <1>9, <1>15 DEF Type
<1>17. ListInv'
  BY <1>2, <1>11, <1>12, <1>13, <1>15, <1>16, ChangeStep
<1>18. \A d \in DOMAIN stack : stack[d].obj \in live' /\ stack[d].obj \in Emitters
  BY <1>1, <1>2 DEF FramesOK, FrameOK, Type
<1> QED
  BY <1>1, <1>10, <1>15, <1>17, <1>18, WalkStep

LEMMA CollectListsStep ==
  ASSUME EventsInv, NEW e \in Emitters, Collect(e)
  PROVE  EventsInv'
<1>1. /\ e \in live /\ live' = live \ {e} /\ UNCHANGED <<added, stack, fault>> /\ Free(AllListeners(e))
      /\ events' = [events EXCEPT ![e] = <<>>]
      /\ \A d \in DOMAIN stack : stack[d].obj # e
  BY DEF Collect
<1>2. ListInv /\ Type /\ FramesOK
  BY DEF EventsInv, ListInv, WalkInv
<1>3. events \in [Emitters -> Seq(EventRecord)]
  BY <1>2 DEF Type
<1>4. \A x \in Emitters : events'[x] = IF x = e THEN <<>> ELSE events[x]
  BY <1>1, <1>3
<1>5. events' \in [Emitters -> Seq(EventRecord)]
  <2>1. <<>> \in Seq(EventRecord)
    BY EmptySeq
  <2> QED
    BY <1>1, <1>3, <2>1
<1>6. \A x \in Emitters : x # e => KeepsPlaces(x)
  BY <1>4 DEF KeepsPlaces
<1>7. OneOfEachName' /\ ListsInOrder' /\ DeadAreEmpty'
  <2>1. DOMAIN <<>> = {}
    OBVIOUS
  <2>2. OneOfEachName' /\ ListsInOrder'
    BY <1>2, <1>4, <2>1 DEF ListInv, OneOfEachName, ListsInOrder
  <2>3. DeadAreEmpty'
    BY <1>1, <1>2, <1>4 DEF ListInv, DeadAreEmpty
  <2> QED
    BY <2>2, <2>3
<1>8. \A n, x, i : x \in Emitters => (In(n, x, i)' <=> x # e /\ In(n, x, i))
  <2>1. DOMAIN <<>> = {}
    OBVIOUS
  <2>2. \A n, i : ~In(n, e, i)'
    BY <1>4, <2>1 DEF In
  <2>3. \A n, x, i : x \in Emitters /\ x # e => (In(n, x, i)' <=> In(n, x, i))
    BY <1>4 DEF In
  <2> QED
    BY <2>2, <2>3
<1>9. /\ Change(e, 0)
      /\ DOMAIN func' \subseteq DOMAIN func /\ \A n \in DOMAIN func' : func'[n] = func[n]
  BY <1>1, <1>2, <1>8, EmptiesEmitter
<1>10. Type'
  BY <1>1, <1>2, <1>5, <1>9 DEF Type
<1>11. ListInv'
  BY <1>2, <1>7, <1>9, <1>10, ChangeStep
<1>12. \A d \in DOMAIN stack : stack[d].obj \in live' /\ stack[d].obj \in Emitters /\ stack[d].obj # e
  BY <1>1, <1>2 DEF FramesOK, FrameOK, Type
<1> QED
  BY <1>1, <1>6, <1>9, <1>11, <1>12, WalkStep

\* A new emitter has the empty lists of one that is gone.
LEMMA MakeListsStep ==
  ASSUME EventsInv, NEW e \in Emitters, MakeEmitter(e)
  PROVE  EventsInv'
<1>1. /\ e \notin live /\ live' = live \cup {e} /\ UNCHANGED <<func, added, stack, fault>>
      /\ events' = [events EXCEPT ![e] = <<>>]
  BY DEF MakeEmitter
<1>2. ListInv /\ Type /\ FramesOK
  BY DEF EventsInv, ListInv, WalkInv
<1>3. events' = events
  BY <1>1, <1>2 DEF ListInv, DeadAreEmpty, Type
<1>4. \A n, x, i : In(n, x, i)' <=> In(n, x, i)
  BY <1>3 DEF In
<1>5. Change(e, 0)
  <2>1. DOMAIN func' = DOMAIN func \ {} /\ added' = added
    BY <1>1
  <2> QED
    BY <1>2, <1>4, <2>1, Removal
<1>6. Type' /\ OneOfEachName' /\ ListsInOrder' /\ DeadAreEmpty'
  BY <1>1, <1>2, <1>3 DEF Type, OneOfEachName, ListsInOrder, DeadAreEmpty, ListInv
<1>7. ListInv'
  BY <1>2, <1>5, <1>6, ChangeStep
<1>8. \A d \in DOMAIN stack : stack[d].obj \in live' /\ KeepsPlaces(stack[d].obj)
  BY <1>1, <1>2, <1>3 DEF FramesOK, FrameOK, KeepsPlaces
<1> QED
  BY <1>1, <1>5, <1>7, <1>8, WalkStep

-----------------------------------------------------------------------------
\* The steps of emissions leave the lists alone.
LEMMA StackStep ==
  ASSUME EventsInv, UNCHANGED <<live, listVars>>, fault' \in {"none", "freed_listener", "freed_event", "stale_object"},
         stack' \in Seq(FrameType), Len(stack') <= MaxDepth,
         \A d \in DOMAIN stack' : \E f \in FrameType : stack'[d] = f /\ FrameOK(f)
  PROVE  EventsInv'
<1>1. ListInv'
  <2>1. \A n, x, i : In(n, x, i)' <=> In(n, x, i)
    BY DEF In
  <2> QED
    BY <2>1 DEF EventsInv, ListInv, Type, OneOfEachName, ListsInOrder, OneListEach, ListedAllocated,
                AllocatedListed, DeadAreEmpty
<1>2. ASSUME NEW d \in DOMAIN stack'
      PROVE  FrameOK(stack[d])'
  <2>1. PICK f \in FrameType : stack'[d] = f /\ FrameOK(f)
    OBVIOUS
  <2> QED
    BY <2>1 DEF FrameOK, At, Latest, In
<1> QED
  BY <1>1, <1>2 DEF EventsInv, WalkInv, FramesOK

\* An emission begins with the first listener.
LEMMA FrameIsOK ==
  ASSUME ListInv, NEW e \in live, NEW name \in Names, Emittable(e, name)
  PROVE  Frame(e, name) \in FrameType /\ FrameOK(Frame(e, name))
<1>1. e \in Emitters /\ Type
  BY DEF ListInv, Type
<1>2. PICK p \in DOMAIN events[e] : events[e][p].name = name
  BY DEF Emittable, Has
<1>3. PICK l : l = events[e][p].listeners
  OBVIOUS
<1>4. Listeners(e, name) = l /\ l # <<>>
  BY <1>1, <1>2, <1>3, PlaceOfName DEF Listeners, Emittable, ListInv
<1>5. l \in Seq(1 .. MaxListeners) /\ Increasing(l)
  <2>1. events[e] \in Seq(EventRecord)
    BY <1>1 DEF Type
  <2>2. events[e][p] \in EventRecord
    BY <2>1
  <2> QED
    BY <1>1, <1>3, <2>2 DEF EventRecord, ListInv, ListsInOrder
<1>6. 1 \in DOMAIN l /\ l[1] \in 1 .. MaxListeners
  <2>1. Len(l) \in Nat \ {0}
    BY <1>4, <1>5, EmptySeq
  <2>2. DOMAIN l = 1 .. Len(l) /\ 1 \in 1 .. Len(l)
    BY <1>5, <2>1, LenProperties
  <2> QED
    BY <1>5, <2>2, ElementOfSeq
<1>7. PICK f : f = Frame(e, name)
  OBVIOUS
<1>8. f.obj = e /\ f.name = name /\ f.calls = <<l[1]>> /\ f \in FrameType
  BY <1>1, <1>4, <1>6, <1>7 DEF Frame, FrameType
<1>9. PICK n : n = l[1] /\ Latest(f) = n /\ n \in Elements(f.calls) /\ f.calls # <<>> /\ Increasing(f.calls)
  BY <1>8 DEF Latest, Elements, Increasing
<1>10. In(n, e, p)
  BY <1>3, <1>6, <1>9 DEF In, Elements
<1>11. n <= added
  <2>1. n \in 1 .. added
    BY <1>1, <1>10, ListedIsAllocated DEF ListInv
  <2> QED
    BY <1>1, <2>1, EventsAssumption DEF Type
<1>12. ASSUME NEW m \in 1 .. MaxListeners, In(m, e, p), m <= n
       PROVE  m \in Elements(f.calls)
  <2>1. PICK i \in DOMAIN l : m = l[i]
    BY <1>3, <1>12 DEF In, Elements
  <2>2. l \in Seq(Int)
    BY <1>5, EventsAssumption
  <2>3. i <= 1 /\ i \in Nat /\ i >= 1
    <3>1. i <= 1
      BY <1>5, <1>6, <1>9, <1>12, <2>1, <2>2, OrderedPlaces
    <3> QED
      BY <1>5, <3>1
  <2>4. i = 1
    BY <2>3
  <2> QED
    BY <1>9, <2>1, <2>4
<1>13. At(f, p)
  BY <1>2, <1>8, <1>9, <1>10, <1>12, Zenon DEF At
<1> QED
  BY <1>7, <1>8, <1>9, <1>11, <1>13 DEF FrameOK

\* Where the innermost emission is: at a place k of the list it walks, while the listener it
\* called is allocated.
LEMMA WalkPlace ==
  ASSUME EventsInv, stack # <<>>, Called \in DOMAIN func
  PROVE  \E l \in Seq(1 .. MaxListeners) : \E k \in DOMAIN l : \E p \in DOMAIN events[Top.obj] :
           /\ Top \in FrameType /\ FrameOK(Top) /\ At(Top, p) /\ 1 \in DOMAIN stack /\ Top = stack[1]
           /\ l = events[Top.obj][p].listeners /\ l = Listeners(Top.obj, Top.name)
           /\ Increasing(l) /\ l[k] = Called /\ Called = Latest(Top)
           /\ Following = SubSeq(l, 1 + k, Len(l))
<1>1. ListInv /\ Type /\ stack \in Seq(FrameType) /\ FramesOK
  BY DEF EventsInv, ListInv, WalkInv
<1>2. 1 \in DOMAIN stack /\ Top = stack[1] /\ Top \in FrameType
  BY <1>1, HeadTailProperties DEF Top
<1>3. PICK f \in FrameType : f = Top
  BY <1>2
<1>4. FrameOK(f)
  BY <1>1, <1>2, <1>3 DEF FramesOK
<1>5. PICK p \in DOMAIN events[f.obj] : At(f, p)
  BY <1>4 DEF FrameOK
<1>6. f.obj \in Emitters
  BY DEF FrameType
<1>7. PICK l : l = events[f.obj][p].listeners
  OBVIOUS
<1>8. l \in Seq(1 .. MaxListeners) /\ Increasing(l)
  <2>1. events[f.obj] \in Seq(EventRecord)
    BY <1>1, <1>6 DEF Type
  <2>2. events[f.obj][p] \in EventRecord
    BY <2>1
  <2> QED
    BY <1>1, <1>6, <1>7, <2>2 DEF EventRecord, ListInv, ListsInOrder
<1>9. Listeners(f.obj, f.name) = l
  BY <1>1, <1>5, <1>6, <1>7, PlaceOfName DEF At, ListInv, Listeners
<1>10. Called = Latest(f)
  BY <1>3 DEF Called, Latest
<1>11. PICK k \in DOMAIN l : l[k] = Called
  BY <1>3, <1>5, <1>7, <1>10 DEF At, In, Elements
<1>12. (CHOOSE i \in DOMAIN l : l[i] = Called) = k
  <2>1. l \in Seq(Int)
    BY <1>8, EventsAssumption
  <2>2. \A i \in DOMAIN l : l[i] = Called => i = k
    BY <1>8, <1>11, <2>1, OrderedPlaces
  <2> QED
    BY <1>11, <2>2
<1>13. Following = SubSeq(l, 1 + k, Len(l))
  BY <1>3, <1>9, <1>12 DEF Following
<1>14. Top = f /\ l \in Seq(1 .. MaxListeners) /\ k \in DOMAIN l /\ p \in DOMAIN events[Top.obj]
  BY <1>3, <1>8
<1> QED
  BY <1>2, <1>3, <1>4, <1>5, <1>7, <1>8, <1>9, <1>10, <1>11, <1>13, <1>14

\* The innermost emission is replaced.
LEMMA NewTop ==
  ASSUME NEW T, NEW s \in Seq(T), s # <<>>, NEW g \in T
  PROVE  /\ <<g>> \o Tail(s) \in Seq(T) /\ Len(<<g>> \o Tail(s)) = Len(s)
         /\ \A d \in DOMAIN (<<g>> \o Tail(s)) :
              (<<g>> \o Tail(s))[d] = g \/ \E i \in DOMAIN s : (<<g>> \o Tail(s))[d] = s[i]
<1> DEFINE r == Tail(s)
           t == <<g>> \o r
<1>1. r \in Seq(T) /\ Len(r) = Len(s) - 1 /\ \A i \in 1 .. Len(r) : r[i] = s[i + 1]
  BY HeadTailProperties
<1>2. Len(s) \in Nat /\ DOMAIN s = 1 .. Len(s)
  BY LenProperties
<1>3. <<g>> \in Seq(T) /\ Len(<<g>>) = 1 /\ <<g>>[1] = g
  OBVIOUS
<1> HIDE DEF r
<1>4. /\ t \in Seq(T) /\ Len(t) = 1 + Len(r)
      /\ \A i \in 1 .. 1 + Len(r) : t[i] = IF i <= 1 THEN <<g>>[i] ELSE r[i - 1]
  BY <1>1, <1>3, ConcatProperties
<1>5. DOMAIN t = 1 .. Len(s)
  BY <1>1, <1>2, <1>4, LenProperties
<1> HIDE DEF t
<1>6. ASSUME NEW d \in 1 .. Len(s)
      PROVE  t[d] = g \/ \E i \in DOMAIN s : t[d] = s[i]
  <2>1. CASE d = 1
    BY <1>1, <1>2, <1>3, <1>4, <2>1
  <2>2. CASE d # 1
    <3>1. d - 1 \in 1 .. Len(r) /\ ~(d <= 1) /\ d \in 1 .. 1 + Len(r) /\ d - 1 + 1 = d
      BY <1>1, <1>2, <2>2
    <3>2. t[d] = r[d - 1] /\ r[d - 1] = s[d - 1 + 1]
      BY <1>1, <1>4, <3>1
    <3> QED
      BY <1>2, <3>1, <3>2
  <2> QED
    BY <2>1, <2>2
<1> QED
  BY <1>1, <1>2, <1>4, <1>5, <1>6 DEF t, r

\* The next listener is called: the emission has called all up to it.
LEMMA CallNextStep ==
  ASSUME EventsInv, CallNext
  PROVE  EventsInv'
<1>1. /\ stack # <<>> /\ Called \in DOMAIN func /\ Following # <<>>
      /\ stack' = <<[Top EXCEPT !.calls = Append(@, Following[1])]>> \o Tail(stack)
      /\ UNCHANGED <<live, listVars, fault>>
  BY DEF CallNext
<1>2. PICK l \in Seq(1 .. MaxListeners) : \E k \in DOMAIN l : \E p \in DOMAIN events[Top.obj] :
        /\ Top \in FrameType /\ FrameOK(Top) /\ At(Top, p) /\ 1 \in DOMAIN stack /\ Top = stack[1]
        /\ l = events[Top.obj][p].listeners /\ l = Listeners(Top.obj, Top.name)
        /\ Increasing(l) /\ l[k] = Called /\ Called = Latest(Top)
        /\ Following = SubSeq(l, 1 + k, Len(l))
  BY <1>1, WalkPlace
<1>3. PICK k \in DOMAIN l : \E p \in DOMAIN events[Top.obj] :
        /\ Top \in FrameType /\ FrameOK(Top) /\ At(Top, p) /\ 1 \in DOMAIN stack /\ Top = stack[1]
        /\ l = events[Top.obj][p].listeners
        /\ Increasing(l) /\ l[k] = Called /\ Called = Latest(Top)
        /\ Following = SubSeq(l, 1 + k, Len(l))
  BY <1>2
<1>4. PICK f \in FrameType : f = Top
  BY <1>3
<1>5. PICK p \in DOMAIN events[f.obj] :
        /\ FrameOK(f) /\ At(f, p) /\ 1 \in DOMAIN stack /\ f = stack[1]
        /\ l = events[f.obj][p].listeners
        /\ Increasing(l) /\ l[k] = Latest(f)
        /\ Following = SubSeq(l, 1 + k, Len(l))
  BY <1>3, <1>4
<1>6. Len(l) \in Nat /\ DOMAIN l = 1 .. Len(l) /\ k \in 1 .. Len(l) /\ l \in Seq(Int)
  <2>1. l \in Seq(1 .. MaxListeners) /\ k \in DOMAIN l
    OBVIOUS
  <2>2. 1 .. MaxListeners \subseteq Int
    BY EventsAssumption
  <2>3. l \in Seq(Int)
    BY <2>1, <2>2, SeqMonotonic
  <2> QED
    BY <2>1, <2>3, LenProperties, Zenon
<1>7. k < Len(l)
  <2>1. k = Len(l) => SubSeq(l, 1 + k, Len(l)) = <<>>
    BY <1>6, SubSeqEmpty
  <2> QED
    <3>1. Following # <<>> /\ Following = SubSeq(l, 1 + k, Len(l))
      BY <1>1, <1>5
    <3>2. k # Len(l)
      BY <2>1, <3>1, Zenon
    <3> QED
      BY <1>6, <3>2
<1>8. PICK n \in 1 .. MaxListeners : n = l[k + 1] /\ n = Following[1] /\ k + 1 \in DOMAIN l
  <2>1. k + 1 \in 1 .. Len(l) /\ 1 + k \in Int /\ Len(l) \in Int /\ 1 \in 1 .. Len(l) - (1 + k) + 1
    BY <1>6, <1>7
  <2>2. l[k + 1] \in 1 .. MaxListeners
    BY <2>1, ElementOfSeq
  <2>3. \A i \in 1 + k .. Len(l) : l[i] \in 1 .. MaxListeners
    <3>1. \A i \in 1 + k .. Len(l) : i \in 1 .. Len(l)
      BY <1>6
    <3> QED
      BY <3>1, ElementOfSeq
  <2>4. SubSeq(l, 1 + k, Len(l))[1] = l[1 + k + 1 - 1]
    BY <2>1, <2>3, SubSeqProperties
  <2>5. 1 + k + 1 - 1 = k + 1
    BY <1>6
  <2> QED
    BY <1>5, <1>6, <2>1, <2>2, <2>4, <2>5
<1>9. f.obj \in Emitters /\ f.name \in Names /\ f.calls \in Seq(1 .. MaxListeners)
  BY DEF FrameType
<1>10. PICK c : c = Append(f.calls, n)
  OBVIOUS
<1>11. PICK g : g = [f EXCEPT !.calls = c]
  OBVIOUS
<1>12. /\ c \in Seq(1 .. MaxListeners) /\ c # <<>> /\ Len(c) = Len(f.calls) + 1
       /\ c[Len(c)] = n /\ Elements(c) = Elements(f.calls) \cup {n}
  <2> DEFINE T == 1 .. MaxListeners
  <2>1. f.calls \in Seq(T) /\ n \in T
    BY <1>9
  <2> HIDE DEF T
  <2>2. /\ c \in Seq(T) /\ c # <<>> /\ Len(c) = Len(f.calls) + 1
        /\ c[Len(f.calls) + 1] = n /\ Elements(c) = Elements(f.calls) \cup {n}
    BY <1>10, <2>1, AppendList
  <2> QED
    BY <2>2 DEF T
<1>13. g.obj = f.obj /\ g.name = f.name /\ g.calls = c /\ g \in FrameType
  BY <1>9, <1>11, <1>12 DEF FrameType
<1>14. Latest(g) = n
  BY <1>12, <1>13 DEF Latest
<1>15. Increasing(c)
  <2>1. f.calls # <<>> /\ Increasing(f.calls)
    BY <1>5 DEF FrameOK
  <2>2. Len(f.calls) \in DOMAIN f.calls /\ DOMAIN f.calls = 1 .. Len(f.calls) /\ f.calls \in Seq(Int)
    <3>1. 1 .. MaxListeners \subseteq Int
      BY EventsAssumption
    <3>2. f.calls \in Seq(Int)
      BY <1>9, <3>1, SeqMonotonic
    <3>3. Len(f.calls) \in Nat /\ DOMAIN f.calls = 1 .. Len(f.calls) /\ Len(f.calls) # 0
      BY <2>1, <3>2, EmptySeq, LenProperties
    <3> QED
      BY <3>2, <3>3
  <2>3. Latest(f) < n
    <3>1. k + 1 \in DOMAIN l /\ k < k + 1
      BY <1>6, <1>8
    <3>2. l[k] < l[k + 1]
      BY <1>5, <3>1 DEF Increasing
    <3> QED
      BY <1>5, <1>8, <3>2
  <2>4. \A i \in DOMAIN f.calls : f.calls[i] < n
    <3> SUFFICES ASSUME NEW i \in DOMAIN f.calls
                 PROVE  f.calls[i] < n
      OBVIOUS
    <3> DEFINE a == f.calls[i]
               b == f.calls[Len(f.calls)]
    <3>1. a \in Int /\ b \in Int /\ n \in Int /\ b < n
      BY <2>2, <2>3, ElementOfSeq DEF Latest
    <3>2. i = Len(f.calls) \/ a < b
      <4>1. i < Len(f.calls) => a < b
        BY <2>1, <2>2 DEF Increasing
      <4>2. i = Len(f.calls) \/ i < Len(f.calls)
        BY <2>2
      <4> QED
        BY <4>1, <4>2, Zenon
    <3> QED
      BY <3>1, <3>2
  <2> QED
    <3>1. n \in Int
      BY EventsAssumption
    <3> QED
      BY <1>10, <2>1, <2>2, <2>4, <3>1, AppendInOrder
<1>16. In(n, f.obj, p)
  BY <1>5, <1>8 DEF In, Elements
<1>17. n <= added
  <2>1. n \in 1 .. added
    BY <1>9, <1>16, ListedIsAllocated DEF EventsInv, ListInv
  <2> QED
    BY <2>1, EventsAssumption DEF EventsInv, ListInv, Type
<1>18. ASSUME NEW m \in 1 .. MaxListeners, In(m, f.obj, p), m <= n
       PROVE  m \in Elements(c)
  <2>1. PICK i \in DOMAIN l : m = l[i]
    BY <1>5, <1>18 DEF In, Elements
  <2>2. i <= k + 1
    <3>1. l[i] <= l[k + 1] /\ k + 1 \in DOMAIN l
      BY <1>8, <1>18, <2>1
    <3> QED
      BY <1>5, <1>6, <3>1, OrderedPlaces
  <2>3. CASE i = k + 1
    BY <1>8, <1>12, <2>1, <2>3
  <2>4. CASE i # k + 1
    <3>1. i \in Int /\ i <= k
      BY <1>6, <2>2, <2>4
    <3>2. m <= Latest(f)
      <4>1. i = k \/ i < k
        BY <1>6, <3>1
      <4>2. l[i] \in Int /\ l[k] \in Int
        BY <1>6, ElementOfSeq
      <4>3. i < k => l[i] < l[k]
        BY <1>5 DEF Increasing
      <4> QED
        BY <1>5, <2>1, <4>1, <4>2, <4>3
    <3> QED
      BY <1>5, <1>12, <1>18, <3>2 DEF At
  <2> QED
    BY <2>3, <2>4
<1>19. FrameOK(g)
  <2>1. At(g, p)
    BY <1>5, <1>13, <1>14, <1>16, <1>18 DEF At
  <2> QED
    BY <1>5, <1>12, <1>13, <1>14, <1>15, <1>17, <2>1 DEF FrameOK
<1>20. stack' = <<g>> \o Tail(stack)
  BY <1>1, <1>4, <1>8, <1>10, <1>11
<1>21. /\ stack' \in Seq(FrameType) /\ Len(stack') = Len(stack)
       /\ \A d \in DOMAIN stack' : stack'[d] = g \/ \E i \in DOMAIN stack : stack'[d] = stack[i]
  <2>1. stack \in Seq(FrameType) /\ stack # <<>>
    BY <1>1 DEF EventsInv, WalkInv
  <2>2. PICK t : t = <<g>> \o Tail(stack)
    OBVIOUS
  <2>3. /\ t \in Seq(FrameType) /\ Len(t) = Len(stack)
        /\ \A d \in DOMAIN t : t[d] = g \/ \E i \in DOMAIN stack : t[d] = stack[i]
    BY <1>13, <2>1, <2>2, NewTop
  <2>4. stack' = t
    BY <1>20, <2>2
  <2> QED
    BY <2>3, <2>4
<1>22. \A d \in DOMAIN stack' : \E h \in FrameType : stack'[d] = h /\ FrameOK(h)
  BY <1>13, <1>19, <1>21 DEF EventsInv, WalkInv, FramesOK
<1> QED
  BY <1>1, <1>21, <1>22, StackStep DEF EventsInv, ListInv, Type, WalkInv

\* An emission ends when the listener it called last is the last of the list: by then it
\* has called every listener that is in it.
LEMMA LastCalledAll ==
  ASSUME EventsInv, EndEmission
  PROVE  Elements(Listeners(Top.obj, Top.name)) \subseteq Elements(Top.calls)
<1>1. stack # <<>> /\ Called \in DOMAIN func /\ Following = <<>>
  BY DEF EndEmission
<1>2. PICK l \in Seq(1 .. MaxListeners) : \E k \in DOMAIN l : \E p \in DOMAIN events[Top.obj] :
        /\ At(Top, p) /\ l = events[Top.obj][p].listeners /\ l = Listeners(Top.obj, Top.name)
        /\ Increasing(l) /\ l[k] = Called /\ Called = Latest(Top)
        /\ Following = SubSeq(l, 1 + k, Len(l))
  BY <1>1, WalkPlace
<1>3. PICK k \in DOMAIN l : \E p \in DOMAIN events[Top.obj] :
        /\ At(Top, p) /\ l = events[Top.obj][p].listeners /\ l = Listeners(Top.obj, Top.name)
        /\ Increasing(l) /\ l[k] = Latest(Top) /\ Following = SubSeq(l, 1 + k, Len(l))
  BY <1>2
<1>4. PICK p \in DOMAIN events[Top.obj] :
        /\ At(Top, p) /\ l = events[Top.obj][p].listeners /\ l = Listeners(Top.obj, Top.name)
        /\ Increasing(l) /\ l[k] = Latest(Top) /\ Following = SubSeq(l, 1 + k, Len(l))
  BY <1>3
<1>5. Len(l) \in Nat /\ DOMAIN l = 1 .. Len(l) /\ k \in 1 .. Len(l) /\ l \in Seq(Int)
  BY EventsAssumption, LenProperties
<1>6. k = Len(l)
  <2>1. \A i \in 1 + k .. Len(l) : l[i] \in 1 .. MaxListeners
    <3>1. \A i \in 1 + k .. Len(l) : i \in 1 .. Len(l)
      BY <1>5
    <3> QED
      BY <3>1, ElementOfSeq
  <2>2. 1 + k \in Int /\ Len(l) \in Int
    BY <1>5
  <2>3. Len(SubSeq(l, 1 + k, Len(l))) = IF 1 + k <= Len(l) THEN Len(l) - (1 + k) + 1 ELSE 0
    BY <2>1, <2>2, SubSeqProperties
  <2>4. Len(SubSeq(l, 1 + k, Len(l))) = 0
    BY <1>1, <1>4, EmptySeq
  <2> QED
    BY <1>5, <2>3, <2>4
<1>7. SUFFICES ASSUME NEW i \in DOMAIN l
               PROVE  l[i] \in Elements(Top.calls)
  BY <1>4 DEF Elements
<1>8. l[i] <= l[k]
  <2>1. i \in Int /\ k \in Int /\ l[i] \in Int /\ l[k] \in Int /\ (i = k \/ i < k)
    BY <1>5, <1>6, ElementOfSeq
  <2>2. i < k => l[i] < l[k]
    BY <1>4 DEF Increasing
  <2> QED
    BY <2>1, <2>2
<1>9. In(l[i], Top.obj, p) /\ l[i] \in 1 .. MaxListeners
  BY <1>4, <1>5, ElementOfSeq DEF In, Elements
<1> QED
  BY <1>4, <1>8, <1>9 DEF At

LEMMA EndEmissionStep ==
  ASSUME EventsInv, EndEmission
  PROVE  EventsInv'
<1>1. stack # <<>> /\ stack' = Tail(stack) /\ UNCHANGED <<live, listVars, fault>>
  BY DEF EndEmission
<1>2. /\ stack' \in Seq(FrameType) /\ Len(stack') = Len(stack) - 1
      /\ \A d \in DOMAIN stack' : d + 1 \in DOMAIN stack /\ stack'[d] = stack[d + 1]
  BY <1>1 DEF EventsInv, WalkInv
<1>3. Len(stack') <= MaxDepth
  <2>1. Len(stack) \in Nat /\ Len(stack) <= MaxDepth /\ MaxDepth \in Nat
    BY EventsAssumption DEF EventsInv, WalkInv
  <2> QED
    BY <1>2, <2>1
<1>4. \A d \in DOMAIN stack' : \E f \in FrameType : stack'[d] = f /\ FrameOK(f)
  BY <1>2 DEF EventsInv, WalkInv, FramesOK
<1> QED
  BY <1>1, <1>2, <1>3, <1>4, StackStep DEF EventsInv, ListInv, Type

LEMMA EmitStep ==
  ASSUME EventsInv, NEW e \in Emitters, NEW name \in Names, Emit(e, name)
  PROVE  EventsInv'
<1>1. /\ e \in live /\ Emittable(e, name) /\ Len(stack) < MaxDepth
      /\ stack' = <<Frame(e, name)>> \o stack /\ UNCHANGED <<live, listVars, fault>>
  BY DEF Emit
<1>2. PICK g : g = Frame(e, name)
  OBVIOUS
<1>3. g \in FrameType /\ FrameOK(g)
  BY <1>1, <1>2, FrameIsOK DEF EventsInv
<1>4. stack \in Seq(FrameType) /\ stack' = <<g>> \o stack
  BY <1>1, <1>2 DEF EventsInv, WalkInv
<1>5. /\ stack' \in Seq(FrameType) /\ Len(stack') = Len(stack) + 1 /\ Len(stack) \in Nat
      /\ \A d \in DOMAIN stack' : stack'[d] = g \/ \E i \in DOMAIN stack : stack'[d] = stack[i]
  <2>1. /\ <<g>> \o stack \in Seq(FrameType)
        /\ Len(<<g>> \o stack) = Len(<<g>>) + Len(stack)
        /\ \A i \in 1 .. Len(<<g>>) + Len(stack) :
             (<<g>> \o stack)[i] = IF i <= Len(<<g>>) THEN <<g>>[i] ELSE stack[i - Len(<<g>>)]
    BY <1>3, <1>4, ConcatProperties
  <2>2. Len(<<g>>) = 1 /\ <<g>>[1] = g /\ Len(stack) \in Nat /\ DOMAIN stack = 1 .. Len(stack)
    BY <1>4
  <2>3. DOMAIN stack' = 1 .. Len(stack) + 1
    BY <1>4, <2>1, <2>2
  <2>4. ASSUME NEW d \in 1 .. Len(stack) + 1
        PROVE  stack'[d] = g \/ \E i \in DOMAIN stack : stack'[d] = stack[i]
    <3>1. d = 1 \/ (~(d <= 1) /\ d - 1 \in DOMAIN stack)
      BY <2>2
    <3>2. stack'[d] = IF d <= 1 THEN <<g>>[d] ELSE stack[d - 1]
      BY <1>4, <2>1, <2>2
    <3> QED
      BY <2>2, <3>1, <3>2
  <2> QED
    BY <1>4, <2>1, <2>2, <2>3, <2>4
<1>6. \A d \in DOMAIN stack' : \E h \in FrameType : stack'[d] = h /\ FrameOK(h)
  BY <1>3, <1>5 DEF EventsInv, WalkInv, FramesOK
<1>7. Len(stack') <= MaxDepth
  BY <1>1, <1>5, EventsAssumption
<1> QED
  BY <1>1, <1>5, <1>6, <1>7, StackStep DEF EventsInv, ListInv, Type

LEMMA EmitDeferredStep ==
  ASSUME EventsInv, DeferType, EmitDeferred
  PROVE  EventsInv'
<1>1. UNCHANGED <<live, listVars, fault>> /\ Head(ring).obj \in live
  BY DEF EmitDeferred
<1>2. ring # <<>> /\ Head(ring).name \in Names
  <2>1. ring # <<>> /\ ring \in Seq(Deferred)
    BY DEF EmitDeferred, Idle, DeferType
  <2>2. Head(ring) \in Deferred
    BY <2>1, HeadTailProperties
  <2> QED
    BY <2>1, <2>2 DEF Deferred
<1>3. stack' = IF Emittable(Head(ring).obj, Head(ring).name)
               THEN <<Frame(Head(ring).obj, Head(ring).name)>> ELSE <<>>
  BY DEF EmitDeferred
<1>4. CASE ~Emittable(Head(ring).obj, Head(ring).name)
  <2>1. stack' = <<>> /\ stack' \in Seq(FrameType) /\ Len(stack') = 0 /\ DOMAIN stack' = {}
    BY <1>3, <1>4, EmptySeq
  <2> QED
    BY <1>1, <2>1, EventsAssumption, StackStep DEF EventsInv, ListInv, Type
<1>5. CASE Emittable(Head(ring).obj, Head(ring).name)
  <2>1. PICK g : g = Frame(Head(ring).obj, Head(ring).name)
    OBVIOUS
  <2>2. g \in FrameType /\ FrameOK(g)
    BY <1>1, <1>2, <1>5, <2>1, FrameIsOK DEF EventsInv
  <2>3. stack' = <<g>>
    BY <1>3, <1>5, <2>1
  <2>4. stack' \in Seq(FrameType) /\ Len(stack') = 1 /\ DOMAIN stack' = {1} /\ stack'[1] = g
    BY <2>2, <2>3
  <2>5. Len(stack') <= MaxDepth
    BY <2>4, EventsAssumption
  <2>6. \A d \in DOMAIN stack' : \E h \in FrameType : stack'[d] = h /\ FrameOK(h)
    BY <2>2, <2>4
  <2> QED
    BY <1>1, <2>4, <2>5, <2>6, StackStep DEF EventsInv, ListInv, Type
<1> QED
  BY <1>4, <1>5

\* Every other step leaves lists and emissions as they are.
LEMMA QuietStep ==
  ASSUME EventsInv, UNCHANGED <<live, listVars, stack>>,
         fault' \in {"none", "freed_listener", "freed_event", "stale_object"}
  PROVE  EventsInv'
<1>1. \A d \in DOMAIN stack' : \E f \in FrameType : stack'[d] = f /\ FrameOK(f)
  BY DEF EventsInv, WalkInv, FramesOK
<1>2. stack' \in Seq(FrameType) /\ Len(stack') <= MaxDepth
  BY DEF EventsInv, WalkInv
<1> QED
  BY <1>1, <1>2, StackStep

-----------------------------------------------------------------------------
THEOREM EventsInvariant == Spec => [](DeferInv /\ EventsInv)
<1>1. Init => EventsInv
  <2> SUFFICES ASSUME Init
               PROVE  EventsInv
    OBVIOUS
  <2>1. /\ live = {} /\ events = [e \in Emitters |-> <<>>] /\ func = <<>> /\ added = 0
        /\ stack = <<>> /\ fault = "none"
    BY DEF Init
  <2>2. <<>> \in Seq(EventRecord) /\ DOMAIN <<>> = {}
    BY EmptySeq
  <2>3. Type
    BY <2>1, <2>2, EventsAssumption DEF Type
  <2>4. ListInv
    BY <2>1, <2>2, <2>3 DEF ListInv, OneOfEachName, ListsInOrder, OneListEach, ListedAllocated,
                            AllocatedListed, DeadAreEmpty
  <2>5. <<>> \in Seq(FrameType) /\ Len(<<>>) = 0
    BY EmptySeq
  <2> QED
    BY <2>1, <2>2, <2>4, <2>5, EventsAssumption DEF EventsInv, WalkInv, FramesOK
<1>2. EventsInv /\ DeferInv /\ [Next]_vars => EventsInv'
  <2> SUFFICES ASSUME EventsInv, DeferInv, [Next]_vars
               PROVE  EventsInv'
    OBVIOUS
  <2>1. DeferType /\ fault \in {"none", "freed_listener", "freed_event", "stale_object"}
    BY DEF DeferInv, EventsInv, ListInv, Type
  <2>2. CASE \E e \in Emitters : MakeEmitter(e) \/ DestroyEmitter(e)
    BY <2>2, MakeListsStep, DestroyStep
  <2>3. ASSUME NEW e \in Emitters, NEW name \in Names,
               \/ OnFails(e, name) \/ RemoveAllListeners(e, name) \/ Emit(e, name)
               \/ \E f \in Funcs : On(e, name, f) \/ RemoveListener(e, name, f)
        PROVE  EventsInv'
    BY <2>3, OnFailsStep, RemoveAllStep, EmitStep, OnStep, RemoveListenerStep
  <2>4. CASE CallNext \/ EndEmission
    BY <2>4, CallNextStep, EndEmissionStep
  <2>5. CASE EmitDeferred
    BY <2>1, <2>5, EmitDeferredStep
  <2>6. CASE SkipDeferred \/ CancelDeferred \/ Post \/ CollectPrototype
             \/ \E e \in Emitters, name \in Names : Defer(e, name)
    BY <2>1, <2>6, QuietStep DEF SkipDeferred, CancelDeferred, Post, CollectPrototype, Defer
  <2>7. CASE \E e \in Emitters : Collect(e)
    BY <2>7, CollectListsStep
  <2>8. CASE Undefined
    <3>1. UNCHANGED <<live, listVars, stack>>
      BY <2>8 DEF Undefined
    <3>2. fault' \in {"none", "freed_listener", "freed_event", "stale_object"}
      BY <2>8 DEF Undefined, WalkFreed, LookupFreed, StaleObject
    <3> QED
      BY <3>1, <3>2, QuietStep
  <2>9. CASE Faulted \/ UNCHANGED vars
    BY <2>1, <2>9, QuietStep DEF Faulted
  <2> QED
    BY <2>2, <2>3, <2>4, <2>5, <2>6, <2>7, <2>8, <2>9 DEF Next, Scripts, Main, Others
<1>3. Spec => []EventsInv
  BY <1>1, <1>2, DeferInvariant, PTL DEF Spec
<1> QED
  BY <1>3, DeferInvariant, PTL

\* However listeners add, remove and emit, an emission calls one at most once, in the order
\* in which they were added, and what is allocated is what is listed
\* (zjs_event.c:98-201, 416-463).
THEOREM CalledOnceInOrderTheorem == Spec => []CalledOnceInOrder
<1>1. DeferInv /\ EventsInv => CalledOnceInOrder
  <2> SUFFICES ASSUME DeferInv, EventsInv
               PROVE  CalledOnceInOrder
    OBVIOUS
  <2>1. ListInv /\ Type /\ WalkInv /\ DeferType
    BY DEF DeferInv, EventsInv, ListInv
  <2>3. TypeOK
    BY <2>1 DEF TypeOK, Type, WalkInv, FrameType, DeferType
  <2>4. ListenersListed
    <3>1. ASSUME NEW n \in DOMAIN func
          PROVE  \E e \in live : n \in AllListeners(e)
      <4>1. PICK e \in Emitters : \E i \in DOMAIN events[e] : In(n, e, i)
        BY <2>1 DEF ListInv, AllocatedListed
      <4>2. e \in live
        <5>1. events[e] # <<>>
          <6>1. DOMAIN <<>> = {}
            OBVIOUS
          <6> QED
            BY <4>1, <6>1
        <5> QED
          BY <2>1, <5>1 DEF ListInv, DeadAreEmpty
      <4>3. n \in AllListeners(e)
        BY <4>1 DEF AllListeners, In
      <4> QED
        BY <4>2, <4>3
    <3>2. ASSUME NEW e \in live, NEW n \in AllListeners(e)
          PROVE  n \in DOMAIN func
      <4>1. e \in Emitters
        BY <2>1 DEF Type
      <4> QED
        BY <2>1, <4>1 DEF AllListeners, ListInv, ListedAllocated
    <3>3. DOMAIN func = UNION {AllListeners(e) : e \in live}
      BY <3>1, <3>2
    <3> QED
      BY <2>1, <3>3 DEF ListenersListed, ListInv, ListsInOrder, Type
  <2>5. InOrder
    BY <2>1 DEF InOrder, WalkInv, FramesOK, FrameOK
  <2> QED
    BY <2>3, <2>4, <2>5 DEF CalledOnceInOrder
<1> QED
  BY <1>1, EventsInvariant, PTL

\* When an emission ends, all listeners that are in the list then have been called by it
\* (zjs_event.c:428-450).
THEOREM AllCalled == Spec => AllListenersCalled
<1>1. DeferInv /\ EventsInv /\ [Next]_vars =>
        [Len(stack') < Len(stack) =>
           Elements(Listeners(Top.obj, Top.name)) \subseteq Elements(Top.calls)]_vars
  <2> SUFFICES ASSUME DeferInv, EventsInv, Next, Len(stack') < Len(stack)
               PROVE  Elements(Listeners(Top.obj, Top.name)) \subseteq Elements(Top.calls)
    OBVIOUS
  <2>1. stack \in Seq(FrameType) /\ Len(stack) \in Nat
    BY DEF EventsInv, WalkInv
  <2>2. stack' # stack
    BY <2>1
  <2>3. ~CallNext
    <3> SUFFICES ASSUME CallNext
                 PROVE  FALSE
      OBVIOUS
    <3>1. stack # <<>> /\ Called \in DOMAIN func /\ Following # <<>>
          /\ stack' = <<[Top EXCEPT !.calls = Append(@, Following[1])]>> \o Tail(stack)
      BY DEF CallNext
    <3>2. PICK g : g = [Top EXCEPT !.calls = Append(@, Following[1])]
      OBVIOUS
    <3>3. PICK r : r = Tail(stack)
      OBVIOUS
    <3>4. r \in Seq(FrameType) /\ Len(r) = Len(stack) - 1
      BY <2>1, <3>1, <3>3, HeadTailProperties
    <3>5. r \in Seq(FrameType \cup {g}) /\ <<g>> \in Seq(FrameType \cup {g}) /\ Len(<<g>>) = 1
      BY <3>4
    <3>6. Len(<<g>> \o r) = Len(<<g>>) + Len(r)
      BY <3>5, ConcatProperties
    <3>7. stack' = <<g>> \o r
      BY <3>1, <3>2, <3>3
    <3> QED
      BY <2>1, <3>4, <3>5, <3>6, <3>7
  <2>4. \A e \in Emitters, name \in Names : ~Emit(e, name)
    <3> SUFFICES ASSUME NEW e \in Emitters, NEW name \in Names, Emit(e, name)
                 PROVE  FALSE
      OBVIOUS
    <3>1. stack' = <<Frame(e, name)>> \o stack
      BY DEF Emit
    <3>2. PICK g : g = Frame(e, name)
      OBVIOUS
    <3>3. stack \in Seq(FrameType \cup {g}) /\ <<g>> \in Seq(FrameType \cup {g}) /\ Len(<<g>>) = 1
      BY <2>1
    <3>4. Len(<<g>> \o stack) = Len(<<g>>) + Len(stack)
      BY <3>3, ConcatProperties
    <3> QED
      BY <2>1, <3>1, <3>2, <3>3, <3>4
  <2>5. ~EmitDeferred
    <3> SUFFICES ASSUME EmitDeferred
                 PROVE  FALSE
      OBVIOUS
    <3>1. Len(stack) = 0
      BY EmptySeq DEF EmitDeferred, Idle
    <3>2. stack' = <<>> \/ \E g : stack' = <<g>>
      BY DEF EmitDeferred
    <3>3. Len(stack') \in Nat
      <4>1. CASE stack' = <<>>
        BY <4>1, EmptySeq
      <4>2. ASSUME NEW g, stack' = <<g>>
            PROVE  Len(stack') \in Nat
        BY <4>2
      <4> QED
        BY <3>2, <4>1, <4>2
    <3> QED
      BY <3>1, <3>3
  <2>6. Scripts => UNCHANGED stack
    <3>1. ASSUME NEW e \in Emitters, MakeEmitter(e) \/ DestroyEmitter(e) PROVE UNCHANGED stack
      BY <3>1 DEF MakeEmitter, DestroyEmitter
    <3>2. ASSUME NEW e \in Emitters, NEW name \in Names, OnFails(e, name) \/ RemoveAllListeners(e, name)
          PROVE  UNCHANGED stack
      BY <3>2 DEF OnFails, RemoveAllListeners
    <3>3. ASSUME NEW e \in Emitters, NEW name \in Names, NEW f \in Funcs,
                 On(e, name, f) \/ RemoveListener(e, name, f)
          PROVE  UNCHANGED stack
      BY <3>3 DEF On, RemoveListener
    <3> QED
      BY <2>4, <3>1, <3>2, <3>3, Zenon DEF Scripts
  <2>7. Main => EndEmission \/ UNCHANGED stack
    BY <2>3, <2>5 DEF Main, SkipDeferred, CancelDeferred, Post
  <2>8. Others \/ CollectPrototype \/ Undefined \/ Faulted => UNCHANGED stack
    BY DEF Others, Collect, Defer, CollectPrototype, Undefined, Faulted, vars
  <2>9. EndEmission
    BY <2>2, <2>6, <2>7, <2>8 DEF Next
  <2> QED
    BY <2>9, LastCalledAll
<1> QED
  BY <1>1, EventsInvariant, PTL DEF Spec, AllListenersCalled
=============================================================================
