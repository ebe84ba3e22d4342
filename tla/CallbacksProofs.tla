-------------------------- MODULE CallbacksProofs --------------------------
(***************************************************************************)
(* Theorems about module Callbacks, for every value of its constants.      *)
(***************************************************************************)
EXTENDS MCCallbacks, SequenceTheorems, WellFoundedInduction, TLAPS

USE DEF cbVars, ringVars, mainVars, history, vars

\* A registration keeps the types: what new_id() and the store after it change.
LEMMA StartAddType ==
  ASSUME TypeOK, NEW kind \in Kinds, NEW next \in Places, StartAdd(kind, next)
  PROVE  /\ cb_map' \in [Ids -> Slots] /\ cb_size' \in 0 .. MaxSize /\ cb_limit' \in Nat
         /\ pc' \in Places /\ back' \in Places /\ adding' \in Kinds /\ regs' \in Nat
<1>1. CASE cb_size < cb_limit
  <2>1. Store(kind) /\ pc' = next /\ UNCHANGED <<cb_limit, back, adding>>
    BY <1>1 DEF StartAdd
  <2>2. PICK id \in FreeIds : /\ cb_map' = [cb_map EXCEPT ![id] =
                                [st |-> "live", reg |-> regs + 1, js |-> kind.js, once |-> kind.once]]
                              /\ cb_size' = IF id >= cb_size THEN id + 1 ELSE cb_size
                              /\ regs' = regs + 1
    BY <2>1 DEF Store
  <2>3. id \in Ids
    BY DEF FreeIds
  <2>4. [st |-> "live", reg |-> regs + 1, js |-> kind.js, once |-> kind.once] \in Slots
    BY DEF TypeOK, Slots, Kinds
  <2>5. cb_map' \in [Ids -> Slots]
    BY <2>2, <2>3, <2>4 DEF TypeOK
  <2>6. cb_size' \in 0 .. MaxSize
    BY <2>2, <2>3, SizeAssumption DEF TypeOK, Ids
  <2> QED
    BY <2>1, <2>2, <2>5, <2>6 DEF TypeOK
<1>2. CASE ~(cb_size < cb_limit)
  BY <1>2, SizeAssumption DEF TypeOK, StartAdd, Places
<1> QED
  BY <1>1, <1>2

\* A signal keeps the ring well formed and within its size.
LEMMA SignalType ==
  ASSUME TypeOK, NEW id \in Ids, NEW w \in ArgWords, Signal(id, w)
  PROVE  /\ ring' \in Seq(Items)
         /\ used' \in Int /\ used' <= RingWords - 1
         /\ held' \in Int
<1>1. CASE Deliverable(id) /\ Fits(Signalled(id, w))
  <2>1. Signalled(id, w) \in Items
    BY RingAssumption DEF TypeOK, Signalled, Items, Slots
  <2>2. Put(Signalled(id, w)) /\ held' = held + (IF cb_map[id].js THEN w ELSE 0)
    BY <1>1 DEF Signal
  <2>3. used' \in Int /\ used' <= RingWords - 1
    BY <1>1, <2>1, <2>2, RingAssumption DEF TypeOK, Fits, Put, Items
  <2>4. ring' \in Seq(Items)
    BY <2>1, <2>2 DEF Put, TypeOK
  <2>5. held' \in Int
    BY <2>2, RingAssumption DEF TypeOK
  <2> QED
    BY <2>3, <2>4, <2>5
<1>2. CASE ~(Deliverable(id) /\ Fits(Signalled(id, w)))
  BY <1>2 DEF Signal, TypeOK
<1> QED
  BY <1>1, <1>2

\* Taking the oldest item out of the ring leaves it well formed.
LEMMA GetType ==
  ASSUME TypeOK, ring # <<>>, Get
  PROVE  /\ Head(ring) \in Items
         /\ ring' \in Seq(Items)
         /\ used' \in Int /\ used' <= RingWords - 1
<1>1. Head(ring) \in Items /\ Tail(ring) \in Seq(Items)
  BY DEF TypeOK
<1>2. Head(ring).words \in Nat
  BY <1>1 DEF Items
<1>3. used' \in Int /\ used' <= RingWords - 1
  BY <1>2, RingAssumption DEF TypeOK, Get
<1> QED
  BY <1>1, <1>3 DEF Get

\* Putting an item that fits keeps the ring well formed and within its size.
LEMMA PutType ==
  ASSUME TypeOK, NEW item \in Items, Fits(item), Put(item)
  PROVE  ring' \in Seq(Items) /\ used' \in Int /\ used' <= RingWords - 1
  BY RingAssumption DEF TypeOK, Fits, Put, Items

\* The two commands are items.
LEMMA CommandType ==
  /\ FlushAll \in Items
  /\ \A id \in Ids : FlushOne(id) \in Items
  BY SizeAssumption DEF FlushAll, FlushOne, Items, Ids

\* Marking, freeing and clearing a slot keeps the map's type.
LEMMA SlotType ==
  ASSUME TypeOK, NEW id \in Ids
  PROVE  /\ [cb_map EXCEPT ![id].st = "removed"] \in [Ids -> Slots]
         /\ [cb_map EXCEPT ![id].st = "freed"] \in [Ids -> Slots]
         /\ [cb_map EXCEPT ![id] = Null] \in [Ids -> Slots]
<1>1. cb_map[id] \in Slots
  BY DEF TypeOK
<1>2. /\ [cb_map[id] EXCEPT !.st = "removed"] \in Slots
      /\ [cb_map[id] EXCEPT !.st = "freed"] \in Slots
      /\ Null \in Slots
  BY <1>1 DEF Slots, Null
<1> QED
  BY <1>1, <1>2 DEF TypeOK

\* Every step keeps the types.
LEMMA TypeStep == TypeOK /\ [Next]_vars => TypeOK'
<1> SUFFICES ASSUME TypeOK, [Next]_vars PROVE TypeOK'
  OBVIOUS
<1> USE SizeAssumption, RingAssumption
<1>1. ASSUME NEW kind \in Kinds, Add(kind) PROVE TypeOK'
  <2>1. pc \in Places /\ StartAdd(kind, pc)
    BY <1>1 DEF Add, TypeOK
  <2> QED
    BY <1>1, <2>1, StartAddType DEF Add, TypeOK
<1>2. CASE AddGrowFails
  BY <1>2 DEF AddGrowFails, TypeOK
<1>3. ASSUME NEW id \in Ids, RemoveCallback(id) PROVE TypeOK'
  <2>1. cb_map' \in [Ids -> Slots]
    BY <1>3, SlotType DEF RemoveCallback, Mark
  <2>2. target' \in Ids /\ back' \in Places /\ pc' \in Places
    BY <1>3 DEF RemoveCallback, TypeOK, Places
  <2> QED
    BY <1>3, <2>1, <2>2 DEF RemoveCallback, TypeOK
<1>4. ASSUME NEW id \in Ids, NEW w \in ArgWords, MainSignal(id, w) PROVE TypeOK'
  BY <1>4, SignalType DEF MainSignal, TypeOK
<1>5. CASE RemoveAll
  BY <1>5, PutType, CommandType DEF RemoveAll, TypeOK, Places
<1>6. CASE AddGrown
  <2>1. PICK id \in FreeIds : /\ cb_map' = [cb_map EXCEPT ![id] =
                                [st |-> "live", reg |-> regs + 1, js |-> adding.js,
                                 once |-> adding.once]]
                              /\ cb_size' = IF id >= cb_size THEN id + 1 ELSE cb_size
                              /\ regs' = regs + 1
    BY <1>6 DEF AddGrown, Store
  <2>2. id \in Ids
    BY DEF FreeIds
  <2>3. [st |-> "live", reg |-> regs + 1, js |-> adding.js, once |-> adding.once] \in Slots
    BY DEF TypeOK, Slots, Kinds
  <2>4. cb_map' \in [Ids -> Slots]
    BY <2>1, <2>2, <2>3 DEF TypeOK
  <2>5. cb_size' \in 0 .. MaxSize
    BY <2>1, <2>2 DEF TypeOK, Ids
  <2> QED
    BY <1>6, <2>1, <2>4, <2>5 DEF AddGrown, ReturnTo, TypeOK, Places, CKind, Kinds
<1>7. CASE QueueFlush
  BY <1>7, PutType, CommandType DEF QueueFlush, ReturnTo, TypeOK, Places, Ids
<1>8. CASE QueueFlushFails
  BY <1>8, SlotType DEF QueueFlushFails, FreeSlot, TypeOK, Places
<1>9. CASE ClearSlot
  <2>1. cb_map' \in [Ids -> Slots]
    BY <1>9, SlotType DEF ClearSlot, TypeOK
  <2> QED
    BY <1>9, <2>1 DEF ClearSlot, ReturnTo, TypeOK, Places, Ids
<1>10. CASE RemoveNext
  <2>1. idx \in Ids
    BY <1>10 DEF RemoveNext, TypeOK, Ids
  <2>2. cb_map' \in [Ids -> Slots]
    BY <1>10, <2>1, SlotType DEF RemoveNext, Mark, TypeOK
  <2> QED
    BY <1>10, <2>1, <2>2 DEF RemoveNext, TypeOK, Places
<1>11. CASE InitCallbacks
  <2>1. CKind \in Kinds /\ "top" \in Places
    BY DEF CKind, Kinds, Places
  <2>2. ring' \in Seq(Items) /\ used' \in Int /\ used' <= RingWords - 1
    <3>1. <<>> \in Seq(Items) /\ 0 <= RingWords - 1
      OBVIOUS
    <3>2. (ring' = <<>> \/ ring' = ring) /\ (used' = 0 \/ used' = used)
      BY <1>11 DEF InitCallbacks
    <3>3. ring' \in Seq(Items)
      BY <3>1, <3>2, Zenon DEF TypeOK
    <3>4. used' \in Int /\ used' <= RingWords - 1
      BY <3>1, <3>2 DEF TypeOK
    <3> QED
      BY <3>3, <3>4
  <2> QED
    BY <1>11, <2>1, <2>2, StartAddType DEF InitCallbacks, TypeOK
<1>12. CASE StartService
  BY <1>12 DEF StartService, TypeOK, Places
<1>13. CASE EndService
  BY <1>13 DEF EndService, TypeOK, Places
<1>14. CASE ServiceFlushOne
  <2>1. Head(ring) \in Items /\ Head(ring).id \in Ids
    BY <1>14, GetType DEF ServiceFlushOne, Servicing, Items
  <2>2. cb_map' \in [Ids -> Slots] /\ target' \in Ids
    BY <1>14, <2>1, SlotType DEF ServiceFlushOne, FreeSlot, TypeOK
  <2>3. ring' \in Seq(Items) /\ used' \in Int /\ used' <= RingWords - 1 /\ count' \in Nat
    BY <1>14, GetType DEF ServiceFlushOne, Servicing, TypeOK
  <2>4. pc' \in Places /\ back' \in Places
    BY <1>14 DEF ServiceFlushOne, FreeSlot, TypeOK, Places
  <2> QED
    BY <1>14, <2>2, <2>3, <2>4 DEF ServiceFlushOne, TypeOK
<1>15. CASE ServiceFlushAll
  BY <1>15, GetType DEF ServiceFlushAll, Servicing, TypeOK, Places
<1>16. CASE FreeNext
  <2>1. CASE idx >= cb_size
    BY <1>16, <2>1 DEF FreeNext, TypeOK, Places
  <2>2. CASE ~(idx >= cb_size)
    <3>1. idx \in Ids
      BY <2>2 DEF TypeOK, Ids
    <3>2. cb_map' \in [Ids -> Slots] /\ target' \in Ids
      BY <1>16, <2>2, <3>1, SlotType DEF FreeNext, FreeSlot, TypeOK
    <3>3. pc' \in Places /\ back' \in Places /\ idx' \in Nat
      <4>1. CASE cb_map[idx].st = "removed"
        BY <1>16, <2>2, <4>1 DEF FreeNext, FreeSlot, TypeOK, Places
      <4>2. CASE cb_map[idx].st # "removed"
        BY <1>16, <2>2, <4>2 DEF FreeNext, TypeOK, Places
      <4> QED
        BY <4>1, <4>2
    <3> QED
      BY <1>16, <2>2, <3>2, <3>3 DEF FreeNext, TypeOK
  <2> QED
    BY <2>1, <2>2
<1>17. CASE ServiceCall
  <2>1. Head(ring) \in Items /\ cb_map[Head(ring).id] \in Slots
    BY <1>17, GetType DEF ServiceCall, Servicing, Items, TypeOK
  <2>2. cur' \in Works /\ called' \subseteq Nat /\ skewed' \in BOOLEAN
    BY <1>17, <2>1 DEF ServiceCall, Skew, Works, Slots, Items, TypeOK
  <2> QED
    BY <1>17, <2>2, GetType DEF ServiceCall, Servicing, TypeOK, Places
<1>18. CASE ServiceSkip
  <2>1. Head(ring) \in Items /\ cb_map[Head(ring).id] \in Slots
    BY <1>18, GetType DEF ServiceSkip, Servicing, Items, TypeOK
  <2>2. held' \in Int /\ skewed' \in BOOLEAN
    BY <1>18, <2>1 DEF ServiceSkip, Skew, Slots, Items, TypeOK
  <2> QED
    BY <1>18, <2>2, GetType DEF ServiceSkip, Servicing, TypeOK
<1>19. CASE ServiceMissing
  <2>1. skewed' \in BOOLEAN
    BY <1>19 DEF ServiceMissing, Skew, TypeOK
  <2> QED
    BY <1>19, <2>1, GetType DEF ServiceMissing, Servicing, TypeOK
<1>20. CASE Return
  BY <1>20 DEF Return, TypeOK, Places
<1>21. CASE Post
  <2>1. cur.id \in Ids
    BY DEF TypeOK, Works
  <2>2. cb_map' \in [Ids -> Slots] /\ target' \in Ids
    <3>1. CASE cb_map[cur.id].st = "live" /\ cb_map[cur.id].once
      BY <1>21, <2>1, <3>1, SlotType DEF Post, Mark
    <3>2. CASE ~(cb_map[cur.id].st = "live" /\ cb_map[cur.id].once)
      BY <1>21, <3>2 DEF Post, TypeOK
    <3> QED
      BY <3>1, <3>2
  <2> QED
    BY <1>21, <2>2 DEF Post, TypeOK, Places
<1>22. CASE Release
  BY <1>22 DEF Release, NoWork, TypeOK, Works, Places, Ids
<1>23. ASSUME NEW id \in Ids, NEW w \in ArgWords, ThreadSignal(id, w) PROVE TypeOK'
  BY <1>23, SignalType DEF ThreadSignal, TypeOK
<1>24. ASSUME NEW id \in Ids, NEW w \in ArgWords, Interrupt(id, w) PROVE TypeOK'
  <2>1. ring' \in Seq(Items) /\ used' \in Int /\ used' <= RingWords - 1 /\ held' \in Int
    BY <1>24, SignalType DEF Interrupt, TypeOK
  <2> QED
    BY <1>24, <2>1 DEF Interrupt, TypeOK
<1>25. CASE UNCHANGED vars
  BY <1>25 DEF TypeOK
<1> QED
  BY <1>1, <1>2, <1>3, <1>4, <1>5, <1>6, <1>7, <1>8, <1>9, <1>10, <1>11, <1>12, <1>13, <1>14,
     <1>15, <1>16, <1>17, <1>18, <1>19, <1>20, <1>21, <1>22, <1>23, <1>24, <1>25
  DEF Next, Calls, Main, Others, Faulted

\* The state that zjs_init_callbacks leaves has the types.
LEMMA TypeInit == Init => TypeOK
<1> SUFFICES ASSUME Init PROVE TypeOK
  OBVIOUS
<1>1. cb_map \in [Ids -> Slots]
  BY DEF Init, Slots, Null
<1>2. adding \in Kinds /\ cur \in Works /\ ring \in Seq(Items)
  BY SizeAssumption DEF Init, Kinds, CKind, Works, NoWork, Ids
<1>3. cb_size \in 0 .. MaxSize /\ cb_limit \in Nat /\ used \in Int /\ used <= RingWords - 1
  BY SizeAssumption, RingAssumption DEF Init
<1>4. pc \in Places /\ back \in Places /\ target \in Ids
  BY SizeAssumption DEF Init, Places, Ids
<1> QED
  BY <1>1, <1>2, <1>3, <1>4 DEF Init, TypeOK

\* Every variable keeps its type, the ring its bound and the map its size
\* (zjs_callbacks.c).
THEOREM TypeCorrect == Spec => []TypeOK
  BY TypeInit, TypeStep, PTL DEF Spec

-----------------------------------------------------------------------------
(***************************************************************************)
(* The inductive invariant: first the part that always holds.              *)
(***************************************************************************)
\* What a registration does to the map: one empty slot becomes live.
LEMMA StoreEffect ==
  ASSUME TypeOK, NEW kind \in Kinds, Store(kind)
  PROVE  \E id \in Ids :
           /\ cb_map[id].st = "null"
           /\ cb_map' = [cb_map EXCEPT ![id] =
                          [st |-> "live", reg |-> regs + 1, js |-> kind.js, once |-> kind.once]]
           /\ regs' = regs + 1
  BY DEF Store, FreeIds

\* A registration leaves the removed and the freed callbacks as they are.
LEMMA StorePlace ==
  ASSUME TypeOK, PlaceInv, NEW kind \in Kinds, Store(kind)
  PROVE  \A id \in Ids :
           /\ cb_map'[id].st \in {"live", "removed"} => cb_map'[id].reg > 0
           /\ cb_map[id].st = "removed" <=> cb_map'[id].st = "removed"
           /\ cb_map[id].st = "freed" <=> cb_map'[id].st = "freed"
<1>1. PICK new \in Ids :
           /\ cb_map[new].st = "null"
           /\ cb_map' = [cb_map EXCEPT ![new] =
                          [st |-> "live", reg |-> regs + 1, js |-> kind.js, once |-> kind.once]]
           /\ regs' = regs + 1
  BY StoreEffect
<1> TAKE id \in Ids
<1>2. CASE id = new
  BY <1>1, <1>2 DEF TypeOK
<1>3. CASE id # new
  BY <1>1, <1>3 DEF TypeOK, PlaceInv
<1> QED
  BY <1>2, <1>3

\* What marking and freeing a callback do to the map.
LEMMA MarkEffect ==
  ASSUME TypeOK, NEW id \in Ids, Mark(id)
  PROVE  \A j \in Ids :
           /\ cb_map'[j].reg = cb_map[j].reg
           /\ cb_map'[j].st = IF j = id THEN "removed" ELSE cb_map[j].st
  BY DEF TypeOK, Slots, Mark

\* The first half of zjs_free_callback: the slot still points to what was freed.
LEMMA FreeEffect ==
  ASSUME TypeOK, NEW id \in Ids, FreeSlot(id)
  PROVE  /\ \A j \in Ids :
              /\ cb_map'[j].reg = cb_map[j].reg
              /\ cb_map'[j].st = IF j = id THEN "freed" ELSE cb_map[j].st
         /\ pc' = "free"
         /\ target' = id
  BY DEF TypeOK, Slots, FreeSlot

\* Every step of main, a thread or an interrupt handler keeps main's locals in
\* agreement with the place main is at.
LEMMA PlaceStep == TypeOK /\ PlaceInv /\ [Next]_vars => PlaceInv'
<1> SUFFICES ASSUME TypeOK, PlaceInv, [Next]_vars PROVE PlaceInv'
  OBVIOUS
<1>1. ASSUME NEW kind \in Kinds, Add(kind) PROVE PlaceInv'
  <2>1. CASE cb_size < cb_limit
    <3>1. Store(kind) /\ UNCHANGED <<pc, back, target, cur>>
      BY <1>1, <2>1 DEF Add, StartAdd
    <3>2. \A id \in Ids :
            /\ cb_map'[id].st \in {"live", "removed"} => cb_map'[id].reg > 0
            /\ cb_map[id].st = "removed" <=> cb_map'[id].st = "removed"
            /\ cb_map[id].st = "freed" <=> cb_map'[id].st = "freed"
      BY <1>1, <3>1, StorePlace
    <3> QED
      BY <1>1, <3>1, <3>2 DEF Add, InJs, TypeOK, PlaceInv, InCall
  <2>2. CASE ~(cb_size < cb_limit)
    BY <1>1, <2>2 DEF Add, StartAdd, InJs, PlaceInv, InCall
  <2> QED
    BY <2>1, <2>2
<1>2. CASE AddGrowFails
  BY <1>2 DEF AddGrowFails, PlaceInv, InCall
<1>3. ASSUME NEW id \in Ids, RemoveCallback(id) PROVE PlaceInv'
  BY <1>3 DEF RemoveCallback, Mark, InJs, TypeOK, Slots, PlaceInv, InCall
<1>4. ASSUME NEW id \in Ids, NEW w \in ArgWords, MainSignal(id, w) PROVE PlaceInv'
  BY <1>4 DEF MainSignal, PlaceInv, InCall
<1>5. CASE RemoveAll
  BY <1>5 DEF RemoveAll, PlaceInv, InCall
<1>6. CASE AddGrown
  <2>1. Store(adding) /\ adding \in Kinds
    BY <1>6 DEF AddGrown, TypeOK
  <2> QED
    BY <1>6, <2>1, StorePlace DEF AddGrown, ReturnTo, PlaceInv, InCall
<1>7. CASE QueueFlush
  BY <1>7 DEF QueueFlush, ReturnTo, PlaceInv, InCall
<1>8. CASE QueueFlushFails
  BY <1>8 DEF QueueFlushFails, FreeSlot, TypeOK, Slots, PlaceInv, InCall
<1>9. CASE ClearSlot
  BY <1>9 DEF ClearSlot, ReturnTo, Null, TypeOK, Slots, PlaceInv, InCall
<1>10. CASE RemoveNext
  <2>1. idx \in Ids
    BY <1>10, SizeAssumption DEF RemoveNext, TypeOK, Ids
  <2>2. CASE cb_map[idx].st = "live"
    BY <1>10, <2>1, <2>2, MarkEffect DEF RemoveNext, PlaceInv, InCall
  <2>3. CASE cb_map[idx].st # "live"
    BY <1>10, <2>3 DEF RemoveNext, PlaceInv, InCall
  <2> QED
    BY <2>2, <2>3
<1>11. CASE InitCallbacks
  <2>1. CASE cb_size < cb_limit
    <3>1. Store(CKind) /\ pc' = "top" /\ UNCHANGED <<back, target, cur>>
      BY <1>11, <2>1 DEF InitCallbacks, StartAdd
    <3>2. CKind \in Kinds
      BY DEF CKind, Kinds
    <3> QED
      BY <1>11, <3>1, <3>2, StorePlace DEF InitCallbacks, PlaceInv, InCall
  <2>2. CASE ~(cb_size < cb_limit)
    BY <1>11, <2>2 DEF InitCallbacks, StartAdd, PlaceInv, InCall
  <2> QED
    BY <2>1, <2>2
<1>12. CASE StartService
  BY <1>12 DEF StartService, PlaceInv, InCall
<1>13. CASE EndService
  BY <1>13 DEF EndService, PlaceInv, InCall
<1>14. CASE ServiceFlushOne
  <2>1. Head(ring).id \in Ids
    BY <1>14, GetType DEF ServiceFlushOne, Servicing, Items
  <2>2. CASE cb_map[Head(ring).id].st = "removed"
    BY <1>14, <2>1, <2>2, FreeEffect DEF ServiceFlushOne, Servicing, PlaceInv, InCall
  <2>3. CASE cb_map[Head(ring).id].st # "removed"
    BY <1>14, <2>3 DEF ServiceFlushOne, PlaceInv, InCall
  <2> QED
    BY <2>2, <2>3
<1>15. CASE ServiceFlushAll
  BY <1>15 DEF ServiceFlushAll, Servicing, PlaceInv, InCall
<1>16. CASE FreeNext
  <2>1. CASE idx >= cb_size
    BY <1>16, <2>1 DEF FreeNext, PlaceInv, InCall
  <2>2. CASE ~(idx >= cb_size)
    <3>1. idx \in Ids
      BY <2>2, SizeAssumption DEF TypeOK, Ids
    <3>2. CASE cb_map[idx].st = "removed"
      BY <1>16, <2>2, <3>1, <3>2, FreeEffect DEF FreeNext, PlaceInv, InCall
    <3>3. CASE cb_map[idx].st # "removed"
      BY <1>16, <2>2, <3>3 DEF FreeNext, PlaceInv, InCall
    <3> QED
      BY <3>2, <3>3
  <2> QED
    BY <2>1, <2>2
<1>17. CASE ServiceCall
  <2>1. Head(ring).id \in Ids
    BY <1>17, GetType DEF ServiceCall, Servicing, Items
  <2>2. cur'.to # 0
    BY <1>17, <2>1 DEF ServiceCall, PlaceInv
  <2>3. cur' # NoWork
    BY <2>2 DEF NoWork
  <2> QED
    BY <1>17, <2>3 DEF ServiceCall, Servicing, PlaceInv, InCall
<1>18. CASE ServiceSkip
  BY <1>18 DEF ServiceSkip, PlaceInv, InCall
<1>19. CASE ServiceMissing
  BY <1>19 DEF ServiceMissing, PlaceInv, InCall
<1>20. CASE Return
  BY <1>20 DEF Return, PlaceInv, InCall
<1>21. CASE Post
  <2>1. cur.id \in Ids
    BY DEF TypeOK, Works
  <2>2. CASE cb_map[cur.id].st = "live" /\ cb_map[cur.id].once
    BY <1>21, <2>1, <2>2, MarkEffect DEF Post, PlaceInv, InCall
  <2>3. CASE ~(cb_map[cur.id].st = "live" /\ cb_map[cur.id].once)
    BY <1>21, <2>3 DEF Post, PlaceInv, InCall
  <2> QED
    BY <2>2, <2>3
<1>22. CASE Release
  BY <1>22 DEF Release, PlaceInv, InCall
<1>23. ASSUME NEW id \in Ids, NEW w \in ArgWords, ThreadSignal(id, w) PROVE PlaceInv'
  BY <1>23 DEF ThreadSignal, PlaceInv, InCall
<1>24. ASSUME NEW id \in Ids, NEW w \in ArgWords, Interrupt(id, w) PROVE PlaceInv'
  BY <1>24 DEF Interrupt, PlaceInv, InCall
<1>25. CASE UNCHANGED vars
  BY <1>25 DEF PlaceInv, InCall
<1> QED
  BY <1>1, <1>2, <1>3, <1>4, <1>5, <1>6, <1>7, <1>8, <1>9, <1>10, <1>11, <1>12, <1>13, <1>14,
     <1>15, <1>16, <1>17, <1>18, <1>19, <1>20, <1>21, <1>22, <1>23, <1>24, <1>25
  DEF Next, Calls, Main, Others, Faulted

-----------------------------------------------------------------------------
(***************************************************************************)
(* The part that holds while no flush command was refused.                 *)
(***************************************************************************)
\* The items of the ring after a put and after a get.
LEMMA PutItems ==
  ASSUME TypeOK, NEW item \in Items, Put(item)
  PROVE  /\ \A i \in DOMAIN ring : i \in DOMAIN ring' /\ ring'[i] = ring[i]
         /\ \A i \in DOMAIN ring' :
              \/ i \in DOMAIN ring /\ ring'[i] = ring[i]
              \/ i = Len(ring) + 1 /\ ring'[i] = item
         /\ DOMAIN ring = 1 .. Len(ring)
         /\ Len(ring) \in Nat
<1>1. ring \in Seq(Items) /\ ring' = Append(ring, item)
  BY DEF TypeOK, Put
<1>2. DOMAIN ring = 1 .. Len(ring) /\ Len(ring) \in Nat
  BY <1>1
<1>3. DOMAIN ring' = 1 .. Len(ring) + 1
  BY <1>1
<1>4. \A i \in 1 .. Len(ring) : ring'[i] = ring[i]
  BY <1>1
<1>5. ring'[Len(ring) + 1] = item
  BY <1>1
<1> QED
  BY <1>2, <1>3, <1>4, <1>5

\* The items of the ring after a get: each has moved one place to the front.
LEMMA GetItems ==
  ASSUME TypeOK, ring # <<>>, Get
  PROVE  /\ 1 \in DOMAIN ring /\ ring[1] = Head(ring)
         /\ \A i \in DOMAIN ring' : i \in Nat /\ i > 0 /\ i + 1 \in DOMAIN ring /\ ring'[i] = ring[i + 1]
<1>1. ring \in Seq(Items) /\ ring # <<>> /\ ring' = Tail(ring)
  BY DEF TypeOK, Get
<1>2. Len(ring) \in Nat /\ Len(ring) > 0 /\ DOMAIN ring = 1 .. Len(ring)
  BY <1>1
<1>3. ring[1] = Head(ring)
  BY <1>1
<1>4. DOMAIN ring' = 1 .. Len(ring) - 1
  BY <1>1, <1>2
<1>5. \A i \in 1 .. Len(ring) - 1 : ring'[i] = ring[i + 1]
  BY <1>1, <1>2
<1> QED
  BY <1>2, <1>3, <1>4, <1>5

\* What is in the ring is about an id of the map.
LEMMA ItemIds == TypeOK => \A i \in DOMAIN ring : ring[i] \in Items /\ ring[i].id \in Ids
<1> SUFFICES ASSUME TypeOK, NEW i \in DOMAIN ring PROVE ring[i] \in Items /\ ring[i].id \in Ids
  OBVIOUS
<1>1. ring \in Seq(Items)
  BY DEF TypeOK
<1>2. ring[i] \in Items
  BY <1>1
<1> QED
  BY <1>2 DEF Items

\* A signal is put behind no flush command for its callback.
LEMMA SignalClean ==
  ASSUME TypeOK, PlaceInv, Clean, NEW id \in Ids, NEW w \in ArgWords, Signal(id, w),
         UNCHANGED <<cb_map, pc, back, target, cur>>
  PROVE  Clean'
<1>1. CASE Deliverable(id) /\ Fits(Signalled(id, w))
  <2>1. Signalled(id, w) \in Items
    BY RingAssumption DEF TypeOK, Signalled, Items, Slots
  <2>2. Put(Signalled(id, w))
    BY <1>1 DEF Signal
  <2>3. /\ Signalled(id, w).kind = "sig"
        /\ Signalled(id, w).id = id
        /\ Signalled(id, w).reg = cb_map[id].reg
        /\ cb_map[id].st = "live"
    BY <1>1 DEF Signalled, Deliverable
  <2>4. NoFlushAll'
    BY <2>1, <2>2, <2>3, PutItems DEF Clean, NoFlushAll
  <2>5. SignalInv'
    BY <2>1, <2>2, <2>3, PutItems DEF Clean, SignalInv
  <2>6. FlushInv'
    BY <2>1, <2>2, <2>3, PutItems DEF Clean, FlushInv, Pending
  <2> QED
    BY <2>4, <2>5, <2>6 DEF Clean, CallInv
<1>2. CASE ~(Deliverable(id) /\ Fits(Signalled(id, w)))
  BY <1>2 DEF Signal, Clean, NoFlushAll, SignalInv, FlushInv, CallInv, Pending
<1> QED
  BY <1>1, <1>2

\* A registration takes a slot no pending item and no call is about.
LEMMA StoreClean ==
  ASSUME TypeOK, PlaceInv, Clean, NEW kind \in Kinds, Store(kind),
         UNCHANGED <<ring, cur>>
  PROVE  SignalInv' /\ CallInv' /\
         \A i \in DOMAIN ring : ring[i].kind = "one" => cb_map'[ring[i].id].st = "removed"
<1>1. PICK new \in Ids :
           /\ cb_map[new].st = "null"
           /\ cb_map' = [cb_map EXCEPT ![new] =
                          [st |-> "live", reg |-> regs + 1, js |-> kind.js, once |-> kind.once]]
  BY StoreEffect
<1>2. \A id \in Ids : id # new => cb_map'[id] = cb_map[id]
  BY <1>1 DEF TypeOK
<1>3. cur.id \in Ids
  BY DEF TypeOK, Works
<1> QED
  BY <1>1, <1>2, <1>3, ItemIds DEF Clean, SignalInv, FlushInv, CallInv

\* Marking a live callback: no flush command for it is pending.
LEMMA MarkClean ==
  ASSUME TypeOK, Clean, NEW id \in Ids, cb_map[id].st = "live", Mark(id), UNCHANGED ring
  PROVE  /\ SignalInv'
         /\ \A i \in DOMAIN ring : ring[i].kind = "one" =>
              cb_map'[ring[i].id].st = "removed" /\ ring[i].id # id
  BY MarkEffect, ItemIds DEF Clean, SignalInv, FlushInv

\* The items left after the oldest one is taken out.
LEMMA GetClean ==
  ASSUME TypeOK, Clean, ring # <<>>, Get, UNCHANGED cb_map
  PROVE  /\ \A i \in DOMAIN ring' : ring'[i].kind # "all"
         /\ SignalInv'
         /\ \A i \in DOMAIN ring' : ring'[i].kind = "one" =>
              /\ cb_map[ring'[i].id].st = "removed"
              /\ \A j \in DOMAIN ring' : j > i => ring'[j].id # ring'[i].id
  BY GetItems DEF Clean, NoFlushAll, SignalInv, FlushInv

\* While no flush command is refused and no stopJS begun, every step keeps the
\* pending items and the call in progress true to the map.
LEMMA CleanStep ==
  TypeOK /\ IInv /\ PlaceInv' /\ [Next]_vars => (~tainted' => Clean')
<1> SUFFICES ASSUME TypeOK, PlaceInv, ~tainted => Clean, PlaceInv', [Next]_vars, ~tainted'
             PROVE  Clean'
  BY DEF IInv
<1>1. ASSUME NEW kind \in Kinds, Add(kind) PROVE Clean'
  <2>1. Clean
    BY <1>1 DEF Add
  <2>2. CASE cb_size < cb_limit
    <3>1. Store(kind) /\ UNCHANGED <<pc, back, target, cur, ring>>
      BY <1>1, <2>2 DEF Add, StartAdd
    <3>2. pc # "flush"
      BY <1>1 DEF Add, InJs
    <3> QED
      BY <1>1, <2>1, <3>1, <3>2, StoreClean DEF Clean, NoFlushAll, FlushInv
  <2>3. CASE ~(cb_size < cb_limit)
    BY <1>1, <2>1, <2>3
    DEF Add, StartAdd, InJs, Clean, NoFlushAll, SignalInv, FlushInv, CallInv, Pending
  <2> QED
    BY <2>2, <2>3
<1>2. CASE AddGrowFails
  BY <1>2 DEF AddGrowFails, Clean, NoFlushAll, SignalInv, FlushInv, CallInv, Pending
<1>3. ASSUME NEW id \in Ids, RemoveCallback(id) PROVE Clean'
  <2>1. /\ Clean
        /\ cb_map[id].st = "live" /\ Mark(id)
        /\ UNCHANGED <<ring, cur>>
        /\ pc \in {"top", "body"} /\ back' = pc /\ pc' = "flush" /\ target' = id
    BY <1>3 DEF RemoveCallback, InJs
  <2>2. NoFlushAll'
    BY <2>1 DEF Clean, NoFlushAll
  <2>3. SignalInv' /\ FlushInv'
    BY <2>1, MarkClean DEF Clean, FlushInv, Pending
  <2>4. CallInv'
    BY <2>1, MarkEffect DEF Clean, CallInv, TypeOK, Works
  <2> QED
    BY <2>2, <2>3, <2>4 DEF Clean
<1>4. ASSUME NEW id \in Ids, NEW w \in ArgWords, MainSignal(id, w) PROVE Clean'
  BY <1>4, SignalClean DEF MainSignal
<1>5. CASE RemoveAll
  BY <1>5 DEF RemoveAll
<1>6. CASE AddGrown
  <2>1. /\ Clean
        /\ Store(adding) /\ adding \in Kinds
        /\ UNCHANGED <<ring, cur>>
        /\ pc' = back /\ back' = "top" /\ pc = "grow"
    BY <1>6 DEF AddGrown, ReturnTo, TypeOK
  <2>2. pc' # "flush"
    BY <2>1 DEF PlaceInv
  <2> QED
    BY <2>1, <2>2, StoreClean DEF Clean, NoFlushAll, FlushInv
<1>7. CASE QueueFlush
  <2>1. /\ Clean
        /\ FlushOne(target) \in Items /\ Put(FlushOne(target))
        /\ FlushOne(target).kind = "one" /\ FlushOne(target).id = target
        /\ UNCHANGED <<cb_map, cur>>
        /\ pc = "flush" /\ pc' = back /\ back' = "top"
    BY <1>7, CommandType DEF QueueFlush, ReturnTo, FlushOne, TypeOK
  <2>2. pc' # "flush"
    BY <2>1 DEF PlaceInv
  <2>3. cb_map[target].st = "removed" /\ ~Pending("one", target)
    BY <2>1 DEF PlaceInv, Clean, FlushInv
  <2>4. NoFlushAll'
    BY <2>1, PutItems DEF Clean, NoFlushAll
  <2>5. SignalInv'
    BY <2>1, PutItems DEF Clean, SignalInv
  <2>6. FlushInv'
    BY <2>1, <2>2, <2>3, PutItems DEF Clean, FlushInv, Pending
  <2> QED
    BY <2>1, <2>4, <2>5, <2>6 DEF Clean, CallInv
<1>8. CASE QueueFlushFails
  BY <1>8 DEF QueueFlushFails
<1>9. CASE ClearSlot
  <2>1. /\ Clean
        /\ target \in Ids /\ cb_map' = [cb_map EXCEPT ![target] = Null]
        /\ UNCHANGED <<ring, cur>>
        /\ pc = "free" /\ pc' = back /\ back' = "top"
    BY <1>9 DEF ClearSlot, ReturnTo, TypeOK
  <2>2. cb_map[target].st = "freed" /\ pc' # "flush"
    BY <2>1 DEF PlaceInv
  <2>3. \A id \in Ids : id # target => cb_map'[id] = cb_map[id]
    BY <2>1 DEF TypeOK
  <2>4. cur.id \in Ids
    BY DEF TypeOK, Works
  <2>5. NoFlushAll'
    BY <2>1 DEF Clean, NoFlushAll
  <2>6. SignalInv'
    BY <2>1, <2>2, <2>3, ItemIds DEF Clean, SignalInv
  <2>7. FlushInv'
    BY <2>1, <2>2, <2>3, ItemIds DEF Clean, FlushInv
  <2>8. CallInv'
    BY <2>1, <2>2, <2>3, <2>4 DEF Clean, CallInv
  <2> QED
    BY <2>5, <2>6, <2>7, <2>8 DEF Clean
<1>10. CASE RemoveNext
  BY <1>10 DEF RemoveNext, Clean, NoFlushAll
<1>11. CASE InitCallbacks
  BY <1>11 DEF InitCallbacks, Clean, NoFlushAll
<1>12. CASE StartService
  BY <1>12 DEF StartService, Clean, NoFlushAll, SignalInv, FlushInv, CallInv
<1>13. CASE EndService
  <2>1. CASE ring = <<>>
    <3>1. DOMAIN ring' = {}
      BY <1>13, <2>1 DEF EndService
    <3>2. cur' = NoWork
      BY <1>13 DEF EndService, PlaceInv, InCall
    <3> QED
      BY <1>13, <3>1, <3>2
      DEF EndService, PlaceInv, Clean, NoFlushAll, SignalInv, FlushInv, CallInv
  <2>2. CASE ring # <<>>
    BY <1>13, <2>2 DEF EndService, Clean, NoFlushAll, SignalInv, FlushInv, CallInv
  <2> QED
    BY <2>1, <2>2
<1>14. CASE ServiceFlushOne
  <2>1. /\ Clean
        /\ ring # <<>> /\ Get /\ Head(ring).kind = "one" /\ pc = "service"
        /\ UNCHANGED cur
    BY <1>14 DEF ServiceFlushOne, Servicing
  <2>2. /\ cb_map[Head(ring).id].st = "removed"
        /\ Head(ring).id \in Ids
        /\ \A i \in DOMAIN ring' : ring'[i].id # Head(ring).id
    BY <2>1, GetType, GetItems DEF Clean, FlushInv, Items
  <2>3. FreeSlot(Head(ring).id) /\ back' = "service"
    BY <1>14, <2>2 DEF ServiceFlushOne
  <2>4. \A id \in Ids : id # Head(ring).id => cb_map'[id] = cb_map[id]
    BY <2>3 DEF FreeSlot, TypeOK
  <2>5. \A i \in DOMAIN ring' : ring'[i].id \in Ids
    BY <2>1, GetItems, ItemIds
  <2>6. cur' = NoWork /\ pc' = "free"
    BY <2>1, <2>3 DEF FreeSlot, PlaceInv, InCall
  <2> QED
    BY <2>1, <2>2, <2>3, <2>4, <2>5, <2>6, GetItems
    DEF Clean, NoFlushAll, SignalInv, FlushInv, CallInv
<1>15. CASE ServiceFlushAll
  BY <1>15, GetItems DEF ServiceFlushAll, Servicing, Clean, NoFlushAll
<1>16. CASE FreeNext
  BY <1>16 DEF FreeNext, Clean, NoFlushAll
<1>17. CASE ServiceCall
  <2>1. /\ Clean
        /\ ring # <<>> /\ Get /\ Head(ring).kind = "sig" /\ pc = "service" /\ pc' = "body"
        /\ UNCHANGED <<cb_map, back>>
        /\ cb_map[Head(ring).id].st = "live"
        /\ cur' = [id |-> Head(ring).id, reg |-> Head(ring).reg, to |-> cb_map[Head(ring).id].reg,
                   js |-> cb_map[Head(ring).id].js, words |-> Head(ring).words]
    BY <1>17 DEF ServiceCall, Servicing
  <2>2. cb_map[Head(ring).id].reg = Head(ring).reg
    BY <2>1, GetItems DEF Clean, SignalInv
  <2>3. CallInv'
    BY <2>1, <2>2 DEF CallInv
  <2>4. NoFlushAll' /\ SignalInv' /\ FlushInv'
    BY <2>1, GetClean DEF Clean, NoFlushAll, FlushInv
  <2> QED
    BY <2>3, <2>4 DEF Clean
<1>18. CASE ServiceSkip
  <2>1. /\ Clean
        /\ ring # <<>> /\ Get /\ pc = "service"
        /\ UNCHANGED <<cb_map, pc, back, cur>>
    BY <1>18 DEF ServiceSkip, Servicing
  <2> QED
    BY <2>1, GetClean DEF Clean, NoFlushAll, FlushInv, CallInv
<1>19. CASE ServiceMissing
  <2>1. /\ Clean
        /\ ring # <<>> /\ Get /\ pc = "service"
        /\ UNCHANGED <<cb_map, pc, back, cur>>
    BY <1>19 DEF ServiceMissing, Servicing
  <2> QED
    BY <2>1, GetClean DEF Clean, NoFlushAll, FlushInv, CallInv
<1>20. CASE Return
  BY <1>20 DEF Return, Clean, NoFlushAll, SignalInv, FlushInv, CallInv
<1>21. CASE Post
  <2>1. cur.id \in Ids
    BY DEF TypeOK, Works
  <2>2. CASE cb_map[cur.id].st = "live" /\ cb_map[cur.id].once
    <3>1. /\ Clean
          /\ Mark(cur.id) /\ target' = cur.id /\ back' = "release" /\ pc' = "flush"
          /\ UNCHANGED <<ring, cur>>
      BY <1>21, <2>2 DEF Post
    <3>2. NoFlushAll'
      BY <3>1 DEF Clean, NoFlushAll
    <3>3. SignalInv' /\ FlushInv'
      BY <2>1, <2>2, <3>1, MarkClean DEF Clean, FlushInv, Pending
    <3>4. CallInv'
      BY <2>1, <3>1, MarkEffect DEF Clean, CallInv
    <3> QED
      BY <3>2, <3>3, <3>4 DEF Clean
  <2>3. CASE ~(cb_map[cur.id].st = "live" /\ cb_map[cur.id].once)
    BY <1>21, <2>3 DEF Post, Clean, NoFlushAll, SignalInv, FlushInv, CallInv
  <2> QED
    BY <2>2, <2>3
<1>22. CASE Release
  BY <1>22 DEF Release, Clean, NoFlushAll, SignalInv, FlushInv, CallInv
<1>23. ASSUME NEW id \in Ids, NEW w \in ArgWords, ThreadSignal(id, w) PROVE Clean'
  BY <1>23, SignalClean DEF ThreadSignal
<1>24. ASSUME NEW id \in Ids, NEW w \in ArgWords, Interrupt(id, w) PROVE Clean'
  <2>1. CASE pc = "grow" \/ cb_map[id].st = "freed"
    BY <1>24, <2>1
    DEF Interrupt, Clean, NoFlushAll, SignalInv, FlushInv, CallInv, Pending
  <2>2. CASE ~(pc = "grow" \/ cb_map[id].st = "freed")
    BY <1>24, <2>2, SignalClean DEF Interrupt
  <2> QED
    BY <2>1, <2>2
<1>25. CASE UNCHANGED vars
  BY <1>25 DEF Clean, NoFlushAll, SignalInv, FlushInv, CallInv, Pending
<1> QED
  BY <1>1, <1>2, <1>3, <1>4, <1>5, <1>6, <1>7, <1>8, <1>9, <1>10, <1>11, <1>12, <1>13, <1>14,
     <1>15, <1>16, <1>17, <1>18, <1>19, <1>20, <1>21, <1>22, <1>23, <1>24, <1>25
  DEF Next, Calls, Main, Others, Faulted

\* The inductive invariant holds after zjs_init_callbacks.
LEMMA InitIInv == Init => IInv
<1> SUFFICES ASSUME Init PROVE IInv
  OBVIOUS
<1>1. DOMAIN ring = {}
  BY DEF Init
<1>2. PlaceInv
  BY DEF Init, PlaceInv, InCall, Null
<1> QED
  BY <1>1, <1>2 DEF Init, IInv, Clean, NoFlushAll, SignalInv, FlushInv, CallInv, Pending

\* The inductive invariant of zjs_callbacks.c: where main is, what the pending
\* signals and flush commands mean, and what a call in progress relies on.
THEOREM Invariant == Spec => []IInv
<1>1. TypeOK /\ IInv /\ [Next]_vars => IInv'
  <2> SUFFICES ASSUME TypeOK, IInv, [Next]_vars PROVE IInv'
    OBVIOUS
  <2>1. PlaceInv'
    BY PlaceStep DEF IInv
  <2> QED
    BY <2>1, CleanStep DEF IInv
<1> QED
  BY <1>1, InitIInv, TypeCorrect, PTL DEF Spec

\* A signal is never handed to a later registration that was given the id of
\* the one it was sent to, unless a flush command was refused.
THEOREM StaleSignals == Spec => []StaleNeverDelivered
<1>1. IInv => StaleNeverDelivered
  BY DEF IInv, Clean, CallInv, StaleNeverDelivered
<1> QED
  BY <1>1, Invariant, PTL

\* zjs_call_callback ends with the callback it began with, whatever the function
\* did in between, unless a flush command was refused.
THEOREM PostOwner == Spec => []PostOfOwner
<1>1. IInv => PostOfOwner
  BY DEF IInv, Clean, CallInv, PostOfOwner
<1> QED
  BY <1>1, Invariant, PTL

-----------------------------------------------------------------------------
(***************************************************************************)
(* What is needed beside IInv for the other properties.                    *)
(***************************************************************************)
\* Ids that were never used, and registrations that are told apart by number.
Numbered ==
  /\ \A id \in Ids : id >= cb_size => cb_map[id].st = "null"
  /\ \A id \in Ids : cb_map[id].reg <= regs
  /\ \A id, other \in Ids : cb_map[id].reg = cb_map[other].reg /\ cb_map[id].reg > 0 => id = other
  /\ called \subseteq 1 .. regs

\* A once callback that was called and is not yet removed is the one being called.
OnceInv == \A id \in Ids : cb_map[id].st = "live" /\ cb_map[id].once =>
  /\ cb_map[id].js
  /\ cb_map[id].reg \in called =>
    cur # NoWork /\ cur.js /\ cur.id = id /\ pc # "release" /\ back # "release"

\* zjs_remove_all_callbacks leaves out the single commands only with FLUSH_ALL in the ring.
SkipInv == skip_flush => pc = "all" /\ \E i \in DOMAIN ring : ring[i].kind = "all"

\* The loop of zjs_remove_all_callbacks leaves nothing registered behind it, so that what is
\* registered later is of the next program, and so are the signals once the ring was empty.
EpochInv ==
  /\ epoch <= regs
  /\ IF pc = "all" \/ back = "all"
     THEN \A id \in Ids : id < idx => cb_map[id].st # "live"
     ELSE \A id \in Ids : cb_map[id].st = "live" => cb_map[id].reg > epoch
  /\ ~tainted => \A i \in DOMAIN ring : ring[i].kind = "sig" => ring[i].reg > epoch

\* A step of [Next] does one of two things to the map: it registers a callback under an
\* empty id, or it marks, frees or clears callbacks and leaves the live ones as they are.
Registers == \E kind \in Kinds : (kind.once => kind.js) /\ Store(kind)

Lessens ==
  /\ regs' = regs /\ cb_size' = cb_size
  /\ \A id \in Ids :
       /\ cb_map'[id].reg \in {cb_map[id].reg, 0}
       /\ cb_map'[id].reg # 0 => cb_map'[id].js = cb_map[id].js
       /\ cb_map'[id].st = "live" => cb_map'[id] = cb_map[id]
       /\ cb_map[id].st = "null" => cb_map'[id] = cb_map[id]

LEMMA MarkLessens ==
  ASSUME TypeOK, NEW id \in Ids, Mark(id), cb_map[id].st # "null", regs' = regs, cb_size' = cb_size
  PROVE  Lessens
BY DEF TypeOK, Slots, Mark, Lessens

LEMMA FreeLessens ==
  ASSUME TypeOK, NEW id \in Ids, FreeSlot(id), cb_map[id].st # "null", regs' = regs, cb_size' = cb_size
  PROVE  Lessens
BY DEF TypeOK, Slots, FreeSlot, Lessens

LEMMA KeepLessens ==
  ASSUME cb_map' = cb_map, regs' = regs, cb_size' = cb_size
  PROVE  Lessens
BY DEF Lessens

\* The kind that waits for a larger map is one that is registered, and callbacks are all
\* removed only where programs are stopped.
LocalsInv ==
  /\ adding.once => adding.js
  /\ pc = "all" \/ back = "all" => StopsJs
  /\ back = "all" => pc \in {"flush", "free"}

LEMMA LocalsStep ==
  ASSUME TypeOK, PlaceInv, LocalsInv, [Next]_vars
  PROVE  LocalsInv'
<1>1. ASSUME NEW kind \in Kinds, kind.once => kind.js, Add(kind) PROVE LocalsInv'
  BY <1>1 DEF Add, InJs, StartAdd, LocalsInv
<1>2. CASE AddGrown \/ InitCallbacks \/ RemoveNext \/ RemoveAll
  BY <1>2 DEF AddGrown, ReturnTo, InitCallbacks, StartAdd, CKind, RemoveNext, RemoveAll, LocalsInv
<1>3. CASE QueueFlush \/ ClearSlot
  BY <1>3 DEF QueueFlush, ClearSlot, ReturnTo, LocalsInv
<1>4. ASSUME UNCHANGED adding, pc' = "all" => pc = "all",
             back' = "all" => back = "all" /\ pc' \in {pc, "free"}
      PROVE  LocalsInv'
  BY <1>4 DEF LocalsInv
<1>5. CASE Calls
  BY <1>1, <1>2, <1>4, <1>5 DEF Calls, InJs, AddGrowFails, RemoveCallback, MainSignal
<1>6. CASE Main
  BY <1>2, <1>3, <1>4, <1>6 DEF Main, QueueFlushFails, FreeSlot, StartService,
     EndService, ServiceFlushOne, ServiceFlushAll, FreeNext, ServiceCall, ServiceSkip,
     ServiceMissing, Servicing, Return, Post, Release, LocalsInv
<1>7. CASE Others
  BY <1>4, <1>7 DEF Others, ThreadSignal, Interrupt
<1> QED
  BY <1>4, <1>5, <1>6, <1>7 DEF Next, Faulted

LEMMA MapStep ==
  ASSUME TypeOK, PlaceInv, LocalsInv, [Next]_vars
  PROVE  Registers \/ Lessens
<1>1. ASSUME NEW kind \in Kinds, kind.once => kind.js, NEW next, StartAdd(kind, next)
      PROVE  Registers \/ Lessens
  BY <1>1, KeepLessens DEF StartAdd, Registers
<1>2. CASE UNCHANGED <<cb_map, regs, cb_size>>
  BY <1>2, KeepLessens
<1>3. ASSUME NEW kind \in Kinds, kind.once => kind.js, Add(kind) PROVE Registers \/ Lessens
  BY <1>1, <1>3 DEF Add
<1>4. ASSUME NEW id \in Ids, RemoveCallback(id) PROVE Registers \/ Lessens
  BY <1>4, MarkLessens DEF RemoveCallback
<1>5. CASE AddGrown
  BY <1>5 DEF AddGrown, Registers, LocalsInv, TypeOK
<1>6. CASE QueueFlushFails
  <2>1. target \in Ids /\ cb_map[target].st = "removed"
    BY <1>6 DEF QueueFlushFails, PlaceInv, TypeOK
  <2> QED
    BY <1>6, <2>1, FreeLessens DEF QueueFlushFails
<1>7. CASE ClearSlot
  <2>1. target \in Ids /\ cb_map[target].st = "freed"
    BY <1>7 DEF ClearSlot, PlaceInv, TypeOK
  <2>2. cb_map' = [cb_map EXCEPT ![target] = Null] /\ regs' = regs /\ cb_size' = cb_size
    BY <1>7 DEF ClearSlot
  <2> QED
    BY <2>1, <2>2 DEF Lessens, Null, TypeOK
<1>8. CASE RemoveNext
  <2>1. idx \in Ids
    BY <1>8, SizeAssumption DEF RemoveNext, TypeOK, Ids
  <2>2. CASE cb_map[idx].st = "live"
    BY <1>8, <2>1, <2>2, MarkLessens DEF RemoveNext
  <2>3. CASE cb_map[idx].st # "live"
    BY <1>2, <1>8, <2>3 DEF RemoveNext
  <2> QED
    BY <2>2, <2>3
<1>9. CASE InitCallbacks
  <2>1. CKind \in Kinds /\ (CKind.once => CKind.js)
    BY DEF CKind, Kinds
  <2> QED
    BY <1>1, <1>9, <2>1 DEF InitCallbacks
<1>10. CASE ServiceFlushOne
  <2>1. Head(ring).id \in Ids
    BY <1>10, GetType DEF ServiceFlushOne, Servicing, Items
  <2>2. CASE cb_map[Head(ring).id].st = "removed"
    BY <1>10, <2>1, <2>2, FreeLessens DEF ServiceFlushOne
  <2>3. CASE cb_map[Head(ring).id].st # "removed"
    BY <1>2, <1>10, <2>3 DEF ServiceFlushOne
  <2> QED
    BY <2>2, <2>3
<1>11. CASE FreeNext
  <2>1. CASE ~(idx >= cb_size) /\ cb_map[idx].st = "removed"
    <3>1. idx \in Ids
      BY <2>1, SizeAssumption DEF TypeOK, Ids
    <3> QED
      BY <1>11, <2>1, <3>1, FreeLessens DEF FreeNext
  <2>2. CASE ~(~(idx >= cb_size) /\ cb_map[idx].st = "removed")
    BY <1>2, <1>11, <2>2 DEF FreeNext
  <2> QED
    BY <2>1, <2>2
<1>12. CASE Post
  <2>1. cur.id \in Ids
    BY DEF TypeOK, Works
  <2>2. CASE cb_map[cur.id].st = "live" /\ cb_map[cur.id].once
    BY <1>12, <2>1, <2>2, MarkLessens DEF Post
  <2>3. CASE ~(cb_map[cur.id].st = "live" /\ cb_map[cur.id].once)
    BY <1>2, <1>12, <2>3 DEF Post
  <2> QED
    BY <2>2, <2>3
<1>13. CASE Calls
  BY <1>2, <1>3, <1>4, <1>13 DEF Calls, AddGrowFails, MainSignal, RemoveAll
<1>14. CASE Main
  BY <1>2, <1>5, <1>6, <1>7, <1>8, <1>9, <1>10, <1>11, <1>12, <1>14
  DEF Main, QueueFlush, StartService, EndService, ServiceFlushAll, ServiceCall, ServiceSkip,
      ServiceMissing, Return, Release
<1>15. CASE Others
  BY <1>2, <1>15 DEF Others, ThreadSignal, Interrupt
<1> QED
  BY <1>2, <1>13, <1>14, <1>15 DEF Next, Faulted

\* What registering a callback does to the map, with the kind that is registered.
LEMMA RegistersEffect ==
  ASSUME TypeOK, Registers
  PROVE  \E new \in Ids :
           /\ cb_map[new].st = "null"
           /\ cb_map'[new].reg = regs + 1
           /\ cb_map'[new].once => cb_map'[new].js
           /\ cb_map'[new].st = "live"
           /\ \A id \in Ids : id # new => cb_map'[id] = cb_map[id]
           /\ regs' = regs + 1
           /\ cb_size' = IF new >= cb_size THEN new + 1 ELSE cb_size
<1>1. PICK kind \in Kinds : (kind.once => kind.js) /\ Store(kind)
  BY DEF Registers
<1>2. PICK new \in FreeIds :
        /\ cb_map' = [cb_map EXCEPT ![new] =
                       [st |-> "live", reg |-> regs + 1, js |-> kind.js, once |-> kind.once]]
        /\ cb_size' = IF new >= cb_size THEN new + 1 ELSE cb_size
        /\ regs' = regs + 1
  BY <1>1 DEF Store
<1>3. new \in Ids /\ cb_map[new].st = "null"
  BY DEF FreeIds
<1> QED
  BY <1>1, <1>2, <1>3 DEF TypeOK

LEMMA NumberedStep ==
  ASSUME TypeOK, PlaceInv, LocalsInv, Numbered, [Next]_vars
  PROVE  Numbered'
<1>1. cb_size \in Nat /\ regs \in Nat /\ Ids \subseteq Nat /\ \A id \in Ids : cb_map[id].reg \in Nat
  BY SizeAssumption DEF TypeOK, Ids, Slots
<1>2. called' \subseteq 1 .. regs /\ regs' >= regs /\ regs' \in Nat
  <2>1. \/ called' = called
        \/ \E id \in Ids : called' = called \cup {cb_map[id].reg} /\ cb_map[id].st = "live"
    <3>1. CASE ServiceCall
      <4>1. Head(ring).id \in Ids
        BY <3>1, GetType DEF ServiceCall, Servicing, Items
      <4> QED
        BY <3>1, <4>1 DEF ServiceCall
    <3>2. CASE UNCHANGED called
      BY <3>2
    <3>3. CASE ~ServiceCall
      BY <3>2, <3>3 DEF Next, Calls, Main, Others, Faulted, Add, AddGrowFails, RemoveCallback,
         MainSignal, RemoveAll, AddGrown, QueueFlush, QueueFlushFails, ClearSlot, RemoveNext,
         InitCallbacks, StartService, EndService, ServiceFlushOne, ServiceFlushAll, FreeNext,
         ServiceSkip, ServiceMissing, Return, Post, Release, ThreadSignal, Interrupt
    <3> QED
      BY <3>1, <3>3
  <2>2. \A id \in Ids : cb_map[id].st = "live" => cb_map[id].reg \in 1 .. regs
    BY <1>1 DEF PlaceInv, Numbered
  <2>3. regs' = regs \/ regs' = regs + 1
    BY MapStep, RegistersEffect DEF Lessens
  <2>4. called' \subseteq 1 .. regs
    <3>1. CASE called' = called
      BY <3>1 DEF Numbered
    <3>2. CASE \E id \in Ids : called' = called \cup {cb_map[id].reg} /\ cb_map[id].st = "live"
      <4>1. PICK r \in 1 .. regs : called' = called \cup {r}
        BY <2>2, <3>2
      <4> QED
        BY <4>1 DEF Numbered
    <3> QED
      BY <2>1, <3>1, <3>2
  <2> QED
    BY <1>1, <2>3, <2>4
<1>3. CASE Registers
  <2>1. PICK new \in Ids :
           /\ cb_map[new].st = "null"
           /\ cb_map'[new].reg = regs + 1
           /\ cb_map'[new].st = "live"
           /\ \A id \in Ids : id # new => cb_map'[id] = cb_map[id]
           /\ regs' = regs + 1
           /\ cb_size' = IF new >= cb_size THEN new + 1 ELSE cb_size
    BY <1>3, RegistersEffect
  <2>2. \A id \in Ids : id >= cb_size' => cb_map'[id].st = "null"
    BY <1>1, <2>1 DEF Numbered
  <2>3. \A id \in Ids : cb_map'[id].reg <= regs'
    <3> TAKE id \in Ids
    <3>1. CASE id = new
      BY <1>1, <2>1, <3>1
    <3>2. CASE id # new
      <4>1. PICK r \in Nat : r = cb_map[id].reg
        BY <1>1
      <4>2. r <= regs /\ cb_map'[id].reg = r
        BY <2>1, <3>2, <4>1 DEF Numbered
      <4> QED
        BY <1>1, <2>1, <4>1, <4>2
    <3> QED
      BY <3>1, <3>2
  <2>4. \A id, other \in Ids : cb_map'[id].reg = cb_map'[other].reg /\ cb_map'[id].reg > 0 => id = other
    BY <1>1, <2>1 DEF Numbered
  <2> QED
    BY <1>1, <1>2, <2>2, <2>3, <2>4 DEF Numbered
<1>4. CASE Lessens
  <2>1. \A id \in Ids : id >= cb_size' => cb_map'[id].st = "null"
    BY <1>4 DEF Numbered, Lessens
  <2>2. \A id \in Ids : cb_map'[id].reg <= regs'
    BY <1>1, <1>4 DEF Numbered, Lessens
  <2>3. \A id, other \in Ids : cb_map'[id].reg = cb_map'[other].reg /\ cb_map'[id].reg > 0 => id = other
    <3>1. \A id \in Ids : cb_map'[id].reg \in {cb_map[id].reg, 0}
      BY <1>4 DEF Lessens
    <3>2. \A id \in Ids : cb_map'[id].reg > 0 => cb_map'[id].reg = cb_map[id].reg
      BY <3>1
    <3> QED
      BY <3>2 DEF Numbered
  <2> QED
    BY <1>1, <1>2, <2>1, <2>2, <2>3 DEF Numbered
<1> QED
  BY <1>3, <1>4, MapStep

\* A new registration has not been called, and a marked one is no longer live.
LEMMA OnceOfMap ==
  ASSUME TypeOK, PlaceInv, LocalsInv, Numbered, OnceInv, [Next]_vars
  PROVE  \A id \in Ids : cb_map'[id].st = "live" /\ cb_map'[id].once =>
           /\ cb_map'[id].js
           /\ cb_map'[id].reg \in called => cb_map'[id] = cb_map[id]
<1>1. CASE Registers
  <2>1. PICK new \in Ids :
           /\ cb_map'[new].reg = regs + 1
           /\ cb_map'[new].once => cb_map'[new].js
           /\ \A id \in Ids : id # new => cb_map'[id] = cb_map[id]
    BY <1>1, RegistersEffect
  <2>2. regs + 1 \notin called
    BY DEF TypeOK, Numbered
  <2> QED
    BY <2>1, <2>2 DEF OnceInv
<1>2. CASE Lessens
  BY <1>2 DEF Lessens, OnceInv
<1> QED
  BY <1>1, <1>2, MapStep

LEMMA OnceStep ==
  ASSUME TypeOK, PlaceInv, LocalsInv, Numbered, OnceInv, [Next]_vars
  PROVE  OnceInv'
<1>1. \A id \in Ids : cb_map'[id].st = "live" /\ cb_map'[id].once =>
        /\ cb_map'[id].js
        /\ cb_map'[id].reg \in called => cb_map'[id] = cb_map[id]
  BY OnceOfMap
<1>2. ASSUME UNCHANGED <<called, cur>>,
             cur # NoWork /\ (pc' = "release" \/ back' = "release") => pc = "release" \/ back = "release"
      PROVE  OnceInv'
  BY <1>1, <1>2 DEF OnceInv
<1>3. CASE ServiceCall
  <2>1. /\ Head(ring).id \in Ids /\ cb_map' = cb_map /\ pc' = "body" /\ back' = back
        /\ called' \subseteq called \cup {cb_map[Head(ring).id].reg}
        /\ cur' = [id |-> Head(ring).id, reg |-> Head(ring).reg, to |-> cb_map[Head(ring).id].reg,
                   js |-> cb_map[Head(ring).id].js, words |-> Head(ring).words]
        /\ cb_map[Head(ring).id].st = "live" /\ pc = "service"
    BY <1>3, GetType DEF ServiceCall, Servicing, Items
  <2>2. cur = NoWork /\ back # "release" /\ cb_map[Head(ring).id].reg > 0
    BY <2>1 DEF PlaceInv, InCall
  <2>3. cur'.id = Head(ring).id /\ cur'.js = cb_map[Head(ring).id].js /\ cur' # NoWork
    BY <2>1, <2>2 DEF NoWork
  <2>4. ASSUME NEW id \in Ids, cb_map[id].st = "live", cb_map[id].once, cb_map[id].reg \in called'
        PROVE  id = Head(ring).id
    <3>1. cb_map[id].reg \notin called
      BY <2>2, <2>4 DEF OnceInv
    <3>2. cb_map[id].reg = cb_map[Head(ring).id].reg
      BY <2>1, <2>4, <3>1
    <3> QED
      BY <2>1, <2>2, <2>4, <3>2 DEF Numbered
  <2> QED
    BY <1>1, <2>1, <2>2, <2>3, <2>4 DEF OnceInv
<1>4. CASE Return
  <2>1. /\ cb_map' = cb_map /\ called' = called /\ cur' = cur /\ back' = back
        /\ pc' = IF cur.js THEN "post" ELSE "release"
    BY <1>4 DEF Return
  <2> QED
    BY <2>1 DEF OnceInv
<1>5. CASE Post
  <2>1. cur.id \in Ids /\ called' = called /\ cur' = cur
    BY <1>5 DEF TypeOK, Works, Post
  <2>2. ~(cb_map'[cur.id].st = "live" /\ cb_map'[cur.id].once)
    BY <1>5, <2>1, MarkEffect DEF Post
  <2>3. \A id \in Ids : cb_map'[id].st = "live" /\ cb_map'[id].once => cb_map'[id].reg \notin called
    BY <1>1, <2>1, <2>2 DEF OnceInv
  <2> QED
    BY <1>1, <2>1, <2>3 DEF OnceInv
<1>6. CASE Release
  <2>1. cb_map' = cb_map /\ called' = called /\ pc = "release"
    BY <1>6 DEF Release
  <2> QED
    BY <2>1 DEF OnceInv
<1>7. ASSUME NEW kind \in Kinds, Add(kind) PROVE OnceInv'
  BY <1>2, <1>7 DEF Add, InJs, StartAdd
<1>8. CASE AddGrown \/ QueueFlush \/ ClearSlot
  BY <1>2, <1>8 DEF AddGrown, QueueFlush, ClearSlot, ReturnTo
<1>9. ASSUME NEW id \in Ids, RemoveCallback(id) PROVE OnceInv'
  BY <1>2, <1>9 DEF RemoveCallback, InJs
<1>10. CASE AddGrowFails \/ RemoveAll \/ QueueFlushFails \/ RemoveNext \/ StartService \/ EndService
            \/ ServiceFlushOne \/ ServiceFlushAll \/ FreeNext
  BY <1>2, <1>10 DEF AddGrowFails, RemoveAll, QueueFlushFails, FreeSlot, RemoveNext, StartService,
     EndService, ServiceFlushOne, ServiceFlushAll, FreeNext
<1>11. CASE InitCallbacks
  BY <1>2, <1>11 DEF InitCallbacks, StartAdd
<1>12. CASE ServiceSkip \/ ServiceMissing \/ UNCHANGED vars
  BY <1>2, <1>12 DEF ServiceSkip, ServiceMissing
<1>13. ASSUME NEW id \in Ids, NEW w \in ArgWords,
              MainSignal(id, w) \/ ThreadSignal(id, w) \/ Interrupt(id, w)
       PROVE  OnceInv'
  BY <1>2, <1>13 DEF MainSignal, ThreadSignal, Interrupt
<1> QED
  BY <1>3, <1>4, <1>5, <1>6, <1>7, <1>8, <1>9, <1>10, <1>11, <1>12, <1>13
  DEF Next, Calls, Main, Others, Faulted

\* The conditions under which stopJS frees every callback: the Linux build empties the
\* ring, and with it the command that was to free them.
RingIsKept == ~Linux \/ ~StopsJs

\* RemovedWillBeFreed, one callback at a time.
Awaited(id) ==
  \/ Pending("one", id)
  \/ \E i \in DOMAIN ring : ring[i].kind = "all"
  \/ pc = "flush" /\ target = id
  \/ pc = "freeall" /\ id >= idx
  \/ pc = "free" /\ back = "freeall" /\ id >= idx

LEMMA AwaitedDef == RemovedWillBeFreed <=> \A id \in Ids : cb_map[id].st = "removed" => Awaited(id)
BY DEF RemovedWillBeFreed, Awaited

\* What is in the ring stays there when something is put.
LEMMA PutAwaited ==
  ASSUME TypeOK, NEW item \in Items, Put(item)
  PROVE  /\ \A id \in Ids : Pending("one", id) => Pending("one", id)'
         /\ (\E i \in DOMAIN ring : ring[i].kind = "all") => \E i \in DOMAIN ring' : ring'[i].kind = "all"
         /\ item.kind = "one" => Pending("one", item.id)'
         /\ item.kind = "all" => \E i \in DOMAIN ring' : ring'[i].kind = "all"
<1>1. \A i \in DOMAIN ring : i \in DOMAIN ring' /\ ring'[i] = ring[i]
  BY PutItems
<1>2. Len(ring) + 1 \in DOMAIN ring' /\ ring'[Len(ring) + 1] = item
  BY DEF TypeOK, Put
<1> QED
  BY <1>1, <1>2 DEF Pending

\* What is in the ring stays there when the oldest item is taken, unless it is that item.
LEMMA GetAwaited ==
  ASSUME TypeOK, ring # <<>>, Get
  PROVE  /\ \A id \in Ids : Pending("one", id) =>
              Pending("one", id)' \/ (Head(ring).kind = "one" /\ Head(ring).id = id)
         /\ (\E i \in DOMAIN ring : ring[i].kind = "all") =>
              (\E i \in DOMAIN ring' : ring'[i].kind = "all") \/ Head(ring).kind = "all"
<1>1. ring \in Seq(Items) /\ ring # <<>> /\ ring' = Tail(ring)
  BY DEF TypeOK, Get
<1>2. Len(ring) \in Nat /\ Len(ring) > 0 /\ DOMAIN ring = 1 .. Len(ring) /\ ring[1] = Head(ring)
      /\ DOMAIN ring' = 1 .. Len(ring) - 1
  BY <1>1
<1>3. \A i \in 1 .. Len(ring) - 1 : ring'[i] = ring[i + 1]
  BY <1>1, <1>2
<1>4. ASSUME NEW i \in DOMAIN ring, i # 1
      PROVE  i - 1 \in DOMAIN ring' /\ ring'[i - 1] = ring[i]
  <2>1. i - 1 \in 1 .. Len(ring) - 1 /\ i - 1 + 1 = i
    BY <1>2, <1>4
  <2> QED
    BY <1>2, <1>3, <2>1
<1> QED
  BY <1>2, <1>4 DEF Pending

LEMMA SignalAwaited ==
  ASSUME TypeOK, NEW id \in Ids, NEW w \in ArgWords, Signal(id, w)
  PROVE  /\ \A other \in Ids : Pending("one", other) => Pending("one", other)'
         /\ (\E i \in DOMAIN ring : ring[i].kind = "all") => \E i \in DOMAIN ring' : ring'[i].kind = "all"
<1>1. CASE Deliverable(id) /\ Fits(Signalled(id, w))
  <2>1. Signalled(id, w) \in Items
    BY RingAssumption DEF TypeOK, Signalled, Items, Slots
  <2> QED
    BY <1>1, <2>1, PutAwaited DEF Signal
<1>2. CASE ~(Deliverable(id) /\ Fits(Signalled(id, w)))
  BY <1>2 DEF Signal, Pending
<1> QED
  BY <1>1, <1>2

LEMMA SkipStep ==
  ASSUME TypeOK, SkipInv, [Next]_vars
  PROVE  SkipInv'
<1> SUFFICES ASSUME skip_flush'
             PROVE  pc' = "all" /\ \E i \in DOMAIN ring' : ring'[i].kind = "all"
  BY DEF SkipInv
<1>1. CASE RemoveAll
  BY <1>1, PutAwaited, CommandType DEF RemoveAll, FlushAll
<1>2. CASE UNCHANGED skip_flush
  <2>1. pc = "all" /\ \E i \in DOMAIN ring : ring[i].kind = "all"
    BY <1>2 DEF SkipInv
  <2>2. CASE RemoveNext
    BY <1>2, <2>1, <2>2 DEF RemoveNext
  <2>3. ASSUME NEW id \in Ids, NEW w \in ArgWords, ThreadSignal(id, w) \/ Interrupt(id, w)
        PROVE  pc' = "all" /\ \E i \in DOMAIN ring' : ring'[i].kind = "all"
    BY <2>1, <2>3, SignalAwaited DEF ThreadSignal, Interrupt
  <2>4. CASE InitCallbacks
    BY <1>2, <2>4 DEF InitCallbacks
  <2>5. CASE UNCHANGED vars
    BY <2>1, <2>5
  <2>6. ~Calls
    BY <2>1 DEF Calls, InJs, Add, AddGrowFails, RemoveCallback, MainSignal, RemoveAll
  <2>7. Main => RemoveNext \/ InitCallbacks
    BY <2>1 DEF Main, AddGrown, QueueFlush, QueueFlushFails, ClearSlot, StartService, EndService,
       ServiceFlushOne, ServiceFlushAll, FreeNext, ServiceCall, ServiceSkip, ServiceMissing,
       Servicing, Return, Post, Release
  <2> QED
    BY <2>2, <2>3, <2>4, <2>5, <2>6, <2>7 DEF Next, Others, Faulted
<1>3. CASE ~RemoveAll /\ skip_flush' # skip_flush
  BY <1>3 DEF Next, Calls, Main, Others, Faulted, Add, AddGrowFails, RemoveCallback, MainSignal,
     AddGrown, QueueFlush, QueueFlushFails, ClearSlot, RemoveNext, InitCallbacks, StartService,
     EndService, ServiceFlushOne, ServiceFlushAll, FreeNext, ServiceCall, ServiceSkip,
     ServiceMissing, Return, Post, Release, ThreadSignal, Interrupt
<1> QED
  BY <1>1, <1>2, <1>3

\* Every command of the ring is still there.
CommandsKept ==
  /\ \A id \in Ids : Pending("one", id) => Pending("one", id)'
  /\ (\E i \in DOMAIN ring : ring[i].kind = "all") => \E i \in DOMAIN ring' : ring'[i].kind = "all"

\* No callback was marked but, maybe, one.
MarkedOnly(some) == \A id \in Ids : cb_map'[id].st = "removed" => cb_map[id].st = "removed" \/ id \in some

LEMMA MarkedByMark ==
  ASSUME TypeOK, NEW id \in Ids, Mark(id) PROVE MarkedOnly({id})
BY MarkEffect DEF MarkedOnly

LEMMA MarkedByFree ==
  ASSUME TypeOK, NEW id \in Ids, FreeSlot(id)
  PROVE  MarkedOnly({}) /\ cb_map'[id].st # "removed"
BY FreeEffect DEF MarkedOnly

LEMMA MarkedByAdd ==
  ASSUME TypeOK, PlaceInv, NEW kind \in Kinds, NEW next, StartAdd(kind, next)
  PROVE  MarkedOnly({})
BY StorePlace DEF StartAdd, MarkedOnly

LEMMA RingUnchanged == UNCHANGED ring => CommandsKept
BY DEF CommandsKept, Pending

\* Main leaves a place from where nothing is freed: what is freed is for the ring.
LEMMA AwaitedElsewhere ==
  ASSUME RemovedWillBeFreed, pc \notin {"flush", "freeall", "free"}, CommandsKept,
         NEW some, MarkedOnly(some), \A id \in Ids \cap some : cb_map'[id].st = "removed" => Awaited(id)'
  PROVE  RemovedWillBeFreed'
<1> SUFFICES ASSUME NEW id \in Ids, cb_map'[id].st = "removed" PROVE Awaited(id)'
  BY DEF RemovedWillBeFreed, Awaited
<1>1. CASE id \in some
  BY <1>1
<1>2. CASE cb_map[id].st = "removed"
  <2>1. Pending("one", id) \/ \E i \in DOMAIN ring : ring[i].kind = "all"
    BY <1>2 DEF RemovedWillBeFreed
  <2>2. Pending("one", id)' \/ \E i \in DOMAIN ring' : ring'[i].kind = "all"
    BY <2>1 DEF CommandsKept
  <2> QED
    BY <2>2 DEF Awaited
<1> QED
  BY <1>1, <1>2 DEF MarkedOnly

LEMMA FreedStep ==
  ASSUME RingIsKept, TypeOK, PlaceInv, LocalsInv, Numbered, SkipInv, RemovedWillBeFreed, [Next]_vars
  PROVE  RemovedWillBeFreed'
<1>1. ASSUME pc \notin {"flush", "freeall", "free"}, UNCHANGED cb_map, CommandsKept
      PROVE  RemovedWillBeFreed'
  <2>1. MarkedOnly({})
    BY <1>1 DEF MarkedOnly
  <2> QED
    BY <1>1, <2>1, AwaitedElsewhere
<1>2. ASSUME NEW kind \in Kinds, Add(kind) PROVE RemovedWillBeFreed'
  <2>1. MarkedOnly({}) /\ CommandsKept /\ pc \in {"top", "body"}
    BY <1>2, MarkedByAdd, RingUnchanged DEF Add, InJs
  <2> QED
    BY <2>1, AwaitedElsewhere
<1>3. CASE AddGrown
  <2>1. MarkedOnly({}) /\ CommandsKept /\ pc = "grow"
    BY <1>3, StorePlace, RingUnchanged DEF AddGrown, MarkedOnly, TypeOK
  <2> QED
    BY <2>1, AwaitedElsewhere
<1>4. ASSUME NEW id \in Ids, RemoveCallback(id) PROVE RemovedWillBeFreed'
  <2>1. /\ MarkedOnly({id}) /\ CommandsKept /\ pc \in {"top", "body"}
        /\ pc' = "flush" /\ target' = id
    BY <1>4, MarkedByMark, RingUnchanged DEF RemoveCallback, InJs
  <2> QED
    BY <2>1, AwaitedElsewhere DEF Awaited
<1>5. CASE Post
  <2>1. cur.id \in Ids /\ pc = "post" /\ CommandsKept
    BY <1>5, RingUnchanged DEF TypeOK, Works, Post
  <2>2. CASE cb_map[cur.id].st = "live" /\ cb_map[cur.id].once
    <3>1. MarkedOnly({cur.id}) /\ pc' = "flush" /\ target' = cur.id
      BY <1>5, <2>1, <2>2, MarkedByMark DEF Post
    <3> QED
      BY <2>1, <3>1, AwaitedElsewhere DEF Awaited
  <2>3. CASE ~(cb_map[cur.id].st = "live" /\ cb_map[cur.id].once)
    BY <1>1, <1>5, <2>1, <2>3 DEF Post
  <2> QED
    BY <2>2, <2>3
<1>6. CASE RemoveNext
  <2>1. idx \in Ids /\ pc = "all" /\ CommandsKept
    BY <1>6, SizeAssumption, RingUnchanged DEF RemoveNext, TypeOK, Ids
  <2>2. CASE cb_map[idx].st = "live"
    <3>1. MarkedOnly({idx})
      BY <1>6, <2>1, <2>2, MarkedByMark DEF RemoveNext
    <3>2. CASE skip_flush
      <4>1. \E i \in DOMAIN ring' : ring'[i].kind = "all"
        BY <2>1, <3>2 DEF SkipInv, CommandsKept
      <4> QED
        BY <2>1, <3>1, <4>1, AwaitedElsewhere DEF Awaited
    <3>3. CASE ~skip_flush
      <4>1. pc' = "flush" /\ target' = idx
        BY <1>6, <2>2, <3>3 DEF RemoveNext
      <4> QED
        BY <2>1, <3>1, <4>1, AwaitedElsewhere DEF Awaited
    <3> QED
      BY <3>2, <3>3
  <2>3. CASE cb_map[idx].st # "live"
    BY <1>1, <1>6, <2>1, <2>3 DEF RemoveNext
  <2> QED
    BY <2>2, <2>3
<1>7. CASE RemoveAll
  <2>1. CommandsKept
    BY <1>7, PutAwaited, CommandType, RingUnchanged DEF RemoveAll, CommandsKept
  <2> QED
    BY <1>1, <1>7, <2>1 DEF RemoveAll
<1>8. CASE InitCallbacks
  <2>1. pc = "all" /\ StartAdd(CKind, "top") /\ CKind \in Kinds
    BY <1>8 DEF InitCallbacks, CKind, Kinds
  <2>2. CASE ~Linux
    <3>1. MarkedOnly({}) /\ CommandsKept
      BY <1>8, <2>1, <2>2, MarkedByAdd, RingUnchanged DEF InitCallbacks
    <3> QED
      BY <2>1, <3>1, AwaitedElsewhere
  <2>3. CASE Linux
    BY <2>1, <2>3 DEF RingIsKept, LocalsInv
  <2> QED
    BY <2>2, <2>3
<1>9. CASE AddGrowFails \/ StartService \/ EndService \/ Return \/ Release
  <2>1. UNCHANGED <<cb_map, ring>> /\ pc \notin {"flush", "freeall", "free"}
    BY <1>9 DEF AddGrowFails, InJs, StartService, EndService, Return, Release
  <2> QED
    BY <1>1, <2>1, RingUnchanged
<1>10. CASE QueueFlush
  <2>1. PICK it \in Ids : it = target
    BY DEF TypeOK
  <2>2. /\ pc = "flush" /\ FlushOne(it) \in Items /\ Put(FlushOne(it))
        /\ FlushOne(it).kind = "one" /\ FlushOne(it).id = it /\ cb_map' = cb_map
    BY <1>10, <2>1, CommandType DEF QueueFlush, FlushOne
  <2>3. CommandsKept /\ Pending("one", it)'
    <3>1. Pending("one", FlushOne(it).id)'
      BY <2>2, PutAwaited
    <3> QED
      BY <2>2, <3>1, PutAwaited DEF CommandsKept
  <2>4. ASSUME NEW id \in Ids, cb_map[id].st = "removed"
        PROVE  Pending("one", id)' \/ \E i \in DOMAIN ring' : ring'[i].kind = "all"
    BY <2>1, <2>2, <2>3, <2>4 DEF RemovedWillBeFreed, CommandsKept
  <2> QED
    BY <2>2, <2>4 DEF RemovedWillBeFreed
<1>11. CASE QueueFlushFails
  <2>1. pc = "flush" /\ target \in Ids /\ FreeSlot(target) /\ UNCHANGED ring
    BY <1>11 DEF QueueFlushFails, TypeOK
  <2>2. MarkedOnly({}) /\ cb_map'[target].st # "removed"
    BY <2>1, MarkedByFree
  <2> QED
    BY <2>1, <2>2 DEF RemovedWillBeFreed, MarkedOnly, Pending
<1>12. CASE ClearSlot
  <2>1. /\ pc = "free" /\ pc' = back /\ UNCHANGED <<ring, idx>> /\ target \in Ids
        /\ cb_map' = [cb_map EXCEPT ![target] = Null]
    BY <1>12 DEF ClearSlot, ReturnTo, TypeOK
  <2>2. MarkedOnly({})
    BY <2>1 DEF MarkedOnly, TypeOK, Null
  <2> QED
    BY <2>1, <2>2 DEF RemovedWillBeFreed, MarkedOnly, Pending
<1>13. CASE ServiceFlushOne
  <2>1. /\ pc = "service" /\ ring # <<>> /\ Get /\ Head(ring).kind = "one" /\ Head(ring).id \in Ids
    BY <1>13, GetType DEF ServiceFlushOne, Servicing, Items
  <2>2. MarkedOnly({}) /\ cb_map'[Head(ring).id].st # "removed"
    <3>1. CASE cb_map[Head(ring).id].st = "removed"
      BY <1>13, <2>1, <3>1, MarkedByFree DEF ServiceFlushOne
    <3>2. CASE cb_map[Head(ring).id].st # "removed"
      BY <1>13, <3>2 DEF ServiceFlushOne, MarkedOnly
    <3> QED
      BY <3>1, <3>2
  <2>3. ASSUME NEW id \in Ids, cb_map'[id].st = "removed"
        PROVE  Pending("one", id)' \/ \E i \in DOMAIN ring' : ring'[i].kind = "all"
    <3>1. cb_map[id].st = "removed" /\ id # Head(ring).id
      BY <2>2, <2>3 DEF MarkedOnly
    <3>2. Pending("one", id) \/ \E i \in DOMAIN ring : ring[i].kind = "all"
      BY <2>1, <3>1 DEF RemovedWillBeFreed
    <3> QED
      BY <2>1, <3>1, <3>2, GetAwaited
  <2> QED
    BY <2>3 DEF RemovedWillBeFreed
<1>14. CASE ServiceFlushAll
  <2>1. pc' = "freeall" /\ idx' = 0
    BY <1>14 DEF ServiceFlushAll
  <2>2. \A id \in Ids : id >= 0
    BY DEF Ids
  <2> QED
    BY <2>1, <2>2 DEF RemovedWillBeFreed
<1>15. CASE FreeNext
  <2>1. pc = "freeall" /\ UNCHANGED ring /\ idx \in Nat /\ cb_size \in Nat
    BY <1>15, SizeAssumption DEF FreeNext, TypeOK
  <2>2. CASE idx >= cb_size
    <3>1. cb_map' = cb_map
      BY <1>15, <2>2 DEF FreeNext
    <3>2. \A id \in Ids : cb_map[id].st = "removed" => ~(id >= idx)
      BY <2>1, <2>2 DEF Numbered, Ids
    <3> QED
      BY <2>1, <3>1, <3>2 DEF RemovedWillBeFreed, Pending
  <2>3. CASE ~(idx >= cb_size)
    <3>1. idx \in Ids /\ idx' = idx + 1
      BY <1>15, <2>1, <2>3, SizeAssumption DEF FreeNext, TypeOK, Ids
    <3>2. MarkedOnly({}) /\ cb_map'[idx].st # "removed"
      <4>1. CASE cb_map[idx].st = "removed"
        BY <1>15, <2>3, <3>1, <4>1, MarkedByFree DEF FreeNext
      <4>2. CASE cb_map[idx].st # "removed"
        BY <1>15, <2>3, <4>2 DEF FreeNext, MarkedOnly
      <4> QED
        BY <4>1, <4>2
    <3>3. pc' = "freeall" \/ (pc' = "free" /\ back' = "freeall")
      <4>1. CASE cb_map[idx].st = "removed"
        BY <1>15, <2>3, <4>1 DEF FreeNext, FreeSlot
      <4>2. CASE cb_map[idx].st # "removed"
        BY <1>15, <2>1, <2>3, <4>2 DEF FreeNext
      <4> QED
        BY <4>1, <4>2
    <3>4. ASSUME NEW id \in Ids, cb_map'[id].st = "removed" PROVE Awaited(id)'
      <4>1. cb_map[id].st = "removed" /\ id # idx
        BY <3>2, <3>4 DEF MarkedOnly
      <4>2. Pending("one", id) \/ (\E i \in DOMAIN ring : ring[i].kind = "all") \/ id >= idx
        BY <2>1, <4>1 DEF RemovedWillBeFreed
      <4>3. id >= idx => id >= idx + 1
        BY <2>1, <4>1 DEF Ids
      <4>4. CASE id >= idx
        BY <3>1, <3>3, <4>3, <4>4 DEF Awaited
      <4>5. CASE Pending("one", id) \/ \E i \in DOMAIN ring : ring[i].kind = "all"
        BY <2>1, <4>5 DEF Awaited, Pending
      <4> QED
        BY <4>2, <4>4, <4>5
    <3> QED
      BY <3>4 DEF RemovedWillBeFreed, Awaited
  <2> QED
    BY <2>2, <2>3
<1>16. CASE ServiceCall \/ ServiceSkip \/ ServiceMissing
  <2>1. /\ pc = "service" /\ ring # <<>> /\ Get /\ Head(ring).kind = "sig" /\ cb_map' = cb_map
    BY <1>16 DEF ServiceCall, ServiceSkip, ServiceMissing, Servicing
  <2>2. CommandsKept
    BY <2>1, GetAwaited DEF CommandsKept
  <2> QED
    BY <1>1, <2>1, <2>2
<1>17. ASSUME CommandsKept, UNCHANGED <<cb_map, pc, back, target, idx>> PROVE RemovedWillBeFreed'
  BY <1>17 DEF RemovedWillBeFreed, CommandsKept
<1>18. ASSUME NEW id \in Ids, NEW w \in ArgWords,
              MainSignal(id, w) \/ ThreadSignal(id, w) \/ Interrupt(id, w)
       PROVE  RemovedWillBeFreed'
  <2>1. CommandsKept
    BY <1>18, SignalAwaited, RingUnchanged DEF MainSignal, ThreadSignal, Interrupt, CommandsKept
  <2> QED
    BY <1>17, <1>18, <2>1 DEF MainSignal, ThreadSignal, Interrupt
<1>19. CASE UNCHANGED vars
  BY <1>17, <1>19, RingUnchanged
<1> QED
  BY <1>2, <1>3, <1>4, <1>5, <1>6, <1>7, <1>8, <1>9, <1>10, <1>11, <1>12, <1>13, <1>14, <1>15,
     <1>16, <1>18, <1>19
  DEF Next, Calls, Main, Others, Faulted

\* The part of EpochInv about the registered callbacks.
EpochOfMap ==
  IF pc = "all" \/ back = "all"
  THEN \A id \in Ids : id < idx => cb_map[id].st # "live"
  ELSE \A id \in Ids : cb_map[id].st = "live" => cb_map[id].reg > epoch

LEMMA EpochOfMapStep ==
  ASSUME TypeOK, PlaceInv, LocalsInv, Numbered, epoch <= regs, EpochOfMap, [Next]_vars
  PROVE  EpochOfMap' /\ epoch' <= regs' /\ (epoch' = epoch \/ pc = "all")
<1>1. epoch \in Nat /\ regs \in Nat /\ cb_size \in Nat /\ idx \in Nat /\ Ids \subseteq Nat
  BY SizeAssumption DEF TypeOK, Ids
<1>2. regs' = regs \/ regs' = regs + 1
  BY MapStep, RegistersEffect DEF Lessens
<1>3. ASSUME epoch' = epoch,
             (pc = "all" \/ back = "all") <=> (pc' = "all" \/ back' = "all"),
             pc = "all" \/ back = "all" => Lessens /\ idx' = idx
      PROVE  EpochOfMap' /\ epoch' <= regs' /\ (epoch' = epoch \/ pc = "all")
  <2>1. epoch' <= regs'
    BY <1>1, <1>2, <1>3
  <2>2. CASE pc = "all" \/ back = "all"
    BY <1>3, <2>1, <2>2 DEF EpochOfMap, Lessens
  <2>3. CASE ~(pc = "all" \/ back = "all") /\ Lessens
    BY <1>3, <2>1, <2>3 DEF EpochOfMap, Lessens
  <2>4. CASE ~(pc = "all" \/ back = "all") /\ Registers
    <3>1. PICK new \in Ids : /\ cb_map'[new].reg = regs + 1
                             /\ \A id \in Ids : id # new => cb_map'[id] = cb_map[id]
      BY <2>4, RegistersEffect
    <3>2. regs + 1 > epoch
      BY <1>1
    <3> QED
      BY <1>3, <2>1, <2>4, <3>1, <3>2 DEF EpochOfMap
  <2> QED
    BY <2>2, <2>3, <2>4, MapStep
<1>4. CASE RemoveAll
  <2>1. pc' = "all" /\ idx' = 0 /\ epoch' = epoch
    BY <1>4 DEF RemoveAll
  <2> QED
    BY <1>1, <1>2, <2>1 DEF EpochOfMap
<1>5. CASE RemoveNext
  <2>1. /\ pc = "all" /\ idx < cb_size /\ idx' = idx + 1 /\ epoch' = epoch
        /\ pc' = "all" \/ back' = "all"
    BY <1>5 DEF RemoveNext
  <2>2. idx \in Ids
    BY <2>1, SizeAssumption DEF TypeOK, Ids
  <2>3. Lessens
    <3>1. regs' = regs /\ cb_size' = cb_size
      BY <1>5 DEF RemoveNext
    <3> QED
      BY <1>5, <2>2, <3>1, MarkLessens, KeepLessens DEF RemoveNext
  <2>4. cb_map'[idx].st # "live"
    BY <1>5, <2>2, MarkEffect DEF RemoveNext
  <2>5. \A id \in Ids : id < idx + 1 => id = idx \/ id < idx
    BY <1>1
  <2> QED
    BY <1>1, <1>2, <2>1, <2>3, <2>4, <2>5 DEF EpochOfMap, Lessens
<1>6. CASE InitCallbacks
  <2>1. /\ pc = "all" /\ idx >= cb_size /\ epoch' = regs /\ pc' \in {"top", "grow"}
        /\ back' = "top" \/ back' = back
    BY <1>6 DEF InitCallbacks, StartAdd
  <2>2. pc' # "all" /\ back' # "all"
    BY <2>1 DEF PlaceInv
  <2>3. \A id \in Ids : cb_map[id].st # "live"
    BY <1>1, <2>1 DEF EpochOfMap, Numbered
  <2>4. \A id \in Ids : cb_map'[id].st = "live" => cb_map'[id].reg > regs
    <3>1. CASE Lessens
      BY <2>3, <3>1 DEF Lessens
    <3>2. CASE Registers
      <4>1. PICK new \in Ids : /\ cb_map'[new].reg = regs + 1
                               /\ \A id \in Ids : id # new => cb_map'[id] = cb_map[id]
        BY <3>2, RegistersEffect
      <4>2. regs + 1 > regs
        BY <1>1
      <4> QED
        BY <2>3, <4>1, <4>2
    <3> QED
      BY <3>1, <3>2, MapStep
  <2> QED
    BY <1>1, <1>2, <2>1, <2>2, <2>4 DEF EpochOfMap
<1>7. CASE QueueFlush \/ ClearSlot \/ QueueFlushFails
  <2>1. /\ epoch' = epoch /\ idx' = idx /\ pc \in {"flush", "free"}
        /\ regs' = regs
    BY <1>7 DEF QueueFlush, ClearSlot, QueueFlushFails
  <2>2. (pc' = back /\ back' = "top") \/ (pc' = "free" /\ back' = back)
    BY <1>7 DEF QueueFlush, ClearSlot, QueueFlushFails, FreeSlot, ReturnTo
  <2>3. ~Registers
    BY <1>1, <2>1, RegistersEffect
  <2> QED
    BY <1>3, <2>1, <2>2, <2>3, MapStep
<1>8. CASE AddGrown
  <2>1. epoch' = epoch /\ pc = "grow" /\ pc' = back /\ back' = "top" /\ back # "all"
    BY <1>8 DEF AddGrown, ReturnTo, LocalsInv
  <2> QED
    BY <1>3, <2>1
<1>9. ASSUME epoch' = epoch, pc \notin {"all", "flush", "free"}, pc' # "all", back' # "all"
      PROVE  EpochOfMap' /\ epoch' <= regs' /\ (epoch' = epoch \/ pc = "all")
  BY <1>3, <1>9 DEF LocalsInv
<1>10. ASSUME NEW kind \in Kinds, Add(kind)
       PROVE  EpochOfMap' /\ epoch' <= regs' /\ (epoch' = epoch \/ pc = "all")
  <2>1. epoch' = epoch /\ pc \in {"top", "body"} /\ pc' \in {pc, "grow"} /\ back' \in {back, pc}
    BY <1>10 DEF Add, InJs, StartAdd
  <2> QED
    BY <1>9, <2>1 DEF LocalsInv
<1>11. ASSUME NEW id \in Ids, RemoveCallback(id)
       PROVE  EpochOfMap' /\ epoch' <= regs' /\ (epoch' = epoch \/ pc = "all")
  <2>1. epoch' = epoch /\ pc \in {"top", "body"} /\ pc' = "flush" /\ back' = pc
    BY <1>11 DEF RemoveCallback, InJs
  <2> QED
    BY <1>9, <2>1
<1>12. CASE StartService \/ EndService \/ ServiceFlushOne \/ ServiceFlushAll \/ FreeNext
            \/ ServiceCall \/ ServiceSkip \/ ServiceMissing \/ Return \/ Post \/ Release
  <2>1. /\ epoch' = epoch /\ pc \in {"top", "service", "freeall", "body", "post", "release"}
        /\ pc' # "all" /\ back' \in {back, "service", "freeall", "release"}
    BY <1>12 DEF StartService, EndService, ServiceFlushOne, ServiceFlushAll, FreeNext, FreeSlot,
       ServiceCall, ServiceSkip, ServiceMissing, Servicing, Return, Post, Release
  <2> QED
    BY <1>9, <2>1 DEF LocalsInv
<1>13. ASSUME UNCHANGED <<cb_map, cb_size, pc, back, idx, epoch, regs>>
       PROVE  EpochOfMap' /\ epoch' <= regs' /\ (epoch' = epoch \/ pc = "all")
  BY <1>3, <1>13, KeepLessens
<1>14. ASSUME NEW id \in Ids, NEW w \in ArgWords,
              MainSignal(id, w) \/ ThreadSignal(id, w) \/ Interrupt(id, w)
       PROVE  EpochOfMap' /\ epoch' <= regs' /\ (epoch' = epoch \/ pc = "all")
  BY <1>13, <1>14 DEF MainSignal, ThreadSignal, Interrupt
<1>15. CASE AddGrowFails \/ UNCHANGED vars
  BY <1>13, <1>15 DEF AddGrowFails
<1> QED
  BY <1>4, <1>5, <1>6, <1>7, <1>8, <1>10, <1>11, <1>12, <1>14, <1>15
  DEF Next, Calls, Main, Others, Faulted

\* A signal that is pending is of the program that runs, once the ring was found empty.
LEMMA EpochStep ==
  ASSUME TypeOK, PlaceInv, LocalsInv, Numbered, IInv, EpochInv, [Next]_vars
  PROVE  EpochInv'
<1> DEFINE Recent == \A i \in DOMAIN ring : ring[i].kind = "sig" => ring[i].reg > epoch
<1>1. EpochOfMap' /\ epoch' <= regs' /\ (epoch' = epoch \/ pc = "all")
  BY EpochOfMapStep DEF EpochInv, EpochOfMap
<1> SUFFICES ASSUME ~tainted' PROVE Recent'
  BY <1>1 DEF EpochInv, EpochOfMap
<1>2. CASE EndService
  <2>1. ~(tainted /\ ring # <<>>) /\ ring' = ring /\ epoch' = epoch
    BY <1>2 DEF EndService
  <2>2. CASE ~tainted
    BY <2>1, <2>2 DEF EpochInv
  <2>3. CASE ring = <<>>
    <3>1. DOMAIN ring' = {}
      BY <2>1, <2>3
    <3> QED
      BY <3>1
  <2> QED
    BY <2>1, <2>2, <2>3
<1>3. CASE ~EndService
  <2>1. ~tainted
    BY <1>3 DEF Next, Calls, Main, Others, Faulted, Add, AddGrowFails, RemoveCallback, RemoveAll,
       MainSignal, AddGrown, QueueFlush, QueueFlushFails, ClearSlot, RemoveNext, InitCallbacks,
       StartService, ServiceFlushOne, ServiceFlushAll, FreeNext, ServiceCall, ServiceSkip,
       ServiceMissing, Return, Post, Release, ThreadSignal, Interrupt
  <2>2. Recent /\ pc # "all" /\ back # "all" /\ epoch' = epoch
    BY <1>1, <2>1 DEF EpochInv, IInv, Clean, NoFlushAll
  <2>3. \A id \in Ids : cb_map[id].st = "live" => cb_map[id].reg > epoch
    BY <2>2 DEF EpochInv
  <2>4. CASE UNCHANGED ring
    BY <2>2, <2>4
  <2>5. ASSUME NEW id \in Ids, NEW w \in ArgWords, Signal(id, w) PROVE Recent'
    <3>1. CASE Deliverable(id) /\ Fits(Signalled(id, w))
      <4>1. Signalled(id, w) \in Items /\ Put(Signalled(id, w))
        BY <2>5, <3>1, RingAssumption DEF TypeOK, Signalled, Items, Slots, Signal
      <4>2. Signalled(id, w).reg = cb_map[id].reg /\ cb_map[id].st = "live"
        BY <3>1 DEF Signalled, Deliverable
      <4> QED
        BY <2>2, <2>3, <4>1, <4>2, PutItems
    <3>2. CASE ~(Deliverable(id) /\ Fits(Signalled(id, w)))
      BY <2>4, <2>5, <3>2 DEF Signal
    <3> QED
      BY <3>1, <3>2
  <2>6. ASSUME ring # <<>>, Get PROVE Recent'
    BY <2>2, <2>6, GetItems
  <2>7. CASE QueueFlush
    <3>1. FlushOne(target) \in Items /\ Put(FlushOne(target)) /\ FlushOne(target).kind = "one"
      BY <2>7, CommandType DEF QueueFlush, FlushOne, TypeOK
    <3> QED
      BY <2>2, <3>1, PutItems
  <2>8. CASE Calls
    BY <2>4, <2>5, <2>8 DEF Calls, Add, AddGrowFails, RemoveCallback, MainSignal, RemoveAll
  <2>9. CASE Main
    BY <1>3, <2>2, <2>4, <2>6, <2>7, <2>9 DEF Main, AddGrown, QueueFlushFails, ClearSlot, RemoveNext,
       InitCallbacks, StartService, ServiceFlushOne, ServiceFlushAll, FreeNext, ServiceCall,
       ServiceSkip, ServiceMissing, Servicing, Return, Post, Release
  <2>10. CASE Others
    BY <2>4, <2>5, <2>10 DEF Others, ThreadSignal, Interrupt
  <2> QED
    BY <2>4, <2>8, <2>9, <2>10 DEF Next, Faulted
<1> QED
  BY <1>2, <1>3

-----------------------------------------------------------------------------
\* All of these hold together.
More == LocalsInv /\ Numbered /\ OnceInv /\ SkipInv /\ EpochInv

LEMMA MoreInit == Init => More /\ RemovedWillBeFreed
<1> SUFFICES ASSUME Init PROVE More /\ RemovedWillBeFreed
  OBVIOUS
<1>1. DOMAIN ring = {} /\ ~tainted /\ pc = "top" /\ back = "top" /\ regs = 1 /\ epoch = 0
  BY DEF Init
<1>2. /\ cb_map[0].st = "live" /\ cb_map[0].reg = 1 /\ cb_map[0].once = FALSE
      /\ \A id \in Ids : id # 0 => cb_map[id].st = "null" /\ cb_map[id].reg = 0
      /\ cb_size = 1 /\ called = {} /\ 0 \in Ids
  BY SizeAssumption DEF Init, Ids, Null
<1>3. LocalsInv /\ SkipInv
  BY DEF Init, LocalsInv, SkipInv, CKind
<1>4. Numbered
  BY <1>1, <1>2 DEF Numbered, Ids
<1>6. OnceInv
  BY <1>2 DEF OnceInv
<1>7. EpochInv
  BY <1>1, <1>2 DEF EpochInv
<1>8. RemovedWillBeFreed
  BY <1>2 DEF RemovedWillBeFreed
<1> QED
  BY <1>3, <1>4, <1>6, <1>7, <1>8 DEF More

LEMMA MoreAlways == Spec => []More
<1>1. TypeOK /\ IInv /\ More /\ [Next]_vars => More'
  <2> SUFFICES ASSUME TypeOK, PlaceInv, IInv, More, [Next]_vars PROVE More'
    BY DEF IInv
  <2>1. LocalsInv' /\ Numbered' /\ OnceInv' /\ SkipInv' /\ EpochInv'
    BY LocalsStep, NumberedStep, OnceStep, SkipStep, EpochStep DEF More
  <2> QED
    BY <2>1 DEF More
<1> QED
  BY <1>1, MoreInit, TypeCorrect, Invariant, PTL DEF Spec

\* A callback registered with zjs_add_callback_once is called at most once, however often
\* it is signalled and whatever its function registers and removes.
THEOREM CalledOnce == Spec => OnceCalledOnce
<1> DEFINE Once == cur = NoWork /\ cur' # NoWork /\ cb_map[cur'.id].once => cur'.to \notin called
<1>1. TypeOK /\ More /\ [Next]_vars => [Once]_vars
  <2> SUFFICES ASSUME TypeOK, More, Next, cur = NoWork, cur' # NoWork, cb_map[cur'.id].once
               PROVE  cur'.to \notin called
    OBVIOUS
  <2>1. ServiceCall
    BY DEF Next, Calls, Main, Others, Faulted, Add, AddGrowFails, RemoveCallback, RemoveAll,
       MainSignal, AddGrown, QueueFlush, QueueFlushFails, ClearSlot, RemoveNext, InitCallbacks,
       StartService, EndService, ServiceFlushOne, ServiceFlushAll, FreeNext, ServiceSkip,
       ServiceMissing, Return, Post, Release, ThreadSignal, Interrupt
  <2>2. /\ cb_map[Head(ring).id].st = "live" /\ Head(ring).id \in Ids
        /\ cur'.to = cb_map[Head(ring).id].reg /\ cur'.id = Head(ring).id
    BY <2>1, GetType DEF ServiceCall, Servicing, Items
  <2> QED
    BY <2>2 DEF More, OnceInv
<1> QED
  BY <1>1, MoreAlways, TypeCorrect, PTL DEF Spec, OnceCalledOnce

\* A removed callback is never forgotten, though its command may find the ring full and
\* stopJS may come in between; in the Linux build, only as long as stopJS does not.
THEOREM RemovedNotForgotten ==
  ASSUME RingIsKept
  PROVE  Spec => []RemovedWillBeFreed
<1>1. TypeOK /\ IInv /\ More /\ RemovedWillBeFreed /\ [Next]_vars => RemovedWillBeFreed'
  BY FreedStep DEF More, IInv
<1> QED
  BY <1>1, MoreInit, MoreAlways, TypeCorrect, Invariant, PTL DEF Spec

-----------------------------------------------------------------------------
(***************************************************************************)
(* The references to arguments: sums over a sequence of items.             *)
(***************************************************************************)
\* Sum is the sequence of the sums of the first items of s, and t the sum of all.
Sums(f, s) ==
  /\ f \in [0 .. Len(s) -> Int]
  /\ f[0] = 0
  /\ \A n \in 1 .. Len(s) : f[n] = f[n - 1] + Holds(s[n])
Total(s, t) == \E f : Sums(f, s) /\ t = f[Len(s)]

LEMMA HoldsInt ==
  ASSUME NEW item \in Items
  PROVE  Holds(item) \in Int
BY DEF Items, Holds

LEMMA LeastOf ==
  ASSUME NEW T, T \subseteq Nat, T # {}
  PROVE  \E x \in T : \A y \in T : x <= y
<1> DEFINE R == {ss \in Nat \X Nat : ss[1] < ss[2]}
<1>1. IsWellFoundedOn(R, Nat)
  BY NatLessThanWellFounded DEF OpToRel
<1>2. \E x \in T : \A y \in T : <<y, x>> \notin R
  BY <1>1, WFMin, Zenon
<1>3. \A x, y \in Nat : <<y, x>> \notin R => x <= y
  OBVIOUS
<1> QED
  BY <1>2, <1>3

\* There are such sums.
LEMMA SumsExist ==
  ASSUME NEW s \in Seq(Items)
  PROVE  \E f : Sums(f, s)
<1> DEFINE N == Len(s)
           Ok(f, n) == /\ f \in [0 .. n -> Int] /\ f[0] = 0
                       /\ \A i \in 1 .. n : f[i] = f[i - 1] + Holds(s[i])
           T == {n \in 0 .. N : ~\E f : Ok(f, n)}
<1>1. N \in Nat /\ \A i \in 1 .. N : Holds(s[i]) \in Int
  <2>1. N \in Nat /\ \A i \in 1 .. N : s[i] \in Items
    BY ElementOfSeq
  <2> QED
    BY <2>1, HoldsInt
<1>2. T = {}
  <2> SUFFICES ASSUME T # {} PROVE FALSE
    OBVIOUS
  <2>1. T \subseteq Nat
    BY <1>1
  <2>2. PICK n \in T : \A m \in T : n <= m
    <3> HIDE DEF T
    <3> QED
      BY <2>1, LeastOf
  <2>3. n # 0
    <3>1. Ok([i \in {0} |-> 0], 0)
      OBVIOUS
    <3> QED
      BY <3>1
  <2>0. n \in 0 .. N
    BY <2>2
  <2>4. n \in 1 .. N /\ n - 1 \in 0 .. N /\ n - 1 \notin T
    <3>1. n \in 1 .. N /\ n - 1 \in 0 .. N /\ n - 1 < n
      <4> HIDE DEF N, T
      <4> QED
        BY <1>1, <2>0, <2>3
    <3> HIDE DEF N, T
    <3> QED
      BY <2>1, <2>2, <3>1
  <2>5. PICK f : Ok(f, n - 1)
    BY <2>4
  <2>6. PICK g : g = [i \in 0 .. n |-> IF i = n THEN f[n - 1] + Holds(s[n]) ELSE f[i]]
    OBVIOUS
  <2>7. f[n - 1] \in Int /\ Holds(s[n]) \in Int
    <3>1. n - 1 \in 0 .. n - 1
      <4> HIDE DEF N, T
      <4> QED
        BY <1>1, <2>4
    <3> QED
      BY <1>1, <2>4, <2>5, <3>1
  <2>8. g \in [0 .. n -> Int] /\ g[0] = 0
    BY <1>1, <2>4, <2>5, <2>6, <2>7
  <2>9. \A i \in 1 .. n : g[i] = g[i - 1] + Holds(s[i])
    BY <1>1, <2>4, <2>5, <2>6, <2>7
  <2> QED
    BY <2>2, <2>8, <2>9
<1>3. N \in 0 .. N
  BY <1>1
<1>4. \E f : Ok(f, N)
  BY <1>2, <1>3
<1> QED
  BY <1>4 DEF Sums

\* The sums are determined by the sequence.
LEMMA SumsUnique ==
  ASSUME NEW s \in Seq(Items), NEW f, NEW g, Sums(f, s), Sums(g, s)
  PROVE  \A n \in 0 .. Len(s) : f[n] = g[n]
<1> DEFINE T == {n \in 0 .. Len(s) : f[n] # g[n]}
<1> SUFFICES ASSUME T # {} PROVE FALSE
  OBVIOUS
<1>1. T \subseteq Nat /\ Len(s) \in Nat
  OBVIOUS
<1>2. PICK n \in T : \A m \in T : n <= m
  <2> HIDE DEF T
  <2> QED
    BY <1>1, LeastOf
<1>3. n # 0 /\ n \in 1 .. Len(s)
  BY <1>1, <1>2 DEF Sums
<1>4. n - 1 \in 0 .. Len(s) /\ f[n - 1] = g[n - 1]
  BY <1>1, <1>2, <1>3
<1> QED
  BY <1>2, <1>3, <1>4 DEF Sums

LEMMA TotalUnique ==
  ASSUME NEW s \in Seq(Items), NEW t, NEW u, Total(s, t), Total(s, u)
  PROVE  t = u
<1>1. Len(s) \in 0 .. Len(s)
  OBVIOUS
<1> QED
  BY <1>1, SumsUnique DEF Total

LEMMA TotalOfEmpty == Total(<<>>, 0)
<1>1. Sums([i \in {0} |-> 0], <<>>)
  BY DEF Sums
<1> QED
  BY <1>1 DEF Total

LEMMA TotalOfAppend ==
  ASSUME NEW s \in Seq(Items), NEW e \in Items, NEW t, Total(s, t), NEW r, r = Append(s, e)
  PROVE  Total(r, t + Holds(e))
<1>1. PICK f : Sums(f, s) /\ t = f[Len(s)]
  BY DEF Total
<1>2. /\ Len(r) = Len(s) + 1 /\ Len(s) \in Nat /\ r[Len(s) + 1] = e
      /\ \A i \in 1 .. Len(s) : r[i] = s[i]
  BY AppendProperties
<1>3. PICK n : n = Len(s)
  OBVIOUS
<1>4. PICK g : g = [i \in 0 .. n + 1 |-> IF i = n + 1 THEN t + Holds(e) ELSE f[i]]
  OBVIOUS
<1>5. t \in Int /\ Holds(e) \in Int /\ n \in Nat
  BY <1>1, <1>2, <1>3 DEF Sums, Items, Holds
<1>6. g \in [0 .. n + 1 -> Int] /\ g[0] = 0 /\ g[n + 1] = t + Holds(e)
  BY <1>1, <1>3, <1>4, <1>5 DEF Sums
<1>7. ASSUME NEW i \in 1 .. n + 1 PROVE g[i] = g[i - 1] + Holds(r[i])
  <2>1. CASE i = n + 1
    <3>1. g[i - 1] = f[n]
      BY <1>4, <1>5, <2>1
    <3> QED
      BY <1>1, <1>2, <1>3, <1>6, <2>1, <3>1
  <2>2. CASE i # n + 1
    <3>1. i \in 1 .. n /\ g[i] = f[i] /\ g[i - 1] = f[i - 1]
      BY <1>4, <1>5, <2>2
    <3> QED
      BY <1>1, <1>2, <1>3, <3>1 DEF Sums
  <2> QED
    BY <2>1, <2>2
<1> QED
  BY <1>2, <1>3, <1>6, <1>7 DEF Sums, Total

LEMMA TotalOfTail ==
  ASSUME NEW s \in Seq(Items), s # <<>>, NEW t, Total(s, t), NEW r, r = Tail(s)
  PROVE  Total(r, t - Holds(Head(s)))
<1>1. PICK f : Sums(f, s) /\ t = f[Len(s)]
  BY DEF Total
<1>2. /\ Len(r) = Len(s) - 1 /\ Len(s) \in Nat \ {0} /\ Head(s) = s[1] /\ s[1] \in Items
      /\ \A i \in 1 .. Len(s) - 1 : r[i] = s[i + 1]
  BY EmptySeq, LenProperties, HeadTailProperties, ElementOfSeq
<1>3. PICK n, h : n = Len(s) /\ h = Holds(Head(s))
  OBVIOUS
<1>4. PICK g : g = [i \in 0 .. n - 1 |-> f[i + 1] - h]
  OBVIOUS
<1>5. /\ n \in Nat \ {0} /\ h \in Int /\ f[1] = h
      /\ \A i \in 0 .. n : f[i] \in Int
  <2>1. n \in Nat \ {0} /\ h = Holds(s[1]) /\ h \in Int
    BY <1>2, <1>3, HoldsInt
  <2>2. 1 \in 1 .. n /\ f[0] = 0 /\ f[1] = f[1 - 1] + Holds(s[1])
    BY <1>1, <1>3, <2>1 DEF Sums
  <2>3. \A i \in 0 .. n : f[i] \in Int
    BY <1>1, <1>3 DEF Sums
  <2> QED
    BY <2>1, <2>2, <2>3
<1>6. g \in [0 .. n - 1 -> Int] /\ g[0] = 0 /\ g[n - 1] = t - h
  BY <1>1, <1>3, <1>4, <1>5
<1>7. ASSUME NEW i \in 1 .. n - 1 PROVE g[i] = g[i - 1] + Holds(r[i])
  <2>1. i + 1 \in 1 .. n /\ g[i] = f[i + 1] - h /\ g[i - 1] = f[i] - h /\ r[i] = s[i + 1]
    BY <1>2, <1>3, <1>4, <1>5
  <2>2. f[i + 1] = f[i] + Holds(r[i])
    BY <1>1, <1>3, <1>5, <2>1 DEF Sums
  <2>3. f[i] \in Int /\ f[i + 1] \in Int
    BY <1>5, <2>1
  <2>4. Holds(r[i]) \in Int
    <3>1. i + 1 \in 1 .. Len(s)
      BY <1>3, <2>1
    <3>2. s[i + 1] \in Items
      BY <3>1, ElementOfSeq
    <3> QED
      BY <2>1, <3>2, HoldsInt
  <2>5. PICK x, y : x = f[i] /\ y = Holds(r[i])
    OBVIOUS
  <2>6. f[i + 1] = x + y /\ x \in Int /\ y \in Int
    BY <2>1, <2>2, <2>3, <2>4, <2>5
  <2>7. g[i] = (x + y) - h /\ g[i - 1] = x - h
    BY <2>1, <2>5, <2>6
  <2>8. (x + y) - h = (x - h) + y
    BY <1>5, <2>6
  <2> QED
    BY <2>5, <2>7, <2>8
<1> QED
  BY <1>2, <1>3, <1>6, <1>7 DEF Sums, Total

\* RingHolds is that sum, before a step and after it.
SumOf(s) ==
  LET upTo[n \in 0 .. Len(s)] == IF n = 0 THEN 0 ELSE upTo[n - 1] + Holds(s[n])
  IN  upTo[Len(s)]

LEMMA SumIsTotal ==
  ASSUME NEW s \in Seq(Items)
  PROVE  Total(s, SumOf(s))
<1> DEFINE Def(f) == f = [n \in 0 .. Len(s) |-> IF n = 0 THEN 0 ELSE f[n - 1] + Holds(s[n])]
<1>1. PICK f : Sums(f, s)
  BY SumsExist
<1>2. Def(f)
  <2>1. \A n \in 0 .. Len(s) : f[n] = IF n = 0 THEN 0 ELSE f[n - 1] + Holds(s[n])
    BY <1>1 DEF Sums
  <2> QED
    BY <1>1, <2>1 DEF Sums
<1>3. PICK g : g = CHOOSE x : Def(x)
  OBVIOUS
<1>4. Def(g)
  BY <1>2, <1>3, Zenon
<1>5. SumOf(s) = g[Len(s)]
  BY <1>3 DEF SumOf
<1>6. /\ DOMAIN g = 0 .. Len(s) /\ g[0] = 0 /\ g = [i \in DOMAIN g |-> g[i]]
      /\ \A n \in 1 .. Len(s) : g[n] = g[n - 1] + Holds(s[n])
  <2> HIDE DEF Def
  <2>1. g = [n \in 0 .. Len(s) |-> IF n = 0 THEN 0 ELSE g[n - 1] + Holds(s[n])]
    BY <1>4, Zenon DEF Def
  <2>2. DOMAIN g = 0 .. Len(s) /\ g = [i \in DOMAIN g |-> g[i]]
    BY <2>1
  <2>3. \A n \in 0 .. Len(s) : g[n] = IF n = 0 THEN 0 ELSE g[n - 1] + Holds(s[n])
    BY <2>1
  <2> QED
    BY <2>2, <2>3
<1>7. \A n \in 0 .. Len(s) : g[n] \in Int
  <2> DEFINE T == {n \in 0 .. Len(s) : g[n] \notin Int}
  <2> SUFFICES ASSUME T # {} PROVE FALSE
    OBVIOUS
  <2>1. T \subseteq Nat /\ Len(s) \in Nat
    OBVIOUS
  <2>2. PICK n \in T : \A m \in T : n <= m
    <3> HIDE DEF T
    <3> QED
      BY <2>1, LeastOf
  <2>3. n # 0 /\ n \in 1 .. Len(s)
    BY <1>6, <2>1, <2>2
  <2>4. n - 1 \in 0 .. Len(s) /\ g[n - 1] \in Int
    BY <2>1, <2>2, <2>3
  <2>5. Holds(s[n]) \in Int
    BY <2>3, ElementOfSeq, HoldsInt
  <2> QED
    BY <1>6, <2>2, <2>3, <2>4, <2>5
<1>8. Sums(g, s)
  BY <1>6, <1>7 DEF Sums
<1> QED
  BY <1>5, <1>8 DEF Total

LEMMA RingHoldsIs ==
  /\ ring \in Seq(Items) => Total(ring, RingHolds)
  /\ ring' \in Seq(Items) => Total(ring', RingHolds')
<1>1. RingHolds = SumOf(ring)
  BY DEF RingHolds, SumOf
<1>2. RingHolds' = SumOf(ring')
  BY DEF RingHolds, SumOf
<1> QED
  BY <1>1, <1>2, SumIsTotal

\* A pending signal has acquired its arguments if the registration it was sent to is one of
\* JavaScript; commands have none.
JsOf(item) ==
  IF item.kind = "sig"
  THEN /\ item.reg \in 1 .. regs
       /\ cb_map[item.id].reg = item.reg => item.js = cb_map[item.id].js
  ELSE ~item.js

JsInv == \A i \in DOMAIN ring : JsOf(ring[i])

\* An item keeps to that while the map changes.
LEMMA JsOfKept ==
  ASSUME TypeOK, Numbered, Registers \/ Lessens, NEW item \in Items, JsOf(item)
  PROVE  JsOf(item)'
<1>1. item.id \in Ids
  BY DEF Items
<1>2. CASE Registers
  <2>1. PICK kind \in Kinds : Store(kind)
    BY <1>2 DEF Registers
  <2>2. PICK id \in Ids : cb_map' = [cb_map EXCEPT ![id] =
                    [st |-> "live", reg |-> regs + 1, js |-> kind.js, once |-> kind.once]]
    BY <2>1 DEF Store, FreeIds
  <2>3. regs' = regs + 1 /\ regs \in Nat
    BY <2>1 DEF Store, TypeOK
  <2>4. CASE item.id = id
    <3>1. cb_map'[item.id].reg = regs + 1
      BY <2>2, <2>4 DEF TypeOK
    <3> QED
      BY <2>3, <3>1 DEF JsOf
  <2>5. CASE item.id # id
    <3>1. cb_map'[item.id] = cb_map[item.id]
      BY <1>1, <2>2, <2>5 DEF TypeOK
    <3> QED
      BY <2>3, <3>1 DEF JsOf
  <2> QED
    BY <2>4, <2>5
<1>3. CASE Lessens
  <2>1. /\ regs' = regs
        /\ cb_map'[item.id].reg \in {cb_map[item.id].reg, 0}
        /\ cb_map'[item.id].reg # 0 => cb_map'[item.id].js = cb_map[item.id].js
    BY <1>1, <1>3 DEF Lessens
  <2>2. regs \in Nat
    BY DEF TypeOK
  <2> QED
    BY <2>1, <2>2 DEF JsOf
<1> QED
  BY <1>2, <1>3

LEMMA SignalledJs ==
  ASSUME TypeOK, PlaceInv, Numbered, NEW id \in Ids, NEW w \in ArgWords, Deliverable(id)
  PROVE  /\ JsOf(Signalled(id, w)) /\ Signalled(id, w) \in Items
         /\ Holds(Signalled(id, w)) = IF cb_map[id].js THEN w ELSE 0
<1>1. cb_map[id] \in Slots /\ cb_map[id].reg > 0 /\ cb_map[id].reg <= regs
  BY DEF TypeOK, PlaceInv, Numbered, Deliverable
<1>2. Signalled(id, w) \in Items
  BY <1>1, RingAssumption DEF Signalled, Items, Slots
<1>3. JsOf(Signalled(id, w))
  BY <1>1 DEF JsOf, Signalled, TypeOK, Slots
<1> QED
  BY <1>2, <1>3 DEF Holds, Signalled

\* What the steps do to the ring: they put one item, take one or more out, or leave it.
RingMoves ==
  \/ UNCHANGED ring
  \/ ring' = <<>>
  \/ ring # <<>> /\ Get
  \/ \E item \in Items : JsOf(item) /\ Put(item)

LEMMA CommandJs ==
  /\ FlushAll \in Items /\ JsOf(FlushAll) /\ Holds(FlushAll) = 0
  /\ \A id \in Ids : FlushOne(id) \in Items /\ JsOf(FlushOne(id)) /\ Holds(FlushOne(id)) = 0
BY CommandType DEF FlushAll, FlushOne, JsOf, Holds

LEMMA RingStep ==
  ASSUME TypeOK, PlaceInv, Numbered, [Next]_vars
  PROVE  RingMoves
<1>1. ASSUME NEW id \in Ids, NEW w \in ArgWords, Signal(id, w) PROVE RingMoves
  BY <1>1, SignalledJs DEF Signal, RingMoves
<1>2. ASSUME UNCHANGED ring PROVE RingMoves
  BY <1>2 DEF RingMoves
<1>3. CASE RemoveAll
  <2>1. ring' = ring \/ Put(FlushAll)
    BY <1>3 DEF RemoveAll
  <2> QED
    BY <2>1, CommandJs DEF RingMoves
<1>4. CASE QueueFlush
  <2>1. target \in Ids /\ Put(FlushOne(target))
    BY <1>4 DEF QueueFlush, TypeOK
  <2> QED
    BY <2>1, CommandJs DEF RingMoves
<1>5. CASE InitCallbacks
  BY <1>5 DEF InitCallbacks, RingMoves
<1>6. CASE ServiceFlushOne \/ ServiceFlushAll \/ ServiceCall \/ ServiceSkip \/ ServiceMissing
  BY <1>6 DEF ServiceFlushOne, ServiceFlushAll, ServiceCall, ServiceSkip, ServiceMissing,
     Servicing, RingMoves
<1>7. CASE Calls
  BY <1>1, <1>2, <1>3, <1>7 DEF Calls, Add, AddGrowFails, RemoveCallback, MainSignal
<1>8. CASE Main
  BY <1>2, <1>4, <1>5, <1>6, <1>8 DEF Main, AddGrown, QueueFlushFails, ClearSlot, RemoveNext,
     StartService, EndService, FreeNext, Return, Post, Release
<1>9. CASE Others
  BY <1>1, <1>2, <1>9 DEF Others, ThreadSignal, Interrupt
<1> QED
  BY <1>2, <1>7, <1>8, <1>9 DEF Next, Faulted

LEMMA JsStep ==
  ASSUME TypeOK, PlaceInv, LocalsInv, Numbered, JsInv, [Next]_vars
  PROVE  JsInv'
<1>1. Registers \/ Lessens
  BY MapStep
<1>2. \A i \in DOMAIN ring : JsOf(ring[i]) /\ ring[i] \in Items
  BY ItemIds DEF JsInv
<1>3. PICK r : r = ring'
  OBVIOUS
<1>4. \A i \in DOMAIN r : r[i] \in Items /\ JsOf(r[i])
  <2>1. CASE UNCHANGED ring
    BY <1>2, <1>3, <2>1
  <2>2. CASE ring' = <<>>
    BY <1>3, <2>2
  <2>3. CASE ring # <<>> /\ Get
    BY <1>2, <1>3, <2>3, GetItems
  <2>4. ASSUME NEW item \in Items, JsOf(item), Put(item)
        PROVE  \A i \in DOMAIN r : r[i] \in Items /\ JsOf(r[i])
    BY <1>2, <1>3, <2>4, PutItems
  <2> QED
    BY <2>1, <2>2, <2>3, <2>4, RingStep DEF RingMoves
<1>5. \A item \in Items : JsOf(item) => JsOf(item)'
  BY <1>1, JsOfKept
<1>6. \A i \in DOMAIN r : JsOf(r[i])'
  BY <1>4, <1>5
<1> QED
  BY <1>3, <1>6 DEF JsInv

\* The sum before and after an item is put or taken.
LEMMA PutHolds ==
  ASSUME TypeOK, TypeOK', NEW item \in Items, Put(item)
  PROVE  RingHolds' = RingHolds + Holds(item)
<1>1. ring \in Seq(Items) /\ ring' \in Seq(Items) /\ ring' = Append(ring, item)
  BY DEF TypeOK, Put
<1>2. PICK r, t, u : r = ring' /\ t = RingHolds /\ u = RingHolds'
  OBVIOUS
<1>3. Total(ring, t)
  BY <1>1, <1>2, RingHoldsIs
<1>4. Total(r, u)
  BY <1>1, <1>2, RingHoldsIs
<1>5. Total(r, t + Holds(item))
  BY <1>1, <1>2, <1>3, TotalOfAppend
<1> QED
  BY <1>1, <1>2, <1>4, <1>5, TotalUnique

LEMMA GetHolds ==
  ASSUME TypeOK, TypeOK', ring # <<>>, Get
  PROVE  RingHolds' = RingHolds - Holds(Head(ring))
<1>1. ring \in Seq(Items) /\ ring' \in Seq(Items) /\ ring' = Tail(ring)
  BY DEF TypeOK, Get
<1>2. PICK r, t, u : r = ring' /\ t = RingHolds /\ u = RingHolds'
  OBVIOUS
<1>3. Total(ring, t)
  BY <1>1, <1>2, RingHoldsIs
<1>4. Total(r, u)
  BY <1>1, <1>2, RingHoldsIs
<1>5. Total(r, t - Holds(Head(ring)))
  BY <1>1, <1>2, <1>3, TotalOfTail
<1> QED
  BY <1>1, <1>2, <1>4, <1>5, TotalUnique

LEMMA KeepHolds ==
  ASSUME TypeOK, TypeOK', UNCHANGED ring
  PROVE  RingHolds' = RingHolds
<1>2. PICK r, t, u : r = ring' /\ t = RingHolds /\ u = RingHolds'
  OBVIOUS
<1>3. Total(ring, t) /\ ring \in Seq(Items)
  BY <1>2, RingHoldsIs DEF TypeOK
<1>4. Total(r, u) /\ r = ring
  BY <1>2, RingHoldsIs DEF TypeOK
<1> QED
  BY <1>2, <1>3, <1>4, TotalUnique

LEMMA HoldsOfRing ==
  ASSUME TypeOK
  PROVE  RingHolds \in Int /\ Holds(cur) \in Int /\ (ring = <<>> => RingHolds = 0)
<1>1. ring \in Seq(Items)
  BY DEF TypeOK
<1>2. PICK f : Sums(f, ring) /\ RingHolds = f[Len(ring)]
  BY <1>1, RingHoldsIs DEF Total
<1>3. RingHolds \in Int
  BY <1>1, <1>2 DEF Sums
<1>4. Holds(cur) \in Int
  BY DEF TypeOK, Works, Holds
<1>5. ASSUME ring = <<>> PROVE RingHolds = 0
  BY <1>2, <1>5 DEF Sums
<1> QED
  BY <1>3, <1>4, <1>5

\* A step of the balance, for a step that changes none of it.
LEMMA HeldStep ==
  ASSUME TypeOK, TypeOK', PlaceInv, Numbered, JsInv, HeldBalance, [Next]_vars
  PROVE  HeldBalance'
<1> SUFFICES ASSUME ~skewed', Running' PROVE held' = RingHolds' + Holds(cur')
  BY DEF HeldBalance
<1> USE HoldsOfRing
<1>0. /\ RingHolds \in Int /\ Holds(cur) \in Int
      /\ held \in Int
  BY DEF TypeOK
<1>1. ASSUME UNCHANGED <<ring, held, cur, skewed>>, Running PROVE held' = RingHolds' + Holds(cur')
  BY <1>1, KeepHolds DEF HeldBalance
<1>2. ASSUME NEW id \in Ids, NEW w \in ArgWords, Signal(id, w), UNCHANGED <<cur, skewed>>, Running
      PROVE  held' = RingHolds' + Holds(cur')
  <2>1. held = RingHolds + Holds(cur)
    BY <1>2 DEF HeldBalance
  <2>2. CASE Deliverable(id) /\ Fits(Signalled(id, w))
    <3>1. PICK item \in Items : item = Signalled(id, w) /\ Holds(item) = IF cb_map[id].js THEN w ELSE 0
      BY <2>2, SignalledJs
    <3>2. Put(item) /\ held' = held + Holds(item)
      BY <1>2, <2>2, <3>1 DEF Signal
    <3>3. RingHolds' = RingHolds + Holds(item) /\ Holds(item) \in Int
      BY <3>2, PutHolds, HoldsInt
    <3> QED
      BY <1>0, <1>2, <2>1, <3>2, <3>3
  <2>3. CASE ~(Deliverable(id) /\ Fits(Signalled(id, w)))
    BY <1>1, <1>2, <2>3 DEF Signal
  <2> QED
    BY <2>2, <2>3
<1>3. ASSUME NEW item \in Items, Put(item), Holds(item) = 0, UNCHANGED <<held, cur, skewed>>, Running
      PROVE  held' = RingHolds' + Holds(cur')
  <2>1. held = RingHolds + Holds(cur) /\ RingHolds' = RingHolds + Holds(item)
    BY <1>3, PutHolds DEF HeldBalance
  <2>2. Holds(cur') = Holds(cur)
    BY <1>3
  <2> QED
    BY <1>0, <1>3, <2>1, <2>2
<1>4. CASE RemoveAll
  <2>1. UNCHANGED <<held, cur, skewed>> /\ Running /\ (ring' = ring \/ Put(FlushAll))
    BY <1>4 DEF RemoveAll
  <2> QED
    BY <1>1, <1>3, <2>1, CommandJs
<1>5. CASE QueueFlush
  <2>1. /\ UNCHANGED <<held, cur, skewed>> /\ Running
        /\ target \in Ids /\ Put(FlushOne(target))
    BY <1>5 DEF QueueFlush, TypeOK
  <2> QED
    BY <1>3, <2>1, CommandJs
<1>6. CASE InitCallbacks
  <2>1. CASE Linux
    <3>1. cur = NoWork
      BY <1>6 DEF InitCallbacks, PlaceInv, InCall
    <3>2. RingHolds' = 0
      <4>1. ring' = <<>>
        BY <1>6, <2>1 DEF InitCallbacks
      <4>2. PICK r, u : r = ring' /\ u = RingHolds'
        OBVIOUS
      <4>3. r \in Seq(Items) /\ Total(r, u) /\ Total(r, 0)
        BY <4>1, <4>2, RingHoldsIs, TotalOfEmpty
      <4> QED
        BY <4>2, <4>3, TotalUnique
    <3> QED
      BY <1>6, <2>1, <3>1, <3>2 DEF InitCallbacks, Holds, NoWork
  <2>2. CASE ~Linux
    BY <1>1, <1>6, <2>2 DEF InitCallbacks
  <2> QED
    BY <2>1, <2>2
<1>7. ASSUME NEW kind \in {"sig", "one", "all"}, Servicing(kind), Get
      PROVE  /\ RingHolds' = RingHolds - Holds(Head(ring)) /\ Holds(Head(ring)) \in Int
             /\ Head(ring) \in Items /\ JsOf(Head(ring)) /\ Head(ring).kind = kind
             /\ cur = NoWork /\ Holds(cur) = 0 /\ Running
  <2>1. ring # <<>> /\ Running /\ pc = "service" /\ Head(ring).kind = kind
    BY <1>7 DEF Servicing
  <2>2. cur = NoWork
    BY <2>1 DEF PlaceInv, InCall
  <2>3. Head(ring) \in Items /\ JsOf(Head(ring))
    BY <1>7, <2>1, GetType, GetItems DEF JsInv
  <2> QED
    BY <1>7, <2>1, <2>2, <2>3, GetHolds, HoldsInt DEF Holds, NoWork
<1>8. CASE ServiceFlushOne \/ ServiceFlushAll
  <2>1. PICK kind \in {"one", "all"} : Servicing(kind) /\ Get
    BY <1>8 DEF ServiceFlushOne, ServiceFlushAll
  <2>2. Holds(Head(ring)) = 0
    BY <1>7, <2>1 DEF JsOf, Holds
  <2>3. UNCHANGED <<held, cur, skewed>>
    BY <1>8 DEF ServiceFlushOne, ServiceFlushAll
  <2> QED
    BY <1>0, <1>7, <2>1, <2>2, <2>3 DEF HeldBalance
<1>9. CASE ServiceCall
  <2>1. Servicing("sig") /\ Get
    BY <1>9 DEF ServiceCall
  <2>2. ~skewed /\ cb_map[Head(ring).id].reg = Head(ring).reg /\ held' = held
    BY <1>9 DEF ServiceCall, Skew
  <2>3. Head(ring).js = cb_map[Head(ring).id].js
    BY <1>7, <2>1, <2>2 DEF JsOf
  <2>4. cur'.js = cb_map[Head(ring).id].js /\ cur'.words = Head(ring).words
    BY <1>9 DEF ServiceCall
  <2>5. Holds(cur') = Holds(Head(ring))
    BY <2>3, <2>4 DEF Holds
  <2> QED
    BY <1>0, <1>7, <2>1, <2>2, <2>5 DEF HeldBalance
<1>10. CASE ServiceSkip
  <2>1. Servicing("sig") /\ Get
    BY <1>10 DEF ServiceSkip
  <2>2. /\ ~skewed /\ cb_map[Head(ring).id].reg = Head(ring).reg /\ cur' = cur
        /\ held' = held - (IF cb_map[Head(ring).id].js THEN Head(ring).words ELSE 0)
    BY <1>10 DEF ServiceSkip, Skew
  <2>3. Head(ring).js = cb_map[Head(ring).id].js
    BY <1>7, <2>1, <2>2 DEF JsOf
  <2>4. held' = held - Holds(Head(ring))
    BY <2>2, <2>3 DEF Holds
  <2> QED
    BY <1>0, <1>7, <2>1, <2>2, <2>4 DEF HeldBalance
<1>11. CASE ServiceMissing
  <2>1. Servicing("sig") /\ Get
    BY <1>11 DEF ServiceMissing
  <2>2. ~skewed /\ cur' = cur /\ held' = held
    BY <1>11 DEF ServiceMissing, Skew
  <2>3. Head(ring).words = 0
    BY <1>7, <1>11, <2>1 DEF ServiceMissing, Running, Items
  <2>4. Holds(Head(ring)) = 0
    BY <2>3 DEF Holds
  <2> QED
    BY <1>0, <1>7, <2>1, <2>2, <2>4 DEF HeldBalance
<1>12. CASE Release
  <2>1. ~skewed /\ Running /\ cur' = NoWork /\ UNCHANGED ring /\ held' = held - Holds(cur)
    BY <1>12 DEF Release, Holds
  <2>2. RingHolds' = RingHolds /\ Holds(cur') = 0
    BY <2>1, KeepHolds DEF Holds, NoWork
  <2> QED
    BY <1>0, <2>1, <2>2 DEF HeldBalance
<1>13. CASE Calls
  BY <1>1, <1>2, <1>4, <1>13 DEF Calls, Add, InJs, AddGrowFails, RemoveCallback, MainSignal
<1>14. CASE Main
  BY <1>1, <1>5, <1>6, <1>8, <1>9, <1>10, <1>11, <1>12, <1>14 DEF Main, AddGrown, QueueFlushFails,
     ClearSlot, RemoveNext, StartService, EndService, FreeNext, Return, Post
<1>15. CASE Others
  BY <1>1, <1>2, <1>15 DEF Others, ThreadSignal, Interrupt, Running
<1>16. CASE UNCHANGED vars
  BY <1>1, <1>16 DEF Running
<1> QED
  BY <1>13, <1>14, <1>15, <1>16 DEF Next, Faulted

\* Every argument reference a signal acquired is given back exactly once: the references
\* held are those of the pending signals and of the one being handled, unless a signal was
\* handled for another registration than its own.
THEOREM HeldBalanceTheorem == Spec => []HeldBalance
<1>1. Init => JsInv
  BY DEF Init, JsInv
<1>2. Init => HeldBalance
  BY TypeInit, HoldsOfRing DEF Init, HeldBalance, Holds, NoWork
<1>3. TypeOK /\ IInv /\ More /\ JsInv /\ [Next]_vars => JsInv'
  BY JsStep DEF IInv, More
<1>4. TypeOK /\ TypeOK' /\ IInv /\ More /\ JsInv /\ HeldBalance /\ [Next]_vars => HeldBalance'
  BY HeldStep DEF IInv, More
<1> QED
  BY <1>1, <1>2, <1>3, <1>4, TypeCorrect, Invariant, MoreAlways, PTL DEF Spec
-----------------------------------------------------------------------------
(***************************************************************************)
(* Undefined behaviour and its causes.                                     *)
(***************************************************************************)
\* Whatever happens, happens once: after it nothing moves.
LEMMA UndefinedStep ==
  ASSUME TypeOK, PlaceInv, IInv, EpochInv, JsInv, UndefinedExplained, [Next]_vars
  PROVE  UndefinedExplained'
<1>1. CASE Faulted \/ UNCHANGED vars
  BY <1>1 DEF Faulted, vars, cbVars, mainVars, history, UndefinedExplained
<1>2. CASE fault' = "none"
  BY <1>2 DEF UndefinedExplained
<1>3. ASSUME NEW id \in Ids, NEW w \in ArgWords, Interrupt(id, w) PROVE UndefinedExplained'
  <2>1. CASE pc = "grow" \/ cb_map[id].st = "freed"
    <3>1. /\ fault' = "use_after_free" /\ Interrupts /\ pc' = pc
          /\ QuietSources => cb_map[id].st \in {"null", "live"}
      BY <1>3, <2>1 DEF Interrupt, mainVars
    <3>2. cb_map[id].st = "freed" => pc = "free"
      BY DEF PlaceInv
    <3>3. pc = "grow" \/ (pc = "free" /\ ~QuietSources)
      BY <2>1, <3>1, <3>2
    <3> QED
      BY <3>1, <3>3 DEF UndefinedExplained
  <2>2. CASE ~(pc = "grow" \/ cb_map[id].st = "freed")
    BY <1>2, <1>3, <2>2 DEF Interrupt, Running
  <2> QED
    BY <2>1, <2>2
<1>4. CASE AddGrowFails
  <2>1. fault' = "out_of_bounds" /\ MapAllocFails /\ leaked'
    BY <1>4 DEF AddGrowFails
  <2> QED
    BY <2>1 DEF UndefinedExplained
<1>5. CASE ServiceSkip
  <2>1. /\ Running /\ ring # <<>> /\ Get /\ Head(ring).kind = "sig"
        /\ tainted' = tainted /\ epoch' = epoch
        /\ (fault' = "stale_value" /\ Head(ring).reg <= epoch) \/ fault' = fault
    BY <1>5 DEF ServiceSkip, Servicing
  <2>2. CASE fault' = fault
    BY <1>2, <2>1, <2>2 DEF Running
  <2>3. CASE fault' = "stale_value" /\ Head(ring).reg <= epoch
    <3>1. 1 \in DOMAIN ring /\ ring[1] = Head(ring)
      BY <2>1, GetItems
    <3>2. Head(ring).reg \in Nat /\ epoch \in Nat /\ Head(ring).reg > 0
      <4>1. Head(ring).reg \in Nat /\ epoch \in Nat
        BY <2>1, GetType DEF TypeOK, Items
      <4>2. Head(ring).reg > 0
        BY <2>1, <3>1 DEF JsInv, JsOf, TypeOK
      <4> QED
        BY <4>1, <4>2
    <3>3. tainted
      BY <2>3, <3>1, <3>2, <2>1 DEF EpochInv
    <3> QED
      BY <2>1, <2>3, <3>2, <3>3 DEF UndefinedExplained
  <2> QED
    BY <2>1, <2>2, <2>3
<1>6. CASE ServiceMissing
  <2>1. /\ Running /\ ring # <<>> /\ Get /\ Head(ring).kind = "sig"
        /\ cb_map[Head(ring).id].st = "null" /\ tainted' = tainted
        /\ fault' = "null_callback" \/ fault' = fault
    BY <1>6 DEF ServiceMissing, Servicing
  <2>2. 1 \in DOMAIN ring /\ ring[1] = Head(ring)
    BY <2>1, GetItems
  <2>3. tainted
    <3>1. ~tainted => cb_map[Head(ring).id].st \in {"live", "removed"}
      BY <2>1, <2>2 DEF IInv, Clean, SignalInv
    <3> QED
      BY <2>1, <3>1
  <2> QED
    BY <1>2, <2>1, <2>3 DEF UndefinedExplained, Running
<1>7. CASE Calls
  BY <1>2, <1>4, <1>7 DEF Calls, Add, RemoveCallback, MainSignal, RemoveAll, InJs, Running
<1>8. CASE Main
  BY <1>2, <1>5, <1>6, <1>8 DEF Main, AddGrown, QueueFlush, QueueFlushFails, ClearSlot,
     RemoveNext, InitCallbacks, StartService, EndService, ServiceFlushOne, ServiceFlushAll,
     FreeNext, ServiceCall, Servicing, Return, Post, Release, Running
<1>9. CASE Others
  BY <1>2, <1>3, <1>9 DEF Others, ThreadSignal, Running
<1> QED
  BY <1>1, <1>7, <1>8, <1>9 DEF Next

\* An interrupt handler meets freed memory only while main replaces the map, or frees a
\* callback that its source still signals; nothing else reads freed memory.  A signal
\* finds its callback, and its values their engine, unless a flush command was refused or
\* stopJS used.  Nothing is assumed of interrupts, memory or scripts.
THEOREM NothingElseUndefined == Spec => []UndefinedExplained
<1>1. Init => JsInv /\ UndefinedExplained
  BY DEF Init, JsInv, UndefinedExplained
<1>2. TypeOK /\ IInv /\ More /\ JsInv /\ [Next]_vars => JsInv'
  BY JsStep DEF IInv, More
<1>3. TypeOK /\ IInv /\ More /\ JsInv /\ UndefinedExplained /\ [Next]_vars => UndefinedExplained'
  BY UndefinedStep DEF More, IInv
<1> QED
  BY <1>1, <1>2, <1>3, TypeCorrect, Invariant, MoreAlways, PTL DEF Spec
=============================================================================
