---------------------------- MODULE TimersProofs ----------------------------
(***************************************************************************)
(* Theorems about modules Timers and MainLoop, for every value of their     *)
(* constants.                                                              *)
(***************************************************************************)
EXTENDS Timers, MainLoop, SequenceTheorems, TLAPS

USE DEF mainVars, history, vars, Linux, Careful, AllocFails, SlowIntervals, Stops, RingItems,
        Made, InJs, AtTimer

\* Only the Linux build visits its timers, and only there, and of timeouts, is
\* "completed" set.
LinuxOnly ==
  /\ pc = "process" => Linux /\ calling = 0
  /\ \A n \in Made : timer[n].completed => Linux /\ ~timer[n].repeat

\* The callback of an interval is registered only as long as the timer is in the list,
\* and never after it was cleared.
IntervalsInList ==
  \A n \in registered : timer[n].repeat => n \in list /\ n \notin cleared

\* What Careful scripts keep: an interval that the script can still clear has not been
\* deleted, a timeout that is being called is registered, the Zephyr build has no callback
\* without its timer, and the Linux build none of a completed timer whose signal is gone.
CarefulScripts == Careful =>
  /\ \A n \in handles : timer[n].repeat /\ n \notin cleared => n \in list
  /\ calling # 0 /\ ~timer[calling].repeat => calling \in registered
  /\ ~Linux => registered \subseteq list
  /\ pc # "crashed" => \A n \in registered :
       \/ n \in list /\ ~timer[n].completed
       \/ n \in ToSet(ring) \/ calling = n \/ n \in lost

\* The inductive invariant.
IInv == TypeOK /\ ArmedIsListed /\ LinuxOnly /\ IntervalsInList /\ CarefulScripts

-----------------------------------------------------------------------------
(***************************************************************************)
(* What the operators of the model do.                                     *)
(***************************************************************************)
LEMMA ToSetOfAppend ==
  ASSUME NEW S, NEW s \in Seq(S), NEW e \in S
  PROVE  ToSet(Append(s, e)) = ToSet(s) \cup {e}
<1>1. Len(Append(s, e)) = Len(s) + 1 /\ Append(s, e) \in Seq(S)
  OBVIOUS
<1>2. \A i \in 1 .. Len(s) : Append(s, e)[i] = s[i]
  OBVIOUS
<1>3. Append(s, e)[Len(s) + 1] = e
  OBVIOUS
<1>4. DOMAIN Append(s, e) = 1 .. Len(s) + 1 /\ DOMAIN s = 1 .. Len(s) /\ Len(s) \in Nat
  BY <1>1
<1> DEFINE longer == Append(s, e)
<1> HIDE DEF longer
<1>5. ASSUME NEW x \in ToSet(longer) PROVE x \in ToSet(s) \cup {e}
  <2>1. PICK i \in 1 .. Len(s) + 1 : x = longer[i]
    BY <1>4, <1>5 DEF ToSet, longer
  <2>2. i \in 1 .. Len(s) \/ i = Len(s) + 1
    BY <1>4
  <2> QED
    BY <1>2, <1>3, <1>4, <2>1, <2>2 DEF ToSet, longer
<1>6. ASSUME NEW x \in ToSet(s) \cup {e} PROVE x \in ToSet(longer)
  <2>1. CASE x = e
    BY <1>3, <1>4, <2>1 DEF ToSet, longer
  <2>2. CASE x \in ToSet(s)
    <3>1. PICK i \in 1 .. Len(s) : x = s[i]
      BY <1>4, <2>2 DEF ToSet
    <3>2. i \in 1 .. Len(s) + 1
      BY <1>4
    <3> QED
      BY <1>2, <1>4, <3>1, <3>2 DEF ToSet, longer
  <2> QED
    BY <1>6, <2>1, <2>2
<1> QED
  BY <1>5, <1>6 DEF longer

LEMMA ToSetOfTail ==
  ASSUME NEW S, NEW s \in Seq(S), s # <<>>
  PROVE  /\ Head(s) \in S /\ Tail(s) \in Seq(S) /\ Len(Tail(s)) < Len(s)
         /\ ToSet(s) \subseteq ToSet(Tail(s)) \cup {Head(s)}
<1>1. /\ Len(s) \in Nat \ {0} /\ DOMAIN s = 1 .. Len(s)
      /\ Len(Tail(s)) = Len(s) - 1 /\ Tail(s) \in Seq(S) /\ Head(s) = s[1] /\ Head(s) \in S
      /\ DOMAIN Tail(s) = 1 .. Len(s) - 1
  OBVIOUS
<1>2. \A i \in 1 .. Len(s) - 1 : Tail(s)[i] = s[i + 1]
  OBVIOUS
<1>3. ASSUME NEW i \in 1 .. Len(s) PROVE s[i] \in ToSet(Tail(s)) \cup {Head(s)}
  <2>1. CASE i = 1
    BY <1>1, <2>1
  <2>2. CASE i # 1
    <3>1. i - 1 \in 1 .. Len(s) - 1 /\ i - 1 + 1 = i
      BY <1>1, <2>2
    <3>2. Tail(s)[i - 1] = s[i]
      BY <1>2, <3>1
    <3> QED
      BY <1>1, <3>1, <3>2 DEF ToSet
  <2> QED
    BY <2>1, <2>2
<1>4. ToSet(s) \subseteq ToSet(Tail(s)) \cup {Head(s)}
  BY <1>1, <1>3, Zenon DEF ToSet
<1> QED
  BY <1>1, <1>4

LEMMA FirstOfType ==
  ASSUME NEW some PROVE FirstOf(some) \subseteq some \cup {0}
BY DEF FirstOf

\* What putting a signal into the ring does to the ring and to the signals lost.
LEMMA SignalType ==
  ASSUME TypeOK, NEW n \in Made, Signal(n)
  PROVE  /\ ring' \in Seq(Made) /\ Len(ring') <= RingItems
         /\ lost' \subseteq Made
         /\ ToSet(ring) \subseteq ToSet(ring') /\ lost \subseteq lost'
         /\ Careful /\ n \in registered => n \in ToSet(ring') \cup lost'
<1>1. ring \in Seq(Made) /\ Len(ring) <= RingItems /\ lost \subseteq Made
  BY DEF TypeOK
<1>2. RingItems \in Nat
  BY TimersAssumption DEF TypeOK
<1>3. Len(ring) \in Nat
  BY <1>1
<1>4. CASE n \in registered /\ Len(ring) < RingItems
  <2>1. ring' = Append(ring, n) /\ lost' = lost
    BY <1>2, <1>3, <1>4 DEF Signal
  <2>2. Len(ring') = Len(ring) + 1 /\ ring' \in Seq(Made)
    BY <1>1, <2>1
  <2>3. ToSet(ring') = ToSet(ring) \cup {n}
    BY <1>1, <2>1, ToSetOfAppend
  <2>4. Len(ring') <= RingItems
    BY <1>2, <1>3, <1>4, <2>2
  <2> QED
    BY <1>1, <2>1, <2>2, <2>3, <2>4
<1>5. CASE ~(n \in registered /\ Len(ring) < RingItems)
  <2>1. ring' = ring /\ lost \subseteq lost' /\ lost' \subseteq lost \cup {n}
    BY <1>5 DEF Signal
  <2>2. n \in registered => Len(ring) >= RingItems
    BY <1>2, <1>3, <1>5
  <2>3. Careful /\ n \in registered => n \in lost'
    BY <1>5, <2>2 DEF Signal
  <2> QED
    BY <1>1, <2>1, <2>3
<1> QED
  BY <1>4, <1>5

-----------------------------------------------------------------------------
(***************************************************************************)
(* Each action preserves the invariant.                                    *)
(***************************************************************************)
LEMMA InvSetTimer ==
  ASSUME IInv, NEW repeat \in BOOLEAN, SetTimer(repeat)
  PROVE  IInv'
<1> DEFINE n == Len(timer) + 1
<1>1. /\ timer \in Seq(TimerRecord) /\ Made = 1 .. Len(timer) /\ Len(timer) \in Nat
      /\ env.timers \in Nat
  BY TimersAssumption DEF IInv, TypeOK
<1>2. PICK address \in Addresses :
        /\ Occupants(address) = {}
        /\ timer' = Append(timer, [at |-> address, repeat |-> repeat, completed |-> FALSE])
  BY DEF SetTimer
<1> DEFINE record == [at |-> address, repeat |-> repeat, completed |-> FALSE]
<1>3. /\ record \in TimerRecord /\ record.at = address /\ record.repeat = repeat
      /\ record.completed = FALSE
  BY DEF TimerRecord
<1> HIDE DEF record
<1>4. /\ timer' \in Seq(TimerRecord) /\ Len(timer') = n /\ DOMAIN timer' = 1 .. n
      /\ timer'[n] = record /\ \A m \in 1 .. Len(timer) : timer'[m] = timer[m]
  BY <1>1, <1>2, <1>3 DEF record
<1>5. n \notin Made /\ Made' = Made \cup {n} /\ n \in Nat \ {0} /\ Made \subseteq Made'
  BY <1>1, <1>4
<1> HIDE DEF n
<1>6. /\ list' = list \cup {n} /\ armed' \subseteq armed \cup {n}
      /\ registered' \subseteq registered \cup {n} /\ registered \subseteq registered'
      /\ handles' \subseteq handles \cup {n}
      /\ env' = env /\ ring' = ring /\ pc' = pc /\ calling' = calling /\ count' = count
      /\ cursor' = cursor /\ cleared' = cleared /\ called' = called /\ lost' = lost
      /\ Len(timer) < env.timers /\ (pc = "script" \/ calling # 0)
  BY DEF SetTimer, n
<1>7. TypeOK'
  <2>1. \A m \in list : timer[m].at # address
    BY <1>2 DEF Occupants
  <2>2. \A m \in list : timer'[m] = timer[m]
    BY <1>1, <1>4 DEF IInv, TypeOK
  <2>3. timer'[n].at = address
    BY <1>3, <1>4
  <2>4. \A m, l \in list' : timer'[m].at = timer'[l].at => m = l
    BY <1>6, <2>1, <2>2, <2>3 DEF IInv, TypeOK
  <2>5. Len(timer') <= env'.timers
    BY <1>1, <1>4, <1>6 DEF n
  <2>6. ring' \in Seq(Made')
    BY <1>5, <1>6 DEF IInv, TypeOK
  <2> QED
    BY <1>4, <1>5, <1>6, <2>4, <2>5, <2>6 DEF IInv, TypeOK
<1>8. ArmedIsListed'
  BY <1>6 DEF IInv, ArmedIsListed
<1>9. LinuxOnly'
  BY <1>1, <1>3, <1>4, <1>5, <1>6 DEF IInv, LinuxOnly
<1>10. IntervalsInList'
  BY <1>1, <1>4, <1>5, <1>6 DEF IInv, IntervalsInList, TypeOK
<1>11. CarefulScripts'
  BY <1>1, <1>3, <1>4, <1>5, <1>6 DEF IInv, CarefulScripts, TypeOK
<1> QED
  BY <1>7, <1>8, <1>9, <1>10, <1>11 DEF IInv

LEMMA InvClear ==
  ASSUME IInv, NEW n \in Serials, Clear(n)
  PROVE  IInv'
<1> DEFINE gone == Occupants(timer[n].at)
<1>1. /\ list' = list \ gone /\ armed' = armed \ gone /\ registered' \subseteq registered
      /\ \A m \in registered : m \in registered' \/ m \in gone
      /\ \A m \in gone : timer[m].repeat => m \notin registered'
      /\ \A m \in gone : ~Linux /\ ~timer[m].repeat => (m \in registered' <=> m \in registered)
      /\ n \in handles /\ cleared' = cleared \cup {n}
      /\ env' = env /\ timer' = timer /\ handles' = handles /\ ring' = ring /\ pc' = pc
      /\ calling' = calling /\ count' = count /\ cursor' = cursor /\ called' = called
      /\ lost' = lost /\ (Careful => timer[n].repeat /\ n \notin cleared)
      /\ (pc = "script" \/ calling # 0)
  BY DEF Clear, Delete
<1>2. gone \subseteq list /\ (n \in list => n \in gone)
  BY DEF Occupants
<1>3. \A m \in list : n \in list /\ m \in gone => m = n
  BY DEF Occupants, IInv, TypeOK
<1>4. Careful => n \in list /\ gone = {n}
  BY <1>1, <1>2, <1>3 DEF IInv, CarefulScripts
<1> HIDE DEF gone
<1>5. TypeOK'
  BY <1>1 DEF IInv, TypeOK
<1>6. ArmedIsListed'
  BY <1>1 DEF IInv, ArmedIsListed
<1>7. LinuxOnly'
  BY <1>1 DEF IInv, LinuxOnly
<1>8. IntervalsInList'
  BY <1>1, <1>2 DEF IInv, IntervalsInList
<1>9. CarefulScripts'
  <2> SUFFICES ASSUME Careful PROVE CarefulScripts'
    BY <1>1 DEF CarefulScripts
  <2>1. \A m \in handles' : timer'[m].repeat /\ m \notin cleared' => m \in list'
    BY <1>1, <1>4 DEF IInv, CarefulScripts
  <2>2. calling' # 0 /\ ~timer'[calling'].repeat => calling' \in registered'
    BY <1>1, <1>4 DEF IInv, CarefulScripts
  <2>3. n \notin registered'
    BY <1>1, <1>4
  <2> QED
    BY <1>1, <1>4, <2>1, <2>2, <2>3 DEF IInv, CarefulScripts
<1> QED
  BY <1>5, <1>6, <1>7, <1>8, <1>9 DEF IInv

LEMMA InvExpire ==
  ASSUME IInv, NEW n \in Serials, Expire(n)
  PROVE  IInv'
<1>1. /\ n \in armed /\ Signal(n) /\ armed' \subseteq armed
      /\ env' = env /\ timer' = timer /\ list' = list /\ registered' = registered
      /\ handles' = handles /\ pc' = pc /\ calling' = calling /\ count' = count
      /\ cursor' = cursor /\ cleared' = cleared /\ called' = called
  BY DEF Expire
<1>2. TypeOK /\ n \in Made
  BY <1>1 DEF IInv, TypeOK
<1>3. /\ ring' \in Seq(Made) /\ Len(ring') <= RingItems /\ lost' \subseteq Made
      /\ ToSet(ring) \subseteq ToSet(ring') /\ lost \subseteq lost'
  BY <1>1, <1>2, SignalType
<1>4. TypeOK'
  BY <1>1, <1>2, <1>3 DEF TypeOK
<1>5. ArmedIsListed' /\ LinuxOnly' /\ IntervalsInList'
  BY <1>1 DEF IInv, ArmedIsListed, LinuxOnly, IntervalsInList
<1>6. CarefulScripts'
  BY <1>1, <1>3 DEF IInv, CarefulScripts
<1> QED
  BY <1>4, <1>5, <1>6 DEF IInv

LEMMA InvTakeSignal ==
  ASSUME IInv, Call \/ Skip
  PROVE  IInv'
<1> DEFINE first == Head(ring)
<1>1. /\ ring \in Seq(Made) /\ ring # <<>> /\ count \in 0 .. MaxIteration /\ Len(ring) <= RingItems
      /\ Len(ring) \in Nat /\ RingItems \in Nat
  BY TimersAssumption DEF IInv, TypeOK, Call, Skip, TakeSignal
<1>2. first \in Made
  BY <1>1
<1>3. /\ Tail(ring) \in Seq(Made) /\ Len(Tail(ring)) < Len(ring)
      /\ ToSet(ring) \subseteq ToSet(Tail(ring)) \cup {first}
  BY <1>1, ToSetOfTail
<1>4. Len(Tail(ring)) <= RingItems
  <2>1. Len(Tail(ring)) \in Nat
    BY <1>3
  <2> QED
    BY <1>1, <1>3, <2>1
<1>5. /\ ring' = Tail(ring) /\ count' = count + 1 /\ count < MaxIteration
      /\ pc \in {"service1", "service2"} /\ calling = 0
      /\ env' = env /\ timer' = timer /\ list' = list /\ armed' = armed
      /\ registered' = registered /\ handles' = handles /\ pc' = pc /\ cursor' = cursor
      /\ cleared' = cleared /\ lost' = lost
  BY DEF Call, Skip, TakeSignal, InService
<1>6. \/ first \in registered /\ calling' = first /\ called' = called \cup {first}
      \/ first \notin registered /\ calling' = calling /\ called' = called
  BY Zenon DEF Call, Skip
<1> HIDE DEF first
<1>7. count' \in 0 .. MaxIteration
  BY <1>1, <1>5, TimersAssumption
<1>8. TypeOK'
  BY <1>2, <1>3, <1>4, <1>5, <1>6, <1>7 DEF IInv, TypeOK
<1>9. ArmedIsListed' /\ LinuxOnly' /\ IntervalsInList'
  BY <1>5, <1>6 DEF IInv, ArmedIsListed, LinuxOnly, IntervalsInList
<1>10. CarefulScripts'
  <2> SUFFICES ASSUME Careful PROVE CarefulScripts'
    BY <1>5 DEF CarefulScripts
  <2>1. \A n \in handles' : timer'[n].repeat /\ n \notin cleared' => n \in list'
    BY <1>5 DEF IInv, CarefulScripts
  <2>2. calling' # 0 /\ ~timer'[calling'].repeat => calling' \in registered'
    BY <1>5, <1>6
  <2>3. ~Linux => registered' \subseteq list'
    BY <1>5 DEF IInv, CarefulScripts
  <2>4. ASSUME NEW n \in registered'
        PROVE  \/ n \in list' /\ ~timer'[n].completed
               \/ n \in ToSet(ring') \/ calling' = n \/ n \in lost'
    <3>1. (n \in list /\ ~timer[n].completed) \/ n \in ToSet(ring) \/ n \in lost
      BY <1>2, <1>5, <2>4 DEF IInv, CarefulScripts, TypeOK
    <3>2. n \in ToSet(ring) => n \in ToSet(ring') \/ n = first
      BY <1>3, <1>5
    <3> QED
      BY <1>5, <1>6, <2>4, <3>1, <3>2
  <2> QED
    BY <1>5, <2>1, <2>2, <2>3, <2>4 DEF CarefulScripts
<1> QED
  BY <1>8, <1>9, <1>10 DEF IInv

LEMMA InvReturnInterval ==
  ASSUME IInv, ReturnInterval
  PROVE  IInv'
<1>1. /\ calling # 0 /\ timer[calling].repeat /\ calling' = 0 /\ pc' = pc
      /\ env' = env /\ timer' = timer /\ list' = list /\ armed' = armed /\ ring' = ring
      /\ registered' = registered /\ handles' = handles /\ count' = count /\ cursor' = cursor
      /\ cleared' = cleared /\ called' = called /\ lost' = lost
  BY DEF ReturnInterval
<1>2. TypeOK'
  BY <1>1 DEF IInv, TypeOK
<1>3. ArmedIsListed' /\ LinuxOnly' /\ IntervalsInList'
  BY <1>1 DEF IInv, ArmedIsListed, LinuxOnly, IntervalsInList
<1>4. calling \in registered => calling \in list /\ ~timer[calling].completed
  BY <1>1 DEF IInv, IntervalsInList, LinuxOnly, TypeOK
<1>5. CarefulScripts'
  BY <1>1, <1>4 DEF IInv, CarefulScripts
<1> QED
  BY <1>2, <1>3, <1>5 DEF IInv

\* In the Zephyr build a careful script's timeout is still in the list when its
\* function returns, so that it is the one deleted.
LEMMA ReturnDeletesItself ==
  ASSUME IInv, ReturnTimeout
  PROVE  Careful /\ ~Linux => list \ list' = {calling}
<1> SUFFICES ASSUME Careful, ~Linux PROVE list \ list' = {calling}
  OBVIOUS
<1>1. calling # 0 /\ ~timer[calling].repeat
  BY DEF ReturnTimeout
<1>2. calling \in list
  BY <1>1 DEF IInv, CarefulScripts
<1>3. Occupants(timer[calling].at) = {calling}
  BY <1>2 DEF Occupants, IInv, TypeOK
<1>4. list' = list \ {m \in Occupants(timer[calling].at) : ~Linux /\ ~timer[m].repeat}
  BY DEF ReturnTimeout
<1> QED
  BY <1>1, <1>2, <1>3, <1>4

LEMMA InvReturnTimeout ==
  ASSUME IInv, ReturnTimeout
  PROVE  IInv'
<1> DEFINE gone == {m \in Occupants(timer[calling].at) : ~Linux /\ ~timer[m].repeat}
<1>1. /\ calling # 0 /\ ~timer[calling].repeat /\ calling' = 0 /\ pc' = pc
      /\ list' = list \ gone /\ armed' = armed \ gone /\ registered' = registered \ {calling}
      /\ env' = env /\ timer' = timer /\ ring' = ring /\ handles' = handles
      /\ count' = count /\ cursor' = cursor
      /\ cleared' = cleared /\ called' = called /\ lost' = lost
  BY DEF ReturnTimeout
<1>2. \A m \in gone : ~Linux /\ ~timer[m].repeat
  OBVIOUS
<1>3. Careful => gone \subseteq {calling}
  <2>1. gone \subseteq list
    BY DEF Occupants
  <2>2. gone \subseteq list \ list'
    BY <1>1, <2>1
  <2> QED
    BY <1>2, <2>2, ReturnDeletesItself
<1> HIDE DEF gone
<1>4. TypeOK'
  BY <1>1 DEF IInv, TypeOK
<1>5. ArmedIsListed' /\ LinuxOnly'
  BY <1>1 DEF IInv, ArmedIsListed, LinuxOnly
<1>6. IntervalsInList'
  BY <1>1, <1>2 DEF IInv, IntervalsInList
<1>7. CarefulScripts'
  BY <1>1, <1>2, <1>3 DEF IInv, CarefulScripts
<1> QED
  BY <1>4, <1>5, <1>6, <1>7 DEF IInv

LEMMA InvProcessCompleted ==
  ASSUME IInv, ProcessCompleted
  PROVE  IInv'
<1>1. timer[cursor].completed /\ pc = "process" /\ cursor # 0
  BY DEF ProcessCompleted
<1>2. Linux /\ ~timer[cursor].repeat /\ calling = 0
  BY <1>1 DEF IInv, LinuxOnly, TypeOK
<1>3. /\ list' = list \ {cursor} /\ armed' = armed \ {cursor} /\ registered' = registered
      /\ env' = env /\ timer' = timer /\ handles' = handles /\ ring' = ring
      /\ calling' = calling /\ pc' = pc /\ count' = count
      /\ cleared' = cleared /\ called' = called /\ lost' = lost
  BY <1>1, <1>2 DEF ProcessCompleted, Delete
<1>4. cursor' \in list \cup {0}
  BY FirstOfType DEF ProcessCompleted, Advance
<1>5. TypeOK'
  BY <1>3, <1>4 DEF IInv, TypeOK
<1>6. ArmedIsListed' /\ LinuxOnly'
  BY <1>3 DEF IInv, ArmedIsListed, LinuxOnly
<1>7. IntervalsInList'
  BY <1>2, <1>3 DEF IInv, IntervalsInList
<1>8. CarefulScripts'
  BY <1>1, <1>2, <1>3 DEF IInv, CarefulScripts
<1> QED
  BY <1>5, <1>6, <1>7, <1>8 DEF IInv

LEMMA InvProcessExpired ==
  ASSUME IInv, NEW n \in Serials, ProcessExpired(n)
  PROVE  IInv'
<1>1. /\ n = cursor /\ pc = "process" /\ cursor # 0 /\ ~timer[n].completed /\ Signal(n)
      /\ timer' = [timer EXCEPT ![n].completed = ~timer[n].repeat]
      /\ env' = env /\ list' = list /\ armed' = armed /\ registered' = registered
      /\ handles' = handles /\ calling' = calling /\ pc' = pc /\ count' = count
      /\ cleared' = cleared /\ called' = called
  BY DEF ProcessExpired
<1>2. TypeOK /\ n \in Made /\ Linux /\ calling = 0
  BY <1>1 DEF IInv, TypeOK, LinuxOnly
<1>3. /\ ring' \in Seq(Made) /\ Len(ring') <= RingItems /\ lost' \subseteq Made
      /\ ToSet(ring) \subseteq ToSet(ring') /\ lost \subseteq lost'
      /\ Careful /\ n \in registered => n \in ToSet(ring') \cup lost'
  BY <1>1, <1>2, SignalType
<1>4. cursor' \in list \cup {0}
  BY FirstOfType DEF ProcessExpired, Advance
<1>5. timer \in Seq(TimerRecord) /\ timer \in [Made -> TimerRecord] /\ Made = 1 .. Len(timer)
  BY <1>2 DEF TypeOK
<1> DEFINE old == timer[n]
           new == [old EXCEPT !.completed = ~old.repeat]
<1>6. old \in TimerRecord
  BY <1>2, <1>5
<1> HIDE DEF old
<1>7. /\ new \in TimerRecord /\ new.at = old.at /\ new.repeat = old.repeat
      /\ new.completed = ~old.repeat
  BY <1>6 DEF TimerRecord
<1>8. timer' = [timer EXCEPT ![n] = new]
  BY <1>1 DEF old
<1> HIDE DEF new
<1>9. /\ timer' \in [Made -> TimerRecord] /\ Made' = Made /\ timer'[n] = new
      /\ \A m \in Made : m # n => timer'[m] = timer[m]
  BY <1>2, <1>5, <1>7, <1>8
<1>10. timer' \in Seq(TimerRecord) /\ Len(timer') = Len(timer)
  BY <1>5, <1>9
<1>11. \A m \in Made : timer'[m].at = timer[m].at /\ timer'[m].repeat = timer[m].repeat
  BY <1>7, <1>9 DEF old
<1>12. \A m \in Made : m # n => (timer'[m].completed <=> timer[m].completed)
  BY <1>9
<1>13. timer'[n].completed => ~timer[n].repeat
  BY <1>7, <1>9 DEF old
<1>14. TypeOK'
  BY <1>1, <1>2, <1>3, <1>4, <1>9, <1>10, <1>11 DEF TypeOK
<1>15. ArmedIsListed'
  BY <1>1 DEF IInv, ArmedIsListed
<1>16. LinuxOnly'
  BY <1>1, <1>2, <1>9, <1>11, <1>12, <1>13 DEF IInv, LinuxOnly
<1>17. IntervalsInList'
  BY <1>1, <1>2, <1>11 DEF IInv, IntervalsInList, TypeOK
<1>18. CarefulScripts'
  BY <1>1, <1>2, <1>3, <1>11, <1>12 DEF IInv, CarefulScripts, TypeOK
<1> QED
  BY <1>14, <1>15, <1>16, <1>17, <1>18 DEF IInv

\* The steps of main that only move it on, the crash, and the stop of a script.
LEMMA InvOther ==
  ASSUME IInv,
         EndScript \/ EndService \/ ProcessWaiting \/ EndProcess \/ SetTimerFails \/ Cleanup
  PROVE  IInv'
<1>1. CASE EndScript \/ EndService \/ ProcessWaiting \/ EndProcess
  <2>1. /\ env' = env /\ timer' = timer /\ list' = list /\ armed' = armed
        /\ registered' = registered /\ handles' = handles /\ ring' = ring
        /\ calling' = calling /\ cleared' = cleared /\ called' = called /\ lost' = lost
    BY <1>1 DEF EndScript, EndService, ProcessWaiting, EndProcess
  <2>2. /\ cursor' \in list \cup {0} \cup {cursor}
        /\ pc' \in {"script", "service1", "process", "service2", "crashed"}
        /\ pc' = "process" => Linux /\ calling = 0
    <3>1. CASE EndScript
      BY <3>1 DEF EndScript
    <3>2. CASE EndService
      BY <3>2, FirstOfType DEF EndService, InService
    <3>3. CASE ProcessWaiting
      BY <3>3, FirstOfType DEF ProcessWaiting, Advance, IInv, LinuxOnly
    <3>4. CASE EndProcess
      BY <3>4 DEF EndProcess
    <3> QED
      BY <1>1, <3>1, <3>2, <3>3, <3>4
  <2>3. count' \in {count, 0} /\ 0 \in 0 .. MaxIteration
    BY <1>1, TimersAssumption DEF EndScript, EndService, ProcessWaiting, EndProcess
  <2>4. TypeOK'
    BY <2>1, <2>2, <2>3 DEF IInv, TypeOK
  <2>5. ArmedIsListed' /\ LinuxOnly' /\ IntervalsInList'
    BY <2>1, <2>2 DEF IInv, ArmedIsListed, LinuxOnly, IntervalsInList
  <2>6. CarefulScripts'
    <3> SUFFICES ASSUME Careful PROVE CarefulScripts'
      BY <2>1 DEF CarefulScripts
    <3>1. \A n \in handles' : timer'[n].repeat /\ n \notin cleared' => n \in list'
      BY <2>1 DEF IInv, CarefulScripts
    <3>2. calling' # 0 /\ ~timer'[calling'].repeat => calling' \in registered'
      BY <2>1 DEF IInv, CarefulScripts
    <3>3. ~Linux => registered' \subseteq list'
      BY <2>1 DEF IInv, CarefulScripts
    <3>4. pc' # "crashed" => \A n \in registered' :
            \/ n \in list' /\ ~timer'[n].completed
            \/ n \in ToSet(ring') \/ calling' = n \/ n \in lost'
      <4>1. pc' # "crashed" => pc # "crashed"
        <5>1. CASE EndScript \/ EndService
          BY <5>1 DEF EndScript, EndService, InService
        <5>2. CASE ProcessWaiting \/ EndProcess
          BY <5>2 DEF ProcessWaiting, EndProcess
        <5> QED
          BY <1>1, <5>1, <5>2
      <4> QED
        BY <2>1, <4>1 DEF IInv, CarefulScripts
    <3> QED
      BY <2>1, <3>1, <3>2, <3>3, <3>4 DEF CarefulScripts
  <2> QED
    BY <2>4, <2>5, <2>6 DEF IInv
<1>2. CASE SetTimerFails
  <2>1. /\ pc' = "crashed" /\ calling' = 0 /\ armed' = {}
        /\ env' = env /\ timer' = timer /\ list' = list
        /\ registered' = registered /\ handles' = handles /\ ring' = ring
        /\ count' = count /\ cursor' = cursor
        /\ cleared' = cleared /\ called' = called /\ lost' = lost
    BY <1>2 DEF SetTimerFails
  <2>2. TypeOK'
    BY <2>1 DEF IInv, TypeOK
  <2>3. ArmedIsListed' /\ LinuxOnly' /\ IntervalsInList' /\ CarefulScripts'
    BY <2>1 DEF IInv, ArmedIsListed, LinuxOnly, IntervalsInList, CarefulScripts
  <2> QED
    BY <2>2, <2>3 DEF IInv
<1>3. CASE Cleanup
  <2>1. /\ calling = 0 /\ list' = {} /\ armed' = armed \ list /\ registered' = {}
        /\ handles' = {} /\ pc' = "script"
        /\ env' = env /\ timer' = timer /\ calling' = calling
        /\ count' = count /\ cursor' = cursor
        /\ cleared' = cleared /\ called' = called /\ lost' = lost
    BY <1>3 DEF Cleanup, InService
  <2>2. ring' \in Seq(Made) /\ Len(ring') <= RingItems
    <3>1. ring \in Seq(Made) /\ Len(ring) <= RingItems /\ RingItems \in Nat
      BY TimersAssumption DEF IInv, TypeOK
    <3>2. ring' = ring \/ ring' = <<>>
      BY <1>3 DEF Cleanup
    <3>3. <<>> \in Seq(Made) /\ Len(<<>>) = 0 /\ 0 <= RingItems
      BY <3>1
    <3>4. CASE ring' = ring
      BY <3>1, <3>4
    <3>5. CASE ring' = <<>>
      BY <3>3, <3>5
    <3> QED
      BY <3>2, <3>4, <3>5
  <2>3. armed' = {}
    BY <2>1 DEF IInv, ArmedIsListed
  <2>4. TypeOK'
    BY <2>1, <2>2, <2>3 DEF IInv, TypeOK
  <2>5. ArmedIsListed' /\ LinuxOnly' /\ IntervalsInList' /\ CarefulScripts'
    BY <2>1, <2>3 DEF IInv, ArmedIsListed, LinuxOnly, IntervalsInList, CarefulScripts
  <2> QED
    BY <2>4, <2>5 DEF IInv
<1> QED
  BY <1>1, <1>2, <1>3

LEMMA InvUnchanged ==
  ASSUME IInv, UNCHANGED vars
  PROVE  IInv'
<1>1. TypeOK'
  BY DEF IInv, TypeOK
<1>2. ArmedIsListed' /\ LinuxOnly' /\ IntervalsInList' /\ CarefulScripts'
  BY DEF IInv, ArmedIsListed, LinuxOnly, IntervalsInList, CarefulScripts
<1> QED
  BY <1>1, <1>2 DEF IInv

LEMMA InvInit == Init => IInv
<1> SUFFICES ASSUME Init PROVE IInv
  OBVIOUS
<1>1. <<>> \in Seq(TimerRecord) /\ <<>> \in Seq({}) /\ Len(<<>>) = 0 /\ DOMAIN <<>> = {}
  OBVIOUS
<1>2. env.timers \in Nat /\ RingItems \in Nat /\ 0 \in 0 .. MaxIteration
  BY TimersAssumption DEF Init
<1>3. TypeOK
  BY <1>1, <1>2 DEF Init, TypeOK
<1>4. ArmedIsListed /\ LinuxOnly /\ IntervalsInList /\ CarefulScripts
  BY <1>1 DEF Init, ArmedIsListed, LinuxOnly, IntervalsInList, CarefulScripts
<1> QED
  BY <1>3, <1>4 DEF IInv

LEMMA InvStep == IInv /\ [Next]_vars => IInv'
<1> SUFFICES ASSUME IInv, [Next]_vars PROVE IInv'
  OBVIOUS
<1>1. CASE Script
  BY <1>1, InvSetTimer, InvClear, InvOther DEF Script
<1>2. CASE Main
  BY <1>2, InvTakeSignal, InvReturnInterval, InvReturnTimeout, InvProcessCompleted,
     InvProcessExpired, InvOther DEF Main
<1>3. CASE \E n \in Serials : Expire(n)
  BY <1>3, InvExpire
<1>4. CASE Cleanup
  BY <1>4, InvOther
<1>5. CASE Crashed \/ UNCHANGED vars
  BY <1>5, InvUnchanged DEF Crashed
<1> QED
  BY <1>1, <1>2, <1>3, <1>4, <1>5 DEF Next

LEMMA InvAlways == Spec => []IInv
BY InvInit, InvStep, PTL DEF Spec

-----------------------------------------------------------------------------
(***************************************************************************)
(* Callbacks that outlive their timer.                                     *)
(***************************************************************************)
\* In the Zephyr build nothing removes the callback of a timeout while it is called.
Outlived ==
  /\ OutlivedIsExplained
  /\ ~Linux /\ calling # 0 /\ ~timer[calling].repeat => calling \in registered

\* When post_timer deletes another timer than its own, its own has been cleared, or another
\* one that was at its address.
LEMMA OutlivedReturn ==
  ASSUME IInv, Outlived, ReturnTimeout
  PROVE  OutlivedIsExplained'
<1> DEFINE gone == {m \in Occupants(timer[calling].at) : ~Linux /\ ~timer[m].repeat}
<1>1. /\ calling # 0 /\ ~timer[calling].repeat /\ env' = env /\ timer' = timer
      /\ cleared' = cleared /\ list' = list \ gone /\ registered' = registered \ {calling}
  BY DEF ReturnTimeout
<1>2. calling \in Made /\ Linux' = Linux
  BY <1>1 DEF IInv, TypeOK
<1>3. ASSUME NEW n \in gone, n # calling
      PROVE  ~Linux /\ ~timer[n].repeat /\ \E m \in cleared : timer[m].at = timer[n].at
  <2>1. n \in list /\ timer[n].at = timer[calling].at /\ ~Linux /\ ~timer[n].repeat
    BY DEF Occupants
  <2>2. calling \notin list
    BY <1>3, <2>1 DEF IInv, TypeOK
  <2>3. calling \in registered \ list
    BY <1>1, <2>1, <2>2 DEF Outlived
  <2>4. \E m \in cleared : timer[m].at = timer[calling].at
    BY <2>1, <2>3 DEF Outlived, OutlivedIsExplained
  <2> QED
    BY <2>1, <2>4
<1> HIDE DEF gone
<1>4. ASSUME NEW n \in registered' \ list'
      PROVE  /\ ~timer'[n].repeat
             /\ IF Linux' THEN timer'[n].completed
                ELSE \E m \in cleared' : timer'[m].at = timer'[n].at
  <2>1. n \in registered /\ n # calling /\ (n \in list => n \in gone)
    BY <1>1, <1>4
  <2>2. CASE n \in list
    BY <1>1, <1>2, <1>3, <2>1, <2>2
  <2>3. CASE n \notin list
    BY <1>1, <1>2, <2>1, <2>3 DEF Outlived, OutlivedIsExplained
  <2> QED
    BY <2>2, <2>3
<1> QED
  BY <1>4 DEF OutlivedIsExplained

LEMMA OutlivedSet ==
  ASSUME IInv, Outlived, NEW repeat \in BOOLEAN, SetTimer(repeat)
  PROVE  Outlived'
<1>1. timer \in Seq(TimerRecord) /\ Made = 1 .. Len(timer) /\ Len(timer) \in Nat
  BY DEF IInv, TypeOK
<1>2. PICK address \in Addresses :
        timer' = Append(timer, [at |-> address, repeat |-> repeat, completed |-> FALSE])
  BY DEF SetTimer
<1>3. [at |-> address, repeat |-> repeat, completed |-> FALSE] \in TimerRecord
  BY DEF TimerRecord
<1>4. \A m \in Made : timer'[m] = timer[m]
  BY <1>1, <1>2, <1>3, AppendProperties
<1>5. /\ registered' \ list' \subseteq registered \ list /\ registered \subseteq registered'
      /\ env' = env /\ calling' = calling /\ cleared' = cleared
  BY DEF SetTimer
<1>6. /\ registered \subseteq Made /\ cleared \subseteq Made /\ calling \in Made \cup {0}
      /\ Linux' = Linux
  BY <1>5 DEF IInv, TypeOK
<1>7. \A m \in Made : /\ timer'[m].at = timer[m].at /\ timer'[m].repeat = timer[m].repeat
                      /\ timer'[m].completed = timer[m].completed
  BY <1>4
<1>8. ASSUME NEW n \in registered' \ list'
      PROVE  /\ ~timer'[n].repeat
             /\ IF Linux' THEN timer'[n].completed
                ELSE \E m \in cleared' : timer'[m].at = timer'[n].at
  <2>1. n \in registered \ list /\ n \in Made
    BY <1>5, <1>6
  <2> QED
    BY <1>5, <1>6, <1>7, <2>1 DEF Outlived, OutlivedIsExplained
<1>9. ~Linux' /\ calling' # 0 /\ ~timer'[calling'].repeat => calling' \in registered'
  BY <1>5, <1>6, <1>7 DEF Outlived
<1> QED
  BY <1>8, <1>9 DEF Outlived, OutlivedIsExplained

LEMMA OutlivedClear ==
  ASSUME IInv, Outlived, NEW k \in Serials, Clear(k)
  PROVE  Outlived'
<1> DEFINE gone == Occupants(timer[k].at)
<1>1. /\ list' = list \ gone
      /\ registered' = registered \
           {n \in gone : timer[n].repeat \/ (Linux /\ ~timer[n].completed)}
      /\ cleared' = cleared \cup {k} /\ env' = env /\ timer' = timer /\ calling' = calling
  BY DEF Clear, Delete
<1>2. \A n \in gone : timer[n].at = timer[k].at
  BY DEF Occupants
<1> HIDE DEF gone
<1>3. ASSUME NEW n \in registered' \ list'
      PROVE  /\ ~timer'[n].repeat
             /\ IF Linux' THEN timer'[n].completed
                ELSE \E m \in cleared' : timer'[m].at = timer'[n].at
  <2>1. n \in registered /\ (n \in list => n \in gone)
    BY <1>1, <1>3
  <2>2. CASE n \in list
    <3>1. n \in gone /\ ~timer[n].repeat /\ (Linux => timer[n].completed)
      BY <1>1, <1>3, <2>1, <2>2
    <3>2. k \in cleared' /\ timer[k].at = timer[n].at
      BY <1>1, <1>2, <3>1
    <3> QED
      BY <1>1, <3>1, <3>2
  <2>3. CASE n \notin list
    BY <1>1, <2>1, <2>3 DEF Outlived, OutlivedIsExplained
  <2> QED
    BY <2>2, <2>3
<1>4. ~Linux' /\ calling' # 0 /\ ~timer'[calling'].repeat => calling' \in registered'
  BY <1>1 DEF Outlived
<1> QED
  BY <1>3, <1>4 DEF Outlived, OutlivedIsExplained

LEMMA OutlivedExpired ==
  ASSUME IInv, Outlived, NEW k \in Serials, ProcessExpired(k)
  PROVE  Outlived'
<1>1. /\ timer' = [timer EXCEPT ![k].completed = ~timer[k].repeat] /\ pc = "process"
      /\ k = cursor /\ cursor # 0
      /\ env' = env /\ list' = list /\ registered' = registered /\ calling' = calling
      /\ cleared' = cleared /\ ~timer[k].completed
  BY DEF ProcessExpired, AtTimer
<1>2. /\ timer \in Seq(TimerRecord) /\ k \in Made /\ Linux /\ calling = 0
      /\ registered \subseteq Made
  BY <1>1 DEF IInv, TypeOK, LinuxOnly
<1>3. \A m \in Made : m # k => timer'[m] = timer[m]
  BY <1>1, <1>2
<1>4. ASSUME NEW n \in registered \ list PROVE n # k /\ ~timer[n].repeat /\ timer[n].completed
  BY <1>1, <1>2 DEF Outlived, OutlivedIsExplained
<1>5. \A n \in registered' \ list' : ~timer'[n].repeat /\ timer'[n].completed
  BY <1>1, <1>2, <1>3, <1>4
<1> QED
  BY <1>1, <1>2, <1>5 DEF Outlived, OutlivedIsExplained

LEMMA OutlivedStep == IInv /\ Outlived /\ [Next]_vars => Outlived'
<1> SUFFICES ASSUME IInv, Outlived, [Next]_vars PROVE Outlived'
  OBVIOUS
<1>1. CASE Script
  <2>1. CASE SetTimerFails
    BY <2>1 DEF SetTimerFails, Outlived, OutlivedIsExplained
  <2> QED
    BY <1>1, <2>1, OutlivedSet, OutlivedClear DEF Script
<1>2. CASE EndScript \/ Skip \/ ReturnInterval \/ EndService
  BY <1>2 DEF EndScript, Skip, TakeSignal, ReturnInterval, EndService, Outlived,
              OutlivedIsExplained
<1>3. CASE Call
  BY <1>3 DEF Call, TakeSignal, Outlived, OutlivedIsExplained
<1>4. CASE ReturnTimeout
  BY <1>4, OutlivedReturn DEF ReturnTimeout, Outlived
<1>5. CASE ProcessCompleted
  <2>1. timer[cursor].completed /\ pc = "process" /\ cursor # 0
    BY <1>5 DEF ProcessCompleted, AtTimer
  <2>2. Linux /\ ~timer[cursor].repeat /\ calling = 0
    BY <2>1 DEF IInv, LinuxOnly, TypeOK
  <2>3. /\ list' = list \ {cursor} /\ registered' = registered /\ env' = env
        /\ timer' = timer /\ calling' = calling
    BY <1>5, <2>1, <2>2 DEF ProcessCompleted, Delete
  <2> QED
    BY <2>1, <2>2, <2>3 DEF Outlived, OutlivedIsExplained
<1>6. CASE ProcessWaiting \/ EndProcess
  BY <1>6 DEF ProcessWaiting, EndProcess, Outlived, OutlivedIsExplained
<1>7. CASE \E n \in Serials : ProcessExpired(n)
  BY <1>7, OutlivedExpired
<1>8. CASE \E n \in Serials : Expire(n)
  BY <1>8 DEF Expire, Outlived, OutlivedIsExplained
<1>9. CASE Cleanup
  BY <1>9 DEF Cleanup, InService, Outlived, OutlivedIsExplained
<1>10. CASE Crashed \/ UNCHANGED vars
  BY <1>10 DEF Crashed, Outlived, OutlivedIsExplained
<1> QED
  BY <1>1, <1>2, <1>3, <1>4, <1>5, <1>6, <1>7, <1>8, <1>9, <1>10 DEF Next, Main

LEMMA OutlivedAlways == Spec => []Outlived
<1>1. Init => Outlived
  BY DEF Init, Outlived, OutlivedIsExplained
<1> QED
  BY <1>1, InvAlways, OutlivedStep, PTL DEF Spec

-----------------------------------------------------------------------------
(***************************************************************************)
(* The theorems.                                                           *)
(***************************************************************************)
\* No kernel timer runs on memory that was freed; the function of a timer that was freed
\* is called, if at all, only for a completed timeout of the Linux build or for one of the
\* Zephyr build at whose address a timer was cleared (delete_timer, post_timer), whatever
\* scripts do; and no callback outlives its timer and its signals when scripts clear no
\* timeout.
THEOREM TimersAreSoundTheorem == Spec => []TimersAreSound
<1>1. IInv /\ Outlived => TimersAreSound
  BY DEF IInv, Outlived, TimersAreSound, NoCallbackLeaks, CarefulScripts
<1> QED
  BY <1>1, InvAlways, OutlivedAlways, PTL

\* The function of an interval that was cleared is not called again, though its signal
\* may be pending and another timer may have taken its address.
THEOREM ClearedIntervalIsQuietTheorem == Spec => ClearedIntervalIsQuiet
<1> DEFINE Quiet == \A n \in cleared : timer[n].repeat /\ calling = 0 => calling' # n
<1>1. IInv /\ [Next]_vars => [Quiet]_vars
  <2> SUFFICES ASSUME IInv, Next, NEW n \in cleared, timer[n].repeat, calling = 0, calling' = n
               PROVE  FALSE
    OBVIOUS
  <2>1. n # 0
    BY DEF IInv, TypeOK
  <2>2. Call
    BY <2>1 DEF Next, Script, Main, SetTimer, SetTimerFails, Clear, EndScript, Skip,
            ReturnInterval, ReturnTimeout, EndService, ProcessCompleted, ProcessExpired,
            ProcessWaiting, EndProcess, Expire, Cleanup, Crashed
  <2>3. n \in registered
    BY <2>2 DEF Call
  <2> QED
    BY <2>3 DEF IInv, IntervalsInList
<1> QED
  BY <1>1, InvAlways, PTL DEF Spec, ClearedIntervalIsQuiet

\* A timer is deleted for itself, and never because its address was once another's.
THEOREM DeletedForItselfTheorem == Spec => DeletedForItself
<1> DEFINE ForItself == Careful => \A n \in list \ list' :
             n \in cleared' \/ calling = n \/ pc' = "script" \/ timer[n].completed
<1>1. IInv /\ [Next]_vars => [ForItself]_vars
  <2> SUFFICES ASSUME IInv, Next, Careful, NEW n \in list \ list'
               PROVE  n \in cleared' \/ calling = n \/ pc' = "script" \/ timer[n].completed
    OBVIOUS
  <2>1. \/ \E m \in Serials : Clear(m)
        \/ ReturnTimeout \/ ProcessCompleted \/ Cleanup
    BY DEF Next, Script, Main, SetTimer, SetTimerFails, EndScript, Call, Skip,
           ReturnInterval, EndService, ProcessExpired,
           ProcessWaiting, EndProcess, Expire, Crashed
  <2>2. ASSUME NEW m \in Serials, Clear(m) PROVE n \in cleared'
    <3>1. m \in handles /\ timer[m].repeat /\ m \notin cleared
          /\ list' = list \ Occupants(timer[m].at) /\ cleared' = cleared \cup {m}
      BY <2>2 DEF Clear, Delete
    <3>2. m \in list
      BY <3>1 DEF IInv, CarefulScripts
    <3>3. n = m
      BY <3>1, <3>2 DEF Occupants, IInv, TypeOK
    <3> QED
      BY <3>1, <3>3
  <2>3. CASE ReturnTimeout
    <3>1. ~Linux
      BY <2>3 DEF ReturnTimeout
    <3> QED
      BY <2>3, <3>1, ReturnDeletesItself
  <2>4. CASE ProcessCompleted
    BY <2>4 DEF ProcessCompleted, Delete
  <2>5. CASE Cleanup
    BY <2>5 DEF Cleanup
  <2> QED
    BY <2>1, <2>2, <2>3, <2>4, <2>5
<1> QED
  BY <1>1, InvAlways, PTL DEF Spec, DeletedForItself

-----------------------------------------------------------------------------
(***************************************************************************)
(* The loop that services the timers (module MainLoop).                    *)
(***************************************************************************)
USE DEF loopVars, tableVars, Forever

\* What the signals of others do to the ring's count and to the mark in it.
LEMMA ArriveType ==
  ASSUME LoopTypeOK, Arrive
  PROVE  /\ pending' \in 0 .. LoopItems
         /\ mark' \in -1 .. LoopItems - 1
         /\ mark' < pending'
  BY MainLoopAssumption DEF Arrive, LoopTypeOK

\* A longer and a shorter table are still tables of routines.
LEMMA TableType ==
  ASSUME LoopTypeOK, NEW routine \in Routines
  PROVE  /\ Len(table) < TableSize =>
              /\ Append(table, routine) \in Seq(Routines)
              /\ Len(Append(table, routine)) <= TableSize
         /\ routine \in Called =>
              /\ SubSeq(table, 1, Len(table) - 1) \in Seq(Routines)
              /\ Len(SubSeq(table, 1, Len(table) - 1)) <= TableSize
<1>1. table \in Seq(Routines) /\ Len(table) \in Nat /\ Len(table) <= TableSize
  BY DEF LoopTypeOK
<1>2. \A i \in 1 .. Len(table) - 1 : table[i] \in Routines
  BY <1>1, ElementOfSeq
<1>3. /\ SubSeq(table, 1, Len(table) - 1) \in Seq(Routines)
      /\ Len(SubSeq(table, 1, Len(table) - 1)) =
           IF 1 <= Len(table) - 1 THEN Len(table) - 1 - 1 + 1 ELSE 0
  BY <1>1, <1>2, SubSeqProperties
<1>4. ASSUME Len(table) < TableSize
      PROVE  /\ Append(table, routine) \in Seq(Routines)
             /\ Len(Append(table, routine)) <= TableSize
  BY <1>1, <1>4, MainLoopAssumption, AppendProperties
<1> QED
  BY <1>1, <1>3, <1>4, MainLoopAssumption

\* Every step keeps the types.
LEMMA LoopTypeStep == LoopTypeOK /\ [LoopNext]_loopVars => LoopTypeOK'
<1> SUFFICES ASSUME LoopTypeOK, [LoopNext]_loopVars PROVE LoopTypeOK'
  OBVIOUS
<1> USE MainLoopAssumption
<1>1. CASE Interrupt
  BY <1>1, ArriveType DEF Interrupt, LoopTypeOK
<1>2. CASE ThreadPut
  BY <1>2, ArriveType DEF ThreadPut, LoopTypeOK
<1>3. CASE ThreadGive
  BY <1>3 DEF ThreadGive, LoopTypeOK
<1>4. ASSUME NEW routine \in Routines, Register(routine) PROVE LoopTypeOK'
  BY <1>4, TableType DEF Register, LoopTypeOK
<1>5. ASSUME NEW routine \in Routines, Unregister(routine) PROVE LoopTypeOK'
  BY <1>5, TableType DEF Unregister, LoopTypeOK
<1>6. CASE ServiceOne
  <2>1. PICK sends \in 0 .. MaxSends :
          /\ pending' = Lesser(pending - 1 + sends, LoopItems)
          /\ block' = IF sends > 0 THEN 1 ELSE block
    BY <1>6 DEF ServiceOne
  <2>2. pending' \in 0 .. LoopItems /\ block' \in {0, 1}
    BY <1>6, <2>1 DEF ServiceOne, LoopTypeOK, Lesser
  <2>3. mark' \in -1 .. LoopItems - 1 /\ mark' < pending'
    BY <1>6, <2>1 DEF ServiceOne, LoopTypeOK, Lesser
  <2> QED
    BY <1>6, <2>2, <2>3 DEF ServiceOne, LoopTypeOK
<1>7. CASE EndLoopService
  BY <1>7 DEF EndLoopService, LoopTypeOK
<1>8. CASE ServiceRoutines
  BY <1>8 DEF ServiceRoutines, LoopTypeOK, Lesser
<1>9. CASE Block
  BY <1>9 DEF Block, LoopTypeOK
<1>10. CASE UNCHANGED loopVars
  BY <1>10 DEF LoopTypeOK
<1> QED
  BY <1>1, <1>2, <1>3, <1>4, <1>5, <1>6, <1>7, <1>8, <1>9, <1>10
  DEF LoopNext, LoopOthers, LoopModules, LoopMain

\* Main never sleeps on signalled work (zjs_signal_callback, zjs_loop_block): when it
\* waits for the semaphore, which is not given, and a callback is in the ring, then the
\* thread that put it is about to give the semaphore, or zjs_service_callbacks gave up
\* at its iteration limit.  The argument: work that comes after the last service call
\* gives the semaphore or announces that it will, and a service call ends with an empty
\* ring or at its limit.
THEOREM NoSleepTheorem == LoopSpec => []NoSleepWithWork
<1>1. LoopInit => NoSleepWithWork
  <2> SUFFICES ASSUME LoopInit PROVE NoSleepWithWork
    OBVIOUS
  <2>1. pending \in 0 .. LoopItems /\ mark \in -1 .. LoopItems - 1 /\ mark < pending
    BY MainLoopAssumption DEF LoopInit
  <2>2. table \in Seq(Routines) /\ Len(table) <= TableSize
    BY MainLoopAssumption, EmptySeq DEF LoopInit
  <2>3. giving \in BOOLEAN /\ limited \in BOOLEAN
    BY DEF LoopInit
  <2>4. block \in {0, 1} /\ loopCount \in 0 .. MaxLoopIteration /\ wait_time \in Int
    BY MainLoopAssumption DEF LoopInit
  <2>5. loopPc = "service1" /\ registeredRoutines = {}
    BY DEF LoopInit
  <2>6. LoopTypeOK
    BY <2>1, <2>2, <2>3, <2>4, <2>5 DEF LoopTypeOK
  <2> QED
    BY <2>6 DEF LoopInit, NoSleepWithWork
<1>2. NoSleepWithWork /\ [LoopNext]_loopVars => NoSleepWithWork'
  <2> SUFFICES ASSUME NoSleepWithWork, [LoopNext]_loopVars PROVE NoSleepWithWork'
    OBVIOUS
  <2>1. LoopTypeOK /\ LoopTypeOK'
    BY LoopTypeStep DEF NoSleepWithWork
  <2> USE <2>1 DEF NoSleepWithWork
  <2>2. CASE Interrupt \/ ThreadGive
    BY <2>2 DEF Interrupt, ThreadGive
  <2>3. CASE ThreadPut
    BY <2>3 DEF ThreadPut
  <2>4. CASE LoopModules
    BY <2>4 DEF LoopModules, Register, Unregister
  <2>5. CASE ServiceOne
    BY <2>5 DEF ServiceOne, InLoopService
  <2>6. CASE EndLoopService
    <3>1. pending = 0 \/ (loopCount = MaxLoopIteration) = TRUE
      BY <2>6 DEF EndLoopService
    <3>2. pending' = pending /\ limited' = (loopCount = MaxLoopIteration)
      BY <2>6 DEF EndLoopService
    <3>3. pending' = 0 \/ limited'
      BY <3>1, <3>2, Zenon
    <3> QED
      BY <3>3, <2>1
  <2>7. CASE ServiceRoutines \/ Block
    BY <2>7 DEF ServiceRoutines, Block
  <2>8. CASE UNCHANGED loopVars
    BY <2>8
  <2> QED
    BY <2>2, <2>3, <2>4, <2>5, <2>6, <2>7, <2>8 DEF LoopNext, LoopOthers, LoopMain
<1> QED
  BY <1>1, <1>2, PTL DEF LoopSpec
=============================================================================
