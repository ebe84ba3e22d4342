--------------------------- MODULE SocketsProofs ---------------------------
(***************************************************************************)
(* Theorems about the protocols above the sockets (modules Dgram, Ocf and  *)
(* WebSockets), for every value of their constants.                        *)
(***************************************************************************)
EXTENDS MCSockets, SequenceTheorems, FiniteSetTheorems, TLAPS

USE DEF wsVars, udpVars, ocfVars, clientVars, serverVars

-----------------------------------------------------------------------------
(***************************************************************************)
(* Datagrams and DHCP.                                                     *)
(***************************************************************************)
Handlers == {"message", "error"}
Kinds    == Handlers \cup {"sent", "dhcp"}
Owners   == [who : {"none"} \cup Kinds, s : Nat]
UdpSocket  == [live : BOOLEAN, bound : BOOLEAN, message : 0 .. UdpIds, error : 0 .. UdpIds]
UdpPending == [id : 0 .. UdpIds, for : Owners]
UdpCounts  == [come : Nat, calls : Nat]

UdpType ==
  /\ udp \in Seq(UdpSocket)
  /\ udpOwner \in [1 .. UdpIds -> Owners]
  /\ udpRing \in Seq(UdpPending)
  /\ sends \subseteq [n : Nat, held : BOOLEAN]
  /\ dhcpId \in 0 .. UdpIds
  /\ udpCount \in UdpCounts

\* The id in a slot is of the callback that was put there.
SlotsKept(sockets, owner) ==
  \A s \in DOMAIN sockets, event \in Handlers :
    sockets[s].live /\ sockets[s][event] # 0 =>
      owner[sockets[s][event]] = [who |-> event, s |-> s]

\* A signal that waits is of the callback that has its id.
SignalsKept(ring, owner) ==
  \A i \in DOMAIN ring : ring[i].id # 0 =>
    /\ ring[i].for.who \in Kinds
    /\ owner[ring[i].id].who = ring[i].for.who
    /\ ring[i].for.who # "dhcp" => owner[ring[i].id].s = ring[i].for.s

Waiting(ring, id) == \E i \in DOMAIN ring : ring[i].id = id

\* dhcp_id is of a call that has had no answer.
DhcpKept(ring, owner, id) ==
  id # 0 => owner[id].who = "dhcp" /\ ~Waiting(ring, id)

\* Any other callback of dhcp has its answer.
DhcpCovered(ring, owner, id) ==
  \A o \in DOMAIN owner : owner[o].who = "dhcp" /\ o # id => Waiting(ring, o)

ServedRight ==
  \A served \in udpServed : served[1] = served[2] /\ served[3]

UdpInv ==
  ~nulled =>
    /\ SlotsKept(udp, udpOwner) /\ SignalsKept(udpRing, udpOwner)
    /\ DhcpKept(udpRing, udpOwner, dhcpId) /\ ServedRight
    /\ ~dhcpAgain => DhcpCovered(udpRing, udpOwner, dhcpId)

LEMMA NoOwnerTyped ==
  /\ UdpIds \in Nat /\ NoOwner \in Owners /\ Gone \in UdpPending
  /\ [come |-> 0, calls |-> 0] \in UdpCounts /\ [id \in 1 .. UdpIds |-> NoOwner] \in [1 .. UdpIds -> Owners]
  BY DgramAssumption DEF NoOwner, Gone, Owners, UdpPending, UdpCounts

\* Skipping signals and removing callbacks, point by point.
LEMMA SkippedProperties ==
  ASSUME NEW ring \in Seq(UdpPending), NEW ids
  PROVE  /\ Skipped(ring, ids) \in Seq(UdpPending)
         /\ DOMAIN Skipped(ring, ids) = DOMAIN ring
         /\ \A i \in DOMAIN ring :
              Skipped(ring, ids)[i] = IF ring[i].id \in ids THEN Gone ELSE ring[i]
<1> PICK len \in Nat : len = Len(ring)
  BY LenProperties
<1>1. DOMAIN ring = 1 .. len /\ \A i \in 1 .. len : ring[i] \in UdpPending
  BY ElementOfSeq, LenProperties
<1>2. Skipped(ring, ids) \in [1 .. len -> UdpPending]
  BY <1>1, NoOwnerTyped DEF Skipped
<1> QED
  BY <1>1, <1>2, IsASeq DEF Skipped

LEMMA RemovedProperties ==
  ASSUME NEW owner \in [1 .. UdpIds -> Owners], NEW ids
  PROVE  /\ Removed(owner, ids) \in [1 .. UdpIds -> Owners]
         /\ \A id \in 1 .. UdpIds : Removed(owner, ids)[id] = IF id \in ids THEN NoOwner ELSE owner[id]
  BY NoOwnerTyped DEF Removed

\* An id put into a slot.
SlotSet(r, event, id, r2) == r2 = [r EXCEPT ![event] = id]

LEMMA SlotTyped ==
  ASSUME NEW r \in UdpSocket, NEW id \in 0 .. UdpIds, NEW event \in {"message", "error"},
         NEW r2, SlotSet(r, event, id, r2)
  PROVE  /\ r2 \in UdpSocket /\ r2.live = r.live
         /\ \A other \in Handlers : r2[other] = IF other = event THEN id ELSE r[other]
<1>1. CASE event = "message"
  BY <1>1 DEF UdpSocket, Handlers, SlotSet
<1>2. CASE event = "error"
  BY <1>2 DEF UdpSocket, Handlers, SlotSet
<1> QED
  BY <1>1, <1>2

LEMMA UdpTyped == DgramSpec => []UdpType
<1> USE NoOwnerTyped
<1>1. DgramInit => UdpType
  <2> SUFFICES ASSUME DgramInit PROVE UdpType
    OBVIOUS
  <2>1. udp = <<>> /\ udpRing = <<>> /\ sends = {} /\ dhcpId = 0
        /\ udpOwner = [id \in 1 .. UdpIds |-> NoOwner] /\ udpCount = [come |-> 0, calls |-> 0]
    BY DEF DgramInit
  <2> QED
    BY <2>1, EmptySeq DEF UdpType
<1>2. UdpType /\ [DgramNext]_udpVars => UdpType'
  <2> SUFFICES ASSUME UdpType, [DgramNext]_udpVars PROVE UdpType'
    OBVIOUS
  <2> USE DEF UdpType
  <2>0. ASSUME NEW s \in Sockets PROVE s \in Nat /\ s \in 1 .. Len(udp) /\ udp[s] \in UdpSocket
    BY ElementOfSeq, LenProperties DEF Sockets
  <2>18. UdpCall \/ Come => udpCount' \in UdpCounts
    BY DEF UdpCall, Come, UdpCounts
  <2>19. udpCount.calls \in Nat
    BY DEF UdpCounts
  <2>1. CASE CreateSocket
    <3>1. [live |-> TRUE, bound |-> FALSE, message |-> 0, error |-> 0] \in UdpSocket
      BY DEF UdpSocket
    <3> QED
      BY <2>1, <3>1, AppendProperties DEF CreateSocket
  <2>2. CASE Dhcp
    <3>1. [who |-> "dhcp", s |-> udpCount.calls] \in Owners
      BY <2>19 DEF Owners, Kinds
    <3> QED
      BY <2>2, <2>18, <3>1 DEF Dhcp
  <2>3. ASSUME NEW id \in 0 .. UdpIds, NEW o \in Owners
        PROVE  UdpSignal(id, o) \in Seq(UdpPending)
    <3>1. [id |-> id, for |-> o] \in UdpPending
      BY DEF UdpPending
    <3> DEFINE item == [id |-> id, for |-> o]
    <3>2. UdpSignal(id, o) = Append(udpRing, item) \/ UdpSignal(id, o) = udpRing
      BY Zenon DEF UdpSignal
    <3> HIDE DEF item
    <3>3. Append(udpRing, item) \in Seq(UdpPending)
      BY <3>1, AppendProperties DEF item
    <3> QED
      BY <3>2, <3>3, Zenon
  <2>4. CASE DhcpCallback
    <3>1. [who |-> "dhcp", s |-> 0] \in Owners
      BY DEF Owners, Kinds
    <3> QED
      <4>1. udpRing' = UdpSignal(dhcpId, [who |-> "dhcp", s |-> 0]) /\ dhcpId' = 0
            /\ UNCHANGED <<udp, udpOwner, sends>> /\ Come
        BY <2>4 DEF DhcpCallback
      <4>2. udpRing' \in Seq(UdpPending)
        BY <2>3, <3>1, <4>1
      <4> QED
        BY <2>18, <4>1, <4>2
  <2>6. CASE UdpService
    <3>1. Tail(udpRing) \in Seq(UdpPending)
      BY <2>6, HeadTailProperties DEF UdpService
    <3>2. PICK ids : udpOwner' = Removed(udpOwner, ids) /\ udpRing' = Skipped(Tail(udpRing), ids)
      BY <2>6, Zenon DEF UdpService
    <3>3. udpRing' \in Seq(UdpPending) /\ udpOwner' \in [1 .. UdpIds -> Owners]
      BY <3>1, <3>2, SkippedProperties, RemovedProperties
    <3>4. UNCHANGED <<udp, sends, dhcpId, udpCount>>
      BY <2>6, Zenon DEF UdpService
    <3> QED
      BY <3>3, <3>4
  <2>7. CASE UdpSkip
    BY <2>7, HeadTailProperties DEF UdpSkip
  <2>8. ASSUME NEW s \in Sockets, Bind(s) PROVE UdpType'
    <3>1. [udp[s] EXCEPT !.bound = TRUE] \in UdpSocket
      BY <2>0 DEF UdpSocket
    <3> QED
      BY <2>0, <2>8, <3>1, ExceptSeq DEF Bind
  <2>9. ASSUME NEW s \in Sockets, Send(s) PROVE UdpType'
    <3>1. [n |-> udpCount.calls, held |-> TRUE] \in [n : Nat, held : BOOLEAN]
      BY <2>19
    <3> QED
      BY <2>9, <2>18, <3>1 DEF Send
  <2>10. ASSUME NEW s \in Sockets, SockClose(s) PROVE UdpType'
    <3>1. [udp[s] EXCEPT !.live = FALSE] \in UdpSocket
      BY <2>0 DEF UdpSocket
    <3>2. udp' \in Seq(UdpSocket)
      BY <2>0, <2>10, <3>1, ExceptSeq DEF SockClose
    <3>3. udpRing' \in Seq(UdpPending) /\ udpOwner' \in [1 .. UdpIds -> Owners]
      <4> PICK ids : udpOwner' = Removed(udpOwner, ids) /\ udpRing' = Skipped(udpRing, ids)
        BY <2>10 DEF SockClose
      <4> QED
        BY SkippedProperties, RemovedProperties
    <3> QED
      BY <2>10, <3>2, <3>3 DEF SockClose
  <2>11. ASSUME NEW reason, UdpFails(reason) PROVE UdpType'
    <3>1. udp' = <<>> /\ udpRing' = <<>> /\ sends' = {} /\ dhcpId' = 0
          /\ udpOwner' = [id \in 1 .. UdpIds |-> NoOwner] /\ udpCount' = [come |-> 0, calls |-> 0]
      BY <2>11 DEF UdpFails
    <3> QED
      BY <3>1, EmptySeq
  <2>12. ASSUME NEW s \in Sockets, UdpReceived(s) PROVE UdpType'
    <3>1. [who |-> "message", s |-> s] \in Owners
      BY <2>0 DEF Owners, Kinds, Handlers
    <3>2. udp[s].message \in 0 .. UdpIds
      BY <2>0 DEF UdpSocket
    <3> QED
      BY <2>3, <2>12, <2>18, <3>1, <3>2 DEF UdpReceived
  <2>13. ASSUME NEW s \in Sockets, NEW event \in {"message", "error"}, On(s, event) PROVE UdpType'
    <3> PICK id \in 1 .. UdpIds :
              /\ GivenNext(Removed(udpOwner, {udp[s][event]}), id)
              /\ udpOwner' = [Removed(udpOwner, {udp[s][event]})
                                EXCEPT ![id] = [who |-> event, s |-> s]]
              /\ udp' = [udp EXCEPT ![s][event] = id]
      BY <2>13 DEF On
    <3>1. [udp[s] EXCEPT ![event] = id] \in UdpSocket
      <4>1. id \in 0 .. UdpIds
        OBVIOUS
      <4> QED
        BY <2>0, <4>1, SlotTyped, NoOwnerTyped DEF SlotSet
    <3>2. udp' \in Seq(UdpSocket)
      BY <2>0, <3>1, ExceptSeq
    <3>3. [who |-> event, s |-> s] \in Owners
      BY <2>0 DEF Owners, Kinds, Handlers
    <3>4. udpOwner' \in [1 .. UdpIds -> Owners]
      <4>1. Removed(udpOwner, {udp[s][event]}) \in [1 .. UdpIds -> Owners]
        BY RemovedProperties
      <4> QED
        BY <3>3, <4>1
    <3>5. udpRing' \in Seq(UdpPending)
      BY <2>13, SkippedProperties DEF On
    <3> QED
      BY <2>13, <2>18, <3>2, <3>4, <3>5 DEF On
  <2>14. ASSUME NEW s \in Sockets, NEW event \in {"message", "error"}, OnNull(s, event) PROVE UdpType'
    <3>1. udpRing' \in Seq(UdpPending) /\ udpOwner' \in [1 .. UdpIds -> Owners]
      BY <2>14, SkippedProperties, RemovedProperties DEF OnNull
    <3> QED
      BY <2>14, <2>18, <3>1 DEF OnNull
  <2>15. ASSUME NEW f \in sends, ScriptDropsFunction(f) PROVE UdpType'
    BY <2>15 DEF ScriptDropsFunction
  <2>16. ASSUME NEW f \in sends, UdpSent(f) PROVE UdpType'
    <3>1. [who |-> "sent", s |-> f.n] \in Owners
      BY DEF Owners, Kinds
    <3>2. \A id \in 1 .. UdpIds : [id |-> id, for |-> [who |-> "sent", s |-> f.n]] \in UdpPending
      BY <3>1 DEF UdpPending
    <3> QED
      BY <2>16, <3>1, <3>2, AppendProperties DEF UdpSent
  <2>17. CASE UNCHANGED udpVars
    BY <2>17
  <2> QED
    BY <2>1, <2>2, <2>4, <2>6, <2>7, <2>8, <2>9, <2>10, <2>11, <2>12, <2>13, <2>14, <2>15, <2>16, <2>17
       DEF DgramNext, UsesClosed, UdpSentDropped
<1> QED
  BY <1>1, <1>2, PTL DEF DgramSpec

-----------------------------------------------------------------------------
\* What the slots, the signals and dhcp_id rely on, of given values of them.
Kept(sockets, owner, ring, dhcp, twice) ==
  /\ SlotsKept(sockets, owner) /\ SignalsKept(ring, owner)
  /\ DhcpKept(ring, owner, dhcp)
  /\ ~twice => DhcpCovered(ring, owner, dhcp)

UdpTypes(owner, ring, dhcp) ==
  owner \in [1 .. UdpIds -> Owners] /\ ring \in Seq(UdpPending) /\ dhcp \in 0 .. UdpIds

\* An id that waits is of a callback.
LEMMA WaitingIsOwned ==
  ASSUME NEW owner, NEW ring, SignalsKept(ring, owner), NEW id, id # 0, Waiting(ring, id)
  PROVE  owner[id].who \in Kinds /\ owner[id] # NoOwner
<1>1. PICK i \in DOMAIN ring : ring[i].id = id
  BY DEF Waiting
<1>2. owner[id].who \in Kinds
  BY <1>1 DEF SignalsKept
<1> QED
  BY <1>2 DEF Kinds, Handlers, NoOwner

LEMMA WaitingTyped ==
  ASSUME NEW ring \in Seq(UdpPending), NEW i \in DOMAIN ring, ring[i].id # 0
  PROVE  ring[i].id \in 1 .. UdpIds /\ Waiting(ring, ring[i].id)
<1>1. ring[i] \in UdpPending
  BY ElementOfSeq, LenProperties
<1>2. ring[i].id \in 1 .. UdpIds
  BY <1>1, NoOwnerTyped DEF UdpPending
<1> QED
  BY <1>2 DEF Waiting

\* Callbacks other than those of dhcp are removed.
LEMMA Removing ==
  ASSUME NEW sockets, NEW owner, NEW ring, NEW dhcp, NEW twice, UdpTypes(owner, ring, dhcp),
         Kept(sockets, owner, ring, dhcp, twice),
         NEW ids, \A id \in ids : id # 0 => owner[id].who # "dhcp",
         NEW sockets2, SlotsKept(sockets2, Removed(owner, ids))
  PROVE  Kept(sockets2, Removed(owner, ids), Skipped(ring, ids), dhcp, twice)
<1> DEFINE owner2 == Removed(owner, ids)
           ring2  == Skipped(ring, ids)
<1>1. owner \in [1 .. UdpIds -> Owners] /\ ring \in Seq(UdpPending) /\ dhcp \in 0 .. UdpIds
  BY DEF UdpTypes
<1>2. DOMAIN ring2 = DOMAIN ring /\ \A i \in DOMAIN ring : ring2[i] = IF ring[i].id \in ids THEN Gone ELSE ring[i]
  BY <1>1, SkippedProperties
<1>3. /\ owner2 \in [1 .. UdpIds -> Owners]
      /\ \A id \in 1 .. UdpIds : owner2[id] = IF id \in ids THEN NoOwner ELSE owner[id]
  BY <1>1, NoOwnerTyped DEF Removed
<1> HIDE DEF owner2, ring2
<1>4. \A id : id \notin ids /\ id # 0 => (Waiting(ring2, id) <=> Waiting(ring, id))
  BY <1>2 DEF Waiting, Gone
<1>5. SignalsKept(ring2, owner2)
  <2> SUFFICES ASSUME NEW i \in DOMAIN ring, ring2[i].id # 0
               PROVE  /\ ring2[i].for.who \in Kinds
                      /\ owner2[ring2[i].id].who = ring2[i].for.who
                      /\ ring2[i].for.who # "dhcp" => owner2[ring2[i].id].s = ring2[i].for.s
    BY <1>2 DEF SignalsKept
  <2>1. ring2[i] = ring[i] /\ ring[i].id \notin ids
    BY <1>2 DEF Gone
  <2>2. ring[i].id \in 1 .. UdpIds
    BY <1>1, <2>1, WaitingTyped
  <2>3. owner2[ring[i].id] = owner[ring[i].id]
    BY <1>3, <2>1, <2>2
  <2> QED
    BY <2>1, <2>3 DEF Kept, SignalsKept
<1>6. DhcpKept(ring2, owner2, dhcp)
  <2> SUFFICES ASSUME dhcp # 0 PROVE owner2[dhcp].who = "dhcp" /\ ~Waiting(ring2, dhcp)
    BY DEF DhcpKept
  <2>1. owner[dhcp].who = "dhcp" /\ ~Waiting(ring, dhcp)
    BY DEF Kept, DhcpKept
  <2>2. dhcp \in 1 .. UdpIds /\ dhcp \notin ids
    BY <1>1, <2>1, NoOwnerTyped
  <2> QED
    BY <1>3, <1>4, <2>1, <2>2
<1>7. ASSUME ~twice PROVE DhcpCovered(ring2, owner2, dhcp)
  <2> SUFFICES ASSUME NEW o \in 1 .. UdpIds, owner2[o].who = "dhcp", o # dhcp
               PROVE  Waiting(ring2, o)
    BY <1>3 DEF DhcpCovered
  <2>1. o \notin ids /\ owner[o].who = "dhcp" /\ o # 0
    BY <1>3, NoOwnerTyped DEF NoOwner
  <2>2. Waiting(ring, o)
    BY <1>1, <1>7, <2>1 DEF Kept, DhcpCovered
  <2> QED
    BY <1>4, <2>1, <2>2
<1> QED
  BY <1>5, <1>6, <1>7 DEF Kept, owner2, ring2

\* A free id is given to a new callback.
IdsIn(sockets) ==
  \A s \in DOMAIN sockets, event \in Handlers : sockets[s][event] \in 0 .. UdpIds

Renamed(owner, id, new, owner2) ==
  owner[id] = NoOwner /\ owner2 = [owner EXCEPT ![id] = new]

\* No slot of a live socket has the id.
Elsewhere(sockets, id) ==
  \A s \in DOMAIN sockets, event \in Handlers :
    sockets[s].live /\ sockets[s][event] # 0 => sockets[s][event] # id

Others(owner, id, owner2) == \A o \in 1 .. UdpIds : o # id => owner2[o] = owner[o]

LEMMA Giving ==
  ASSUME NEW sockets, NEW owner, NEW ring, NEW dhcp, NEW twice, UdpTypes(owner, ring, dhcp),
         Kept(sockets, owner, ring, dhcp, twice), IdsIn(sockets),
         NEW id \in 1 .. UdpIds, NEW new \in Owners, NEW owner2, Renamed(owner, id, new, owner2)
  PROVE  /\ ~Waiting(ring, id) /\ id # dhcp /\ owner2 \in [1 .. UdpIds -> Owners]
         /\ owner2[id] = new /\ Others(owner, id, owner2) /\ Elsewhere(sockets, id)
         /\ SlotsKept(sockets, owner2) /\ SignalsKept(ring, owner2) /\ DhcpKept(ring, owner2, dhcp)
         /\ ~twice /\ new.who # "dhcp" => DhcpCovered(ring, owner2, dhcp)
<1> USE DEF IdsIn, Renamed, Elsewhere, Others
<1>1. owner \in [1 .. UdpIds -> Owners] /\ ring \in Seq(UdpPending) /\ dhcp \in 0 .. UdpIds
  BY DEF UdpTypes
<1>2. /\ owner2 \in [1 .. UdpIds -> Owners] /\ owner2[id] = new
      /\ \A o \in 1 .. UdpIds : o # id => owner2[o] = owner[o]
  BY <1>1
<1>3. ~Waiting(ring, id) /\ id # 0
  BY WaitingIsOwned, NoOwnerTyped DEF Kept
<1>4. NoOwner.who = "none" /\ "none" \notin Kinds
  BY DEF NoOwner, Kinds, Handlers
<1>5. id # dhcp
  BY <1>3, <1>4 DEF Kept, DhcpKept, Kinds
<1>6. ASSUME NEW s \in DOMAIN sockets, NEW event \in Handlers, sockets[s].live, sockets[s][event] # 0
      PROVE  /\ sockets[s][event] # id /\ sockets[s][event] \in 1 .. UdpIds
             /\ owner2[sockets[s][event]] = [who |-> event, s |-> s]
  <2>1. owner[sockets[s][event]] = [who |-> event, s |-> s]
    BY <1>6 DEF Kept, SlotsKept
  <2>2. sockets[s][event] # id
    BY <1>4, <2>1 DEF Kinds
  <2>3. sockets[s][event] \in 1 .. UdpIds
    BY <1>6, NoOwnerTyped
  <2> QED
    BY <1>2, <2>1, <2>2, <2>3
<1>7. SignalsKept(ring, owner2)
  <2> SUFFICES ASSUME NEW i \in DOMAIN ring, ring[i].id # 0
               PROVE  /\ ring[i].for.who \in Kinds
                      /\ owner2[ring[i].id].who = ring[i].for.who
                      /\ ring[i].for.who # "dhcp" => owner2[ring[i].id].s = ring[i].for.s
    BY DEF SignalsKept
  <2>1. ring[i].id \in 1 .. UdpIds /\ ring[i].id # id
    BY <1>1, <1>3, WaitingTyped
  <2> QED
    BY <1>2, <2>1 DEF Kept, SignalsKept
<1>8. DhcpKept(ring, owner2, dhcp)
  BY <1>1, <1>2, <1>5 DEF Kept, DhcpKept
<1>9. ASSUME ~twice, new.who # "dhcp" PROVE DhcpCovered(ring, owner2, dhcp)
  <2> SUFFICES ASSUME NEW o \in 1 .. UdpIds, owner2[o].who = "dhcp", o # dhcp
               PROVE  Waiting(ring, o)
    BY <1>2 DEF DhcpCovered
  <2>1. o # id /\ owner[o].who = "dhcp"
    BY <1>2, <1>9
  <2> QED
    BY <1>1, <1>9, <2>1 DEF Kept, DhcpCovered
<1>10. SlotsKept(sockets, owner2)
  BY <1>6 DEF SlotsKept
<1>11. Elsewhere(sockets, id)
  BY <1>6
<1>12. Others(owner, id, owner2)
  BY <1>2
<1> HIDE DEF Elsewhere, Others
<1> QED
  BY <1>2, <1>3, <1>5, <1>7, <1>8, <1>9, <1>10, <1>11, <1>12

\* A signal is queued for the callback that has its id.
LEMMA Queueing ==
  ASSUME NEW owner, NEW ring \in Seq(UdpPending), NEW item \in UdpPending, SignalsKept(ring, owner),
         item.id # 0, item.for.who \in Kinds, owner[item.id].who = item.for.who,
         item.for.who # "dhcp" => owner[item.id].s = item.for.s
  PROVE  /\ SignalsKept(Append(ring, item), owner)
         /\ \A id : Waiting(Append(ring, item), id) <=> Waiting(ring, id) \/ id = item.id
<1> PICK n \in Nat : n = Len(ring)
  BY LenProperties
<1>1. DOMAIN ring = 1 .. n
  BY LenProperties
<1> DEFINE ring2 == Append(ring, item)
<1>2. /\ DOMAIN ring2 = 1 .. n + 1 /\ ring2[n + 1] = item
      /\ \A i \in 1 .. n : ring2[i] = ring[i]
  <2>1. ring2 \in Seq(UdpPending) /\ Len(ring2) = n + 1
    BY AppendProperties
  <2> QED
    BY <2>1, AppendProperties, LenProperties
<1> HIDE DEF ring2
<1>3. ASSUME NEW i \in 1 .. n + 1 PROVE ring2[i] = item \/ (i \in 1 .. n /\ ring2[i] = ring[i])
  <2>1. i = n + 1 \/ i \in 1 .. n
    OBVIOUS
  <2> QED
    BY <1>2, <2>1
<1>4. SignalsKept(ring2, owner)
  BY <1>1, <1>2, <1>3 DEF SignalsKept
<1>5. ASSUME NEW id PROVE Waiting(ring2, id) <=> Waiting(ring, id) \/ id = item.id
  <2>1. 1 .. n \subseteq 1 .. n + 1 /\ n + 1 \in 1 .. n + 1
    OBVIOUS
  <2> QED
    BY <1>1, <1>2, <1>3, <2>1 DEF Waiting
<1> QED
  BY <1>4, <1>5 DEF ring2

\* The first signal is taken.
LEMMA Taking ==
  ASSUME NEW owner, NEW ring \in Seq(UdpPending), ring # <<>>, SignalsKept(ring, owner)
  PROVE  /\ Tail(ring) \in Seq(UdpPending) /\ SignalsKept(Tail(ring), owner)
         /\ 1 \in DOMAIN ring /\ Head(ring) = ring[1]
         /\ \A id : Waiting(Tail(ring), id) => Waiting(ring, id)
         /\ \A id : Waiting(ring, id) /\ id # Head(ring).id => Waiting(Tail(ring), id)
<1> PICK n \in Nat : n = Len(ring)
  BY LenProperties
<1>1. DOMAIN ring = 1 .. n /\ n > 0 /\ Head(ring) = ring[1]
  BY LenProperties, HeadTailProperties
<1> DEFINE ring2 == Tail(ring)
<1>2. ring2 \in Seq(UdpPending) /\ DOMAIN ring2 = 1 .. n - 1 /\ \A i \in 1 .. n - 1 : ring2[i] = ring[i + 1]
  <2>1. ring2 \in Seq(UdpPending) /\ Len(ring2) = n - 1
    BY HeadTailProperties
  <2> QED
    BY <2>1, HeadTailProperties, LenProperties
<1> HIDE DEF ring2
<1>3. \A i \in 1 .. n - 1 : i + 1 \in 1 .. n
  OBVIOUS
<1>4. SignalsKept(ring2, owner)
  BY <1>1, <1>2, <1>3 DEF SignalsKept
<1>5. \A id : Waiting(ring2, id) => Waiting(ring, id)
  BY <1>1, <1>2, <1>3 DEF Waiting
<1>6. ASSUME NEW i \in 1 .. n, ring[i].id # ring[1].id PROVE Waiting(ring2, ring[i].id)
  <2>1. i - 1 \in 1 .. n - 1 /\ i = (i - 1) + 1
    BY <1>6
  <2>2. ring2[i - 1] = ring[i]
    BY <1>2, <2>1
  <2> QED
    BY <1>2, <2>1, <2>2 DEF Waiting
<1>7. \A id : Waiting(ring, id) /\ id # ring[1].id => Waiting(ring2, id)
  BY <1>1, <1>6 DEF Waiting
<1> QED
  BY <1>1, <1>2, <1>4, <1>5, <1>7 DEF ring2

-----------------------------------------------------------------------------
LEMMA UdpInvKept == ASSUME UdpType, UdpInv, [DgramNext]_udpVars PROVE UdpInv'
<1> SUFFICES ASSUME ~nulled'
             PROVE  /\ Kept(udp', udpOwner', udpRing', dhcpId', dhcpAgain') /\ ServedRight'
  BY DEF UdpInv, Kept
<1> USE DEF ServedRight
<1>1. CASE nulled
  <2>1. \E reason : UdpFails(reason)
    BY <1>1 DEF DgramNext, UsesClosed, UdpSentDropped, CreateSocket, Dhcp, DhcpCallback, UdpService,
       UdpSkip, Bind, Send, SockClose, UdpReceived, On, OnNull, ScriptDropsFunction, UdpSent
  <2>2. udp' = <<>> /\ udpRing' = <<>> /\ dhcpId' = 0 /\ udpServed' = {}
        /\ udpOwner' = [id \in 1 .. UdpIds |-> NoOwner]
    BY <2>1 DEF UdpFails
  <2> QED
    BY <2>2 DEF Kept, SlotsKept, SignalsKept, DhcpKept, DhcpCovered, NoOwner
<1>2. CASE ~nulled
  <2>0. /\ Kept(udp, udpOwner, udpRing, dhcpId, dhcpAgain) /\ ServedRight
        /\ UdpTypes(udpOwner, udpRing, dhcpId)
        /\ udpOwner \in [1 .. UdpIds -> Owners] /\ udpRing \in Seq(UdpPending) /\ dhcpId \in 0 .. UdpIds
    BY <1>2 DEF UdpInv, Kept, UdpTypes, UdpType
  <2>20. IdsIn(udp)
    <3> USE DEF IdsIn
    <3> TAKE s \in DOMAIN udp, event \in Handlers
    <3>1. udp[s] \in UdpSocket
      BY ElementOfSeq, LenProperties DEF UdpType
    <3> QED
      BY <3>1 DEF UdpSocket, Handlers
  <2>21. ASSUME NEW s \in Sockets
         PROVE  s \in DOMAIN udp /\ s \in Nat /\ s \in 1 .. Len(udp) /\ udp[s] \in UdpSocket
    BY ElementOfSeq, LenProperties DEF Sockets, UdpType
  <2>1. CASE CreateSocket
    <3>1. PICK n \in Nat : n = Len(udp) /\ DOMAIN udp = 1 .. n
      BY LenProperties DEF UdpType
    <3>2. PICK new \in UdpSocket : udp' = Append(udp, new) /\ new.message = 0 /\ new.error = 0
      <4>1. [live |-> TRUE, bound |-> FALSE, message |-> 0, error |-> 0] \in UdpSocket
        BY NoOwnerTyped DEF UdpSocket
      <4> QED
        BY <2>1, <4>1 DEF CreateSocket
    <3>3. DOMAIN udp' = 1 .. n + 1 /\ udp'[n + 1] = new /\ \A i \in 1 .. n : udp'[i] = udp[i]
      <4>1. udp' \in Seq(UdpSocket) /\ Len(udp') = n + 1
        BY <3>1, <3>2, AppendProperties DEF UdpType
      <4> QED
        BY <3>1, <3>2, <4>1, AppendProperties, LenProperties DEF UdpType
    <3>4. SlotsKept(udp', udpOwner)
      <4> SUFFICES ASSUME NEW s \in 1 .. n + 1, NEW event \in Handlers, udp'[s].live, udp'[s][event] # 0
                   PROVE  udpOwner[udp'[s][event]] = [who |-> event, s |-> s]
        BY <3>3 DEF SlotsKept
      <4>1. s # n + 1
        BY <3>2, <3>3 DEF Handlers
      <4>2. s \in 1 .. n /\ udp'[s] = udp[s]
        BY <3>3, <4>1
      <4> QED
        BY <2>0, <3>1, <4>2 DEF Kept, SlotsKept
    <3> QED
      BY <2>0, <2>1, <3>4 DEF Kept, CreateSocket
  <2>2. ASSUME NEW s \in Sockets, Bind(s)
        PROVE  Kept(udp', udpOwner', udpRing', dhcpId', dhcpAgain') /\ ServedRight'
    <3>1. DOMAIN udp' = DOMAIN udp
      BY <2>2 DEF Bind
    <3>2. \A t \in DOMAIN udp, event \in Handlers :
            udp'[t].live = udp[t].live /\ udp'[t][event] = udp[t][event]
      BY <2>2, <2>21 DEF Bind, UdpSocket, Handlers
    <3>3. SlotsKept(udp', udpOwner)
      BY <2>0, <3>1, <3>2 DEF Kept, SlotsKept
    <3> QED
      BY <2>0, <2>2, <3>3 DEF Kept, Bind
  <2>3. ASSUME NEW s \in Sockets, Send(s)
        PROVE  Kept(udp', udpOwner', udpRing', dhcpId', dhcpAgain') /\ ServedRight'
    BY <2>0, <2>3 DEF Send
  <2>4. ASSUME NEW s \in Sockets, SockClose(s)
        PROVE  Kept(udp', udpOwner', udpRing', dhcpId', dhcpAgain') /\ ServedRight'
    <3> DEFINE ids == {udp[s].message, udp[s].error}
    <3>1. udp[s].live
      BY <2>4 DEF SockClose
    <3>2. \A event \in Handlers : udp[s][event] # 0 => udpOwner[udp[s][event]] = [who |-> event, s |-> s]
      BY <2>0, <2>21, <3>1 DEF Kept, SlotsKept
    <3>3. \A id \in ids : id # 0 => udpOwner[id].who # "dhcp" /\ udpOwner[id].s = s
      BY <3>2 DEF Handlers
    <3>4. SlotsKept(udp', Removed(udpOwner, ids))
      <4> SUFFICES ASSUME NEW t \in DOMAIN udp, NEW event \in Handlers, udp'[t].live, udp'[t][event] # 0
                   PROVE  Removed(udpOwner, ids)[udp'[t][event]] = [who |-> event, s |-> t]
        BY <2>4 DEF SockClose, SlotsKept
      <4>1. t # s /\ udp'[t] = udp[t]
        BY <2>4, <2>21 DEF SockClose, UdpSocket
      <4>2. udpOwner[udp[t][event]] = [who |-> event, s |-> t]
        BY <2>0, <4>1 DEF Kept, SlotsKept
      <4>3. udp[t][event] \in 1 .. UdpIds
        BY <2>20, <4>1, NoOwnerTyped DEF IdsIn
      <4>4. udp[t][event] \notin ids
        BY <3>3, <4>1, <4>2, <4>3
      <4> QED
        BY <2>0, <4>1, <4>2, <4>3, <4>4 DEF Removed
    <3>5. Kept(udp', Removed(udpOwner, ids), Skipped(udpRing, ids), dhcpId, dhcpAgain)
      BY <2>0, <3>3, <3>4, Removing
    <3> QED
      BY <2>0, <2>4, <3>5 DEF SockClose
  <2>5. ASSUME NEW s \in Sockets, NEW event \in {"message", "error"}, On(s, event)
        PROVE  Kept(udp', udpOwner', udpRing', dhcpId', dhcpAgain') /\ ServedRight'
    <3> DEFINE ids   == {udp[s][event]}
               owner1 == Removed(udpOwner, ids)
               ring1  == Skipped(udpRing, ids)
               unset == [udp EXCEPT ![s][event] = 0]
               mine   == [who |-> event, s |-> s]
    <3>0. event \in Handlers /\ mine \in Owners
      BY <2>21 DEF Handlers, Kinds, Owners
    <3>1. udp[s].live /\ udpRing' = ring1 /\ UNCHANGED <<dhcpId, dhcpAgain, udpServed>>
      BY <2>5 DEF On
    <3>2. PICK id \in 1 .. UdpIds : owner1[id] = NoOwner /\ udpOwner' = [owner1 EXCEPT ![id] = mine]
                                    /\ udp' = [udp EXCEPT ![s][event] = id]
      BY <2>5 DEF On, GivenNext
    <3>3. udp[s][event] # 0 => udpOwner[udp[s][event]] = mine
      BY <2>0, <2>21, <3>0, <3>1 DEF Kept, SlotsKept
    <3>4. /\ DOMAIN unset = DOMAIN udp /\ \A t \in DOMAIN udp : unset[t].live = udp[t].live
          /\ \A t \in DOMAIN udp, e \in Handlers :
               unset[t][e] = IF t = s /\ e = event THEN 0 ELSE udp[t][e]
      <4>1. 0 \in 0 .. UdpIds
        BY NoOwnerTyped
      <4> DEFINE new2 == [udp[s] EXCEPT ![event] = 0]
      <4>2. /\ new2.live = udp[s].live
            /\ \A e \in Handlers : new2[e] = IF e = event THEN 0 ELSE udp[s][e]
        <5>1. SlotSet(udp[s], event, 0, new2)
          BY DEF SlotSet
        <5> HIDE DEF new2
        <5> QED
          BY <2>21, <4>1, <5>1, SlotTyped
      <4> QED
        BY <2>21, <4>2
    <3>5. /\ DOMAIN udp' = DOMAIN udp /\ \A t \in DOMAIN udp : udp'[t].live = udp[t].live
          /\ \A t \in DOMAIN udp, e \in Handlers :
               udp'[t][e] = IF t = s /\ e = event THEN id ELSE udp[t][e]
      <4>1. id \in 0 .. UdpIds
        OBVIOUS
      <4> DEFINE new2 == [udp[s] EXCEPT ![event] = id]
      <4>2. /\ new2.live = udp[s].live
            /\ \A e \in Handlers : new2[e] = IF e = event THEN id ELSE udp[s][e]
        <5>1. SlotSet(udp[s], event, id, new2)
          BY DEF SlotSet
        <5> HIDE DEF new2
        <5> QED
          BY <2>21, <4>1, <5>1, SlotTyped
      <4> QED
        BY <2>21, <3>2, <4>2
    <3> HIDE DEF unset
    <3>6. SlotsKept(unset, owner1)
      <4> SUFFICES ASSUME NEW t \in DOMAIN udp, NEW e \in Handlers, unset[t].live, unset[t][e] # 0
                   PROVE  owner1[unset[t][e]] = [who |-> e, s |-> t]
        BY <3>4 DEF SlotsKept
      <4>1. unset[t][e] = udp[t][e] /\ ~(t = s /\ e = event)
        BY <3>4
      <4>2. udpOwner[udp[t][e]] = [who |-> e, s |-> t]
        BY <2>0, <3>4, <4>1 DEF Kept, SlotsKept
      <4>3. udp[t][e] \in 1 .. UdpIds
        BY <2>20, <4>1, NoOwnerTyped DEF IdsIn
      <4>4. udp[t][e] \notin ids
        BY <3>3, <4>1, <4>2, <4>3
      <4> QED
        BY <2>0, <4>1, <4>2, <4>3, <4>4 DEF Removed
    <3>7. Kept(unset, owner1, ring1, dhcpId, dhcpAgain)
      <4>1. \A o \in ids : o # 0 => udpOwner[o].who # "dhcp"
        BY <3>3, <3>0 DEF Handlers
      <4> QED
        BY <2>0, <3>6, <4>1, Removing
    <3>8. UdpTypes(owner1, ring1, dhcpId)
      BY <2>0, RemovedProperties, SkippedProperties DEF UdpTypes
    <3>9. IdsIn(unset)
      BY <2>20, <3>4, NoOwnerTyped DEF IdsIn
    <3> HIDE DEF owner1, ring1
    <3>10. /\ udpOwner'[id] = mine
           /\ Elsewhere(unset, id)
           /\ SlotsKept(unset, udpOwner') /\ SignalsKept(ring1, udpOwner') /\ DhcpKept(ring1, udpOwner', dhcpId)
           /\ ~dhcpAgain => DhcpCovered(ring1, udpOwner', dhcpId)
      <4>1. mine.who # "dhcp"
        OBVIOUS
      <4>2. Renamed(owner1, id, mine, udpOwner')
        BY <3>2 DEF Renamed
      <4>3. mine \in Owners
        BY <3>0
      <4> HIDE DEF mine
      <4> QED
        BY <3>7, <3>8, <3>9, <4>1, <4>2, <4>3, Giving
    <3>11. SlotsKept(udp', udpOwner')
      <4> SUFFICES ASSUME NEW t \in DOMAIN udp, NEW e \in Handlers, udp'[t].live, udp'[t][e] # 0
                   PROVE  udpOwner'[udp'[t][e]] = [who |-> e, s |-> t]
        BY <3>5 DEF SlotsKept
      <4>1. CASE t = s /\ e = event
        BY <3>5, <3>10, <4>1
      <4>2. CASE ~(t = s /\ e = event)
        BY <3>4, <3>5, <3>10, <4>2 DEF SlotsKept, Elsewhere
      <4> QED
        BY <4>1, <4>2
    <3> QED
      BY <2>0, <3>1, <3>10, <3>11 DEF Kept
  <2>6. ASSUME NEW s \in Sockets, NEW event \in {"message", "error"}, OnNull(s, event) PROVE FALSE
    BY <2>6 DEF OnNull
  <2>7. CASE Dhcp
    <3>1. PICK id \in 1 .. UdpIds, new \in Owners :
            /\ udpOwner[id] = NoOwner /\ dhcpId' = id /\ new.who = "dhcp"
            /\ udpOwner' = [udpOwner EXCEPT ![id] = new]
      <4>1. [who |-> "dhcp", s |-> udpCount.calls] \in Owners
        BY DEF Owners, Kinds, UdpType, UdpCounts
      <4> QED
        BY <2>7, <4>1 DEF Dhcp, GivenNext
    <3>2. /\ ~Waiting(udpRing, id) /\ udpOwner'[id] = new
          /\ Others(udpOwner, id, udpOwner')
          /\ udpOwner' \in [1 .. UdpIds -> Owners]
          /\ SlotsKept(udp, udpOwner') /\ SignalsKept(udpRing, udpOwner')
      <4>1. Renamed(udpOwner, id, new, udpOwner')
        BY <3>1 DEF Renamed
      <4> QED
        BY <2>0, <2>20, <4>1, Giving
    <3>3. DhcpKept(udpRing, udpOwner', dhcpId')
      BY <3>1, <3>2 DEF DhcpKept
    <3>4. ~dhcpAgain' => DhcpCovered(udpRing, udpOwner', dhcpId')
      <4> SUFFICES ASSUME ~dhcpAgain, dhcpId = 0, NEW o \in 1 .. UdpIds,
                          udpOwner'[o].who = "dhcp", o # id
                   PROVE  Waiting(udpRing, o)
        BY <2>7, <3>1, <3>2 DEF Dhcp, DhcpCovered
      <4>1. udpOwner[o].who = "dhcp" /\ o # dhcpId
        BY <3>2, NoOwnerTyped DEF Others
      <4> QED
        BY <2>0, <4>1 DEF Kept, DhcpCovered
    <3> QED
      BY <2>0, <2>7, <3>2, <3>3, <3>4 DEF Kept, Dhcp
  <2>8. CASE DhcpCallback
    <3> DEFINE item == [id |-> dhcpId, for |-> [who |-> "dhcp", s |-> 0]]
    <3>1. UNCHANGED <<udp, udpOwner, udpServed, dhcpAgain>> /\ dhcpId' = 0
          /\ udpRing' = UdpSignal(dhcpId, [who |-> "dhcp", s |-> 0])
      BY <2>8 DEF DhcpCallback
    <3>2. CASE dhcpId = 0
      <4>1. udpRing' = udpRing
        BY <3>1, <3>2 DEF UdpSignal
      <4> QED
        BY <2>0, <3>1, <3>2, <4>1
    <3>3. CASE dhcpId # 0
      <4>1. udpOwner[dhcpId].who = "dhcp" /\ udpOwner[dhcpId] # NoOwner
        BY <2>0, <3>3 DEF Kept, DhcpKept, NoOwner
      <4>2. udpRing' = Append(udpRing, item)
        BY <3>1, <3>3, <4>1 DEF UdpSignal
      <4>3. item \in UdpPending
        BY <2>0 DEF UdpPending, Owners, Kinds
      <4>4. item.for.who \in Kinds
        BY DEF Kinds
      <4>5. SignalsKept(udpRing', udpOwner)
            /\ \A id : Waiting(udpRing', id) <=> Waiting(udpRing, id) \/ id = dhcpId
        <5>1. item.id = dhcpId /\ item.id # 0 /\ udpOwner[item.id].who = item.for.who
              /\ (item.for.who # "dhcp" => udpOwner[item.id].s = item.for.s) /\ SignalsKept(udpRing, udpOwner)
          BY <2>0, <3>3, <4>1 DEF Kept
        <5> HIDE DEF item
        <5> QED
          BY <2>0, <4>2, <4>3, <4>4, <5>1, Queueing
      <4>6. ~dhcpAgain => DhcpCovered(udpRing', udpOwner, 0)
        BY <2>0, <4>5 DEF Kept, DhcpCovered
      <4>7. DhcpKept(udpRing', udpOwner, 0)
        BY DEF DhcpKept
      <4> QED
        BY <2>0, <3>1, <4>5, <4>6, <4>7 DEF Kept
    <3> QED
      BY <3>2, <3>3
  <2>9. ASSUME NEW s \in Sockets, UdpReceived(s)
        PROVE  Kept(udp', udpOwner', udpRing', dhcpId', dhcpAgain') /\ ServedRight'
    <3> DEFINE item == [id |-> udp[s].message, for |-> [who |-> "message", s |-> s]]
    <3>1. UNCHANGED <<udp, udpOwner, udpServed, dhcpId, dhcpAgain>> /\ udp[s].live
          /\ udpRing' = UdpSignal(udp[s].message, [who |-> "message", s |-> s])
      BY <2>9 DEF UdpReceived
    <3>2. CASE udp[s].message = 0
      <4>1. udpRing' = udpRing
        BY <3>1, <3>2 DEF UdpSignal
      <4> QED
        BY <2>0, <3>1, <4>1
    <3>3. CASE udp[s].message # 0
      <4>1. udpOwner[udp[s].message] = [who |-> "message", s |-> s]
        BY <2>0, <2>21, <3>1, <3>3 DEF Kept, SlotsKept, Handlers
      <4>2. udpRing' = Append(udpRing, item)
        BY <3>1, <3>3, <4>1 DEF UdpSignal, NoOwner
      <4>3. item \in UdpPending
        BY <2>21 DEF UdpPending, Owners, Kinds, Handlers, UdpSocket
      <4>4. item.for.who \in Kinds /\ item.for.who # "dhcp"
        BY DEF Kinds, Handlers
      <4>5. SignalsKept(udpRing', udpOwner)
            /\ \A id : Waiting(udpRing', id) <=> Waiting(udpRing, id) \/ id = udp[s].message
        <5>1. item.id = udp[s].message /\ item.id # 0 /\ udpOwner[item.id].who = item.for.who
              /\ (item.for.who # "dhcp" => udpOwner[item.id].s = item.for.s) /\ SignalsKept(udpRing, udpOwner)
          BY <2>0, <3>3, <4>1 DEF Kept
        <5> HIDE DEF item
        <5> QED
          BY <2>0, <4>2, <4>3, <4>4, <5>1, Queueing
      <4>6. ~dhcpAgain => DhcpCovered(udpRing', udpOwner, dhcpId)
        BY <2>0, <4>5 DEF Kept, DhcpCovered
      <4>7. DhcpKept(udpRing', udpOwner, dhcpId)
        BY <2>0, <4>1, <4>5 DEF Kept, DhcpKept
      <4> QED
        BY <2>0, <3>1, <4>5, <4>6, <4>7 DEF Kept
    <3> QED
      BY <3>2, <3>3
  <2>10. ASSUME NEW f \in sends, UdpSent(f)
         PROVE  Kept(udp', udpOwner', udpRing', dhcpId', dhcpAgain') /\ ServedRight'
    <3> DEFINE new == [who |-> "sent", s |-> f.n]
    <3>0. new \in Owners /\ new.who \in Kinds /\ new.who # "dhcp"
      BY DEF Owners, Kinds, UdpType
    <3>1. PICK id \in 1 .. UdpIds :
            /\ udpOwner[id] = NoOwner /\ udpOwner' = [udpOwner EXCEPT ![id] = new]
            /\ udpRing' = Append(udpRing, [id |-> id, for |-> new])
            /\ UNCHANGED <<udp, dhcpId, udpServed, dhcpAgain>>
      BY <2>10 DEF UdpSent, GivenNext
    <3> HIDE DEF new
    <3>2. /\ id # dhcpId /\ udpOwner'[id] = new
          /\ udpOwner' \in [1 .. UdpIds -> Owners]
          /\ SlotsKept(udp, udpOwner') /\ SignalsKept(udpRing, udpOwner')
          /\ DhcpKept(udpRing, udpOwner', dhcpId)
          /\ ~dhcpAgain => DhcpCovered(udpRing, udpOwner', dhcpId)
      <4>1. Renamed(udpOwner, id, new, udpOwner')
        BY <3>1 DEF Renamed
      <4> QED
        BY <2>0, <2>20, <3>0, <4>1, Giving
    <3>3. SignalsKept(udpRing', udpOwner')
          /\ \A o : Waiting(udpRing', o) <=> Waiting(udpRing, o) \/ o = id
      <4>1. [id |-> id, for |-> new] \in UdpPending
        BY <3>0 DEF UdpPending
      <4>2. id # 0
        BY NoOwnerTyped
      <4> DEFINE item == [id |-> id, for |-> new]
      <4>3. item.id = id /\ item.for = new /\ udpRing' = Append(udpRing, item) /\ item \in UdpPending
        BY <3>1, <4>1
      <4> HIDE DEF item
      <4> QED
        BY <2>0, <3>0, <3>2, <4>2, <4>3, Queueing
    <3>4. DhcpKept(udpRing', udpOwner', dhcpId) /\ (~dhcpAgain => DhcpCovered(udpRing', udpOwner', dhcpId))
      BY <3>2, <3>3 DEF DhcpKept, DhcpCovered
    <3> QED
      BY <2>0, <3>1, <3>2, <3>3, <3>4 DEF Kept
  <2>11. CASE UdpService
    <3> DEFINE signal == Head(udpRing)
               owner  == udpOwner[signal.id]
               ended  == IF owner.who \in {"sent", "dhcp"} THEN {signal.id} ELSE {}
               rest   == Tail(udpRing)
    <3>1. /\ udpRing # <<>> /\ signal.id # 0
          /\ udpServed' = udpServed \cup {<<owner.who, signal.for.who,
                                            signal.for.who = "dhcp" \/ owner.s = signal.for.s>>}
          /\ udpOwner' = Removed(udpOwner, ended) /\ udpRing' = Skipped(rest, ended)
          /\ UNCHANGED <<udp, dhcpId, dhcpAgain>>
      BY <2>11, Zenon DEF UdpService
    <3>2. /\ rest \in Seq(UdpPending) /\ SignalsKept(rest, udpOwner)
          /\ 1 \in DOMAIN udpRing /\ signal = udpRing[1]
          /\ \A id : Waiting(rest, id) => Waiting(udpRing, id)
          /\ \A id : Waiting(udpRing, id) /\ id # signal.id => Waiting(rest, id)
      BY <2>0, <3>1, Taking DEF Kept
    <3>3. /\ signal.for.who \in Kinds /\ owner.who = signal.for.who
          /\ signal.for.who # "dhcp" => owner.s = signal.for.s
      BY <2>0, <3>1, <3>2 DEF Kept, SignalsKept
    <3>4. signal.id \in 1 .. UdpIds /\ Waiting(udpRing, signal.id) /\ signal.id # dhcpId
      BY <2>0, <3>1, <3>2, WaitingTyped DEF Kept, DhcpKept
    <3>5. ServedRight'
      <4>1. signal.for.who = "dhcp" \/ owner.s = signal.for.s
        BY <3>3
      <4> DEFINE here == signal.for.who = "dhcp" \/ owner.s = signal.for.s
      <4>2. udpServed' = udpServed \cup {<<owner.who, signal.for.who, here>>}
        BY <3>1
      <4>3. owner.who = signal.for.who /\ here
        BY <3>3, <4>1
      <4> HIDE DEF signal, owner, here
      <4>4. \A served \in udpServed' : served \in udpServed \/ served = <<owner.who, signal.for.who, here>>
        BY <4>2
      <4>5. ASSUME NEW served, served = <<owner.who, signal.for.who, here>>
            PROVE  served[1] = served[2] /\ served[3]
        BY <4>3, <4>5
      <4> QED
        BY <2>0, <4>4, <4>5
    <3> HIDE DEF signal, rest
    <3>6. DhcpKept(rest, udpOwner, dhcpId)
      BY <2>0, <3>2 DEF Kept, DhcpKept
    <3>7. CASE ended = {}
      <4>1. owner.who # "dhcp"
        BY <3>7
      <4>2. ~dhcpAgain => DhcpCovered(rest, udpOwner, dhcpId)
        BY <2>0, <3>2, <4>1 DEF Kept, DhcpCovered
      <4>3. Kept(udp, udpOwner, rest, dhcpId, dhcpAgain)
        BY <2>0, <3>2, <3>6, <4>2 DEF Kept
      <4>4. udpOwner' = udpOwner /\ udpRing' = rest
        <5>1. DOMAIN rest = 1 .. Len(rest) /\ rest = [i \in DOMAIN rest |-> rest[i]]
          BY <3>2, LenProperties, ElementOfSeq
        <5> QED
          BY <2>0, <3>1, <3>7, <5>1 DEF Removed, Skipped
      <4> QED
        BY <3>1, <3>5, <4>3, <4>4
    <3>8. CASE ended = {signal.id}
      <4>1. owner.who \in {"sent", "dhcp"}
        BY <3>8
      <4> DEFINE owner2 == Removed(udpOwner, {signal.id})
                 ring2  == Skipped(rest, {signal.id})
      <4>2. /\ owner2 \in [1 .. UdpIds -> Owners]
            /\ \A id \in 1 .. UdpIds : owner2[id] = IF id = signal.id THEN NoOwner ELSE udpOwner[id]
        BY <2>0, NoOwnerTyped DEF Removed
      <4>3. DOMAIN ring2 = DOMAIN rest
            /\ \A i \in DOMAIN rest : ring2[i] = IF rest[i].id = signal.id THEN Gone ELSE rest[i]
        BY <3>2, SkippedProperties
      <4>4. udpOwner' = owner2 /\ udpRing' = ring2
        BY <3>1, <3>8
      <4> HIDE DEF owner2, ring2
      <4>5. SlotsKept(udp, owner2)
        <5> SUFFICES ASSUME NEW s \in DOMAIN udp, NEW event \in Handlers, udp[s].live, udp[s][event] # 0
                     PROVE  owner2[udp[s][event]] = [who |-> event, s |-> s]
          BY DEF SlotsKept
        <5>1. udpOwner[udp[s][event]] = [who |-> event, s |-> s]
          BY <2>0 DEF Kept, SlotsKept
        <5>2. udp[s][event] # signal.id
          BY <4>1, <5>1 DEF Handlers
        <5>3. udp[s][event] \in 1 .. UdpIds
          BY <2>20, NoOwnerTyped DEF IdsIn
        <5> QED
          BY <4>2, <5>1, <5>2, <5>3
      <4>6. \A id : id # signal.id /\ id # 0 => (Waiting(ring2, id) <=> Waiting(rest, id))
        BY <4>3 DEF Waiting, Gone
      <4>7. SignalsKept(ring2, owner2)
        <5> SUFFICES ASSUME NEW i \in DOMAIN rest, ring2[i].id # 0
                     PROVE  /\ ring2[i].for.who \in Kinds
                            /\ owner2[ring2[i].id].who = ring2[i].for.who
                            /\ ring2[i].for.who # "dhcp" => owner2[ring2[i].id].s = ring2[i].for.s
          BY <4>3 DEF SignalsKept
        <5>1. ring2[i] = rest[i] /\ rest[i].id # signal.id
          BY <4>3 DEF Gone
        <5>2. rest[i].id \in 1 .. UdpIds
          BY <3>2, <5>1, WaitingTyped
        <5>3. owner2[rest[i].id] = udpOwner[rest[i].id]
          BY <4>2, <5>1, <5>2
        <5> QED
          BY <3>2, <5>1, <5>3 DEF SignalsKept
      <4>8. DhcpKept(ring2, owner2, dhcpId)
        <5> SUFFICES ASSUME dhcpId # 0 PROVE owner2[dhcpId].who = "dhcp" /\ ~Waiting(ring2, dhcpId)
          BY DEF DhcpKept
        <5>1. dhcpId \in 1 .. UdpIds
          BY <2>0, NoOwnerTyped
        <5> QED
          BY <3>4, <3>6, <4>2, <4>6, <5>1 DEF DhcpKept
      <4>9. ~dhcpAgain => DhcpCovered(ring2, owner2, dhcpId)
        <5> SUFFICES ASSUME ~dhcpAgain, NEW o \in 1 .. UdpIds, owner2[o].who = "dhcp", o # dhcpId
                     PROVE  Waiting(ring2, o)
          BY <4>2 DEF DhcpCovered
        <5>1. o # signal.id /\ udpOwner[o].who = "dhcp" /\ o # 0
          BY <4>2, NoOwnerTyped DEF NoOwner
        <5>2. Waiting(udpRing, o)
          BY <2>0, <5>1 DEF Kept, DhcpCovered
        <5> QED
          BY <3>2, <4>6, <5>1, <5>2
      <4> QED
        BY <3>1, <3>5, <4>4, <4>5, <4>7, <4>8, <4>9 DEF Kept
    <3> QED
      BY <3>7, <3>8
  <2>12. CASE UdpSkip
    <3>1. udpRing # <<>> /\ Head(udpRing).id = 0 /\ udpRing' = Tail(udpRing)
          /\ UNCHANGED <<udp, udpOwner, udpServed, dhcpId, dhcpAgain>>
      BY <2>12 DEF UdpSkip
    <3>2. /\ SignalsKept(udpRing', udpOwner)
          /\ \A id : Waiting(udpRing', id) => Waiting(udpRing, id)
          /\ \A id : Waiting(udpRing, id) /\ id # 0 => Waiting(udpRing', id)
      BY <2>0, <3>1, Taking DEF Kept
    <3>3. DhcpKept(udpRing', udpOwner, dhcpId)
      BY <2>0, <3>2 DEF Kept, DhcpKept
    <3>4. ~dhcpAgain => DhcpCovered(udpRing', udpOwner, dhcpId)
      <4>1. \A o \in DOMAIN udpOwner : o # 0
        BY <2>0, NoOwnerTyped
      <4> QED
        BY <2>0, <3>2, <4>1 DEF Kept, DhcpCovered
    <3> QED
      BY <2>0, <3>1, <3>2, <3>3, <3>4 DEF Kept
  <2>13. ASSUME NEW reason, UdpFails(reason)
         PROVE  Kept(udp', udpOwner', udpRing', dhcpId', dhcpAgain') /\ ServedRight'
    <3>1. udp' = <<>> /\ udpRing' = <<>> /\ dhcpId' = 0 /\ udpServed' = {}
          /\ udpOwner' = [id \in 1 .. UdpIds |-> NoOwner]
      BY <2>13 DEF UdpFails
    <3> QED
      BY <3>1 DEF Kept, SlotsKept, SignalsKept, DhcpKept, DhcpCovered, NoOwner
  <2>14. ASSUME NEW f \in sends, ScriptDropsFunction(f)
         PROVE  Kept(udp', udpOwner', udpRing', dhcpId', dhcpAgain') /\ ServedRight'
    BY <2>0, <2>14 DEF ScriptDropsFunction
  <2>15. CASE UNCHANGED udpVars
    BY <2>0, <2>15
  <2> QED
    BY <2>1, <2>2, <2>3, <2>4, <2>5, <2>6, <2>7, <2>8, <2>9, <2>10, <2>11, <2>12, <2>13, <2>14, <2>15
       DEF DgramNext, UsesClosed, UdpSentDropped
<1> QED
  BY <1>1, <1>2

\* A datagram, an end of a send and an address reach the function they are for, and the
\* callback of dhcp waits for one thing: an address, or its call.
THEOREM UdpReachesItsOwnTheorem == DgramSpec => []UdpReachesItsOwn
<1>1. DgramInit => UdpInv
  <2> SUFFICES ASSUME DgramInit PROVE UdpInv
    OBVIOUS
  <2>1. udp = <<>> /\ udpRing = <<>> /\ dhcpId = 0 /\ udpServed = {}
        /\ udpOwner = [id \in 1 .. UdpIds |-> NoOwner]
    BY DEF DgramInit
  <2> QED
    BY <2>1 DEF UdpInv, SlotsKept, SignalsKept, DhcpKept, DhcpCovered, ServedRight, NoOwner
<1>2. UdpType /\ UdpInv /\ [DgramNext]_udpVars => UdpInv'
  BY UdpInvKept
<1>3. UdpType /\ UdpInv => UdpReachesItsOwn
  <2> SUFFICES ASSUME UdpType, UdpInv, ~nulled,
                      NEW id \in DOMAIN udpOwner, ~dhcpAgain, udpOwner[id].who = "dhcp"
               PROVE  (id = dhcpId) # Waiting(udpRing, id)
    BY DEF UdpReachesItsOwn, UdpInv, ServedRight, Waiting
  <2>1. id # 0
    BY NoOwnerTyped DEF UdpType
  <2>2. id # dhcpId => Waiting(udpRing, id)
    BY DEF UdpInv, DhcpCovered
  <2>3. id = dhcpId => ~Waiting(udpRing, id)
    BY <2>1 DEF UdpInv, DhcpKept
  <2>4. Waiting(udpRing, id) \in BOOLEAN
    BY DEF Waiting
  <2> QED
    BY <2>2, <2>3, <2>4
<1> QED
  BY <1>1, <1>2, <1>3, UdpTyped, PTL DEF DgramSpec

-----------------------------------------------------------------------------
(***************************************************************************)
(* OCF.                                                                    *)
(***************************************************************************)
OcfFilter == [id : STRING, type : STRING, path : STRING]
OcfEntry  == [filter : OcfFilter, found : OcfFilter \cup {Unknown}, observe : BOOLEAN, observers : Nat]
OcfKinds  == {"find", "get", "put", "info"}
OcfCall   == [kind : OcfKinds, entry : Nat, state : {"pending", "resolved", "rejected"}, got : Nat,
              live : BOOLEAN, alone : BOOLEAN]

OcfType == entries \in Seq(OcfEntry) /\ ocfCalls \in Seq(OcfCall)

\* The searches that wait, and the entries that are still searched for.
Find(i) == ocfCalls[i].kind = "find"
Pending == {i \in DOMAIN ocfCalls : Find(i) /\ ocfCalls[i].state = "pending"}
Sought  == {e \in DOMAIN entries : Searching(e)}

\* What was found is what its filter wants.
FoundWanted == \A e \in DOMAIN entries : ~Searching(e) => Wants(entries[e].filter, entries[e].found)

\* A search has an entry, and the stack calls back for it until it is fulfilled.
FindsHaveEntries ==
  \A i \in DOMAIN ocfCalls : Find(i) =>
    /\ ocfCalls[i].entry \in DOMAIN entries
    /\ ocfCalls[i].state \in {"pending", "resolved"}
    /\ ocfCalls[i].live <=> ocfCalls[i].state = "pending"

\* A search that met no other.
AloneFindsOwn ==
  \A i \in DOMAIN ocfCalls : Find(i) /\ ocfCalls[i].alone =>
    /\ ocfCalls[i].state = "pending" => Pending = {i} /\ Sought = {ocfCalls[i].entry}
    /\ ocfCalls[i].state = "resolved" =>
         ~Searching(ocfCalls[i].entry) /\ ocfCalls[i].got = ocfCalls[i].entry

\* Each discovery fulfils one search and finds one entry.
AsManyPending ==
  IsFiniteSet(Pending) /\ IsFiniteSet(Sought) /\ Cardinality(Pending) = Cardinality(Sought)

OcfInv ==
  /\ ~ocfUp => entries = <<>>
  /\ ocfUp => FoundWanted /\ FindsHaveEntries /\ AloneFindsOwn /\ AsManyPending

\* Parts of it that are about the calls, which other actions add or answer.
SameFinds ==
  /\ DOMAIN ocfCalls \subseteq DOMAIN ocfCalls'
  /\ \A i \in DOMAIN ocfCalls' : Find(i)' => i \in DOMAIN ocfCalls /\ ocfCalls'[i] = ocfCalls[i]
  /\ \A i \in DOMAIN ocfCalls : Find(i) => ocfCalls'[i] = ocfCalls[i]

SameEntries ==
  /\ DOMAIN entries' = DOMAIN entries
  /\ \A e \in DOMAIN entries : entries'[e].filter = entries[e].filter /\ entries'[e].found = entries[e].found

LEMMA RemotesTyped ==
  /\ Filters \subseteq OcfFilter /\ Remotes \subseteq OcfFilter
  /\ \A r \in Remotes : r # Unknown
<1>1. Filters \subseteq OcfFilter /\ Remotes \subseteq OcfFilter
  BY OcfAssumption DEF OcfFilter
<1>3. Unknown.id = ""
  BY DEF Unknown
<1>2. \A r \in Remotes : r # Unknown
  <2> TAKE r \in Remotes
  <2>1. r.id # ""
    BY OcfAssumption
  <2> QED
    BY <2>1, <1>3
<1> QED
  BY <1>1, <1>2, <1>3

LEMMA SameKept ==
  ASSUME OcfInv, SameFinds, SameEntries, UNCHANGED ocfUp, ~ocfUp => entries' = entries
  PROVE  OcfInv'
<1> SUFFICES ASSUME ocfUp PROVE FoundWanted' /\ FindsHaveEntries' /\ AloneFindsOwn' /\ AsManyPending'
  BY DEF OcfInv
<1>0. FoundWanted /\ FindsHaveEntries /\ AloneFindsOwn /\ AsManyPending
  BY DEF OcfInv
<1>1. DOMAIN entries' = DOMAIN entries /\ \A e \in DOMAIN entries : Searching(e)' <=> Searching(e)
  BY DEF SameEntries, Searching
<1>2. Sought' = Sought
  BY <1>1 DEF Sought
<1>3. \A i : (i \in DOMAIN ocfCalls /\ Find(i)) <=> (i \in DOMAIN ocfCalls' /\ Find(i)')
  BY DEF SameFinds, Find
<1>4. \A i \in DOMAIN ocfCalls' : Find(i)' => Find(i) /\ i \in DOMAIN ocfCalls /\ ocfCalls'[i] = ocfCalls[i]
  BY <1>3 DEF SameFinds
<1>5. Pending' = Pending
  BY <1>3, <1>4 DEF Pending
<1>6. FoundWanted'
  BY <1>0, <1>1 DEF FoundWanted, SameEntries
<1>7. FindsHaveEntries'
  BY <1>0, <1>1, <1>4 DEF FindsHaveEntries
<1>8. AloneFindsOwn'
  <2> SUFFICES ASSUME NEW i \in DOMAIN ocfCalls', Find(i)', ocfCalls'[i].alone
               PROVE  /\ ocfCalls'[i].state = "pending" => Pending' = {i} /\ Sought' = {ocfCalls'[i].entry}
                      /\ ocfCalls'[i].state = "resolved" =>
                           /\ entries'[ocfCalls'[i].entry].found # Unknown
                           /\ ocfCalls'[i].got = ocfCalls'[i].entry
    BY DEF AloneFindsOwn, Searching
  <2>1. ocfCalls'[i] = ocfCalls[i] /\ i \in DOMAIN ocfCalls /\ Find(i)
    BY <1>4
  <2>2. ocfCalls[i].entry \in DOMAIN entries
    BY <1>0, <2>1 DEF FindsHaveEntries
  <2>3. entries'[ocfCalls'[i].entry].found = entries[ocfCalls[i].entry].found
    BY <2>1, <2>2 DEF SameEntries
  <2> QED
    BY <1>0, <1>2, <1>5, <2>1, <2>3 DEF AloneFindsOwn, Searching
<1>9. AsManyPending'
  BY <1>0, <1>2, <1>5 DEF AsManyPending
<1> QED
  BY <1>6, <1>7, <1>8, <1>9

\* A call that is no search is added.
LEMMA AddedKept ==
  ASSUME OcfType, NEW c \in OcfCall, c.kind # "find", ocfCalls' = Append(ocfCalls, c)
  PROVE  ocfCalls' \in Seq(OcfCall) /\ SameFinds
<1> PICK n \in Nat : n = Len(ocfCalls) /\ DOMAIN ocfCalls = 1 .. n
  BY LenProperties DEF OcfType
<1>1. ocfCalls' \in Seq(OcfCall) /\ Len(ocfCalls') = n + 1
  BY AppendProperties DEF OcfType
<1>2. DOMAIN ocfCalls' = 1 .. n + 1 /\ ocfCalls'[n + 1] = c /\ \A i \in 1 .. n : ocfCalls'[i] = ocfCalls[i]
  BY <1>1, AppendProperties, LenProperties DEF OcfType
<1>3. \A i \in 1 .. n + 1 : i = n + 1 \/ i \in 1 .. n
  OBVIOUS
<1>4. 1 .. n \subseteq 1 .. n + 1
  OBVIOUS
<1> QED
  BY <1>1, <1>2, <1>3, <1>4 DEF SameFinds, Find

\* A search adds an entry that nothing was found for.
LEMMA FindResourcesKept ==
  ASSUME OcfType, OcfInv, NEW f \in Filters, FindResources(f)
  PROVE  OcfType' /\ OcfInv'
<1>0. ocfUp /\ UNCHANGED ocfUp /\ FoundWanted /\ FindsHaveEntries /\ AloneFindsOwn /\ AsManyPending
  BY DEF FindResources, Script, OcfInv
<1> PICK n \in Nat : n = Len(entries) /\ DOMAIN entries = 1 .. n
  BY LenProperties DEF OcfType
<1> PICK k \in Nat : k = Len(ocfCalls) /\ DOMAIN ocfCalls = 1 .. k
  BY LenProperties DEF OcfType
<1> DEFINE new   == [filter |-> f, found |-> Unknown, observe |-> FALSE, observers |-> 0]
           alone == \A e \in DOMAIN entries : ~Searching(e)
           call  == Call("find", n + 1, "pending", alone)
           older == [i \in 1 .. k |-> [ocfCalls[i] EXCEPT !.alone = @ /\ ocfCalls[i].state # "pending"]]
<1>1. entries' = Append(entries, new) /\ ocfCalls' = Append(older, call)
  BY DEF FindResources
<1>2. new \in OcfEntry /\ new.found = Unknown
  BY RemotesTyped DEF OcfEntry
<1>3. call \in OcfCall /\ call.kind = "find" /\ call.entry = n + 1 /\ call.state = "pending" /\ call.live
      /\ call.alone = alone
  <2>1. alone \in BOOLEAN
    OBVIOUS
  <2>2. n + 1 \in Nat
    OBVIOUS
  <2> HIDE DEF alone
  <2>3. Call("find", n + 1, "pending", alone) \in OcfCall
    BY <2>1, <2>2 DEF OcfCall, OcfKinds, Call
  <2> QED
    BY <2>3 DEF Call
<1>4. ASSUME NEW i \in 1 .. k
      PROVE  /\ older[i] \in OcfCall /\ older[i].kind = ocfCalls[i].kind
             /\ older[i].entry = ocfCalls[i].entry /\ older[i].state = ocfCalls[i].state
             /\ older[i].got = ocfCalls[i].got /\ older[i].live = ocfCalls[i].live
             /\ older[i].alone <=> ocfCalls[i].alone /\ ocfCalls[i].state # "pending"
  <2>1. ocfCalls[i] \in OcfCall
    BY ElementOfSeq DEF OcfType
  <2> QED
    BY <2>1 DEF OcfCall
<1>5. older \in Seq(OcfCall) /\ Len(older) = k
  <2>1. older \in [1 .. k -> OcfCall]
    BY <1>4
  <2>2. older \in Seq(OcfCall)
    BY <2>1, IsASeq
  <2> QED
    BY <2>2, LenProperties
<1> HIDE DEF new, call, older
<1>6. /\ entries' \in Seq(OcfEntry) /\ DOMAIN entries' = 1 .. n + 1 /\ entries'[n + 1] = new
      /\ \A e \in 1 .. n : entries'[e] = entries[e]
  <2>1. entries' \in Seq(OcfEntry) /\ Len(entries') = n + 1
    BY <1>1, <1>2, AppendProperties DEF OcfType
  <2> QED
    BY <1>1, <1>2, <2>1, AppendProperties, LenProperties DEF OcfType
<1>7. /\ ocfCalls' \in Seq(OcfCall) /\ DOMAIN ocfCalls' = 1 .. k + 1 /\ ocfCalls'[k + 1] = call
      /\ \A i \in 1 .. k : ocfCalls'[i] = older[i]
  <2>1. ocfCalls' \in Seq(OcfCall) /\ Len(ocfCalls') = k + 1
    BY <1>1, <1>3, <1>5, AppendProperties
  <2> QED
    BY <1>1, <1>3, <1>5, <2>1, AppendProperties, LenProperties
<1>8. /\ \A e : e \in 1 .. n + 1 <=> e \in 1 .. n \/ e = n + 1
      /\ \A i : i \in 1 .. k + 1 <=> i \in 1 .. k \/ i = k + 1
      /\ n + 1 \notin 1 .. n /\ k + 1 \notin 1 .. k
  OBVIOUS
<1>9. Sought' = Sought \cup {n + 1}
  <2>1. \A e \in 1 .. n : Searching(e)' <=> Searching(e)
    BY <1>6 DEF Searching
  <2>2. Searching(n + 1)'
    BY <1>2, <1>6 DEF Searching
  <2>3. ASSUME NEW e PROVE e \in Sought' <=> e \in Sought \/ e = n + 1
    BY <1>6, <1>8, <2>1, <2>2 DEF Sought
  <2> QED
    BY <2>3
<1>10. Pending' = Pending \cup {k + 1}
  <2>1. \A i \in 1 .. k : /\ Find(i)' <=> Find(i)
                          /\ ocfCalls'[i].state = ocfCalls[i].state
    BY <1>4, <1>7 DEF Find
  <2>2. Find(k + 1)' /\ ocfCalls'[k + 1].state = "pending"
    BY <1>3, <1>7 DEF Find
  <2>3. ASSUME NEW i PROVE i \in Pending' <=> i \in Pending \/ i = k + 1
    BY <1>7, <1>8, <2>1, <2>2 DEF Pending
  <2> QED
    BY <2>3
<1>11. n + 1 \notin Sought /\ k + 1 \notin Pending
  BY <1>8 DEF Sought, Pending
<1>12. AsManyPending'
  <2>1. IsFiniteSet(Sought') /\ Cardinality(Sought') = Cardinality(Sought) + 1
    BY <1>0, <1>9, <1>11, FS_AddElement DEF AsManyPending
  <2>2. IsFiniteSet(Pending') /\ Cardinality(Pending') = Cardinality(Pending) + 1
    BY <1>0, <1>10, <1>11, FS_AddElement DEF AsManyPending
  <2> QED
    BY <1>0, <2>1, <2>2 DEF AsManyPending
<1>13. FoundWanted'
  <2> SUFFICES ASSUME NEW e \in 1 .. n + 1, entries'[e].found # Unknown
               PROVE  Wants(entries'[e].filter, entries'[e].found)
    BY <1>6 DEF FoundWanted, Searching
  <2>1. e \in 1 .. n /\ entries'[e] = entries[e]
    BY <1>2, <1>6, <1>8
  <2> QED
    BY <1>0, <2>1 DEF FoundWanted, Searching
<1>14. FindsHaveEntries'
  <2> SUFFICES ASSUME NEW i \in 1 .. k + 1, ocfCalls'[i].kind = "find"
               PROVE  /\ ocfCalls'[i].entry \in 1 .. n + 1
                      /\ ocfCalls'[i].state \in {"pending", "resolved"}
                      /\ ocfCalls'[i].live <=> ocfCalls'[i].state = "pending"
    BY <1>6, <1>7 DEF FindsHaveEntries, Find
  <2>1. CASE i = k + 1
    BY <1>3, <1>7, <1>8, <2>1
  <2>2. CASE i \in 1 .. k
    <3>1. Find(i) /\ ocfCalls'[i] = older[i]
      BY <1>4, <1>7, <2>2 DEF Find
    <3> QED
      BY <1>0, <1>4, <1>8, <2>2, <3>1 DEF FindsHaveEntries
  <2> QED
    BY <1>8, <2>1, <2>2
<1>15. AloneFindsOwn'
  <2> SUFFICES ASSUME NEW i \in 1 .. k + 1, ocfCalls'[i].kind = "find", ocfCalls'[i].alone
               PROVE  /\ ocfCalls'[i].state = "pending" => Pending' = {i} /\ Sought' = {ocfCalls'[i].entry}
                      /\ ocfCalls'[i].state = "resolved" =>
                           /\ entries'[ocfCalls'[i].entry].found # Unknown
                           /\ ocfCalls'[i].got = ocfCalls'[i].entry
    BY <1>7 DEF AloneFindsOwn, Find, Searching
  <2>1. CASE i = k + 1
    <3>1. Sought = {}
      BY <1>3, <1>7, <2>1 DEF Sought
    <3>2. Pending = {}
      BY <1>0, <3>1, FS_EmptySet DEF AsManyPending
    <3> QED
      BY <1>3, <1>7, <1>9, <1>10, <2>1, <3>1, <3>2
  <2>2. CASE i \in 1 .. k
    <3>1. Find(i) /\ ocfCalls'[i] = older[i] /\ ocfCalls[i].alone /\ ocfCalls[i].state # "pending"
      BY <1>4, <1>7, <2>2 DEF Find
    <3>2. ocfCalls[i].entry \in 1 .. n
      BY <1>0, <2>2, <3>1 DEF FindsHaveEntries
    <3> QED
      BY <1>0, <1>4, <1>6, <2>2, <3>1, <3>2 DEF AloneFindsOwn, Searching
  <2> QED
    BY <1>8, <2>1, <2>2
<1> QED
  BY <1>0, <1>6, <1>7, <1>12, <1>13, <1>14, <1>15 DEF OcfType, OcfInv

\* A discovery fulfils a search and finds an entry, which is the search's own if it is alone.
LEMMA DiscoveredKept ==
  ASSUME OcfType, OcfInv, NEW i \in DOMAIN ocfCalls, NEW r \in Remotes, Discovered(i, r)
  PROVE  OcfType' /\ OcfInv'
<1>0. ocfUp /\ UNCHANGED ocfUp /\ FoundWanted /\ FindsHaveEntries /\ AloneFindsOwn /\ AsManyPending
  BY DEF Discovered, OcfInv
<1> PICK e \in DOMAIN entries :
      /\ Searching(e) /\ Wants(entries[e].filter, r)
      /\ entries' = [entries EXCEPT ![e].found = r]
      /\ ocfCalls' = [ocfCalls EXCEPT ![i] = [@ EXCEPT !.state = "resolved", !.got = e, !.live = FALSE]]
  BY DEF Discovered
<1>1. ocfCalls[i] \in OcfCall /\ i \in 1 .. Len(ocfCalls) /\ entries[e] \in OcfEntry /\ e \in 1 .. Len(entries)
      /\ e \in Nat
  BY ElementOfSeq, LenProperties DEF OcfType
<1>2. Find(i) /\ ocfCalls[i].live /\ ocfCalls[i].state = "pending"
  BY <1>0 DEF Discovered, Find, FindsHaveEntries
<1>3. /\ DOMAIN entries' = DOMAIN entries /\ entries'[e].found = r /\ entries'[e].filter = entries[e].filter
      /\ \A d \in DOMAIN entries : d # e => entries'[d] = entries[d]
  BY <1>1 DEF OcfEntry
<1>4. /\ DOMAIN ocfCalls' = DOMAIN ocfCalls
      /\ ocfCalls'[i].kind = "find" /\ ocfCalls'[i].entry = ocfCalls[i].entry
      /\ ocfCalls'[i].state = "resolved" /\ ocfCalls'[i].got = e /\ ~ocfCalls'[i].live
      /\ ocfCalls'[i].alone = ocfCalls[i].alone
      /\ \A j \in DOMAIN ocfCalls : j # i => ocfCalls'[j] = ocfCalls[j]
  BY <1>1, <1>2 DEF OcfCall, Find
<1>5. entries' \in Seq(OcfEntry)
  <2>1. [entries[e] EXCEPT !.found = r] \in OcfEntry
    BY <1>1, RemotesTyped DEF OcfEntry
  <2> QED
    BY <1>1, <2>1, ExceptSeq DEF OcfType
<1>6. ocfCalls' \in Seq(OcfCall)
  <2>1. [ocfCalls[i] EXCEPT !.state = "resolved", !.got = e, !.live = FALSE] \in OcfCall
    BY <1>1 DEF OcfCall
  <2> QED
    BY <1>1, <2>1, ExceptSeq DEF OcfType
<1>7. r # Unknown
  BY RemotesTyped
<1>8. Sought' = Sought \ {e} /\ e \in Sought
  <2>1. ASSUME NEW d PROVE d \in Sought' <=> d \in Sought /\ d # e
    BY <1>3, <1>7 DEF Sought, Searching
  <2> QED
    BY <2>1 DEF Sought
<1>9. Pending' = Pending \ {i} /\ i \in Pending
  <2>1. ASSUME NEW j PROVE j \in Pending' <=> j \in Pending /\ j # i
    BY <1>4 DEF Pending, Find
  <2> QED
    BY <1>2, <2>1 DEF Pending
<1>10. AsManyPending'
  BY <1>0, <1>8, <1>9, FS_RemoveElement DEF AsManyPending
<1>11. FoundWanted'
  <2> SUFFICES ASSUME NEW d \in DOMAIN entries, entries'[d].found # Unknown
               PROVE  Wants(entries'[d].filter, entries'[d].found)
    BY <1>3 DEF FoundWanted, Searching
  <2>1. CASE d = e
    BY <1>3, <2>1
  <2>2. CASE d # e
    BY <1>0, <1>3, <2>2 DEF FoundWanted, Searching
  <2> QED
    BY <2>1, <2>2
<1>12. FindsHaveEntries'
  <2> SUFFICES ASSUME NEW j \in DOMAIN ocfCalls, ocfCalls'[j].kind = "find"
               PROVE  /\ ocfCalls'[j].entry \in DOMAIN entries
                      /\ ocfCalls'[j].state \in {"pending", "resolved"}
                      /\ ocfCalls'[j].live <=> ocfCalls'[j].state = "pending"
    BY <1>3, <1>4 DEF FindsHaveEntries, Find
  <2>1. CASE j = i
    BY <1>0, <1>2, <1>4, <2>1 DEF FindsHaveEntries
  <2>2. CASE j # i
    BY <1>0, <1>4, <2>2 DEF FindsHaveEntries, Find
  <2> QED
    BY <2>1, <2>2
<1>13. AloneFindsOwn'
  <2> SUFFICES ASSUME NEW j \in DOMAIN ocfCalls, ocfCalls'[j].kind = "find", ocfCalls'[j].alone
               PROVE  /\ ocfCalls'[j].state = "pending" => Pending' = {j} /\ Sought' = {ocfCalls'[j].entry}
                      /\ ocfCalls'[j].state = "resolved" =>
                           /\ entries'[ocfCalls'[j].entry].found # Unknown
                           /\ ocfCalls'[j].got = ocfCalls'[j].entry
    BY <1>4 DEF AloneFindsOwn, Find, Searching
  <2>1. CASE j = i
    <3>1. Sought = {ocfCalls[i].entry}
      BY <1>0, <1>2, <1>4, <2>1 DEF AloneFindsOwn
    <3>2. e = ocfCalls[i].entry
      BY <1>8, <3>1
    <3> QED
      BY <1>3, <1>4, <1>7, <2>1, <3>2
  <2>2. CASE j # i
    <3>1. ocfCalls'[j] = ocfCalls[j] /\ Find(j) /\ ocfCalls[j].alone
      BY <1>4, <2>2 DEF Find
    <3>2. ocfCalls[j].state # "pending"
      BY <1>0, <1>9, <2>2, <3>1 DEF AloneFindsOwn
    <3>3. ocfCalls[j].entry \in DOMAIN entries
      BY <1>0, <3>1 DEF FindsHaveEntries
    <3>4. ocfCalls[j].state = "resolved" =>
            entries[ocfCalls[j].entry].found # Unknown /\ ocfCalls[j].got = ocfCalls[j].entry
      BY <1>0, <3>1 DEF AloneFindsOwn, Searching
    <3>5. entries[e].found = Unknown
      BY DEF Searching
    <3>6. ocfCalls[j].state = "resolved" => entries'[ocfCalls[j].entry].found # Unknown
      BY <1>3, <3>3, <3>4, <3>5
    <3> QED
      BY <3>1, <3>2, <3>4, <3>6
  <2> QED
    BY <2>1, <2>2
<1> QED
  BY <1>0, <1>5, <1>6, <1>10, <1>11, <1>12, <1>13 DEF OcfType, OcfInv

LEMMA OcfKept == OcfType /\ OcfInv /\ [OcfNext]_ocfVars => OcfType' /\ OcfInv'
<1> SUFFICES ASSUME OcfType, OcfInv, [OcfNext]_ocfVars PROVE OcfType' /\ OcfInv'
  OBVIOUS
<1>1. ASSUME UNCHANGED <<entries, ocfUp>>, SameFinds, ocfCalls' \in Seq(OcfCall)
      PROVE  OcfType' /\ OcfInv'
  <2>1. SameEntries
    BY <1>1 DEF SameEntries
  <2> QED
    BY <1>1, <2>1, SameKept DEF OcfType
<1>2. ASSUME UNCHANGED <<entries, ocfCalls, ocfUp>> PROVE OcfType' /\ OcfInv'
  <2>1. SameFinds
    BY <1>2 DEF SameFinds, Find
  <2> QED
    BY <1>1, <1>2, <2>1 DEF OcfType
<1>3. ASSUME entries' = <<>>, ocfCalls' = <<>> PROVE OcfType' /\ OcfInv'
  <2>1. entries' \in Seq(OcfEntry) /\ ocfCalls' \in Seq(OcfCall) /\ DOMAIN entries' = {} /\ DOMAIN ocfCalls' = {}
    BY <1>3, EmptySeq
  <2>2. Sought' = {} /\ Pending' = {}
    BY <2>1 DEF Sought, Pending
  <2> QED
    BY <1>3, <2>1, <2>2, FS_EmptySet
       DEF OcfType, OcfInv, FoundWanted, FindsHaveEntries, AloneFindsOwn, AsManyPending
<1>4. ASSUME NEW kind \in {"get", "put", "info"}, NEW e \in Nat, NEW state \in {"pending", "resolved", "rejected"},
             ocfCalls' = Append(ocfCalls, Call(kind, e, state, TRUE))
      PROVE  ocfCalls' \in Seq(OcfCall) /\ SameFinds
  <2>1. Call(kind, e, state, TRUE) \in OcfCall /\ Call(kind, e, state, TRUE).kind # "find"
    BY DEF Call, OcfCall, OcfKinds
  <2> QED
    BY <1>4, <2>1, AddedKept
<1>5. \A e \in DOMAIN entries : e \in Nat /\ e \in 1 .. Len(entries) /\ entries[e] \in OcfEntry
  BY ElementOfSeq, LenProperties DEF OcfType
<1>6. ASSUME NEW f \in Filters, FindResources(f) PROVE OcfType' /\ OcfInv'
  BY <1>6, FindResourcesKept
<1>7. ASSUME NEW i \in DOMAIN ocfCalls, NEW r \in Remotes, Discovered(i, r) PROVE OcfType' /\ OcfInv'
  BY <1>7, DiscoveredKept
<1>8. ASSUME NEW id, NotFound(id) PROVE OcfType' /\ OcfInv'
  BY <1>1, <1>4, <1>8 DEF NotFound
<1>9. ASSUME NEW id, NEW observe \in BOOLEAN, NEW sent \in BOOLEAN, Retrieve(id, observe, sent)
      PROVE  OcfType' /\ OcfInv'
  <2> PICK e \in DOMAIN entries, on \in BOOLEAN, add \in Nat :
        /\ entries' = [entries EXCEPT ![e].observe = on, ![e].observers = @ + add]
        /\ ocfCalls' = Append(ocfCalls, Call("get", e, IF sent THEN "pending" ELSE "rejected", TRUE))
        /\ UNCHANGED ocfUp /\ ocfUp
    <3>1. PICK e \in FoundWith(id) :
            LET on == observe \/ entries[e].observe IN
            /\ entries' = [entries EXCEPT ![e].observe = on, ![e].observers = @ + (IF on THEN 1 ELSE 0)]
            /\ ocfCalls' = Append(ocfCalls, Call("get", e, IF sent THEN "pending" ELSE "rejected", TRUE))
      BY <1>9 DEF Retrieve
    <3> DEFINE on  == observe \/ entries[e].observe
               add == IF on THEN 1 ELSE 0
    <3>2. e \in DOMAIN entries /\ on \in BOOLEAN /\ add \in Nat
      BY <1>5 DEF FoundWith, OcfEntry
    <3>3. UNCHANGED ocfUp /\ ocfUp
      BY <1>9 DEF Retrieve, Script
    <3> QED
      BY <3>1, <3>2, <3>3
  <2>1. ocfCalls' \in Seq(OcfCall) /\ SameFinds
    BY <1>4, <1>5
  <2>2. SameEntries
    BY <1>5 DEF SameEntries, OcfEntry
  <2>3. entries' \in Seq(OcfEntry)
    <3> DEFINE x == [entries[e] EXCEPT !.observe = on, !.observers = @ + add]
    <3>1. x \in OcfEntry
      BY <1>5 DEF OcfEntry
    <3>2. entries' = [entries EXCEPT ![e] = x]
      BY <1>5 DEF OcfType
    <3>3. e \in 1 .. Len(entries) /\ entries \in Seq(OcfEntry)
      BY <1>5 DEF OcfType
    <3> HIDE DEF x
    <3>4. [entries EXCEPT ![e] = x] \in Seq(OcfEntry)
      BY <3>1, <3>3, ExceptSeq
    <3> QED
      BY <3>2, <3>4
  <2> QED
    BY <2>1, <2>2, <2>3, SameKept DEF OcfType
<1>10. ASSUME NEW kind \in {"put", "info"}, NEW id, NEW sent \in BOOLEAN, UpdateOrInfo(kind, id, sent)
       PROVE  OcfType' /\ OcfInv'
  <2> PICK e \in DOMAIN entries :
        ocfCalls' = Append(ocfCalls, Call(kind, e, IF sent THEN "pending" ELSE "rejected", TRUE))
    BY <1>10 DEF UpdateOrInfo, FoundWith
  <2>1. ocfCalls' \in Seq(OcfCall) /\ SameFinds
    BY <1>4, <1>5
  <2> QED
    BY <1>1, <1>10, <2>1 DEF UpdateOrInfo
<1>11. ASSUME NEW i \in DOMAIN ocfCalls, NEW ok \in BOOLEAN, ResponseArrives(i, ok)
       PROVE  OcfType' /\ OcfInv'
  <2> DEFINE x == [ocfCalls[i] EXCEPT !.state = IF ok THEN "resolved" ELSE "rejected",
                                      !.got = ocfCalls[i].entry, !.live = FALSE]
  <2>1. ocfCalls[i] \in OcfCall /\ i \in 1 .. Len(ocfCalls)
    BY ElementOfSeq, LenProperties DEF OcfType
  <2>2. x \in OcfCall /\ x.kind = ocfCalls[i].kind /\ ocfCalls[i].kind # "find"
    BY <1>11, <2>1 DEF OcfCall, ResponseArrives
  <2>3. ocfCalls' = [ocfCalls EXCEPT ![i] = x]
    BY <1>11 DEF ResponseArrives
  <2> HIDE DEF x
  <2>4. ocfCalls' \in Seq(OcfCall)
    BY <2>1, <2>2, <2>3, ExceptSeq DEF OcfType
  <2>5. SameFinds
    BY <2>2, <2>3 DEF SameFinds, Find
  <2> QED
    BY <1>1, <1>11, <2>4, <2>5 DEF ResponseArrives
<1>12. CASE OcfCleanup
  <2>1. entries' = <<>> /\ ~ocfUp' /\ UNCHANGED ocfCalls
    BY <1>12 DEF OcfCleanup
  <2> QED
    BY <2>1, EmptySeq DEF OcfType, OcfInv
<1>13. ASSUME NEW reason, OcfFails(reason) PROVE OcfType' /\ OcfInv'
  BY <1>3, <1>13 DEF OcfFails
<1>14. CASE UNCHANGED ocfVars
  BY <1>2, <1>14
<1>15. ASSUME NEW outcome, Register(outcome) PROVE OcfType' /\ OcfInv'
  BY <1>2, <1>15 DEF Register
<1>16. ASSUME NEW room, OcfStart(room) PROVE OcfType' /\ OcfInv'
  BY <1>2, <1>16 DEF OcfStart
<1>17. ASSUME NEW s, NEW kept, RemoteRequest(s, kept) PROVE OcfType' /\ OcfInv'
  BY <1>2, <1>17 DEF RemoteRequest
<1>18. CASE OcfStartUnstored \/ CallbackOfFreed \/ RespondLate \/ OcfCleanupReleases
  BY <1>13, <1>18 DEF OcfStartUnstored, CallbackOfFreed, RespondLate, OcfCleanupReleases
<1>19. ASSUME NEW s, RemoteRequestOfRejected(s) PROVE OcfType' /\ OcfInv'
  BY <1>13, <1>19 DEF RemoteRequestOfRejected
<1> QED
  BY <1>6, <1>7, <1>8, <1>9, <1>10, <1>11, <1>12, <1>14, <1>15, <1>16, <1>17, <1>18, <1>19 DEF OcfNext

\* A search that met no other is fulfilled exactly when its entry is found, with that entry,
\* and by a resource that meets its filter if that has one part.
THEOREM SearchesDoNotMixTheorem == OcfSpec => []SearchesDoNotMix
<1>1. OcfInit => OcfType /\ OcfInv
  <2> SUFFICES ASSUME OcfInit PROVE OcfType /\ OcfInv
    OBVIOUS
  <2>1. entries = <<>> /\ ocfCalls = <<>>
    BY DEF OcfInit
  <2>2. entries \in Seq(OcfEntry) /\ ocfCalls \in Seq(OcfCall) /\ DOMAIN entries = {} /\ DOMAIN ocfCalls = {}
    BY <2>1, EmptySeq
  <2>3. Sought = {} /\ Pending = {}
    BY <2>2 DEF Sought, Pending
  <2> QED
    BY <2>1, <2>2, <2>3, FS_EmptySet
       DEF OcfType, OcfInv, FoundWanted, FindsHaveEntries, AloneFindsOwn, AsManyPending
<1>2. OcfType /\ OcfInv => SearchesDoNotMix
  <2> SUFFICES ASSUME OcfType, OcfInv, entries # <<>>,
                      NEW i \in DOMAIN ocfCalls, Find(i), ocfCalls[i].alone
               PROVE  LET e == ocfCalls[i].entry IN
                        /\ ocfCalls[i].state = "resolved" <=> ~Searching(e)
                        /\ ocfCalls[i].state = "resolved" => ocfCalls[i].got = e
                        /\ (~Searching(e) /\ Cardinality(Given(entries[e].filter)) = 1)
                             => Meets(entries[e].found, entries[e].filter)
    BY DEF SearchesDoNotMix, Find
  <2> DEFINE e == ocfCalls[i].entry
  <2>1. FoundWanted /\ FindsHaveEntries /\ AloneFindsOwn
    BY DEF OcfInv
  <2>2. e \in DOMAIN entries /\ ocfCalls[i].state \in {"pending", "resolved"}
    BY <2>1 DEF FindsHaveEntries
  <2>3. ocfCalls[i].state = "pending" => Searching(e)
    BY <2>1 DEF AloneFindsOwn, Sought
  <2>4. ocfCalls[i].state = "resolved" => ~Searching(e) /\ ocfCalls[i].got = e
    BY <2>1 DEF AloneFindsOwn
  <2>5. ASSUME ~Searching(e), Cardinality(Given(entries[e].filter)) = 1
        PROVE  Meets(entries[e].found, entries[e].filter)
    <3>1. Wants(entries[e].filter, entries[e].found)
      BY <2>1, <2>2, <2>5 DEF FoundWanted
    <3>2. entries[e] \in OcfEntry
      BY <2>2, ElementOfSeq, LenProperties DEF OcfType
    <3> DEFINE f == entries[e].filter  r == entries[e].found
    <3>3. f \in OcfFilter
      BY <3>2 DEF OcfEntry
    <3>4. DOMAIN f = {"id", "type", "path"}
      BY <3>3 DEF OcfFilter
    <3>5. PICK k : Given(f) = {k}
      <4>1. IsFiniteSet({"id", "type", "path"})
        <5>1. IsFiniteSet({"id"})
          BY FS_Singleton
        <5>2. IsFiniteSet({"id"} \cup {"type"})
          BY <5>1, FS_AddElement
        <5>3. IsFiniteSet({"id"} \cup {"type"} \cup {"path"})
          BY <5>2, FS_AddElement
        <5>4. {"id"} \cup {"type"} \cup {"path"} = {"id", "type", "path"}
          OBVIOUS
        <5> QED
          BY <5>3, <5>4
      <4>2. Given(f) \subseteq {"id", "type", "path"}
        BY <3>4 DEF Given
      <4>3. IsFiniteSet(Given(f))
        BY <4>1, <4>2, FS_Subset
      <4> QED
        BY <2>5, <4>3, FS_Singleton
    <3> HIDE DEF f, r
    <3>6. \A g \in {"id", "type", "path"} : g \in Given(f) <=> f[g] # ""
      BY <3>4 DEF Given
    <3>7. f.id # "" => Given(f) = {"id"}
      BY <3>5, <3>6
    <3>8. f.type # "" => Given(f) = {"type"}
      BY <3>5, <3>6
    <3>9. f.path # "" => Given(f) = {"path"}
      BY <3>5, <3>6
    <3>10. Wants(f, r)
      BY <3>1 DEF f, r
    <3>11. Meets(r, f)
      <4>1. CASE f.id # ""
        BY <3>7, <3>10, <4>1 DEF Wants, Meets
      <4>2. CASE f.id = "" /\ f.type # ""
        BY <3>8, <3>10, <4>2 DEF Wants, Meets
      <4>3. CASE f.id = "" /\ f.type = ""
        <5>1. f.path = r.path /\ f.path # ""
          BY <3>4, <3>5, <3>6, <3>10, <4>3 DEF Wants, Given
        <5> QED
          BY <3>9, <5>1 DEF Meets
      <4> QED
        BY <4>1, <4>2, <4>3
    <3> QED
      BY <3>11 DEF f, r
  <2> QED
    BY <2>2, <2>3, <2>4, <2>5
<1> QED
  BY <1>1, <1>2, OcfKept, PTL DEF OcfSpec

-----------------------------------------------------------------------------
(***************************************************************************)
(* Web sockets: the types, and what a step does to the ring and the        *)
(* connections, point by point.                                            *)
(***************************************************************************)
USE DEF FrameTypes

WsItem == [kind : {"accept", "packet", "handler", "message", "close"}, ctx : Nat, con : Nat,
           type : {"none"} \cup FrameTypes, n : Nat]
WsCon  == [ctx : Nat, live : BOOLEAN, state : {"unconnected", "awaiting", "connected"}, key : BOOLEAN,
           objects : Nat, end : Nat, unread : Seq(Nat)]
WsBusy == [con : Nat, n : Nat, do : {"none", "handshake"} \cup FrameTypes]

WsType ==
  /\ peers \in Seq({"open", "closing", "closed"})
  /\ wsCon \in Seq(WsCon)
  /\ wsList \subseteq Nat
  /\ wsRing \in Seq(WsItem)
  /\ busy \in WsBusy
  /\ frames \in Seq(Nat) /\ wsLost \in BOOLEAN

\* Every number is of something that was made, and the listed connections are live.
ItemMade(item) ==
  /\ item.kind \in {"accept", "packet"} => item.ctx \in Clients
  /\ item.kind = "packet" => item.type # "none" /\ item.n \in DOMAIN frames
  /\ item.kind = "packet" /\ item.con # 0 => item.con \in WsCons /\ wsCon[item.con].ctx = item.ctx
  /\ item.kind \in {"handler", "message", "close"} => item.con \in WsCons
  /\ item.kind = "message" => item.n \in DOMAIN frames

NumbersMade ==
  /\ \A con \in WsCons : wsCon[con].ctx \in Clients
  /\ \A con \in wsList : con \in WsCons /\ wsCon[con].live
  /\ \A i \in DOMAIN wsRing : ItemMade(wsRing[i])
  /\ busy # Idle => busy.con \in WsCons /\ busy.n \in DOMAIN frames

\* A client is accepted once.
MadeOnce ==
  /\ \A con, other \in WsCons : wsCon[con].ctx = wsCon[other].ctx => con = other
  /\ \A i, j \in DOMAIN wsRing :
       wsRing[i].kind = "accept" /\ wsRing[j].kind = "accept" /\ wsRing[i].ctx = wsRing[j].ctx => i = j
  /\ \A i \in DOMAIN wsRing, con \in WsCons :
       wsRing[i].kind = "accept" => wsRing[i].ctx # wsCon[con].ctx

EarlyUnmade(ctx) == [ctx |-> ctx, made |-> FALSE] \in early

WsBase == WsType /\ NumbersMade /\ MadeOnce

RingSame  == wsRing' = wsRing
RingTaken ==
  /\ 1 \in DOMAIN wsRing /\ Head(wsRing) = wsRing[1]
  /\ \A i \in DOMAIN wsRing' : i \in Nat /\ i > 0 /\ i + 1 \in DOMAIN wsRing /\ wsRing'[i] = wsRing[i + 1]
  /\ \A i \in DOMAIN wsRing :
       i \in Nat /\ (i = 1 \/ (i - 1 \in DOMAIN wsRing' /\ wsRing'[i - 1] = wsRing[i]))
RingAdded(item) ==
  \E n \in Nat : /\ DOMAIN wsRing = 1 .. n /\ DOMAIN wsRing' = 1 .. n + 1 /\ wsRing'[n + 1] = item
                 /\ \A i \in 1 .. n : wsRing'[i] = wsRing[i]
RingQueued(item) == (RingSame /\ wsLost') \/ (RingAdded(item) /\ wsLost' = wsLost)

ConsKept   == DOMAIN wsCon' = DOMAIN wsCon /\ \A con \in WsCons : wsCon'[con].ctx = wsCon[con].ctx
LiveKept   == \A con \in WsCons : wsCon'[con].live = wsCon[con].live
UnreadKept == \A con \in WsCons : wsCon'[con].unread = wsCon[con].unread
ClosesCon(con) ==
  /\ con \in WsCons /\ ConsKept /\ UnreadKept /\ wsList' = wsList \ {con}
  /\ \A other \in WsCons : wsCon'[other].live = (other # con /\ wsCon[other].live)

\* A client's context comes to another state.
PeerSet(ctx, state) ==
  /\ DOMAIN peers' = DOMAIN peers /\ ctx \in Clients /\ peers'[ctx] = state
  /\ \A other \in Clients : other # ctx => peers'[other] = peers[other]

WsReset ==
  /\ peers' = <<>> /\ wsCon' = <<>> /\ wsList' = {} /\ wsRing' = <<>> /\ busy' = Idle
  /\ frames' = <<>> /\ wsMixed' = {} /\ wsLost' = FALSE /\ wsBad' = FALSE

LEMMA Takes ==
  ASSUME WsType, wsRing # <<>>, wsRing' = Tail(wsRing)
  PROVE  wsRing' \in Seq(WsItem) /\ RingTaken
<1> PICK n \in Nat : n = Len(wsRing) /\ DOMAIN wsRing = 1 .. n
  BY LenProperties DEF WsType
<1>1. wsRing \in Seq(WsItem) /\ n > 0 /\ Head(wsRing) = wsRing[1]
  BY HeadTailProperties, LenProperties DEF WsType
<1>2. wsRing' \in Seq(WsItem) /\ DOMAIN wsRing' = 1 .. n - 1 /\ \A i \in 1 .. n - 1 : wsRing'[i] = wsRing[i + 1]
  <2>1. Tail(wsRing) \in Seq(WsItem) /\ Len(Tail(wsRing)) = n - 1
    BY <1>1, HeadTailProperties
  <2> QED
    BY <1>1, <2>1, HeadTailProperties, LenProperties
<1>3. \A i \in 1 .. n - 1 : i \in Nat /\ i > 0 /\ i + 1 \in 1 .. n
  OBVIOUS
<1>4. ASSUME NEW i \in 1 .. n, i # 1 PROVE i - 1 \in 1 .. n - 1 /\ wsRing'[i - 1] = wsRing[i]
  <2>1. i - 1 \in 1 .. n - 1 /\ (i - 1) + 1 = i
    BY <1>4
  <2> QED
    BY <1>2, <2>1
<1>5. 1 \in 1 .. n /\ \A i \in 1 .. n : i \in Nat
  BY <1>1
<1> QED
  BY <1>1, <1>2, <1>3, <1>4, <1>5 DEF RingTaken

LEMMA Queues ==
  ASSUME WsType, NEW item \in WsItem, wsRing' = WsQueue(wsRing, item), wsLost' = (wsLost \/ WsFull(wsRing))
  PROVE  wsRing' \in Seq(WsItem) /\ RingQueued(item)
<1>1. CASE WsFull(wsRing)
  BY <1>1 DEF WsQueue, RingQueued, RingSame, WsType
<1>2. CASE ~WsFull(wsRing)
  <2> PICK n \in Nat : n = Len(wsRing) /\ DOMAIN wsRing = 1 .. n
    BY LenProperties DEF WsType
  <2>1. wsRing' = Append(wsRing, item) /\ wsLost' = wsLost
    BY <1>2 DEF WsQueue, WsType
  <2>2. wsRing' \in Seq(WsItem) /\ Len(wsRing') = n + 1
    BY <2>1, AppendProperties DEF WsType
  <2>3. DOMAIN wsRing' = 1 .. n + 1 /\ wsRing'[n + 1] = item /\ \A i \in 1 .. n : wsRing'[i] = wsRing[i]
    BY <2>1, <2>2, AppendProperties, LenProperties DEF WsType
  <2> QED
    BY <2>1, <2>2, <2>3 DEF RingQueued, RingAdded
<1> QED
  BY <1>1, <1>2

LEMMA QueuesFree ==
  ASSUME WsType, NEW item \in WsItem, wsRing' = WsQueue(wsRing, item), ~WsFull(wsRing)
  PROVE  RingAdded(item)
<1> PICK n \in Nat : n = Len(wsRing) /\ DOMAIN wsRing = 1 .. n
  BY LenProperties DEF WsType
<1>1. wsRing' = Append(wsRing, item)
  BY DEF WsQueue
<1>2. Len(wsRing') = n + 1 /\ wsRing' \in Seq(WsItem)
  BY <1>1, AppendProperties DEF WsType
<1>3. DOMAIN wsRing' = 1 .. n + 1 /\ wsRing'[n + 1] = item /\ \A i \in 1 .. n : wsRing'[i] = wsRing[i]
  BY <1>1, <1>2, AppendProperties, LenProperties DEF WsType
<1> QED
  BY <1>3 DEF RingAdded

\* A client has one connection at most, so the one found is the one there is.
LEMMA Finds ==
  ASSUME WsBase, NEW ctx
  PROVE  /\ FindWs(ctx) \in Nat
         /\ FindWs(ctx) = 0 \/ (FindWs(ctx) \in wsList /\ FindWs(ctx) \in WsCons /\ wsCon[FindWs(ctx)].ctx = ctx)
         /\ \A con \in wsList : wsCon[con].ctx = ctx => FindWs(ctx) = con
<1> DEFINE found == {con \in wsList : wsCon[con].ctx = ctx}
<1>1. wsList \subseteq Nat /\ \A con \in wsList : con \in WsCons
  BY DEF WsBase, WsType, NumbersMade
<1>2. \A con, other \in found : con = other
  BY <1>1 DEF WsBase, MadeOnce
<1>3. CASE found = {}
  <2>1. FindWs(ctx) = 0
    BY <1>3 DEF FindWs
  <2> QED
    BY <1>3, <2>1
<1>4. CASE found # {}
  <2>1. PICK con \in found : TRUE
    BY <1>4
  <2>2. con \in Nat /\ \A other \in found : other <= con
    BY <1>1, <1>2, <2>1
  <2>3. FindWs(ctx) \in found
    BY <1>4, <2>2 DEF FindWs
  <2> QED
    BY <1>1, <1>2, <2>3
<1> QED
  BY <1>3, <1>4

\* Values of the kinds of items.
LEMMA ItemsTyped ==
  /\ \A ctx \in Nat : Accepted(ctx) \in WsItem
  /\ \A ctx, con, n \in Nat, type \in FrameTypes : Packet(ctx, con, type, n) \in WsItem
  /\ \A con, n \in Nat, kind \in {"handler", "message", "close"} : Event(kind, con, n) \in WsItem
  /\ Idle \in WsBusy
  BY DEF WsItem, Accepted, Packet, Event, WsBusy, Idle

LEMMA Indices ==
  ASSUME WsType
  PROVE  /\ \A con \in WsCons : con \in Nat \ {0} /\ con \in 1 .. Len(wsCon) /\ wsCon[con] \in WsCon
         /\ \A ctx \in Clients : ctx \in Nat /\ ctx \in 1 .. Len(peers) /\ peers[ctx] \in {"open", "closing", "closed"}
         /\ \A i \in DOMAIN wsRing : i \in Nat \ {0} /\ wsRing[i] \in WsItem
         /\ \A k \in DOMAIN frames : k \in Nat /\ frames[k] \in Nat
  BY ElementOfSeq, LenProperties DEF WsType, WsCons, Clients

\* A context's state is set.
LEMMA SetsPeer ==
  ASSUME WsType, NEW ctx \in Clients, NEW to \in {"open", "closing", "closed"}, peers' = [peers EXCEPT ![ctx] = to]
  PROVE  peers' \in Seq({"open", "closing", "closed"}) /\ PeerSet(ctx, to)
<1>1. ctx \in 1 .. Len(peers) /\ peers \in Seq({"open", "closing", "closed"})
  BY Indices DEF WsType
<1>2. peers' \in Seq({"open", "closing", "closed"})
  BY <1>1, ExceptSeq
<1> QED
  BY <1>1, <1>2 DEF PeerSet, Clients

\* A connection is replaced by one of the same client.
LEMMA SetsCon ==
  ASSUME WsType, NEW con \in WsCons, NEW new \in WsCon, new.ctx = wsCon[con].ctx, wsCon' = [wsCon EXCEPT ![con] = new]
  PROVE  /\ wsCon' \in Seq(WsCon) /\ ConsKept /\ wsCon'[con] = new
         /\ \A other \in WsCons : other # con => wsCon'[other] = wsCon[other]
<1>1. con \in 1 .. Len(wsCon) /\ wsCon \in Seq(WsCon)
  BY Indices DEF WsType
<1>2. wsCon' \in Seq(WsCon)
  BY <1>1, ExceptSeq
<1> QED
  BY <1>1, <1>2 DEF ConsKept, WsCons

LEMMA ClosingTyped ==
  ASSUME WsType, NEW con \in WsCons, CloseConnection(con)
  PROVE  wsCon' \in Seq(WsCon) /\ ClosesCon(con) /\ wsList' \subseteq Nat
<1> DEFINE new == [wsCon[con] EXCEPT !.live = FALSE]
<1>1. new \in WsCon /\ new.ctx = wsCon[con].ctx /\ new.live = FALSE /\ new.unread = wsCon[con].unread
  <2>1. wsCon[con] \in WsCon
    BY Indices
  <2> QED
    BY <2>1 DEF WsCon
<1>2. wsCon' = [wsCon EXCEPT ![con] = new] /\ wsList' = wsList \ {con}
  BY DEF CloseConnection
<1> HIDE DEF new
<1>3. /\ wsCon' \in Seq(WsCon) /\ ConsKept /\ wsCon'[con] = new
      /\ \A other \in WsCons : other # con => wsCon'[other] = wsCon[other]
  BY <1>1, <1>2, SetsCon
<1>4. \A other \in WsCons : wsCon[other].live \in BOOLEAN
  BY Indices DEF WsCon
<1>5. wsList' \subseteq Nat
  BY <1>2 DEF WsType
<1>6. ASSUME NEW other \in WsCons PROVE wsCon'[other].live = (other # con /\ wsCon[other].live)
  <2>1. CASE other = con
    BY <1>1, <1>3, <2>1
  <2>2. CASE other # con
    BY <1>3, <1>4, <2>2
  <2> QED
    BY <2>1, <2>2
<1>7. UnreadKept
  BY <1>1, <1>3 DEF UnreadKept
<1> QED
  BY <1>2, <1>3, <1>5, <1>6, <1>7 DEF ClosesCon

LEMMA AcceptedEffect ==
  ASSUME WsBase, WsAccepted
  PROVE  /\ WsType'
         /\ \E n \in Nat : /\ Clients = 1 .. n /\ Clients' = 1 .. n + 1 /\ peers'[n + 1] = "open"
                           /\ \A ctx \in 1 .. n : peers'[ctx] = peers[ctx]
                           /\ RingQueued(Accepted(n + 1))
         /\ UNCHANGED <<wsCon, wsList, busy, frames, wsMixed, early, again, wsBad>>
<1> PICK n \in Nat : n = Len(peers) /\ DOMAIN peers = 1 .. n
  BY LenProperties DEF WsBase, WsType
<1>1. /\ peers' = Append(peers, "open") /\ wsRing' = WsQueue(wsRing, Accepted(n + 1))
      /\ wsLost' = (wsLost \/ WsFull(wsRing))
      /\ UNCHANGED <<wsCon, wsList, busy, frames, wsMixed, early, again, wsBad>>
  BY DEF WsAccepted
<1>2. Accepted(n + 1) \in WsItem /\ n + 1 \in Nat
  BY ItemsTyped
<1>3. wsRing' \in Seq(WsItem) /\ RingQueued(Accepted(n + 1))
  BY <1>1, <1>2, Queues DEF WsBase
<1>4. peers' \in Seq({"open", "closing", "closed"}) /\ Len(peers') = n + 1
  BY <1>1, AppendProperties DEF WsBase, WsType
<1>5. DOMAIN peers' = 1 .. n + 1 /\ peers'[n + 1] = "open" /\ \A ctx \in 1 .. n : peers'[ctx] = peers[ctx]
  BY <1>1, <1>4, AppendProperties, LenProperties DEF WsBase, WsType
<1>6. WsType'
  BY <1>1, <1>3, <1>4 DEF WsBase, WsType
<1> QED
  BY <1>1, <1>3, <1>5, <1>6 DEF Clients

LEMMA ReceivedEffect ==
  ASSUME WsBase, NEW ctx \in Clients, NEW type \in FrameTypes, NEW size \in WsSizes,
         WsReceived(ctx, type, size)
  PROVE  /\ WsType'
         /\ peers[ctx] # "closed" /\ PeerSet(ctx, IF type = "close" THEN "closing" ELSE peers[ctx])
         /\ again' = After(ctx)
         /\ \E m \in Nat : /\ DOMAIN frames = 1 .. m /\ DOMAIN frames' = 1 .. m + 1
                           /\ \A k \in 1 .. m : frames'[k] = frames[k]
                           /\ RingQueued(Packet(ctx, FindWs(ctx), type, m + 1))
         /\ UNCHANGED <<wsCon, wsList, busy, wsMixed, early, wsBad>>
<1> PICK m \in Nat : m = Len(frames) /\ DOMAIN frames = 1 .. m
  BY LenProperties DEF WsBase, WsType
<1> DEFINE to == IF type = "close" THEN "closing" ELSE peers[ctx]
<1>1. /\ peers[ctx] # "closed" /\ peers' = [peers EXCEPT ![ctx] = to] /\ again' = After(ctx)
      /\ frames' = Append(frames, size) /\ wsRing' = WsQueue(wsRing, Packet(ctx, FindWs(ctx), type, m + 1))
      /\ wsLost' = (wsLost \/ WsFull(wsRing))
      /\ UNCHANGED <<wsCon, wsList, busy, wsMixed, early, wsBad>>
  BY DEF WsReceived
<1>2. WsType /\ ctx \in Nat /\ to \in {"open", "closing", "closed"}
  BY Indices DEF WsBase
<1>3. Packet(ctx, FindWs(ctx), type, m + 1) \in WsItem
  <2>1. FindWs(ctx) \in Nat /\ m + 1 \in Nat
    BY Finds
  <2> QED
    BY <1>2, <2>1, ItemsTyped
<1>4. wsRing' \in Seq(WsItem) /\ RingQueued(Packet(ctx, FindWs(ctx), type, m + 1))
  BY <1>1, <1>2, <1>3, Queues
<1> HIDE DEF to
<1>5. peers' \in Seq({"open", "closing", "closed"}) /\ PeerSet(ctx, to)
  BY <1>1, <1>2, SetsPeer
<1>6. size \in Nat
  BY WsAssumption
<1>7. frames' \in Seq(Nat) /\ Len(frames') = m + 1
  BY <1>1, <1>6, AppendProperties DEF WsBase, WsType
<1>8. DOMAIN frames' = 1 .. m + 1 /\ \A k \in 1 .. m : frames'[k] = frames[k]
  BY <1>1, <1>6, <1>7, AppendProperties, LenProperties DEF WsBase, WsType
<1>9. WsType'
  <2>1. wsLost' \in BOOLEAN
    BY <1>1, <1>2 DEF WsType
  <2> QED
    BY <1>1, <1>2, <1>4, <1>5, <1>7, <2>1 DEF WsType
<1> QED
  BY <1>1, <1>4, <1>5, <1>8, <1>9 DEF to

LEMMA ClosedEffect ==
  ASSUME WsBase, NEW ctx \in Clients, WsClosed(ctx)
  PROVE  /\ WsType'
         /\ peers[ctx] # "closed" /\ PeerSet(ctx, "closed")
         /\ FindWs(ctx) \in WsCons /\ FindWs(ctx) \in wsList /\ wsCon[FindWs(ctx)].ctx = ctx
         /\ wsCon[FindWs(ctx)].live
         /\ RingQueued(Event("close", FindWs(ctx), 0))
         /\ again' = After(ctx) \cup (IF Unhandled(ctx, FindWs(ctx)) THEN {ctx} ELSE {})
         /\ UNCHANGED <<wsCon, wsList, busy, frames, wsMixed, early, wsBad>>
<1> DEFINE con == FindWs(ctx)
<1>1. /\ peers[ctx] # "closed" /\ peers' = [peers EXCEPT ![ctx] = "closed"]
      /\ wsRing' = WsQueue(wsRing, Event("close", con, 0)) /\ wsLost' = (wsLost \/ WsFull(wsRing))
      /\ again' = After(ctx) \cup (IF Unhandled(ctx, con) THEN {ctx} ELSE {})
      /\ UNCHANGED <<wsCon, wsList, busy, frames, wsMixed, early, wsBad>>
      /\ con \in WsCons /\ wsCon[con].live
  BY DEF WsClosed, LiveCon
<1>2. WsType /\ con \in Nat /\ con # 0
  BY <1>1, Indices DEF WsBase
<1>3. con \in wsList /\ wsCon[con].ctx = ctx
  BY <1>2, Finds
<1> HIDE DEF con
<1>4. wsRing' \in Seq(WsItem) /\ RingQueued(Event("close", con, 0))
  <2>1. Event("close", con, 0) \in WsItem
    BY <1>2, ItemsTyped
  <2> QED
    BY <1>1, <1>2, <2>1, Queues
<1>5. peers' \in Seq({"open", "closing", "closed"}) /\ PeerSet(ctx, "closed")
  BY <1>1, <1>2, SetsPeer
<1>6. WsType'
  BY <1>1, <1>2, <1>4, <1>5 DEF WsType
<1> QED
  BY <1>1, <1>3, <1>4, <1>5, <1>6 DEF con

LEMMA ClosedEarlyEffect ==
  ASSUME WsBase, NEW ctx \in Clients, WsClosedEarly(ctx)
  PROVE  /\ WsType'
         /\ peers[ctx] # "closed" /\ PeerSet(ctx, "closed")
         /\ early' # {} /\ early \subseteq early'
         /\ \/ /\ FindWs(ctx) = 0 /\ UNCHANGED <<wsCon, wsList>> /\ EarlyUnmade(ctx)'
            \/ /\ FindWs(ctx) \in wsList /\ wsCon[FindWs(ctx)].ctx = ctx /\ ClosesCon(FindWs(ctx))
         /\ UNCHANGED <<wsRing, busy, frames, wsMixed, again, wsLost, wsBad>>
<1> DEFINE con == FindWs(ctx)
<1>1. /\ peers[ctx] # "closed" /\ peers' = [peers EXCEPT ![ctx] = "closed"]
      /\ early' = early \cup {[ctx |-> ctx, made |-> con # 0]}
      /\ con # 0 => CloseConnection(con) /\ con \in WsCons
      /\ con = 0 => UNCHANGED <<wsCon, wsList>>
      /\ UNCHANGED <<wsRing, busy, frames, wsMixed, again, wsLost, wsBad>>
  BY DEF WsClosedEarly, LiveCon
<1>2. WsType
  BY DEF WsBase
<1>3. con # 0 => con \in wsList /\ wsCon[con].ctx = ctx
  BY Finds
<1> HIDE DEF con
<1>4. peers' \in Seq({"open", "closing", "closed"}) /\ PeerSet(ctx, "closed")
  BY <1>1, <1>2, SetsPeer
<1>5. CASE con = 0
  <2>1. UNCHANGED <<wsCon, wsList>>
    BY <1>1, <1>5
  <2>2. WsType'
    BY <1>1, <1>2, <1>4, <2>1 DEF WsType
  <2>3. EarlyUnmade(ctx)'
    BY <1>1, <1>5 DEF EarlyUnmade
  <2> QED
    BY <1>1, <1>4, <1>5, <2>1, <2>2, <2>3 DEF con
<1>6. CASE con # 0
  <2>1. wsCon' \in Seq(WsCon) /\ ClosesCon(con) /\ wsList' \subseteq Nat
    BY <1>1, <1>2, <1>6, ClosingTyped
  <2>2. WsType'
    BY <1>1, <1>2, <1>4, <2>1 DEF WsType
  <2> QED
    BY <1>1, <1>3, <1>4, <1>6, <2>1, <2>2 DEF con
<1> QED
  BY <1>5, <1>6

LEMMA AcceptEffect ==
  ASSUME WsBase, WsAccept
  PROVE  /\ WsType' /\ RingTaken /\ wsRing[1].kind = "accept"
         /\ \E n \in Nat : /\ WsCons = 1 .. n /\ WsCons' = 1 .. n + 1 /\ \A con \in 1 .. n : wsCon'[con] = wsCon[con]
                           /\ wsCon'[n + 1].ctx = wsRing[1].ctx /\ wsCon'[n + 1].live /\ wsCon'[n + 1].unread = <<>>
                           /\ wsList' = wsList \cup {n + 1}
         /\ UNCHANGED <<peers, busy, frames, wsMixed, early, again, wsLost, wsBad>>
<1> PICK n \in Nat : n = Len(wsCon) /\ DOMAIN wsCon = 1 .. n
  BY LenProperties DEF WsBase, WsType
<1> DEFINE new == [ctx |-> Head(wsRing).ctx, live |-> TRUE, state |-> "unconnected",
                   key |-> FALSE, objects |-> 0, end |-> 0, unread |-> <<>>]
<1>1. /\ wsRing # <<>> /\ Head(wsRing).kind = "accept" /\ wsRing' = Tail(wsRing)
      /\ wsCon' = Append(wsCon, new) /\ wsList' = wsList \cup {n + 1}
      /\ UNCHANGED <<peers, busy, frames, wsMixed, early, again, wsLost, wsBad>>
  BY DEF WsAccept, WsTakes
<1>2. WsType
  BY DEF WsBase
<1>3. wsRing' \in Seq(WsItem) /\ RingTaken
  BY <1>1, <1>2, Takes
<1>4. Head(wsRing) = wsRing[1] /\ 1 \in DOMAIN wsRing /\ wsRing[1] \in WsItem
  BY <1>2, <1>3, Indices DEF RingTaken
<1>5. new \in WsCon /\ new.ctx = wsRing[1].ctx /\ new.live /\ new.unread = <<>>
  <2>1. <<>> \in Seq(Nat)
    BY EmptySeq
  <2> QED
    BY <1>4, <2>1 DEF WsCon, WsItem
<1> HIDE DEF new
<1>6. wsCon' \in Seq(WsCon) /\ Len(wsCon') = n + 1
  BY <1>1, <1>2, <1>5, AppendProperties DEF WsType
<1>7. DOMAIN wsCon' = 1 .. n + 1 /\ wsCon'[n + 1] = new /\ \A con \in 1 .. n : wsCon'[con] = wsCon[con]
  BY <1>1, <1>2, <1>5, <1>6, AppendProperties, LenProperties DEF WsType
<1>8. wsList' \subseteq Nat
  <2>1. n + 1 \in Nat
    OBVIOUS
  <2> QED
    BY <1>1, <1>2, <2>1 DEF WsType
<1>9. WsType'
  BY <1>1, <1>2, <1>3, <1>6, <1>8 DEF WsType
<1> QED
  BY <1>1, <1>3, <1>4, <1>5, <1>7, <1>9 DEF WsCons

LEMMA PacketEffect ==
  ASSUME WsBase, WsPacket
  PROVE  /\ WsType' /\ RingTaken /\ wsRing[1].kind = "packet" /\ busy = Idle
         /\ ConsKept /\ LiveKept /\ UnreadKept
         /\ \/ busy' = Idle
            \/ /\ busy'.con \in WsCons /\ wsCon[busy'.con].live /\ wsCon[busy'.con].ctx = wsRing[1].ctx
               /\ busy'.n = wsRing[1].n /\ (busy'.do = "close" => wsRing[1].type = "close")
         /\ UNCHANGED <<peers, wsList, frames, wsMixed, early, again, wsLost, wsBad>>
<1> DEFINE item == Head(wsRing)
           con  == IF item.con # 0 THEN item.con ELSE FindWs(item.ctx)
<1>1. /\ wsRing # <<>> /\ item.kind = "packet" /\ wsRing' = Tail(wsRing) /\ busy = Idle
      /\ con # 0 => con \in WsCons /\ wsCon[con].live
      /\ UNCHANGED <<peers, wsList, frames, wsMixed, early, again, wsLost, wsBad>>
  BY DEF WsPacket, WsTakes, WsMain, LiveCon
<1>2. WsType /\ NumbersMade
  BY DEF WsBase
<1>3. wsRing' \in Seq(WsItem) /\ RingTaken
  BY <1>1, <1>2, Takes
<1>4. item = wsRing[1] /\ 1 \in DOMAIN wsRing /\ wsRing[1] \in WsItem
  BY <1>2, <1>3, Indices DEF RingTaken
<1>5. item.type # "none" /\ (item.con # 0 => wsCon[item.con].ctx = item.ctx)
  BY <1>1, <1>2, <1>4 DEF NumbersMade, ItemMade
<1>6. con # 0 => wsCon[con].ctx = item.ctx
  BY <1>5, Finds
<1>7. CASE con = 0
  <2>1. UNCHANGED <<wsCon, busy>>
    BY <1>7 DEF WsPacket
  <2>2. ConsKept /\ LiveKept /\ UnreadKept
    BY <2>1 DEF ConsKept, LiveKept, UnreadKept
  <2>3. WsType'
    BY <1>1, <1>2, <1>3, <2>1 DEF WsType
  <2> QED
    BY <1>1, <1>3, <1>4, <2>1, <2>2, <2>3
<1>8. CASE con # 0
  <2> DEFINE state == IF wsCon[con].state = "awaiting" THEN "connected" ELSE wsCon[con].state
             new   == [wsCon[con] EXCEPT !.state = state]
             do    == IF wsCon[con].state = "unconnected" THEN "handshake" ELSE item.type
  <2>0. con \in WsCons /\ wsCon[con] \in WsCon /\ con \in Nat
    BY <1>1, <1>2, <1>8, Indices
  <2>1. wsCon' = [wsCon EXCEPT ![con] = new] /\ busy' = [con |-> con, n |-> item.n, do |-> do]
    BY <1>8, <2>0 DEF WsPacket
  <2>2. new \in WsCon /\ new.ctx = wsCon[con].ctx /\ new.live = wsCon[con].live /\ new.unread = wsCon[con].unread
    BY <2>0 DEF WsCon
  <2>3. item.n \in Nat /\ do \in {"handshake"} \cup FrameTypes /\ (do = "close" => item.type = "close")
    BY <1>4, <1>5 DEF WsItem
  <2> HIDE DEF new, con, item, do
  <2>4. /\ wsCon' \in Seq(WsCon) /\ ConsKept /\ wsCon'[con] = new
        /\ \A other \in WsCons : other # con => wsCon'[other] = wsCon[other]
    BY <1>2, <2>0, <2>1, <2>2, SetsCon
  <2>5. LiveKept /\ UnreadKept
    BY <2>2, <2>4 DEF LiveKept, UnreadKept
  <2>6. busy' \in WsBusy /\ busy'.con = con /\ busy'.n = item.n /\ busy'.do = do
    BY <2>0, <2>1, <2>3 DEF WsBusy
  <2>7. WsType'
    BY <1>1, <1>2, <1>3, <2>4, <2>6 DEF WsType
  <2> QED
    BY <1>1, <1>3, <1>4, <1>6, <1>8, <2>0, <2>3, <2>4, <2>5, <2>6, <2>7
<1> QED
  BY <1>7, <1>8

LEMMA HandshakeEffect ==
  ASSUME WsBase, Handshake
  PROVE  /\ WsType' /\ busy # Idle /\ busy' = Idle
         /\ ConsKept /\ LiveKept /\ UnreadKept
         /\ RingQueued(Event("handler", busy.con, 0)) \/ UNCHANGED <<wsRing, wsLost>>
         /\ UNCHANGED <<peers, wsList, frames, wsMixed, early, again, wsBad>>
<1>1. busy # Idle /\ busy' = Idle /\ busy.con \in WsCons
      /\ UNCHANGED <<peers, wsList, frames, wsMixed, early, again, wsBad>>
  BY DEF Handshake, Doing, LiveCon
<1>2. WsType /\ wsCon[busy.con] \in WsCon /\ busy.con \in Nat /\ Idle \in WsBusy
  BY <1>1, Indices, ItemsTyped DEF WsBase
<1>3. CASE hasHandler
  <2> DEFINE new == [wsCon[busy.con] EXCEPT !.key = TRUE]
  <2>1. /\ wsCon' = [wsCon EXCEPT ![busy.con] = new]
        /\ wsRing' = WsQueue(wsRing, Event("handler", busy.con, 0)) /\ wsLost' = (wsLost \/ WsFull(wsRing))
    BY <1>3 DEF Handshake
  <2>2. new \in WsCon /\ new.ctx = wsCon[busy.con].ctx /\ new.live = wsCon[busy.con].live
        /\ new.unread = wsCon[busy.con].unread
    BY <1>2 DEF WsCon
  <2> HIDE DEF new
  <2>3. /\ wsCon' \in Seq(WsCon) /\ ConsKept /\ wsCon'[busy.con] = new
        /\ \A other \in WsCons : other # busy.con => wsCon'[other] = wsCon[other]
    BY <1>1, <1>2, <2>1, <2>2, SetsCon
  <2>4. LiveKept /\ UnreadKept
    BY <2>2, <2>3 DEF LiveKept, UnreadKept
  <2>5. wsRing' \in Seq(WsItem) /\ RingQueued(Event("handler", busy.con, 0))
    <3>1. Event("handler", busy.con, 0) \in WsItem
      BY <1>2, ItemsTyped
    <3> QED
      BY <1>2, <2>1, <3>1, Queues
  <2>6. WsType'
    BY <1>1, <1>2, <2>1, <2>3, <2>5 DEF WsType
  <2> QED
    BY <1>1, <2>3, <2>4, <2>5, <2>6
<1>4. CASE ~hasHandler
  <2> DEFINE new == [wsCon[busy.con] EXCEPT !.state = "awaiting", !.objects = @ + 1]
  <2>1. wsCon' = [wsCon EXCEPT ![busy.con].state = "awaiting", ![busy.con].objects = @ + 1]
        /\ UNCHANGED <<wsRing, wsLost>>
    BY <1>4 DEF Handshake
  <2>2. new \in WsCon /\ new.ctx = wsCon[busy.con].ctx /\ new.live = wsCon[busy.con].live
        /\ new.unread = wsCon[busy.con].unread
    <3>1. wsCon[busy.con].objects \in Nat /\ wsCon[busy.con].objects + 1 \in Nat
      BY <1>2 DEF WsCon
    <3> QED
      BY <1>2, <3>1 DEF WsCon
  <2>7. wsCon' = [wsCon EXCEPT ![busy.con] = new]
    BY <1>1, <1>2, <2>1 DEF WsType, WsCons
  <2> HIDE DEF new
  <2>3. /\ wsCon' \in Seq(WsCon) /\ ConsKept /\ wsCon'[busy.con] = new
        /\ \A other \in WsCons : other # busy.con => wsCon'[other] = wsCon[other]
    BY <1>1, <1>2, <2>7, <2>2, SetsCon
  <2>4. LiveKept /\ UnreadKept
    BY <2>2, <2>3 DEF LiveKept, UnreadKept
  <2>6. WsType'
    BY <1>1, <1>2, <2>1, <2>3 DEF WsType
  <2> QED
    BY <1>1, <2>1, <2>3, <2>4, <2>6
<1> QED
  BY <1>3, <1>4

LEMMA PostAcceptEffect ==
  ASSUME WsBase, NEW chosen \in BOOLEAN, PostAccept(chosen)
  PROVE  /\ WsType' /\ RingTaken /\ wsRing[1].kind = "handler"
         /\ ConsKept /\ LiveKept /\ UnreadKept
         /\ UNCHANGED <<peers, wsList, busy, frames, wsMixed, early, again, wsLost, wsBad>>
<1> DEFINE con == Head(wsRing).con
<1>1. /\ wsRing # <<>> /\ Head(wsRing).kind = "handler" /\ wsRing' = Tail(wsRing)
      /\ UNCHANGED <<peers, wsList, busy, frames, wsMixed, early, again, wsLost, wsBad>>
  BY DEF PostAccept, WsTakes
<1>2. WsType
  BY DEF WsBase
<1>3. wsRing' \in Seq(WsItem) /\ RingTaken
  BY <1>1, <1>2, Takes
<1>4. Head(wsRing) = wsRing[1]
  BY <1>3 DEF RingTaken
<1>5. CASE ~(LiveCon(con) /\ chosen)
  <2>1. wsCon' = wsCon
    BY <1>5 DEF PostAccept
  <2>2. ConsKept /\ LiveKept /\ UnreadKept
    BY <2>1 DEF ConsKept, LiveKept, UnreadKept
  <2>3. WsType'
    BY <1>1, <1>2, <1>3, <2>1 DEF WsType
  <2> QED
    BY <1>1, <1>3, <1>4, <2>2, <2>3
<1>6. CASE LiveCon(con) /\ chosen
  <2> DEFINE new == [wsCon[con] EXCEPT !.state = "awaiting", !.key = FALSE, !.objects = @ + 1]
  <2>0. con \in WsCons /\ wsCon[con] \in WsCon
    BY <1>2, <1>6, Indices DEF LiveCon
  <2>1. wsCon' = [wsCon EXCEPT ![con].state = "awaiting", ![con].key = FALSE, ![con].objects = @ + 1]
    BY <1>6 DEF PostAccept
  <2>2. new \in WsCon /\ new.ctx = wsCon[con].ctx /\ new.live = wsCon[con].live /\ new.unread = wsCon[con].unread
    <3>1. wsCon[con].objects \in Nat /\ wsCon[con].objects + 1 \in Nat
      BY <2>0 DEF WsCon
    <3> QED
      BY <2>0, <3>1 DEF WsCon
  <2>7. wsCon' = [wsCon EXCEPT ![con] = new]
    BY <2>0, <2>1 DEF WsCons
  <2> HIDE DEF new, con
  <2>3. /\ wsCon' \in Seq(WsCon) /\ ConsKept /\ wsCon'[con] = new
        /\ \A other \in WsCons : other # con => wsCon'[other] = wsCon[other]
    BY <1>2, <2>0, <2>2, <2>7, SetsCon
  <2>4. LiveKept /\ UnreadKept
    BY <2>2, <2>3 DEF LiveKept, UnreadKept
  <2>6. WsType'
    BY <1>1, <1>2, <1>3, <2>3 DEF WsType
  <2> QED
    BY <1>1, <1>3, <1>4, <2>3, <2>4, <2>6
<1> QED
  BY <1>5, <1>6

\* What goes in and out of a read buffer.
Grows(s, t, n, c) ==
  \E size \in Nat : /\ DOMAIN s = 1 .. size /\ DOMAIN t = 1 .. size + c
                    /\ \A k \in 1 .. size : t[k] = s[k]
                    /\ \A k \in size + 1 .. size + c : t[k] = n
Shrinks(s, t, c) ==
  \E size \in Nat : /\ DOMAIN s = 1 .. size /\ DOMAIN t = 1 .. size - c
                    /\ \A k \in 1 .. size - c : t[k] = s[k + c]

LEMMA UnitsGrow ==
  ASSUME NEW s \in Seq(Nat), NEW n \in Nat, NEW c \in Nat
  PROVE  s \o [i \in 1 .. c |-> n] \in Seq(Nat) /\ Grows(s, s \o [i \in 1 .. c |-> n], n, c)
<1> DEFINE u == [i \in 1 .. c |-> n]
<1>1. u \in Seq(Nat) /\ Len(u) = c /\ \A i \in 1 .. c : u[i] = n
  <2>1. u \in Seq(Nat)
    BY IsASeq
  <2> QED
    BY <2>1, LenProperties
<1> HIDE DEF u
<1> PICK size \in Nat : size = Len(s) /\ DOMAIN s = 1 .. size
  BY LenProperties
<1>2. /\ s \o u \in Seq(Nat) /\ Len(s \o u) = size + c
      /\ \A i \in 1 .. size + c : (s \o u)[i] = IF i <= size THEN s[i] ELSE u[i - size]
  <2>1. u \in Seq(Nat) /\ s \in Seq(Nat) /\ Len(s) = size /\ Len(u) = c
    BY <1>1
  <2>2. /\ s \o u \in Seq(Nat) /\ Len(s \o u) = Len(s) + Len(u)
        /\ \A i \in 1 .. Len(s) + Len(u) : (s \o u)[i] = IF i <= Len(s) THEN s[i] ELSE u[i - Len(s)]
    BY ONLY <2>1, ConcatProperties
  <2> QED
    BY <2>1, <2>2
<1>3. DOMAIN (s \o u) = 1 .. size + c
  BY <1>2, LenProperties
<1>4. \A k \in 1 .. size : (s \o u)[k] = s[k]
  BY <1>2
<1>5. \A k \in size + 1 .. size + c : (s \o u)[k] = n
  BY <1>1, <1>2
<1> QED
  BY <1>2, <1>3, <1>4, <1>5 DEF Grows, u

LEMMA UnitsTaken ==
  ASSUME NEW s \in Seq(Nat), NEW c \in Nat
  PROVE  SubSeq(s, c + 1, Len(s)) \in Seq(Nat) /\ Shrinks(s, SubSeq(s, c + 1, Len(s)), c)
<1> PICK size \in Nat : size = Len(s) /\ DOMAIN s = 1 .. size
  BY LenProperties
<1> DEFINE t == SubSeq(s, c + 1, size)
<1>1. \A i \in c + 1 .. size : s[i] \in Nat
  BY ElementOfSeq
<1>2. /\ t \in Seq(Nat) /\ Len(t) = IF c + 1 <= size THEN size - (c + 1) + 1 ELSE 0
      /\ \A i \in 1 .. size - (c + 1) + 1 : t[i] = s[(c + 1) + i - 1]
  BY <1>1, SubSeqProperties
<1> HIDE DEF t
<1>3. DOMAIN t = 1 .. Len(t)
  BY <1>2, LenProperties
<1>4. DOMAIN t = 1 .. size - c
  BY <1>2, <1>3
<1>5. \A k \in 1 .. size - c : t[k] = s[k + c]
  BY <1>2
<1> QED
  BY <1>2, <1>4, <1>5 DEF Shrinks, t

OthersUnread(con) == \A other \in WsCons : other # con => wsCon'[other].unread = wsCon[other].unread

LEMMA ProcessEffect ==
  ASSUME WsBase, NEW type \in FrameTypes, ProcessPacket(type)
  PROVE  /\ WsType' /\ busy # Idle /\ busy' = Idle /\ busy.con \in WsCons /\ wsCon[busy.con].live
         /\ busy.do = type
         /\ ConsKept /\ LiveKept /\ OthersUnread(busy.con)
         /\ CASE type = "text"  -> RingQueued(Event("message", busy.con, busy.n))
              [] type = "close" -> RingQueued(Event("close", busy.con, 0))
              [] OTHER -> UNCHANGED <<wsRing, wsLost>>
         /\ wsMixed \subseteq wsMixed'
         /\ busy.con \notin wsMixed' =>
              \/ /\ RingAdded(Event("message", busy.con, busy.n))
                 /\ Grows(wsCon[busy.con].unread, wsCon'[busy.con].unread, busy.n, frames[busy.n])
              \/ type # "text" /\ UnreadKept
              \/ UNCHANGED wsRing /\ UnreadKept
         /\ UNCHANGED <<peers, wsList, frames, early, again, wsBad>>
<1> DEFINE con == busy.con
           stored == Stored(wsCon[con], busy.n)
           new == CASE type = "refused" -> wsCon[con]
                    [] type = "binary"  -> Consume(stored, frames[busy.n])
                    [] OTHER            -> stored
<1>1. /\ busy # Idle /\ busy' = Idle /\ con \in WsCons /\ wsCon[con].live /\ busy.do = type
      /\ UNCHANGED <<peers, wsList, frames, early, again, wsBad>>
  BY DEF ProcessPacket, Doing, LiveCon
<1>2. /\ wsCon' = [wsCon EXCEPT ![con] = new]
      /\ wsRing' = CASE type = "text"  -> WsQueue(wsRing, Event("message", con, busy.n))
                     [] type = "close" -> WsQueue(wsRing, Event("close", con, 0))
                     [] OTHER          -> wsRing
      /\ wsLost' = (wsLost \/ (type \in {"text", "close"} /\ WsFull(wsRing)))
      /\ wsMixed' = IF \/ type = "text" /\ ~WsFull(wsRing)
                       \/ new.unread = wsCon[con].unread
                    THEN wsMixed ELSE wsMixed \cup {con}
  BY DEF ProcessPacket
<1>3. WsType /\ NumbersMade
  BY DEF WsBase
<1>4. wsCon[con] \in WsCon /\ con \in Nat /\ busy.n \in Nat /\ frames[busy.n] \in Nat
  BY <1>1, <1>3, Indices DEF NumbersMade
<1>5. PICK old : old = wsCon[con].unread /\ old \in Seq(Nat)
  BY <1>4 DEF WsCon
<1>6. PICK c \in Nat : c = frames[busy.n]
  BY <1>4
<1>7. PICK n \in Nat : n = busy.n
  BY <1>4
<1>8. PICK more : more = old \o [i \in 1 .. c |-> n] /\ more \in Seq(Nat) /\ Grows(old, more, n, c)
  BY <1>5, <1>6, <1>7, UnitsGrow
<1>9. PICK left : left = SubSeq(more, c + 1, Len(more)) /\ left \in Seq(Nat) /\ (old = <<>> => left = <<>>)
  <2> DEFINE left == SubSeq(more, c + 1, Len(more))
  <2>1. left \in Seq(Nat) /\ Shrinks(more, left, c)
    BY <1>8, UnitsTaken
  <2>2. ASSUME old = <<>> PROVE left = <<>>
    <3>1. PICK size \in Nat : DOMAIN old = 1 .. size /\ DOMAIN more = 1 .. size + c
      BY <1>8 DEF Grows
    <3>2. DOMAIN old = {}
      BY <2>2
    <3>3. size = 0
      BY <3>1, <3>2
    <3>4. PICK all \in Nat : DOMAIN more = 1 .. all /\ DOMAIN left = 1 .. all - c
      BY <2>1 DEF Shrinks
    <3>5. all = c
      BY <3>1, <3>3, <3>4
    <3>6. DOMAIN left = {}
      BY <3>4, <3>5
    <3>7. Len(left) = 0
      <4> PICK l \in Nat : l = Len(left) /\ DOMAIN left = 1 .. l
        BY <2>1, LenProperties
      <4>1. l # 0 => 1 \in 1 .. l
        OBVIOUS
      <4>2. l = 0
        BY <3>6, <4>1
      <4> QED
        BY <4>2
    <3> QED
      BY <2>1, <3>7, EmptySeq
  <2> QED
    BY <2>1, <2>2
<1>10. stored.unread = more /\ stored \in WsCon /\ stored.ctx = wsCon[con].ctx /\ stored.live = wsCon[con].live
  <2>1. stored = [wsCon[con] EXCEPT !.unread = @ \o Units(busy.n), !.end = @ + frames[busy.n]]
    BY DEF Stored
  <2>2. wsCon[con].end \in Nat /\ wsCon[con].end + c \in Nat
    BY <1>4 DEF WsCon
  <2>3. Units(busy.n) = [i \in 1 .. c |-> n]
    BY <1>6, <1>7 DEF Units
  <2>4. stored = [wsCon[con] EXCEPT !.unread = more, !.end = wsCon[con].end + c]
    BY <1>4, <1>5, <1>6, <1>8, <2>1, <2>3 DEF WsCon
  <2> QED
    BY <1>4, <1>8, <2>2, <2>4 DEF WsCon
<1> HIDE DEF stored
<1>11. Consume(stored, c) \in WsCon /\ Consume(stored, c).unread = left
       /\ Consume(stored, c).ctx = stored.ctx /\ Consume(stored, c).live = stored.live
  <2>1. Consume(stored, c) = [stored EXCEPT !.unread = left, !.end = IF left = <<>> THEN 0 ELSE stored.end]
    BY <1>9, <1>10 DEF Consume, WsCon
  <2>2. PICK end \in Nat : end = IF left = <<>> THEN 0 ELSE stored.end
    BY <1>10 DEF WsCon
  <2>3. Consume(stored, c) = [stored EXCEPT !.unread = left, !.end = end]
    BY <2>1, <2>2
  <2> QED
    BY <1>9, <1>10, <2>3 DEF WsCon
<1>12. /\ new \in WsCon /\ new.ctx = wsCon[con].ctx /\ new.live = wsCon[con].live
       /\ type = "text" => new.unread = more
  BY <1>4, <1>6, <1>10, <1>11
<1> HIDE DEF new, con
<1>13. /\ wsCon' \in Seq(WsCon) /\ ConsKept /\ wsCon'[con] = new
       /\ \A other \in WsCons : other # con => wsCon'[other] = wsCon[other]
  BY <1>1, <1>2, <1>3, <1>12, SetsCon
<1>14. LiveKept /\ OthersUnread(con)
  BY <1>12, <1>13 DEF LiveKept, OthersUnread
<1>15. Idle \in WsBusy /\ Event("message", con, n) \in WsItem /\ Event("close", con, 0) \in WsItem
  BY <1>4, ItemsTyped DEF con
<1>16. /\ wsRing' \in Seq(WsItem) /\ wsLost' \in BOOLEAN
       /\ CASE type = "text"  -> RingQueued(Event("message", con, n))
            [] type = "close" -> RingQueued(Event("close", con, 0))
            [] OTHER -> UNCHANGED <<wsRing, wsLost>>
  <2>1. CASE type = "text"
    <3>1. wsRing' = WsQueue(wsRing, Event("message", con, n)) /\ wsLost' = (wsLost \/ WsFull(wsRing))
      BY <1>2, <1>7, <2>1
    <3>2. wsRing' \in Seq(WsItem) /\ RingQueued(Event("message", con, n))
      BY <1>3, <1>15, <3>1, Queues
    <3> QED
      BY <2>1, <3>1, <3>2
  <2>2. CASE type = "close"
    <3>1. wsRing' = WsQueue(wsRing, Event("close", con, 0)) /\ wsLost' = (wsLost \/ WsFull(wsRing))
      BY <1>2, <2>2
    <3>2. wsRing' \in Seq(WsItem) /\ RingQueued(Event("close", con, 0))
      BY <1>3, <1>15, <3>1, Queues
    <3> QED
      BY <2>2, <3>1, <3>2
  <2>3. CASE type \notin {"text", "close"}
    <3>1. wsRing' = wsRing /\ wsLost' = wsLost
      BY <1>2, <1>3, <2>3 DEF WsType
    <3> QED
      BY <1>3, <2>3, <3>1 DEF WsType
  <2> QED
    BY <2>1, <2>2, <2>3
<1>17. WsType'
  BY <1>1, <1>3, <1>13, <1>15, <1>16 DEF WsType
<1>18. ASSUME con \notin wsMixed'
       PROVE  \/ RingAdded(Event("message", con, n)) /\ Grows(old, wsCon'[con].unread, n, c)
              \/ type # "text" /\ UnreadKept
              \/ UNCHANGED wsRing /\ UnreadKept
  <2>1. CASE type = "text" /\ ~WsFull(wsRing)
    <3>1. wsRing' = WsQueue(wsRing, Event("message", con, n)) /\ wsLost' = (wsLost \/ WsFull(wsRing))
      BY <1>2, <1>7, <2>1
    <3>2. RingAdded(Event("message", con, n))
      BY <1>3, <1>15, <2>1, <3>1, QueuesFree
    <3>3. wsCon'[con].unread = more
      BY <1>12, <1>13, <2>1
    <3> QED
      BY <1>8, <3>2, <3>3
  <2>2. CASE new.unread = wsCon[con].unread
    <3>1. UnreadKept
      BY <1>13, <2>2 DEF UnreadKept
    <3>2. type = "text" => UNCHANGED wsRing \/ ~WsFull(wsRing)
      BY <1>2, <1>7 DEF WsQueue
    <3> QED
      BY <2>1, <3>1, <3>2
  <2> QED
    BY <1>2, <1>18, <2>1, <2>2
<1>19. wsMixed \subseteq wsMixed'
  BY <1>2
<1> QED
  BY <1>1, <1>5, <1>6, <1>7, <1>13, <1>14, <1>16, <1>17, <1>18, <1>19 DEF con

LEMMA MessageEffect ==
  ASSUME WsBase, NEW made \in BOOLEAN, WsMessage(made)
  PROVE  /\ WsType' /\ RingTaken /\ wsRing[1].kind = "message" /\ wsRing[1].con \in WsCons
         /\ busy = Idle
         /\ ConsKept /\ LiveKept /\ OthersUnread(wsRing[1].con)
         /\ wsMixed \subseteq wsMixed'
         /\ wsRing[1].con \notin wsMixed' =>
              Shrinks(wsCon[wsRing[1].con].unread, wsCon'[wsRing[1].con].unread, frames[wsRing[1].n])
         /\ wsBad' => wsBad \/ (/\ wsRing[1].con \notin wsMixed
                                /\ \E i \in 1 .. frames[wsRing[1].n] :
                                     ~(/\ i \in DOMAIN wsCon[wsRing[1].con].unread
                                       /\ wsCon[wsRing[1].con].unread[i] = wsRing[1].n))
         /\ UNCHANGED <<peers, wsList, busy, frames, early, again, wsLost>>
<1> DEFINE item == Head(wsRing)
           con  == item.con
           left == Consume(wsCon[con], frames[item.n])
<1>1. /\ wsRing # <<>> /\ item.kind = "message" /\ wsRing' = Tail(wsRing) /\ busy = Idle
      /\ con \in WsCons /\ wsCon[con].live
      /\ UNCHANGED <<peers, wsList, busy, frames, early, again, wsLost>>
  BY DEF WsMessage, WsTakes, WsMain, LiveCon
<1>2. /\ wsCon' = IF made THEN [wsCon EXCEPT ![con] = left] ELSE wsCon
      /\ wsMixed' = IF made THEN wsMixed ELSE wsMixed \cup {con}
      /\ wsBad' = (wsBad \/ (made /\ con \notin wsMixed
                   /\ ~\A i \in 1 .. frames[item.n] : i \in DOMAIN wsCon[con].unread
                                              /\ wsCon[con].unread[i] = item.n))
  BY DEF WsMessage, Brings
<1>3. WsType /\ NumbersMade
  BY DEF WsBase
<1>4. wsRing' \in Seq(WsItem) /\ RingTaken
  BY <1>1, <1>3, Takes
<1>5. item = wsRing[1] /\ 1 \in DOMAIN wsRing
  BY <1>4 DEF RingTaken
<1>6. wsCon[con] \in WsCon /\ frames[item.n] \in Nat
  BY <1>1, <1>3, <1>5, Indices DEF NumbersMade, ItemMade
<1>7. PICK c \in Nat : c = frames[item.n]
  BY <1>6
<1>8. PICK old \in Seq(Nat) : old = wsCon[con].unread
  BY <1>6 DEF WsCon
<1>9. PICK rest \in Seq(Nat) : rest = SubSeq(old, c + 1, Len(old)) /\ Shrinks(old, rest, c)
  BY UnitsTaken
<1>10. left \in WsCon /\ left.ctx = wsCon[con].ctx /\ left.live = wsCon[con].live /\ left.unread = rest
  <2>1. left = [wsCon[con] EXCEPT !.unread = rest, !.end = IF rest = <<>> THEN 0 ELSE wsCon[con].end]
    BY <1>6, <1>7, <1>8, <1>9 DEF Consume, WsCon
  <2>2. PICK end \in Nat : end = IF rest = <<>> THEN 0 ELSE wsCon[con].end
    BY <1>6 DEF WsCon
  <2>3. left = [wsCon[con] EXCEPT !.unread = rest, !.end = end]
    BY <2>1, <2>2
  <2> QED
    BY <1>6, <2>3 DEF WsCon
<1>11. wsBad' => wsBad \/ (con \notin wsMixed /\ \E i \in 1 .. frames[item.n] :
                             ~(i \in DOMAIN wsCon[con].unread /\ wsCon[con].unread[i] = item.n))
  BY <1>2
<1> HIDE DEF left, con, item
<1>12. CASE made
  <2>1. /\ wsCon' \in Seq(WsCon) /\ ConsKept /\ wsCon'[con] = left
        /\ \A other \in WsCons : other # con => wsCon'[other] = wsCon[other]
    BY <1>1, <1>2, <1>3, <1>10, <1>12, SetsCon
  <2>2. LiveKept /\ OthersUnread(con)
    BY <1>10, <2>1 DEF LiveKept, OthersUnread
  <2>3. WsType'
    BY <1>1, <1>3, <1>4, <2>1 DEF WsType
  <2>4. wsMixed' = wsMixed /\ Shrinks(wsCon[con].unread, wsCon'[con].unread, frames[item.n])
    BY <1>2, <1>7, <1>8, <1>9, <1>10, <1>12, <2>1
  <2> QED
    BY <1>1, <1>4, <1>5, <1>11, <2>1, <2>2, <2>3, <2>4 DEF con
<1>13. CASE ~made
  <2>1. wsCon' = wsCon /\ wsMixed' = wsMixed \cup {con}
    BY <1>2, <1>13
  <2>2. ConsKept /\ LiveKept /\ OthersUnread(con)
    BY <2>1 DEF ConsKept, LiveKept, OthersUnread
  <2>3. WsType'
    BY <1>1, <1>3, <1>4, <2>1 DEF WsType
  <2> QED
    BY <1>1, <1>4, <1>5, <1>11, <2>1, <2>2, <2>3 DEF con
<1> QED
  BY <1>12, <1>13

LEMMA CloseEventEffect ==
  ASSUME WsBase, WsCloseEvent
  PROVE  /\ WsType' /\ RingTaken /\ wsRing[1].kind = "close" /\ ClosesCon(wsRing[1].con) /\ busy = Idle
         /\ UNCHANGED <<peers, busy, frames, wsMixed, early, again, wsLost, wsBad>>
<1> DEFINE con == Head(wsRing).con
<1>1. /\ wsRing # <<>> /\ Head(wsRing).kind = "close" /\ wsRing' = Tail(wsRing) /\ busy = Idle
      /\ con \in WsCons /\ CloseConnection(con)
      /\ UNCHANGED <<peers, busy, frames, wsMixed, early, again, wsLost, wsBad>>
  BY DEF WsCloseEvent, WsTakes, WsMain, LiveCon
<1>2. WsType
  BY DEF WsBase
<1>3. wsRing' \in Seq(WsItem) /\ RingTaken
  BY <1>1, <1>2, Takes
<1>4. wsCon' \in Seq(WsCon) /\ ClosesCon(con) /\ wsList' \subseteq Nat
  BY <1>1, <1>2, ClosingTyped
<1>5. WsType'
  BY <1>1, <1>2, <1>3, <1>4 DEF WsType
<1> QED
  BY <1>1, <1>3, <1>4, <1>5 DEF RingTaken

LEMMA TerminateEffect ==
  ASSUME WsBase, NEW con \in WsCons, Terminate(con)
  PROVE  /\ WsType' /\ ClosesCon(con) /\ again' # {}
         /\ UNCHANGED <<peers, wsRing, busy, frames, wsMixed, early, wsLost, wsBad>>
<1>1. /\ CloseConnection(con) /\ again' = again \cup {wsCon[con].ctx}
      /\ UNCHANGED <<peers, wsRing, busy, frames, wsMixed, early, wsLost, wsBad>>
  BY DEF Terminate
<1>2. WsType
  BY DEF WsBase
<1>3. wsCon' \in Seq(WsCon) /\ ClosesCon(con) /\ wsList' \subseteq Nat
  BY <1>1, <1>2, ClosingTyped
<1>4. WsType'
  BY <1>1, <1>2, <1>3 DEF WsType
<1> QED
  BY <1>1, <1>3, <1>4

\* What ends a behaviour.
WsEnds ==
  \/ (\E ctx \in Clients : CloseUsesFreed(ctx)) \/ PacketOfFreed \/ BusyWithFreed \/ AcceptWithoutKey
  \/ BufferOverflow \/ EventWithoutHandle

LEMMA EndsReset ==
  ASSUME WsEnds
  PROVE  WsReset /\ UNCHANGED <<early, again>>
  BY DEF WsEnds, WsReset, CloseUsesFreed, PacketOfFreed, BusyWithFreed, AcceptWithoutKey, BufferOverflow,
         EventWithoutHandle, WsFails

LEMMA ResetBase ==
  ASSUME WsReset
  PROVE  WsBase'
<1>1. /\ peers' = <<>> /\ wsCon' = <<>> /\ wsList' = {} /\ wsRing' = <<>>
       /\ busy' = Idle /\ frames' = <<>> /\ wsLost' = FALSE
  BY DEF WsReset
<1>2. Idle \in WsBusy /\ \A S : <<>> \in Seq(S) /\ DOMAIN <<>> = {}
  BY ItemsTyped, EmptySeq
<1>3. WsType'
  BY <1>1, <1>2, EmptySeq DEF WsType
<1>4. WsCons' = {} /\ Clients' = {} /\ DOMAIN wsRing' = {}
  BY <1>1 DEF WsCons, Clients
<1>5. NumbersMade'
  BY <1>1, <1>4 DEF NumbersMade
<1>6. MadeOnce'
  BY <1>1, <1>4 DEF MadeOnce
<1> QED
  BY <1>3, <1>5, <1>6 DEF WsBase

\* What exists stays, and keeps its client.
Stays ==
  /\ Clients \subseteq Clients' /\ DOMAIN frames \subseteq DOMAIN frames' /\ WsCons \subseteq WsCons'
  /\ \A con \in WsCons : wsCon'[con].ctx = wsCon[con].ctx

LEMMA ItemStaysMade ==
  ASSUME Stays, NEW item, ItemMade(item)
  PROVE  ItemMade(item)'
  BY DEF Stays, ItemMade

LEMMA RingFrom ==
  ASSUME NEW item, RingSame \/ RingTaken \/ RingQueued(item), NEW i \in DOMAIN wsRing'
  PROVE  (\E j \in DOMAIN wsRing : wsRing'[i] = wsRing[j]) \/ (RingQueued(item) /\ wsRing'[i] = item)
<1>1. CASE RingSame
  BY <1>1 DEF RingSame
<1>2. CASE RingTaken
  BY <1>2 DEF RingTaken
<1>3. CASE RingQueued(item) /\ ~RingSame
  <2>1. PICK n \in Nat : /\ DOMAIN wsRing = 1 .. n /\ DOMAIN wsRing' = 1 .. n + 1 /\ wsRing'[n + 1] = item
                         /\ \A j \in 1 .. n : wsRing'[j] = wsRing[j]
    BY <1>3 DEF RingQueued, RingAdded
  <2>2. i \in 1 .. n \/ i = n + 1
    BY <2>1
  <2> QED
    BY <1>3, <2>1, <2>2
<1> QED
  BY <1>1, <1>2, <1>3

LEMMA MadeKept ==
  ASSUME WsBase, Stays, NEW item, RingSame \/ RingTaken \/ (RingQueued(item) /\ ItemMade(item)'),
         \A con \in wsList' : con \in WsCons' /\ wsCon'[con].live,
         \A con \in WsCons' : wsCon'[con].ctx \in Clients',
         busy' # Idle => busy'.con \in WsCons' /\ busy'.n \in DOMAIN frames'
  PROVE  NumbersMade'
<1>1. ASSUME NEW i \in DOMAIN wsRing', NEW x, x = wsRing'[i] PROVE ItemMade(x)'
  <2>1. RingSame \/ RingTaken \/ RingQueued(item)
    OBVIOUS
  <2>2. (\E j \in DOMAIN wsRing : wsRing'[i] = wsRing[j]) \/ (RingQueued(item) /\ wsRing'[i] = item)
    BY <2>1, RingFrom
  <2>3. CASE \E j \in DOMAIN wsRing : wsRing'[i] = wsRing[j]
    <3>1. ItemMade(x)
      BY <1>1, <2>3 DEF WsBase, NumbersMade
    <3> QED
      BY <3>1, ItemStaysMade
  <2>4. CASE x = item /\ ItemMade(item)'
    BY <2>4
  <2>5. CASE x = item /\ ~ItemMade(item)'
    <3>1. RingSame \/ RingTaken
      BY <2>5
    <3>2. \E j \in DOMAIN wsRing : wsRing'[i] = wsRing[j]
      BY <3>1 DEF RingSame, RingTaken
    <3> QED
      BY <2>3, <3>2
  <2> QED
    BY <1>1, <2>2, <2>3, <2>4, <2>5
<1>2. \A i \in DOMAIN wsRing' : \A x : x = wsRing'[i] => ItemMade(x)'
  BY <1>1
<1>3. (\A i \in DOMAIN wsRing : ItemMade(wsRing[i]))'
  BY <1>2 DEF ItemMade
<1> QED
  BY <1>3 DEF NumbersMade

OtherItem(item) == item.kind # "accept"

LEMMA OnceKept ==
  ASSUME WsBase, ConsKept, NEW item, RingSame \/ RingTaken \/ (RingQueued(item) /\ OtherItem(item))
  PROVE  MadeOnce'
<1>1. WsCons' = WsCons /\ \A con \in WsCons : wsCon'[con].ctx = wsCon[con].ctx
  BY DEF ConsKept, WsCons
<1>2. \A con, other \in WsCons' : wsCon'[con].ctx = wsCon'[other].ctx => con = other
  BY <1>1 DEF WsBase, MadeOnce
<1>3. ASSUME NEW i \in DOMAIN wsRing', wsRing'[i].kind = "accept"
      PROVE  \E j \in DOMAIN wsRing : wsRing'[i] = wsRing[j]
  <2>1. RingSame \/ RingTaken \/ RingQueued(item)
    OBVIOUS
  <2>2. (\E j \in DOMAIN wsRing : wsRing'[i] = wsRing[j]) \/ (RingQueued(item) /\ wsRing'[i] = item)
    BY <2>1, RingFrom
  <2>3. CASE OtherItem(item)
    BY <1>3, <2>2, <2>3 DEF OtherItem
  <2>4. CASE RingSame \/ RingTaken
    BY <2>4 DEF RingSame, RingTaken
  <2> QED
    BY <2>3, <2>4
<1>4. ASSUME NEW i \in DOMAIN wsRing', NEW con \in WsCons', wsRing'[i].kind = "accept"
      PROVE  wsRing'[i].ctx # wsCon'[con].ctx
  <2>1. PICK j \in DOMAIN wsRing : wsRing'[i] = wsRing[j]
    BY <1>3, <1>4
  <2> QED
    BY <1>1, <1>4, <2>1 DEF WsBase, MadeOnce
<1>5. ASSUME NEW i \in DOMAIN wsRing', NEW j \in DOMAIN wsRing', wsRing'[i].kind = "accept", wsRing'[j].kind = "accept",
             wsRing'[i].ctx = wsRing'[j].ctx
      PROVE  i = j
  <2>0. \A k, l \in DOMAIN wsRing :
          wsRing[k].kind = "accept" /\ wsRing[l].kind = "accept" /\ wsRing[k].ctx = wsRing[l].ctx => k = l
    BY DEF WsBase, MadeOnce
  <2>1. CASE RingSame
    BY <1>5, <2>0, <2>1 DEF RingSame
  <2>2. CASE RingTaken
    <3>1. /\ i \in Nat /\ i + 1 \in DOMAIN wsRing /\ wsRing'[i] = wsRing[i + 1]
          /\ j \in Nat /\ j + 1 \in DOMAIN wsRing /\ wsRing'[j] = wsRing[j + 1]
      BY <2>2 DEF RingTaken
    <3>2. i + 1 = j + 1
      BY <1>5, <2>0, <3>1
    <3> QED
      BY <3>1, <3>2
  <2>3. CASE RingQueued(item) /\ OtherItem(item) /\ ~RingSame
    <3>1. PICK n \in Nat : /\ DOMAIN wsRing = 1 .. n /\ DOMAIN wsRing' = 1 .. n + 1 /\ wsRing'[n + 1] = item
                           /\ \A k \in 1 .. n : wsRing'[k] = wsRing[k]
      BY <2>3 DEF RingQueued, RingAdded
    <3>2. i # n + 1 /\ j # n + 1
      BY <1>5, <2>3, <3>1 DEF OtherItem
    <3>3. i \in 1 .. n /\ j \in 1 .. n
      BY <3>1, <3>2
    <3> QED
      BY <1>5, <2>0, <3>1, <3>3
  <2> QED
    BY <2>1, <2>2, <2>3
<1> QED
  BY <1>2, <1>4, <1>5 DEF MadeOnce

\* WsBase is kept by a step that makes no client and no connection.
LEMMA BaseKept ==
  ASSUME WsBase, WsType', ConsKept, NEW item,
         RingSame \/ RingTaken \/ (RingQueued(item) /\ OtherItem(item) /\ ItemMade(item)'),
         Clients' = Clients, DOMAIN frames \subseteq DOMAIN frames',
         (LiveKept /\ wsList' = wsList) \/ \E con : ClosesCon(con),
         busy' = Idle \/ (busy'.con \in WsCons /\ busy'.n \in DOMAIN frames')
  PROVE  WsBase'
<1>1. WsCons' = WsCons /\ \A con \in WsCons : wsCon'[con].ctx = wsCon[con].ctx
  BY DEF ConsKept, WsCons
<1>2. Stays
  BY <1>1 DEF Stays
<1>3. \A con \in wsList' : con \in WsCons' /\ wsCon'[con].live
  <2>1. \A con \in wsList : con \in WsCons /\ wsCon[con].live
    BY DEF WsBase, NumbersMade
  <2>2. CASE LiveKept /\ wsList' = wsList
    BY <1>1, <2>1, <2>2 DEF LiveKept
  <2>3. CASE \E con : ClosesCon(con)
    <3>1. PICK con : ClosesCon(con)
      BY <2>3
    <3>2. \A other \in wsList' : other \in wsList /\ other # con
      BY <3>1 DEF ClosesCon
    <3>3. \A other \in WsCons : wsCon'[other].live = (other # con /\ wsCon[other].live)
      BY <3>1 DEF ClosesCon
    <3> QED
      BY <1>1, <2>1, <3>2, <3>3
  <2> QED
    BY <2>2, <2>3
<1>4. \A con \in WsCons' : wsCon'[con].ctx \in Clients'
  BY <1>1 DEF WsBase, NumbersMade
<1>5. busy' # Idle => busy'.con \in WsCons' /\ busy'.n \in DOMAIN frames'
  BY <1>1
<1>6. NumbersMade'
  <2>1. RingSame \/ RingTaken \/ (RingQueued(item) /\ ItemMade(item)')
    OBVIOUS
  <2> QED
    BY <1>2, <1>3, <1>4, <1>5, <2>1, MadeKept
<1>7. MadeOnce'
  <2>1. RingSame \/ RingTaken \/ (RingQueued(item) /\ OtherItem(item))
    OBVIOUS
  <2> QED
    BY <2>1, OnceKept
<1> QED
  BY <1>6, <1>7 DEF WsBase

LEMMA AcceptedKeepsBase ==
  ASSUME WsBase, WsAccepted
  PROVE  WsBase'
<1>0. WsType' /\ UNCHANGED <<wsCon, wsList, busy, frames>>
  BY AcceptedEffect
<1>1. PICK n \in Nat : /\ Clients = 1 .. n /\ Clients' = 1 .. n + 1 /\ RingQueued(Accepted(n + 1))
  BY AcceptedEffect
<1> DEFINE item == Accepted(n + 1)
<1>2. item.kind = "accept" /\ item.ctx = n + 1
  BY DEF Accepted
<1>3. n + 1 \in Clients' /\ n + 1 \notin Clients /\ Clients \subseteq Clients'
  BY <1>1
<1> HIDE DEF item
<1>4. ItemMade(item)'
  BY <1>2, <1>3 DEF ItemMade
<1>5. WsCons' = WsCons
  BY <1>0 DEF WsCons
<1>6. Stays
  BY <1>0, <1>3, <1>5 DEF Stays
<1>7. NumbersMade'
  <2>1. /\ \A con \in wsList' : con \in WsCons' /\ wsCon'[con].live
        /\ \A con \in WsCons' : wsCon'[con].ctx \in Clients'
        /\ busy' # Idle => busy'.con \in WsCons' /\ busy'.n \in DOMAIN frames'
    BY <1>0, <1>3, <1>5 DEF WsBase, NumbersMade
  <2>2. RingQueued(item)
    BY <1>1 DEF item
  <2> QED
    BY <1>4, <1>6, <2>1, <2>2, MadeKept
<1>8. MadeOnce'
  <2>0. \A i \in DOMAIN wsRing : wsRing[i].kind = "accept" => wsRing[i].ctx # n + 1
    BY <1>3 DEF WsBase, NumbersMade, ItemMade
  <2>1. \A con \in WsCons : wsCon[con].ctx # n + 1
    BY <1>3 DEF WsBase, NumbersMade
  <2>2. CASE RingSame
    BY <1>0, <1>5, <2>2 DEF WsBase, MadeOnce, RingSame
  <2>3. CASE RingAdded(item)
    <3>1. PICK m \in Nat : /\ DOMAIN wsRing = 1 .. m /\ DOMAIN wsRing' = 1 .. m + 1 /\ wsRing'[m + 1] = item
                           /\ \A k \in 1 .. m : wsRing'[k] = wsRing[k]
      BY <2>3 DEF RingAdded
    <3>2. \A k \in DOMAIN wsRing' :
             (k \in DOMAIN wsRing /\ wsRing'[k] = wsRing[k]) \/ (k = m + 1 /\ wsRing'[k] = item)
      BY <3>1
    <3>3. \A con, other \in WsCons' : wsCon'[con].ctx = wsCon'[other].ctx => con = other
      BY <1>0, <1>5 DEF WsBase, MadeOnce
    <3>4. \A k \in DOMAIN wsRing', con \in WsCons' : wsRing'[k].kind = "accept" => wsRing'[k].ctx # wsCon'[con].ctx
      BY <1>0, <1>2, <1>5, <2>1, <3>2 DEF WsBase, MadeOnce
    <3>5. \A k, l \in DOMAIN wsRing' :
            wsRing'[k].kind = "accept" /\ wsRing'[l].kind = "accept" /\ wsRing'[k].ctx = wsRing'[l].ctx => k = l
      BY <1>2, <2>0, <3>2 DEF WsBase, MadeOnce
    <3> QED
      BY <3>3, <3>4, <3>5 DEF MadeOnce
  <2> QED
    BY <1>1, <2>2, <2>3 DEF RingQueued, item
<1> QED
  BY <1>0, <1>7, <1>8 DEF WsBase

LEMMA AcceptKeepsBase ==
  ASSUME WsBase, WsAccept
  PROVE  WsBase'
<1>0. /\ WsType' /\ RingTaken /\ wsRing[1].kind = "accept" /\ UNCHANGED <<peers, busy, frames>>
      /\ 1 \in DOMAIN wsRing
  BY AcceptEffect DEF RingTaken
<1>1. PICK n \in Nat : /\ WsCons = 1 .. n /\ WsCons' = 1 .. n + 1 /\ \A con \in 1 .. n : wsCon'[con] = wsCon[con]
                       /\ wsCon'[n + 1].ctx = wsRing[1].ctx /\ wsCon'[n + 1].live
                       /\ wsList' = wsList \cup {n + 1}
  BY AcceptEffect
<1>2. n + 1 \in WsCons' /\ n + 1 \notin WsCons /\ WsCons \subseteq WsCons'
      /\ \A con \in WsCons' : con \in WsCons \/ con = n + 1
  BY <1>1
<1>3. Clients' = Clients
  BY <1>0 DEF Clients
<1>4. Stays
  BY <1>0, <1>1, <1>2, <1>3 DEF Stays
<1>5. wsRing[1].ctx \in Clients
  BY <1>0 DEF WsBase, NumbersMade, ItemMade
<1>6. NumbersMade'
  <2>1. \A con \in wsList' : con \in WsCons' /\ wsCon'[con].live
    <3>1. \A con \in wsList : con \in WsCons /\ wsCon[con].live
      BY DEF WsBase, NumbersMade
    <3> QED
      BY <1>1, <1>2, <3>1
  <2>2. \A con \in WsCons' : wsCon'[con].ctx \in Clients'
    BY <1>1, <1>2, <1>3, <1>5 DEF WsBase, NumbersMade
  <2>3. busy' # Idle => busy'.con \in WsCons' /\ busy'.n \in DOMAIN frames'
    BY <1>0, <1>2 DEF WsBase, NumbersMade
  <2> QED
    BY <1>0, <1>4, <2>1, <2>2, <2>3, MadeKept
<1>7. MadeOnce'
  <2>0. \A con \in WsCons : wsCon[con].ctx # wsRing[1].ctx
    BY <1>0 DEF WsBase, MadeOnce
  <2>1. \A con, other \in WsCons' : wsCon'[con].ctx = wsCon'[other].ctx => con = other
    BY <1>1, <1>2, <2>0 DEF WsBase, MadeOnce
  <2>2. \A k \in DOMAIN wsRing' : k \in Nat /\ k + 1 \in DOMAIN wsRing /\ k + 1 # 1 /\ wsRing'[k] = wsRing[k + 1]
    BY <1>0 DEF RingTaken
  <2>3. \A k, l \in DOMAIN wsRing :
           wsRing[k].kind = "accept" /\ wsRing[l].kind = "accept" /\ wsRing[k].ctx = wsRing[l].ctx
          => k = l
    BY DEF WsBase, MadeOnce
  <2>4. \A k \in DOMAIN wsRing', con \in WsCons' : wsRing'[k].kind = "accept" => wsRing'[k].ctx # wsCon'[con].ctx
    <3> SUFFICES ASSUME NEW k \in DOMAIN wsRing', NEW con \in WsCons', wsRing'[k].kind = "accept"
                 PROVE  wsRing'[k].ctx # wsCon'[con].ctx
      OBVIOUS
    <3>1. k + 1 \in DOMAIN wsRing /\ k + 1 # 1 /\ wsRing'[k] = wsRing[k + 1]
      BY <2>2
    <3>2. CASE con = n + 1
      BY <1>0, <1>1, <2>3, <3>1, <3>2
    <3>3. CASE con \in WsCons
      BY <1>1, <3>1, <3>3 DEF WsBase, MadeOnce
    <3> QED
      BY <1>2, <3>2, <3>3
  <2>5. \A k, l \in DOMAIN wsRing' :
          wsRing'[k].kind = "accept" /\ wsRing'[l].kind = "accept" /\ wsRing'[k].ctx = wsRing'[l].ctx => k = l
    <3> SUFFICES ASSUME NEW k \in DOMAIN wsRing', NEW l \in DOMAIN wsRing', wsRing'[k].kind = "accept",
                        wsRing'[l].kind = "accept", wsRing'[k].ctx = wsRing'[l].ctx
                 PROVE  k = l
      OBVIOUS
    <3>1. k + 1 = l + 1 /\ k \in Nat /\ l \in Nat
      BY <2>2, <2>3
    <3> QED
      BY <3>1
  <2> QED
    BY <2>1, <2>4, <2>5 DEF MadeOnce
<1> QED
  BY <1>0, <1>6, <1>7 DEF WsBase

LEMMA WsBaseKept ==
  ASSUME WsBase, [WsNext]_wsVars
  PROVE  WsBase'
<1>1. CASE WsAccepted
  BY <1>1, AcceptedKeepsBase
<1>2. CASE WsAccept
  BY <1>2, AcceptKeepsBase
<1>3. CASE WsPacket
  <2>1. /\ WsType' /\ RingTaken /\ ConsKept /\ LiveKept /\ UNCHANGED <<peers, wsList, frames>>
        /\ busy' = Idle \/ (busy'.con \in WsCons /\ busy'.n = wsRing[1].n)
        /\ wsRing[1].kind = "packet"
    BY <1>3, PacketEffect
  <2>2. wsRing[1].kind = "packet" => wsRing[1].n \in DOMAIN frames
    BY <2>1 DEF WsBase, NumbersMade, ItemMade, RingTaken
  <2> QED
    BY <2>1, <2>2, BaseKept DEF Clients
<1>4. CASE Handshake
  <2>1. /\ WsType' /\ busy # Idle /\ busy' = Idle /\ ConsKept /\ LiveKept /\ UNCHANGED <<peers, wsList, frames>>
        /\ RingQueued(Event("handler", busy.con, 0)) \/ UNCHANGED <<wsRing, wsLost>>
    BY <1>4, HandshakeEffect
  <2> PICK item : item = Event("handler", busy.con, 0)
    OBVIOUS
  <2>2. item.kind = "handler" /\ item.con = busy.con
    BY DEF Event
  <2>3. busy.con \in WsCons'
    BY <2>1 DEF WsBase, NumbersMade, ConsKept, WsCons
  <2>4. RingSame \/ RingQueued(item)
    BY <2>1 DEF RingSame
  <2>5. ItemMade(item)' /\ OtherItem(item)
    BY <2>2, <2>3 DEF ItemMade, OtherItem
  <2> QED
    BY <2>1, <2>4, <2>5, BaseKept DEF Clients
<1>5. CASE \E chosen \in BOOLEAN : PostAccept(chosen)
  <2>1. PICK chosen \in BOOLEAN : PostAccept(chosen)
    BY <1>5
  <2>2. /\ WsType' /\ RingTaken /\ ConsKept /\ LiveKept /\ UNCHANGED <<peers, wsList, busy, frames>>
    BY <2>1, PostAcceptEffect
  <2>3. busy' = Idle \/ (busy'.con \in WsCons /\ busy'.n \in DOMAIN frames')
    BY <2>2 DEF WsBase, NumbersMade
  <2> QED
    BY <2>2, <2>3, BaseKept DEF Clients
<1>6. CASE \E type \in FrameTypes : ProcessPacket(type)
  <2>1. PICK type \in FrameTypes : ProcessPacket(type)
    BY <1>6
  <2>2. /\ WsType' /\ busy # Idle /\ busy' = Idle /\ ConsKept /\ LiveKept /\ UNCHANGED <<peers, wsList, frames>>
        /\ CASE type = "text"  -> RingQueued(Event("message", busy.con, busy.n))
             [] type = "close" -> RingQueued(Event("close", busy.con, 0))
             [] OTHER -> UNCHANGED <<wsRing, wsLost>>
    BY <2>1, ProcessEffect
  <2>3. busy.con \in WsCons' /\ busy.n \in DOMAIN frames'
    BY <2>2 DEF WsBase, NumbersMade, ConsKept, WsCons
  <2>4. \E item : RingSame \/ (RingQueued(item) /\ OtherItem(item) /\ ItemMade(item)')
    <3>1. CASE type = "text"
      <4> PICK item : item = Event("message", busy.con, busy.n)
        OBVIOUS
      <4>1. item.kind = "message" /\ item.con = busy.con /\ item.n = busy.n /\ RingQueued(item)
        BY <2>2, <3>1 DEF Event
      <4>2. ItemMade(item)' /\ OtherItem(item)
        BY <2>3, <4>1 DEF ItemMade, OtherItem
      <4> QED
        BY <4>1, <4>2
    <3>2. CASE type = "close"
      <4> PICK item : item = Event("close", busy.con, 0)
        OBVIOUS
      <4>1. item.kind = "close" /\ item.con = busy.con /\ RingQueued(item)
        BY <2>2, <3>2 DEF Event
      <4>2. ItemMade(item)' /\ OtherItem(item)
        BY <2>3, <4>1 DEF ItemMade, OtherItem
      <4> QED
        BY <4>1, <4>2
    <3>3. CASE type \notin {"text", "close"}
      BY <2>2, <3>3 DEF RingSame
    <3> QED
      BY <3>1, <3>2, <3>3
  <2>5. PICK item : RingSame \/ (RingQueued(item) /\ OtherItem(item) /\ ItemMade(item)')
    BY <2>4
  <2> QED
    BY <2>2, <2>5, BaseKept DEF Clients
<1>7. CASE \E ctx \in Clients, type \in FrameTypes, size \in WsSizes : WsReceived(ctx, type, size)
  <2>1. PICK ctx \in Clients, type \in FrameTypes, size \in WsSizes : WsReceived(ctx, type, size)
    BY <1>7
  <2>2. WsType' /\ Clients' = Clients /\ UNCHANGED <<wsCon, wsList, busy>>
    BY <2>1, ReceivedEffect DEF PeerSet, Clients
  <2>3. PICK m \in Nat : /\ DOMAIN frames = 1 .. m /\ DOMAIN frames' = 1 .. m + 1
                         /\ RingQueued(Packet(ctx, FindWs(ctx), type, m + 1))
    BY <2>1, ReceivedEffect
  <2>4. FindWs(ctx) # 0 => FindWs(ctx) \in WsCons /\ wsCon[FindWs(ctx)].ctx = ctx
    BY Finds
  <2> PICK item : item = Packet(ctx, FindWs(ctx), type, m + 1)
    OBVIOUS
  <2>5. item.kind = "packet" /\ item.ctx = ctx /\ item.con = FindWs(ctx) /\ item.type = type /\ item.n = m + 1
    BY DEF Packet
  <2>6. RingQueued(item) /\ m + 1 \in DOMAIN frames' /\ DOMAIN frames \subseteq DOMAIN frames'
    BY <2>3
  <2>7. ConsKept /\ LiveKept /\ WsCons' = WsCons
    BY <2>2 DEF ConsKept, LiveKept, WsCons
  <2>8. ItemMade(item)'
    BY <2>2, <2>4, <2>5, <2>6, <2>7 DEF ItemMade
  <2>9. busy' = Idle \/ (busy'.con \in WsCons /\ busy'.n \in DOMAIN frames')
    BY <2>2, <2>6 DEF WsBase, NumbersMade
  <2>10. OtherItem(item)
    BY <2>5 DEF OtherItem
  <2> QED
    BY <2>2, <2>6, <2>7, <2>8, <2>9, <2>10, BaseKept
<1>8. CASE \E ctx \in Clients : WsClosed(ctx)
  <2>1. PICK ctx \in Clients : WsClosed(ctx)
    BY <1>8
  <2>2. /\ WsType' /\ Clients' = Clients /\ FindWs(ctx) \in WsCons /\ RingQueued(Event("close", FindWs(ctx), 0))
        /\ UNCHANGED <<wsCon, wsList, busy, frames>>
    BY <2>1, ClosedEffect DEF PeerSet, Clients
  <2> PICK item : item = Event("close", FindWs(ctx), 0)
    OBVIOUS
  <2>3. item.kind = "close" /\ item.con = FindWs(ctx) /\ RingQueued(item)
    BY <2>2 DEF Event
  <2>4. ConsKept /\ LiveKept /\ WsCons' = WsCons
    BY <2>2 DEF ConsKept, LiveKept, WsCons
  <2>5. ItemMade(item)' /\ OtherItem(item)
    BY <2>2, <2>3, <2>4 DEF ItemMade, OtherItem
  <2>6. busy' = Idle \/ (busy'.con \in WsCons /\ busy'.n \in DOMAIN frames')
    BY <2>2 DEF WsBase, NumbersMade
  <2> QED
    BY <2>2, <2>3, <2>4, <2>5, <2>6, BaseKept
<1>9. CASE \E ctx \in Clients : WsClosedEarly(ctx)
  <2>1. PICK ctx \in Clients : WsClosedEarly(ctx)
    BY <1>9
  <2>2. /\ WsType' /\ Clients' = Clients /\ UNCHANGED <<wsRing, busy, frames>>
        /\ UNCHANGED <<wsCon, wsList>> \/ ClosesCon(FindWs(ctx))
    BY <2>1, ClosedEarlyEffect DEF PeerSet, Clients
  <2>3. ConsKept /\ ((LiveKept /\ wsList' = wsList) \/ \E con : ClosesCon(con))
    BY <2>2 DEF ConsKept, LiveKept, ClosesCon
  <2>4. busy' = Idle \/ (busy'.con \in WsCons /\ busy'.n \in DOMAIN frames')
    BY <2>2 DEF WsBase, NumbersMade
  <2>5. RingSame
    BY <2>2 DEF RingSame
  <2> QED
    BY <2>2, <2>3, <2>4, <2>5, BaseKept
<1>10. CASE \E made \in BOOLEAN : WsMessage(made)
  <2>1. PICK made \in BOOLEAN : WsMessage(made)
    BY <1>10
  <2>2. WsType' /\ RingTaken /\ ConsKept /\ LiveKept /\ busy = Idle /\ UNCHANGED <<peers, wsList, busy, frames>>
    BY <2>1, MessageEffect
  <2>3. Clients' = Clients /\ busy' = Idle
    BY <2>2 DEF Clients
  <2> QED
    BY <2>2, <2>3, BaseKept
<1>11. CASE WsCloseEvent
  <2>1. WsType' /\ RingTaken /\ ClosesCon(wsRing[1].con) /\ busy = Idle /\ UNCHANGED <<peers, busy, frames>>
    BY <1>11, CloseEventEffect
  <2>2. Clients' = Clients /\ busy' = Idle /\ ConsKept
    BY <2>1 DEF Clients, ClosesCon
  <2> QED
    BY <2>1, <2>2, BaseKept
<1>12. CASE \E con \in WsCons : Terminate(con)
  <2>1. PICK con \in WsCons : Terminate(con)
    BY <1>12
  <2>2. WsType' /\ ClosesCon(con) /\ UNCHANGED <<peers, wsRing, busy, frames>>
    BY <2>1, TerminateEffect
  <2>3. Clients' = Clients /\ ConsKept /\ RingSame
    BY <2>2 DEF Clients, ClosesCon, RingSame
  <2>4. busy' = Idle \/ (busy'.con \in WsCons /\ busy'.n \in DOMAIN frames')
    BY <2>2 DEF WsBase, NumbersMade
  <2> QED
    BY <2>2, <2>3, <2>4, BaseKept
<1>13. CASE WsEnds
  BY <1>13, EndsReset, ResetBase
<1>14. CASE UNCHANGED wsVars
  BY <1>14 DEF WsBase, WsType, NumbersMade, ItemMade, MadeOnce, WsCons, Clients
<1> QED
  BY <1>1, <1>2, <1>3, <1>4, <1>5, <1>6, <1>7, <1>8, <1>9, <1>10, <1>11, <1>12, <1>13, <1>14 DEF WsNext, WsEnds

-----------------------------------------------------------------------------
(***************************************************************************)
(* Web sockets: a client that is gone will be dealt with.                  *)
(***************************************************************************)
CloseWaits(con) == \E i \in DOMAIN wsRing : wsRing[i].kind = "close" /\ wsRing[i].con = con

AcceptsTold ==
  \A i \in DOMAIN wsRing :
    wsRing[i].kind = "accept" /\ peers[wsRing[i].ctx] = "closed" => EarlyUnmade(wsRing[i].ctx)
ClosesTold ==
  \A con \in wsList :
    peers[wsCon[con].ctx] = "closed" => EarlyUnmade(wsCon[con].ctx) \/ CloseWaits(con)

ClosesComing == ~wsLost => AcceptsTold /\ ClosesTold

\* No client closes and no connection is made, and at most an item that is not a close is
\* taken from the ring.
QuietClients ==
  /\ \A ctx \in Clients' : peers'[ctx] = "closed" => ctx \in Clients /\ peers[ctx] = "closed"
  /\ early' = early /\ ConsKept /\ wsList' \subseteq wsList
QuietRing ==
  \/ RingSame /\ wsLost' = wsLost
  \/ RingTaken /\ wsRing[1].kind # "close" /\ wsLost' = wsLost
  \/ \E item : RingQueued(item) /\ (item.kind = "accept" => item.ctx \in Clients' /\ peers'[item.ctx] # "closed")

LEMMA QuietKeepsCloses ==
  ASSUME WsBase, WsBase', ClosesComing, QuietClients, QuietRing
  PROVE  ClosesComing'
<1> SUFFICES ASSUME ~wsLost' PROVE AcceptsTold' /\ ClosesTold'
  BY DEF ClosesComing
<1>1. ~wsLost
  BY DEF QuietRing, RingQueued, WsBase, WsType
<1>2. AcceptsTold /\ ClosesTold
  BY <1>1 DEF ClosesComing
<1>3. ASSUME NEW con, CloseWaits(con) PROVE CloseWaits(con)'
  <2>1. PICK i \in DOMAIN wsRing : wsRing[i].kind = "close" /\ wsRing[i].con = con
    BY <1>3 DEF CloseWaits
  <2>2. \E j \in DOMAIN wsRing' : wsRing'[j] = wsRing[i]
    <3>1. CASE RingSame
      BY <3>1 DEF RingSame
    <3>2. CASE RingTaken /\ wsRing[1].kind # "close"
      BY <2>1, <3>2 DEF RingTaken
    <3>3. CASE \E item : RingAdded(item)
      <4>1. PICK n \in Nat : /\ DOMAIN wsRing = 1 .. n /\ DOMAIN wsRing' = 1 .. n + 1
                             /\ \A k \in 1 .. n : wsRing'[k] = wsRing[k]
        BY <3>3 DEF RingAdded
      <4> QED
        BY <4>1
    <3> QED
      BY <3>1, <3>2, <3>3 DEF QuietRing, RingQueued
  <2> QED
    BY <2>1, <2>2 DEF CloseWaits
<1>4. ASSUME NEW i \in DOMAIN wsRing', wsRing'[i].kind = "accept", peers'[wsRing'[i].ctx] = "closed"
      PROVE  \E j \in DOMAIN wsRing : wsRing'[i] = wsRing[j]
  <2>1. CASE RingSame
    BY <2>1 DEF RingSame
  <2>2. CASE RingTaken
    BY <2>2 DEF RingTaken
  <2>3. CASE \E item : RingQueued(item)
                              /\ (item.kind = "accept" => item.ctx \in Clients' /\ peers'[item.ctx] # "closed")
    <3>1. PICK item : RingQueued(item)
                              /\ (item.kind = "accept" => item.ctx \in Clients' /\ peers'[item.ctx] # "closed")
      BY <2>3
    <3> QED
      BY <1>4, <3>1, RingFrom
  <2> QED
    BY <2>1, <2>2, <2>3 DEF QuietRing
<1>5. AcceptsTold'
  <2> SUFFICES ASSUME NEW i \in DOMAIN wsRing', wsRing'[i].kind = "accept", peers'[wsRing'[i].ctx] = "closed"
               PROVE  [ctx |-> wsRing'[i].ctx, made |-> FALSE] \in early'
    BY DEF AcceptsTold, EarlyUnmade
  <2>1. PICK j \in DOMAIN wsRing : wsRing'[i] = wsRing[j]
    BY <1>4
  <2>2. wsRing[j].ctx \in Clients'
    BY <2>1 DEF WsBase, NumbersMade, ItemMade
  <2>3. peers[wsRing[j].ctx] = "closed"
    BY <2>1, <2>2 DEF QuietClients
  <2> QED
    BY <1>2, <2>1, <2>3 DEF AcceptsTold, EarlyUnmade, QuietClients
<1>6. ClosesTold'
  <2> SUFFICES ASSUME NEW con \in wsList', peers'[wsCon'[con].ctx] = "closed"
               PROVE  [ctx |-> wsCon'[con].ctx, made |-> FALSE] \in early' \/ CloseWaits(con)'
    BY DEF ClosesTold, EarlyUnmade
  <2>1. con \in wsList /\ con \in WsCons /\ wsCon'[con].ctx = wsCon[con].ctx /\ con \in WsCons'
    BY DEF QuietClients, ConsKept, WsBase, NumbersMade, WsCons
  <2>2. wsCon'[con].ctx \in Clients'
    BY <2>1 DEF WsBase, NumbersMade
  <2>3. peers[wsCon[con].ctx] = "closed"
    BY <2>1, <2>2 DEF QuietClients
  <2> QED
    BY <1>2, <1>3, <2>1, <2>3 DEF ClosesTold, EarlyUnmade, QuietClients
<1> QED
  BY <1>5, <1>6

LEMMA ClosedKeepsCloses ==
  ASSUME WsBase, WsBase', ClosesComing, NEW ctx \in Clients, WsClosed(ctx)
  PROVE  ClosesComing'
<1> SUFFICES ASSUME ~wsLost' PROVE AcceptsTold' /\ ClosesTold'
  BY DEF ClosesComing
<1> PICK con : con = FindWs(ctx)
  OBVIOUS
<1>1. /\ PeerSet(ctx, "closed") /\ con \in WsCons /\ con \in wsList /\ wsCon[con].ctx = ctx
      /\ RingQueued(Event("close", con, 0)) /\ UNCHANGED <<wsCon, wsList, early>>
  BY ClosedEffect
<1>2. RingAdded(Event("close", con, 0)) /\ ~wsLost
  BY <1>1 DEF RingQueued, WsBase, WsType
<1>3. AcceptsTold /\ ClosesTold
  BY <1>2 DEF ClosesComing
<1>4. PICK n \in Nat : /\ DOMAIN wsRing = 1 .. n /\ DOMAIN wsRing' = 1 .. n + 1
                       /\ wsRing'[n + 1] = Event("close", con, 0)
                       /\ \A i \in 1 .. n : wsRing'[i] = wsRing[i]
  BY <1>2 DEF RingAdded
<1>5. wsRing'[n + 1].kind = "close" /\ wsRing'[n + 1].con = con /\ n + 1 \in DOMAIN wsRing'
  BY <1>4 DEF Event
<1>6. \A i \in DOMAIN wsRing' : i = n + 1 \/ (i \in DOMAIN wsRing /\ wsRing'[i] = wsRing[i])
  BY <1>4
<1>7. AcceptsTold'
  <2> SUFFICES ASSUME NEW i \in DOMAIN wsRing', wsRing'[i].kind = "accept", peers'[wsRing'[i].ctx] = "closed"
               PROVE  [ctx |-> wsRing'[i].ctx, made |-> FALSE] \in early'
    BY DEF AcceptsTold, EarlyUnmade
  <2>1. i \in DOMAIN wsRing /\ wsRing'[i] = wsRing[i]
    BY <1>5, <1>6
  <2>2. wsRing[i].ctx # ctx /\ wsRing[i].ctx \in Clients
    BY <1>1, <2>1 DEF WsBase, MadeOnce, NumbersMade, ItemMade
  <2> QED
    BY <1>1, <1>3, <2>1, <2>2 DEF AcceptsTold, EarlyUnmade, PeerSet
<1>8. ClosesTold'
  <2> SUFFICES ASSUME NEW other \in wsList', peers'[wsCon'[other].ctx] = "closed"
               PROVE  [ctx |-> wsCon'[other].ctx, made |-> FALSE] \in early' \/ CloseWaits(other)'
    BY DEF ClosesTold, EarlyUnmade
  <2>1. CASE other = con
    BY <1>5, <2>1 DEF CloseWaits
  <2>2. CASE other # con
    <3>1. other \in wsList /\ other \in WsCons /\ wsCon[other].ctx # ctx /\ wsCon[other].ctx \in Clients
          /\ wsCon'[other] = wsCon[other]
      BY <1>1, <2>2 DEF WsBase, MadeOnce, NumbersMade
    <3>2. EarlyUnmade(wsCon[other].ctx) \/ CloseWaits(other)
      BY <1>1, <1>3, <3>1 DEF ClosesTold, PeerSet
    <3>3. CloseWaits(other) => CloseWaits(other)'
      BY <1>4 DEF CloseWaits
    <3> QED
      BY <1>1, <3>1, <3>2, <3>3 DEF EarlyUnmade
  <2> QED
    BY <2>1, <2>2
<1> QED
  BY <1>7, <1>8

LEMMA ClosedEarlyKeepsCloses ==
  ASSUME WsBase, WsBase', ClosesComing, NEW ctx \in Clients, WsClosedEarly(ctx)
  PROVE  ClosesComing'
<1> SUFFICES ASSUME ~wsLost' PROVE AcceptsTold' /\ ClosesTold'
  BY DEF ClosesComing
<1> PICK con : con = FindWs(ctx)
  OBVIOUS
<1>1. /\ PeerSet(ctx, "closed") /\ early \subseteq early' /\ UNCHANGED <<wsRing, wsLost>>
      /\ \/ con = 0 /\ UNCHANGED <<wsCon, wsList>> /\ EarlyUnmade(ctx)'
         \/ con \in wsList /\ wsCon[con].ctx = ctx /\ ClosesCon(con)
  BY ClosedEarlyEffect
<1>2. AcceptsTold /\ ClosesTold
  BY <1>1 DEF ClosesComing
<1>3. AcceptsTold'
  <2> SUFFICES ASSUME NEW i \in DOMAIN wsRing, wsRing[i].kind = "accept", peers'[wsRing[i].ctx] = "closed"
               PROVE  [ctx |-> wsRing[i].ctx, made |-> FALSE] \in early'
    BY <1>1 DEF AcceptsTold, EarlyUnmade
  <2>1. CASE wsRing[i].ctx = ctx
    BY <1>1, <2>1 DEF WsBase, MadeOnce, EarlyUnmade, ClosesCon
  <2>2. CASE wsRing[i].ctx # ctx
    <3>1. wsRing[i].ctx \in Clients
      BY DEF WsBase, NumbersMade, ItemMade
    <3> QED
      BY <1>1, <1>2, <2>2, <3>1 DEF AcceptsTold, EarlyUnmade, PeerSet
  <2> QED
    BY <2>1, <2>2
<1>4. ClosesTold'
  <2> SUFFICES ASSUME NEW other \in wsList', peers'[wsCon'[other].ctx] = "closed"
               PROVE  [ctx |-> wsCon'[other].ctx, made |-> FALSE] \in early' \/ CloseWaits(other)'
    BY DEF ClosesTold, EarlyUnmade
  <2>1. other \in wsList /\ other \in WsCons /\ wsCon'[other].ctx = wsCon[other].ctx /\ wsCon[other].ctx \in Clients
    BY <1>1 DEF ClosesCon, ConsKept, WsBase, NumbersMade
  <2>2. CASE wsCon[other].ctx = ctx
    <3>1. CASE EarlyUnmade(ctx)'
      BY <2>1, <2>2, <3>1 DEF EarlyUnmade
    <3>2. CASE wsCon[con].ctx = ctx /\ ClosesCon(con)
      BY <2>1, <2>2, <3>2 DEF ClosesCon, WsBase, MadeOnce
    <3> QED
      BY <1>1, <3>1, <3>2
  <2>3. CASE wsCon[other].ctx # ctx
    <3>1. EarlyUnmade(wsCon[other].ctx) \/ CloseWaits(other)
      BY <1>1, <1>2, <2>1, <2>3 DEF ClosesTold, PeerSet
    <3> QED
      BY <1>1, <2>1, <3>1 DEF EarlyUnmade, CloseWaits
  <2> QED
    BY <2>2, <2>3
<1> QED
  BY <1>3, <1>4

LEMMA AcceptKeepsCloses ==
  ASSUME WsBase, WsBase', ClosesComing, WsAccept
  PROVE  ClosesComing'
<1> SUFFICES ASSUME ~wsLost' PROVE AcceptsTold' /\ ClosesTold'
  BY DEF ClosesComing
<1>1. RingTaken /\ wsRing[1].kind = "accept" /\ UNCHANGED <<peers, early, wsLost>> /\ 1 \in DOMAIN wsRing
  BY AcceptEffect DEF RingTaken
<1>2. PICK n \in Nat : /\ WsCons = 1 .. n /\ WsCons' = 1 .. n + 1 /\ \A con \in 1 .. n : wsCon'[con] = wsCon[con]
                       /\ wsCon'[n + 1].ctx = wsRing[1].ctx /\ wsList' = wsList \cup {n + 1}
  BY AcceptEffect
<1>3. AcceptsTold /\ ClosesTold
  BY <1>1 DEF ClosesComing
<1>4. \A i \in DOMAIN wsRing' : i + 1 \in DOMAIN wsRing /\ wsRing'[i] = wsRing[i + 1]
  BY <1>1 DEF RingTaken
<1>5. AcceptsTold'
  BY <1>1, <1>3, <1>4 DEF AcceptsTold, EarlyUnmade
<1>6. ClosesTold'
  <2> SUFFICES ASSUME NEW con \in wsList', peers[wsCon'[con].ctx] = "closed"
               PROVE  [ctx |-> wsCon'[con].ctx, made |-> FALSE] \in early \/ CloseWaits(con)'
    BY <1>1 DEF ClosesTold, EarlyUnmade
  <2>1. CASE con = n + 1
    BY <1>1, <1>2, <1>3, <2>1 DEF AcceptsTold, EarlyUnmade
  <2>2. CASE con \in wsList
    <3>1. con \in WsCons /\ wsCon'[con] = wsCon[con]
      BY <1>2, <2>2 DEF WsBase, NumbersMade
    <3>2. CloseWaits(con) => CloseWaits(con)'
      <4> SUFFICES ASSUME NEW i \in DOMAIN wsRing, wsRing[i].kind = "close", wsRing[i].con = con
                   PROVE  \E j \in DOMAIN wsRing' : wsRing'[j].kind = "close" /\ wsRing'[j].con = con
        BY DEF CloseWaits
      <4>1. i # 1 /\ i - 1 \in DOMAIN wsRing' /\ wsRing'[i - 1] = wsRing[i]
        BY <1>1 DEF RingTaken
      <4> QED
        BY <4>1
    <3> QED
      BY <1>3, <2>2, <3>1, <3>2 DEF ClosesTold, EarlyUnmade
  <2> QED
    BY <1>2, <2>1, <2>2
<1> QED
  BY <1>5, <1>6

LEMMA CloseEventKeepsCloses ==
  ASSUME WsBase, WsBase', ClosesComing, WsCloseEvent
  PROVE  ClosesComing'
<1> SUFFICES ASSUME ~wsLost' PROVE AcceptsTold' /\ ClosesTold'
  BY DEF ClosesComing
<1>1. RingTaken /\ ClosesCon(wsRing[1].con) /\ UNCHANGED <<peers, early, wsLost>>
  BY CloseEventEffect
<1>2. AcceptsTold /\ ClosesTold
  BY <1>1 DEF ClosesComing
<1>3. \A i \in DOMAIN wsRing' : i + 1 \in DOMAIN wsRing /\ wsRing'[i] = wsRing[i + 1]
  BY <1>1 DEF RingTaken
<1>4. AcceptsTold'
  BY <1>1, <1>2, <1>3 DEF AcceptsTold, EarlyUnmade
<1>5. ClosesTold'
  <2> SUFFICES ASSUME NEW con \in wsList', peers[wsCon'[con].ctx] = "closed"
               PROVE  [ctx |-> wsCon'[con].ctx, made |-> FALSE] \in early \/ CloseWaits(con)'
    BY <1>1 DEF ClosesTold, EarlyUnmade
  <2>1. con \in wsList /\ con # wsRing[1].con /\ wsCon'[con].ctx = wsCon[con].ctx
    BY <1>1 DEF ClosesCon, ConsKept, WsBase, NumbersMade
  <2>2. CloseWaits(con) => CloseWaits(con)'
    <3> SUFFICES ASSUME NEW i \in DOMAIN wsRing, wsRing[i].kind = "close", wsRing[i].con = con
                 PROVE  \E j \in DOMAIN wsRing' : wsRing'[j].kind = "close" /\ wsRing'[j].con = con
      BY DEF CloseWaits
    <3>1. i # 1
      BY <2>1
    <3>2. i - 1 \in DOMAIN wsRing' /\ wsRing'[i - 1] = wsRing[i]
      BY <1>1, <3>1 DEF RingTaken
    <3> QED
      BY <3>2
  <2> QED
    BY <1>2, <2>1, <2>2 DEF ClosesTold, EarlyUnmade
<1> QED
  BY <1>4, <1>5

LEMMA ClosesComingKept ==
  ASSUME WsBase, WsBase', ClosesComing, [WsNext]_wsVars
  PROVE  ClosesComing'
<1>1. CASE WsAccepted
  <2>1. UNCHANGED <<wsCon, wsList, early>>
    BY <1>1, AcceptedEffect
  <2>2. PICK n \in Nat : /\ Clients = 1 .. n /\ Clients' = 1 .. n + 1 /\ peers'[n + 1] = "open"
                         /\ \A ctx \in 1 .. n : peers'[ctx] = peers[ctx]
                         /\ RingQueued(Accepted(n + 1))
    BY <1>1, AcceptedEffect
  <2>3. \A ctx \in Clients' : peers'[ctx] = "closed" => ctx \in Clients /\ peers[ctx] = "closed"
    BY <2>2
  <2>4. QuietClients
    BY <2>1, <2>3 DEF QuietClients, ConsKept
  <2>5. QuietRing
    <3>1. Accepted(n + 1).ctx = n + 1 /\ n + 1 \in Clients'
      BY <2>2 DEF Accepted
    <3> QED
      BY <2>2, <3>1 DEF QuietRing
  <2> QED
    BY <2>4, <2>5, QuietKeepsCloses
<1>2. CASE WsAccept
  BY <1>2, AcceptKeepsCloses
<1>3. CASE WsPacket
  <2>1. RingTaken /\ wsRing[1].kind = "packet" /\ ConsKept /\ UNCHANGED <<peers, wsList, early, wsLost>>
    BY <1>3, PacketEffect
  <2>2. QuietClients /\ QuietRing
    BY <2>1 DEF QuietClients, QuietRing, Clients
  <2> QED
    BY <2>2, QuietKeepsCloses
<1>4. CASE Handshake
  <2>1. /\ ConsKept /\ UNCHANGED <<peers, wsList, early>>
        /\ RingQueued(Event("handler", busy.con, 0)) \/ UNCHANGED <<wsRing, wsLost>>
    BY <1>4, HandshakeEffect
  <2>2. QuietClients
    BY <2>1 DEF QuietClients, Clients
  <2>3. QuietRing
    BY <2>1 DEF QuietRing, RingSame, Event
  <2> QED
    BY <2>2, <2>3, QuietKeepsCloses
<1>5. CASE \E chosen \in BOOLEAN : PostAccept(chosen)
  <2>1. RingTaken /\ wsRing[1].kind = "handler" /\ ConsKept /\ UNCHANGED <<peers, wsList, early, wsLost>>
    BY <1>5, PostAcceptEffect
  <2>2. QuietClients /\ QuietRing
    BY <2>1 DEF QuietClients, QuietRing, Clients
  <2> QED
    BY <2>2, QuietKeepsCloses
<1>6. CASE \E type \in FrameTypes : ProcessPacket(type)
  <2>1. PICK type \in FrameTypes : ProcessPacket(type)
    BY <1>6
  <2>2. /\ ConsKept /\ UNCHANGED <<peers, wsList, early>>
        /\ CASE type = "text"  -> RingQueued(Event("message", busy.con, busy.n))
             [] type = "close" -> RingQueued(Event("close", busy.con, 0))
             [] OTHER -> UNCHANGED <<wsRing, wsLost>>
    BY <2>1, ProcessEffect
  <2>3. QuietClients
    BY <2>2 DEF QuietClients, Clients
  <2>4. QuietRing
    <3>1. Event("message", busy.con, busy.n).kind = "message" /\ Event("close", busy.con, 0).kind = "close"
      BY DEF Event
    <3>2. CASE type = "text"
      BY <2>2, <3>1, <3>2 DEF QuietRing
    <3>3. CASE type = "close"
      BY <2>2, <3>1, <3>3 DEF QuietRing
    <3>4. CASE type \notin {"text", "close"}
      BY <2>2, <3>4 DEF QuietRing, RingSame
    <3> QED
      BY <3>2, <3>3, <3>4
  <2> QED
    BY <2>3, <2>4, QuietKeepsCloses
<1>7. CASE \E ctx \in Clients, type \in FrameTypes, size \in WsSizes : WsReceived(ctx, type, size)
  <2>1. PICK ctx \in Clients, type \in FrameTypes, size \in WsSizes : WsReceived(ctx, type, size)
    BY <1>7
  <2>2. /\ PeerSet(ctx, IF type = "close" THEN "closing" ELSE peers[ctx]) /\ peers[ctx] # "closed"
        /\ UNCHANGED <<wsCon, wsList, early>>
    BY <2>1, ReceivedEffect
  <2>3. QuietClients
    BY <2>2 DEF QuietClients, ConsKept, PeerSet, Clients
  <2>4. PICK m \in Nat : RingQueued(Packet(ctx, FindWs(ctx), type, m + 1))
    BY <2>1, ReceivedEffect
  <2>5. QuietRing
    BY <2>4 DEF QuietRing, Packet
  <2> QED
    BY <2>3, <2>5, QuietKeepsCloses
<1>8. CASE \E ctx \in Clients : WsClosed(ctx)
  BY <1>8, ClosedKeepsCloses
<1>9. CASE \E ctx \in Clients : WsClosedEarly(ctx)
  BY <1>9, ClosedEarlyKeepsCloses
<1>10. CASE \E made \in BOOLEAN : WsMessage(made)
  <2>1. RingTaken /\ wsRing[1].kind = "message" /\ ConsKept /\ UNCHANGED <<peers, wsList, early, wsLost>>
    BY <1>10, MessageEffect
  <2>2. QuietClients /\ QuietRing
    BY <2>1 DEF QuietClients, QuietRing, Clients
  <2> QED
    BY <2>2, QuietKeepsCloses
<1>11. CASE WsCloseEvent
  BY <1>11, CloseEventKeepsCloses
<1>12. CASE \E con \in WsCons : Terminate(con)
  <2>1. PICK con \in WsCons : Terminate(con)
    BY <1>12
  <2>2. ClosesCon(con) /\ UNCHANGED <<peers, wsRing, early, wsLost>>
    BY <2>1, TerminateEffect
  <2>3. QuietClients /\ QuietRing
    BY <2>2 DEF QuietClients, QuietRing, Clients, ClosesCon, RingSame
  <2> QED
    BY <2>3, QuietKeepsCloses
<1>13. CASE WsEnds
  <2>1. wsRing' = <<>> /\ wsList' = {}
    BY <1>13, EndsReset DEF WsReset
  <2>2. DOMAIN wsRing' = {}
    BY <2>1
  <2> QED
    BY <2>1, <2>2 DEF ClosesComing, AcceptsTold, ClosesTold
<1>14. CASE UNCHANGED wsVars
  BY <1>14 DEF ClosesComing, AcceptsTold, ClosesTold, EarlyUnmade, CloseWaits
<1> QED
  BY <1>1, <1>2, <1>3, <1>4, <1>5, <1>6, <1>7, <1>8, <1>9, <1>10, <1>11, <1>12, <1>13, <1>14 DEF WsNext, WsEnds

LEMMA ToldIsClosed ==
  ASSUME ClosesComing
  PROVE  GoneAreClosed
<1> SUFFICES ASSUME wsRing = <<>>, ~wsLost, NEW con \in wsList, peers[wsCon[con].ctx] = "closed"
             PROVE  [ctx |-> wsCon[con].ctx, made |-> FALSE] \in early
  BY DEF GoneAreClosed
<1>1. DOMAIN wsRing = {}
  OBVIOUS
<1> QED
  BY <1>1 DEF ClosesComing, ClosesTold, CloseWaits, EarlyUnmade

-----------------------------------------------------------------------------
(***************************************************************************)
(* Web sockets: while no client is closed early, terminated or heard of    *)
(* again, a close is the last thing of its connection.                     *)
(***************************************************************************)
Spared == early = {} /\ again = {}

\* The client has done, or is about to do, its last; after item "last" the ring has no packet
\* of it, and nothing for the connection.
LastPacket(ctx, last) ==
  /\ peers[ctx] # "open"
  /\ \A i \in DOMAIN wsRing : wsRing[i].kind = "packet" /\ wsRing[i].ctx = ctx => i <= last
LastEvent(con, last) ==
  \A i \in DOMAIN wsRing : wsRing[i].kind \in {"message", "close"} /\ wsRing[i].con = con => i <= last
Ended(con, ctx, last) == LastPacket(ctx, 0) /\ busy.con # con /\ LastEvent(con, last)

ClientOf(con, ctx) == con \in WsCons /\ ctx \in Clients /\ wsCon[con].ctx = ctx

DeadEnds     == \A con, ctx : ClientOf(con, ctx) /\ ~wsCon[con].live => Ended(con, ctx, 0)
CloseEnds    == \A i \in DOMAIN wsRing : \A ctx :
                  wsRing[i].kind = "close" /\ ClientOf(wsRing[i].con, ctx) => Ended(wsRing[i].con, ctx, i)
ClosePackets == \A i \in DOMAIN wsRing :
                  wsRing[i].kind = "packet" /\ wsRing[i].type = "close" => LastPacket(wsRing[i].ctx, i)
CloseBusy    == \A ctx : busy # Idle /\ busy.do = "close" /\ ClientOf(busy.con, ctx) => LastPacket(ctx, 0)

Ends == DeadEnds /\ CloseEnds /\ ClosePackets /\ CloseBusy

LEMMA PacketsTaken ==
  ASSUME RingTaken, NEW ctx, NEW last \in Nat, LastPacket(ctx, last), peers'[ctx] # "open"
  PROVE  LastPacket(ctx, last - 1)' /\ LastPacket(ctx, last)'
<1> SUFFICES ASSUME NEW i \in DOMAIN wsRing', wsRing'[i].kind = "packet", wsRing'[i].ctx = ctx
             PROVE  i <= last - 1 /\ i <= last
  BY DEF LastPacket
<1>1. i \in Nat /\ i + 1 \in DOMAIN wsRing /\ wsRing'[i] = wsRing[i + 1]
  BY DEF RingTaken
<1>2. i + 1 <= last
  BY <1>1 DEF LastPacket
<1> QED
  BY <1>1, <1>2

LEMMA EventsTaken ==
  ASSUME RingTaken, NEW con, NEW last \in Nat, LastEvent(con, last)
  PROVE  LastEvent(con, last - 1)' /\ LastEvent(con, last)'
<1> SUFFICES ASSUME NEW i \in DOMAIN wsRing', wsRing'[i].kind \in {"message", "close"}, wsRing'[i].con = con
             PROVE  i <= last - 1 /\ i <= last
  BY DEF LastEvent
<1>1. i \in Nat /\ i + 1 \in DOMAIN wsRing /\ wsRing'[i] = wsRing[i + 1]
  BY DEF RingTaken
<1>2. i + 1 <= last
  BY <1>1 DEF LastEvent
<1> QED
  BY <1>1, <1>2

\* What a step appends, if anything.
Appends(item) == RingSame \/ RingQueued(item)

LEMMA AppendsPoints ==
  ASSUME NEW item, Appends(item), NEW i \in DOMAIN wsRing'
  PROVE  (i \in DOMAIN wsRing /\ wsRing'[i] = wsRing[i]) \/ wsRing'[i] = item
<1>1. CASE RingSame
  BY <1>1 DEF RingSame
<1>2. CASE RingAdded(item)
  <2>1. PICK n \in Nat : /\ DOMAIN wsRing = 1 .. n /\ DOMAIN wsRing' = 1 .. n + 1 /\ wsRing'[n + 1] = item
                         /\ \A k \in 1 .. n : wsRing'[k] = wsRing[k]
    BY <1>2 DEF RingAdded
  <2>2. i \in 1 .. n \/ i = n + 1
    BY <2>1
  <2> QED
    BY <2>1, <2>2
<1> QED
  BY <1>1, <1>2 DEF Appends, RingQueued

\* The item appended is after all others.
LEMMA AppendsLast ==
  ASSUME WsType, NEW item, Appends(item), NEW i \in DOMAIN wsRing',
         ~(i \in DOMAIN wsRing /\ wsRing'[i] = wsRing[i])
  PROVE  wsRing'[i] = item /\ i \in Nat /\ \A k \in DOMAIN wsRing' : k <= i
<1>1. ~RingSame
  BY DEF RingSame
<1>2. PICK n \in Nat : /\ DOMAIN wsRing = 1 .. n /\ DOMAIN wsRing' = 1 .. n + 1 /\ wsRing'[n + 1] = item
                       /\ \A k \in 1 .. n : wsRing'[k] = wsRing[k]
  BY <1>1 DEF Appends, RingQueued, RingAdded
<1>3. i = n + 1
  BY <1>2
<1> QED
  BY <1>2, <1>3

LEMMA PacketsAppended ==
  ASSUME NEW item, Appends(item), NEW ctx, NEW last, LastPacket(ctx, last), peers'[ctx] # "open",
         ~(item.kind = "packet" /\ item.ctx = ctx)
  PROVE  LastPacket(ctx, last)'
  BY AppendsPoints DEF LastPacket

LEMMA EventsAppended ==
  ASSUME NEW item, Appends(item), NEW con, NEW last, LastEvent(con, last),
         ~(item.kind \in {"message", "close"} /\ item.con = con)
  PROVE  LastEvent(con, last)'
  BY AppendsPoints DEF LastEvent

\* A step that takes the first item keeps the ends of connections that main does not turn to.
LEMMA EndsTaken ==
  ASSUME WsBase, Ends, RingTaken, peers' = peers, Stays,
         \A con, ctx, last : ClientOf(con, ctx) /\ Ended(con, ctx, last) => busy'.con # con,
         \A con \in WsCons' : ~wsCon'[con].live =>
           con \in WsCons /\ (~wsCon[con].live \/ (wsRing[1].kind = "close" /\ wsRing[1].con = con)),
         CloseBusy'
  PROVE  Ends'
<1>1. ASSUME NEW con, NEW ctx, NEW last \in Nat, ClientOf(con, ctx), Ended(con, ctx, last)
      PROVE  Ended(con, ctx, last - 1)' /\ Ended(con, ctx, last)'
  <2>1. peers'[ctx] # "open"
    BY <1>1 DEF Ended, LastPacket
  <2>2. LastPacket(ctx, 0)'
    BY <1>1, <2>1, PacketsTaken DEF Ended
  <2>3. LastEvent(con, last - 1)' /\ LastEvent(con, last)'
    BY <1>1, EventsTaken DEF Ended
  <2>4. busy'.con # con
    BY <1>1
  <2> QED
    BY <2>2, <2>3, <2>4 DEF Ended
<1>2. ASSUME NEW con, NEW ctx, con \in WsCons, ClientOf(con, ctx)' PROVE ClientOf(con, ctx)
  <2>1. wsCon'[con].ctx = wsCon[con].ctx /\ wsCon[con].ctx \in Clients
    BY <1>2 DEF Stays, WsBase, NumbersMade
  <2> QED
    BY <1>2, <2>1 DEF ClientOf
<1>3. DeadEnds'
  <2> SUFFICES ASSUME NEW con, NEW ctx, ClientOf(con, ctx)', ~wsCon'[con].live PROVE Ended(con, ctx, 0)'
    BY DEF DeadEnds
  <2>1. con \in WsCons' /\ con \in WsCons
    BY DEF ClientOf
  <2>2. ClientOf(con, ctx)
    BY <1>2, <2>1
  <2>3. CASE ~wsCon[con].live
    <3>1. Ended(con, ctx, 0)
      BY <2>2, <2>3 DEF Ends, DeadEnds
    <3> QED
      BY <1>1, <2>2, <3>1
  <2>4. CASE wsRing[1].kind = "close" /\ wsRing[1].con = con
    <3>1. 1 \in DOMAIN wsRing
      BY DEF RingTaken
    <3>2. Ended(con, ctx, 1)
      BY <2>2, <2>4, <3>1 DEF Ends, CloseEnds
    <3>3. Ended(con, ctx, 1 - 1)' /\ 1 - 1 = 0
      BY <1>1, <2>2, <3>2
    <3> QED
      BY <3>3
  <2> QED
    BY <2>1, <2>3, <2>4
<1>4. CloseEnds'
  <2>1. ASSUME NEW i \in DOMAIN wsRing', NEW con, NEW ctx, wsRing'[i].kind = "close", con = wsRing'[i].con,
               ClientOf(con, ctx)'
        PROVE  Ended(con, ctx, i)'
    <3>1. i \in Nat /\ i + 1 \in DOMAIN wsRing /\ wsRing[i + 1].kind = "close" /\ wsRing[i + 1].con = con
      BY <2>1 DEF RingTaken
    <3>2. con \in WsCons
      BY <3>1 DEF WsBase, NumbersMade, ItemMade
    <3>3. ClientOf(con, ctx)
      BY <1>2, <2>1, <3>2
    <3>4. Ended(con, ctx, i + 1)
      BY <3>1, <3>3 DEF Ends, CloseEnds
    <3>5. i + 1 \in Nat /\ (i + 1) - 1 = i
      BY <3>1
    <3>6. Ended(con, ctx, (i + 1) - 1)'
      BY <1>1, <3>3, <3>4, <3>5
    <3> QED
      BY <3>5, <3>6
  <2> QED
    BY <2>1 DEF CloseEnds, ClientOf, Ended, LastPacket, LastEvent
<1>5. ClosePackets'
  <2>1. ASSUME NEW i \in DOMAIN wsRing', NEW ctx, wsRing'[i].kind = "packet", wsRing'[i].type = "close",
               ctx = wsRing'[i].ctx
        PROVE  LastPacket(ctx, i)'
    <3>1. /\ i \in Nat /\ i + 1 \in DOMAIN wsRing /\ wsRing[i + 1].kind = "packet" /\ wsRing[i + 1].type = "close"
          /\ wsRing[i + 1].ctx = ctx
      BY <2>1 DEF RingTaken
    <3>2. LastPacket(ctx, i + 1)
      BY <3>1 DEF Ends, ClosePackets
    <3>3. i + 1 \in Nat /\ (i + 1) - 1 = i /\ peers'[ctx] # "open"
      BY <3>1, <3>2 DEF LastPacket
    <3>4. LastPacket(ctx, (i + 1) - 1)'
      BY <3>2, <3>3, PacketsTaken
    <3> QED
      BY <3>3, <3>4
  <2> QED
    BY <2>1 DEF ClosePackets, LastPacket
<1> QED
  BY <1>3, <1>4, <1>5 DEF Ends

LEMMA EndsAppended ==
  ASSUME WsBase, WsBase', Ends, NEW item, Appends(item), ConsKept, LiveKept, Stays,
         \A ctx \in Clients : peers[ctx] # "open" => peers'[ctx] # "open",
         busy' = busy \/ busy' = Idle,
         item.kind = "packet" => peers[item.ctx] = "open" /\ (item.type = "close" => peers'[item.ctx] # "open"),
         item.kind \in {"message", "close"} =>
           item.con = busy.con \/ \E ctx : ClientOf(item.con, ctx) /\ peers[ctx] = "open",
         item.kind = "close" =>
           busy'.con # item.con /\ \A ctx : ClientOf(item.con, ctx) => LastPacket(ctx, 0)'
  PROVE  Ends'
<1>0. WsType /\ WsCons' = WsCons
  BY DEF WsBase, ConsKept, WsCons
<1>1. ASSUME NEW con, NEW ctx, NEW last, ClientOf(con, ctx), Ended(con, ctx, last)
      PROVE  Ended(con, ctx, last)'
  <2>1. peers[ctx] # "open" /\ peers'[ctx] # "open" /\ ~(item.kind = "packet" /\ item.ctx = ctx)
    BY <1>1 DEF Ended, LastPacket, ClientOf
  <2>2. LastPacket(ctx, 0)'
    BY <1>1, <2>1, PacketsAppended DEF Ended
  <2>3. con # 0 /\ busy.con # con
    BY <1>0, <1>1, Indices DEF Ended, ClientOf
  <2>4. busy'.con # con
    BY <2>3 DEF Idle
  <2>5. ~(item.kind \in {"message", "close"} /\ item.con = con)
    BY <1>1, <2>1, <2>3 DEF ClientOf
  <2>6. LastEvent(con, last)'
    BY <1>1, <2>5, EventsAppended DEF Ended
  <2> QED
    BY <2>2, <2>4, <2>6 DEF Ended
<1>2. ASSUME NEW con, NEW ctx, ClientOf(con, ctx)' PROVE ClientOf(con, ctx)
  <2>1. con \in WsCons /\ wsCon'[con].ctx = wsCon[con].ctx /\ wsCon[con].ctx \in Clients
    BY <1>0, <1>2 DEF ClientOf, ConsKept, WsBase, NumbersMade
  <2> QED
    BY <1>2, <2>1 DEF ClientOf
<1>3. DeadEnds'
  <2> SUFFICES ASSUME NEW con, NEW ctx, ClientOf(con, ctx)', ~wsCon'[con].live PROVE Ended(con, ctx, 0)'
    BY DEF DeadEnds
  <2>1. ClientOf(con, ctx) /\ ~wsCon[con].live
    BY <1>2 DEF ClientOf, LiveKept
  <2>2. Ended(con, ctx, 0)
    BY <2>1 DEF Ends, DeadEnds
  <2> QED
    BY <1>1, <2>1, <2>2
<1>4. CloseEnds'
  <2>1. ASSUME NEW i \in DOMAIN wsRing', NEW con, NEW ctx, wsRing'[i].kind = "close", con = wsRing'[i].con,
               ClientOf(con, ctx)'
        PROVE  Ended(con, ctx, i)'
    <3>1. ClientOf(con, ctx)
      BY <1>2, <2>1
    <3>2. CASE i \in DOMAIN wsRing /\ wsRing'[i] = wsRing[i]
      <4>1. Ended(con, ctx, i)
        BY <2>1, <3>1, <3>2 DEF Ends, CloseEnds
      <4> QED
        BY <1>1, <3>1, <4>1
    <3>3. CASE ~(i \in DOMAIN wsRing /\ wsRing'[i] = wsRing[i])
      <4>1. wsRing'[i] = item /\ i \in Nat /\ \A k \in DOMAIN wsRing' : k <= i
        BY <1>0, <3>3, AppendsLast
      <4>2. busy'.con # con /\ LastPacket(ctx, 0)'
        BY <2>1, <3>1, <4>1
      <4>3. LastEvent(con, i)'
        BY <4>1 DEF LastEvent
      <4> QED
        BY <4>2, <4>3 DEF Ended
    <3> QED
      BY <3>2, <3>3
  <2> QED
    BY <2>1 DEF CloseEnds, ClientOf, Ended, LastPacket, LastEvent
<1>5. ClosePackets'
  <2>1. ASSUME NEW i \in DOMAIN wsRing', NEW ctx, wsRing'[i].kind = "packet", wsRing'[i].type = "close",
               ctx = wsRing'[i].ctx
        PROVE  LastPacket(ctx, i)'
    <3>1. CASE i \in DOMAIN wsRing /\ wsRing'[i] = wsRing[i]
      <4>1. LastPacket(ctx, i) /\ ctx \in Clients
        BY <2>1, <3>1 DEF Ends, ClosePackets, WsBase, NumbersMade, ItemMade
      <4>2. peers'[ctx] # "open" /\ ~(item.kind = "packet" /\ item.ctx = ctx)
        BY <4>1 DEF LastPacket
      <4> QED
        BY <4>1, <4>2, PacketsAppended
    <3>2. CASE ~(i \in DOMAIN wsRing /\ wsRing'[i] = wsRing[i])
      <4>1. wsRing'[i] = item /\ i \in Nat /\ \A k \in DOMAIN wsRing' : k <= i
        BY <1>0, <3>2, AppendsLast
      <4>2. peers'[ctx] # "open"
        BY <2>1, <4>1
      <4> QED
        BY <4>1, <4>2 DEF LastPacket
    <3> QED
      BY <3>1, <3>2
  <2> QED
    BY <2>1 DEF ClosePackets, LastPacket
<1>6. CloseBusy'
  <2> SUFFICES ASSUME NEW ctx, busy' # Idle, busy'.do = "close", ClientOf(busy'.con, ctx)
               PROVE  LastPacket(ctx, 0)'
    BY <1>2 DEF CloseBusy
  <2>1. LastPacket(ctx, 0) /\ ctx \in Clients
    BY DEF Ends, CloseBusy, ClientOf
  <2>2. peers'[ctx] # "open" /\ ~(item.kind = "packet" /\ item.ctx = ctx)
    BY <2>1 DEF LastPacket
  <2> QED
    BY <2>1, <2>2, PacketsAppended
<1> QED
  BY <1>3, <1>4, <1>5, <1>6 DEF Ends

\* A step that appends nothing of note.
LEMMA EndsStay ==
  ASSUME WsBase, WsBase', Ends, RingSame, ConsKept, LiveKept, Stays,
         \A ctx \in Clients : peers[ctx] # "open" => peers'[ctx] # "open", busy' = busy \/ busy' = Idle
  PROVE  Ends'
<1> PICK item : item = Accepted(0)
  OBVIOUS
<1>1. item.kind = "accept" /\ Appends(item)
  BY DEF Accepted, Appends
<1> QED
  BY <1>1, EndsAppended

LEMMA EndsKept ==
  ASSUME WsBase, WsBase', Spared => Ends, [WsNext]_wsVars
  PROVE  (Spared => Ends)'
<1> SUFFICES ASSUME early' = {}, again' = {} PROVE Ends'
  BY Zenon DEF Spared
<1>0. UNCHANGED wsVars \/ (early \subseteq early' /\ again \subseteq again')
  BY Zenon
     DEF WsNext, WsAccepted, WsAccept, WsPacket, PacketOfFreed, BusyWithFreed, Handshake, PostAccept, AcceptWithoutKey,
         BufferOverflow, WsCloseEvent, EventWithoutHandle, ProcessPacket, WsReceived, CloseUsesFreed, WsClosed,
         WsClosedEarly, WsMessage, Terminate, WsFails, After
<1>00. Ends
  BY <1>0 DEF Spared
<1>1. CASE WsAccepted
  <2>1. UNCHANGED <<wsCon, wsList, busy, frames>>
    BY <1>1, AcceptedEffect
  <2>2. PICK n \in Nat : /\ Clients = 1 .. n /\ Clients' = 1 .. n + 1 /\ \A ctx \in 1 .. n : peers'[ctx] = peers[ctx]
                         /\ RingQueued(Accepted(n + 1))
    BY <1>1, AcceptedEffect
  <2>3. Stays /\ ConsKept /\ LiveKept
    BY <2>1, <2>2 DEF Stays, ConsKept, LiveKept, WsCons
  <2> PICK item : item = Accepted(n + 1)
    OBVIOUS
  <2>4. item.kind = "accept" /\ Appends(item)
    BY <2>2 DEF Accepted, Appends
  <2>5. \A ctx \in Clients : peers[ctx] # "open" => peers'[ctx] # "open"
    BY <2>2
  <2> QED
    BY <1>00, <2>1, <2>3, <2>4, <2>5, EndsAppended
<1>2. CASE WsAccept
  <2>1. RingTaken /\ wsRing[1].kind = "accept" /\ UNCHANGED <<peers, busy, frames>>
    BY <1>2, AcceptEffect
  <2>2. PICK n \in Nat : /\ WsCons = 1 .. n /\ WsCons' = 1 .. n + 1 /\ \A con \in 1 .. n : wsCon'[con] = wsCon[con]
                         /\ wsCon'[n + 1].live
    BY <1>2, AcceptEffect
  <2>3. Stays
    BY <2>1, <2>2 DEF Stays, Clients
  <2>4. \A con \in WsCons' : ~wsCon'[con].live => con \in WsCons /\ ~wsCon[con].live
    <3>1. \A con \in WsCons' : con \in 1 .. n \/ con = n + 1
      BY <2>2
    <3> QED
      BY <2>2, <3>1
  <2>5. busy = Idle
    BY <1>2 DEF WsAccept, WsTakes, WsMain
  <2>6. CloseBusy'
    BY <2>1, <2>5 DEF CloseBusy
  <2>7. \A con, ctx, last : ClientOf(con, ctx) /\ Ended(con, ctx, last) => busy'.con # con
    BY <2>1 DEF Ended
  <2>8. peers' = peers
    BY <2>1
  <2> QED
    BY <1>00, <2>1, <2>3, <2>4, <2>6, <2>7, <2>8, EndsTaken
<1>3. CASE WsPacket
  <2>1. /\ RingTaken /\ wsRing[1].kind = "packet" /\ ConsKept /\ LiveKept /\ UNCHANGED <<peers, wsList, frames>>
        /\ \/ busy' = Idle
           \/ /\ busy'.con \in WsCons /\ wsCon[busy'.con].ctx = wsRing[1].ctx
              /\ (busy'.do = "close" => wsRing[1].type = "close")
    BY <1>3, PacketEffect
  <2>2. Stays /\ 1 \in DOMAIN wsRing /\ WsCons' = WsCons
    BY <2>1 DEF Stays, ConsKept, Clients, WsCons, RingTaken
  <2>3. ASSUME NEW con, NEW ctx, NEW last, ClientOf(con, ctx), Ended(con, ctx, last) PROVE busy'.con # con
    <3>1. con # 0
      BY <2>3, Indices DEF ClientOf, WsBase
    <3>2. CASE busy' = Idle
      BY <3>1, <3>2 DEF Idle
    <3>3. CASE busy'.con \in WsCons /\ wsCon[busy'.con].ctx = wsRing[1].ctx
      <4>1. wsRing[1].ctx # ctx
        BY <2>1, <2>2, <2>3 DEF Ended, LastPacket
      <4> QED
        BY <2>3, <3>3, <4>1 DEF ClientOf
    <3> QED
      BY <2>1, <3>2, <3>3
  <2>4. CloseBusy'
    <3> SUFFICES ASSUME NEW ctx, busy' # Idle, busy'.do = "close", wsCon'[busy'.con].ctx = ctx
                 PROVE  LastPacket(ctx, 0)'
      BY DEF CloseBusy, ClientOf
    <3>1. wsRing[1].type = "close" /\ wsRing[1].ctx = ctx
      BY <2>1 DEF ConsKept
    <3>2. LastPacket(ctx, 1)
      BY <1>00, <2>1, <2>2, <3>1 DEF Ends, ClosePackets
    <3>3. peers'[ctx] # "open"
      BY <2>1, <3>2 DEF LastPacket
    <3>4. LastPacket(ctx, 1 - 1)' /\ 1 - 1 = 0
      BY <2>1, <3>2, <3>3, PacketsTaken
    <3> QED
      BY <3>4
  <2>5. \A con \in WsCons' : ~wsCon'[con].live => con \in WsCons /\ ~wsCon[con].live
    BY <2>1, <2>2 DEF LiveKept
  <2>6. peers' = peers
    BY <2>1
  <2> QED
    BY <1>00, <2>1, <2>2, <2>3, <2>4, <2>5, <2>6, EndsTaken
<1>4. CASE Handshake
  <2>1. /\ busy' = Idle /\ ConsKept /\ LiveKept /\ UNCHANGED <<peers, wsList, frames>>
        /\ RingQueued(Event("handler", busy.con, 0)) \/ UNCHANGED <<wsRing, wsLost>>
    BY <1>4, HandshakeEffect
  <2> PICK item : item = Event("handler", busy.con, 0)
    OBVIOUS
  <2>2. item.kind = "handler" /\ Appends(item)
    BY <2>1 DEF Event, Appends, RingSame
  <2>3. Stays
    BY <2>1 DEF Stays, ConsKept, Clients, WsCons
  <2>4. \A ctx \in Clients : peers[ctx] # "open" => peers'[ctx] # "open"
    BY <2>1
  <2> QED
    BY <1>00, <2>1, <2>2, <2>3, <2>4, EndsAppended
<1>5. CASE \E chosen \in BOOLEAN : PostAccept(chosen)
  <2>1. RingTaken /\ ConsKept /\ LiveKept /\ UNCHANGED <<peers, wsList, busy, frames>>
    BY <1>5, PostAcceptEffect
  <2>2. busy = Idle
    BY <1>5 DEF PostAccept, WsTakes, WsMain
  <2>3. Stays /\ CloseBusy' /\ peers' = peers /\ WsCons' = WsCons
    BY <2>1, <2>2 DEF Stays, ConsKept, Clients, WsCons, CloseBusy
  <2>4. \A con, ctx, last : ClientOf(con, ctx) /\ Ended(con, ctx, last) => busy'.con # con
    BY <2>1 DEF Ended
  <2>5. \A con \in WsCons' : ~wsCon'[con].live => con \in WsCons /\ ~wsCon[con].live
    BY <2>1, <2>3 DEF LiveKept
  <2> QED
    BY <1>00, <2>1, <2>3, <2>4, <2>5, EndsTaken
<1>6. CASE \E type \in FrameTypes : ProcessPacket(type)
  <2>1. PICK type \in FrameTypes : ProcessPacket(type)
    BY <1>6
  <2>2. /\ busy # Idle /\ busy' = Idle /\ busy.con \in WsCons /\ busy.do = type
        /\ ConsKept /\ LiveKept /\ UNCHANGED <<peers, wsList, frames>>
        /\ CASE type = "text"  -> RingQueued(Event("message", busy.con, busy.n))
             [] type = "close" -> RingQueued(Event("close", busy.con, 0))
             [] OTHER -> UNCHANGED <<wsRing, wsLost>>
    BY <2>1, ProcessEffect
  <2>3. Stays /\ busy.con # 0 /\ Clients' = Clients
    <3>1. busy.con # 0
      BY <2>2, Indices DEF WsBase
    <3> QED
      BY <2>2, <3>1 DEF Stays, ConsKept, Clients, WsCons
  <2>4. \A ctx \in Clients : peers[ctx] # "open" => peers'[ctx] # "open"
    BY <2>2
  <2>5. CASE type = "text"
    <3> PICK item : item = Event("message", busy.con, busy.n)
      OBVIOUS
    <3>1. item.kind = "message" /\ item.con = busy.con /\ Appends(item)
      BY <2>2, <2>5 DEF Event, Appends
    <3> QED
      BY <1>00, <2>2, <2>3, <2>4, <3>1, EndsAppended
  <2>6. CASE type = "close"
    <3> PICK item : item = Event("close", busy.con, 0)
      OBVIOUS
    <3>1. item.kind = "close" /\ item.con = busy.con /\ Appends(item)
      BY <2>2, <2>6 DEF Event, Appends
    <3>2. busy'.con # item.con
      BY <2>2, <2>3, <3>1 DEF Idle
    <3>3. ASSUME NEW ctx, ClientOf(item.con, ctx) PROVE LastPacket(ctx, 0)'
      <4>1. LastPacket(ctx, 0)
        BY <1>00, <2>2, <2>6, <3>1, <3>3 DEF Ends, CloseBusy
      <4>2. peers'[ctx] # "open"
        BY <2>2, <4>1 DEF LastPacket
      <4> QED
        BY <3>1, <4>1, <4>2, PacketsAppended
    <3> QED
      BY <1>00, <2>2, <2>3, <2>4, <3>1, <3>2, <3>3, EndsAppended
  <2>7. CASE type \notin {"text", "close"}
    <3>1. RingSame
      BY <2>2, <2>7 DEF RingSame
    <3> QED
      BY <1>00, <2>2, <2>3, <2>4, <3>1, EndsStay
  <2> QED
    BY <2>5, <2>6, <2>7
<1>7. CASE \E ctx \in Clients, type \in FrameTypes, size \in WsSizes : WsReceived(ctx, type, size)
  <2>1. PICK ctx \in Clients, type \in FrameTypes, size \in WsSizes : WsReceived(ctx, type, size)
    BY <1>7
  <2>2. /\ PeerSet(ctx, IF type = "close" THEN "closing" ELSE peers[ctx]) /\ peers[ctx] # "closed"
        /\ again' = After(ctx) /\ UNCHANGED <<wsCon, wsList, busy>>
    BY <2>1, ReceivedEffect
  <2>3. PICK m \in Nat : /\ DOMAIN frames = 1 .. m /\ DOMAIN frames' = 1 .. m + 1
                         /\ RingQueued(Packet(ctx, FindWs(ctx), type, m + 1))
    BY <2>1, ReceivedEffect
  <2>4. peers[ctx] = "open"
    <3>1. peers[ctx] # "closing"
      BY <2>2 DEF After
    <3>2. peers[ctx] \in {"open", "closing", "closed"}
      BY Indices DEF WsBase
    <3> QED
      BY <2>2, <3>1, <3>2
  <2> PICK item : item = Packet(ctx, FindWs(ctx), type, m + 1)
    OBVIOUS
  <2>5. item.kind = "packet" /\ item.ctx = ctx /\ item.type = type /\ Appends(item)
    BY <2>3 DEF Packet, Appends
  <2>6. Stays /\ ConsKept /\ LiveKept
    BY <2>2, <2>3 DEF Stays, ConsKept, LiveKept, PeerSet, Clients, WsCons
  <2>7. \A other \in Clients : peers[other] # "open" => peers'[other] # "open"
    BY <2>2, <2>4 DEF PeerSet
  <2>8. item.type = "close" => peers'[item.ctx] # "open"
    BY <2>2, <2>5 DEF PeerSet
  <2> QED
    BY <1>00, <2>2, <2>4, <2>5, <2>6, <2>7, <2>8, EndsAppended
<1>8. CASE \E ctx \in Clients : WsClosed(ctx)
  <2>1. PICK ctx \in Clients : WsClosed(ctx)
    BY <1>8
  <2> PICK con : con = FindWs(ctx)
    OBVIOUS
  <2>2. /\ PeerSet(ctx, "closed") /\ peers[ctx] # "closed" /\ con \in WsCons /\ wsCon[con].ctx = ctx
        /\ RingQueued(Event("close", con, 0)) /\ UNCHANGED <<wsCon, wsList, busy, frames>>
        /\ again' = After(ctx) \cup (IF Unhandled(ctx, con) THEN {ctx} ELSE {})
    BY <2>1, ClosedEffect
  <2>3. peers[ctx] = "open" /\ ~Unhandled(ctx, con)
    <3>1. peers[ctx] # "closing" /\ ~Unhandled(ctx, con)
      BY <2>2 DEF After
    <3>2. peers[ctx] \in {"open", "closing", "closed"}
      BY Indices DEF WsBase
    <3> QED
      BY <2>2, <3>1, <3>2
  <2> PICK item : item = Event("close", con, 0)
    OBVIOUS
  <2>4. item.kind = "close" /\ item.con = con /\ Appends(item)
    BY <2>2 DEF Event, Appends
  <2>5. Stays /\ ConsKept /\ LiveKept
    BY <2>2 DEF Stays, ConsKept, LiveKept, PeerSet, Clients, WsCons
  <2>6. \A other \in Clients : peers[other] # "open" => peers'[other] # "open"
    BY <2>2 DEF PeerSet
  <2>7. busy'.con # con /\ LastPacket(ctx, 0)'
    <3>1. busy.con # con /\ \A i \in DOMAIN wsRing : ~(wsRing[i].kind = "packet" /\ wsRing[i].ctx = ctx)
      BY <2>3 DEF Unhandled
    <3>2. \A i \in DOMAIN wsRing' : ~(wsRing'[i].kind = "packet" /\ wsRing'[i].ctx = ctx)
      BY <2>4, <3>1, AppendsPoints
    <3>3. peers'[ctx] # "open"
      BY <2>2 DEF PeerSet
    <3> QED
      BY <2>2, <3>1, <3>2, <3>3 DEF LastPacket
  <2>8. ClientOf(con, ctx) /\ \A other : ClientOf(con, other) => other = ctx
    BY <2>2 DEF ClientOf
  <2> QED
    BY <1>00, <2>2, <2>3, <2>4, <2>5, <2>6, <2>7, <2>8, EndsAppended
<1>9. CASE \E ctx \in Clients : WsClosedEarly(ctx)
  BY <1>9, ClosedEarlyEffect
<1>10. CASE \E made \in BOOLEAN : WsMessage(made)
  <2>1. RingTaken /\ ConsKept /\ LiveKept /\ busy = Idle /\ UNCHANGED <<peers, wsList, busy, frames>>
    BY <1>10, MessageEffect
  <2>3. Stays /\ CloseBusy' /\ peers' = peers /\ WsCons' = WsCons
    BY <2>1 DEF Stays, ConsKept, Clients, WsCons, CloseBusy
  <2>4. \A con, ctx, last : ClientOf(con, ctx) /\ Ended(con, ctx, last) => busy'.con # con
    BY <2>1 DEF Ended
  <2>5. \A con \in WsCons' : ~wsCon'[con].live => con \in WsCons /\ ~wsCon[con].live
    BY <2>1, <2>3 DEF LiveKept
  <2> QED
    BY <1>00, <2>1, <2>3, <2>4, <2>5, EndsTaken
<1>11. CASE WsCloseEvent
  <2>1. /\ RingTaken /\ wsRing[1].kind = "close" /\ ClosesCon(wsRing[1].con) /\ busy = Idle
        /\ UNCHANGED <<peers, busy, frames>>
    BY <1>11, CloseEventEffect
  <2>3. Stays /\ CloseBusy' /\ peers' = peers /\ WsCons' = WsCons
    BY <2>1 DEF Stays, ClosesCon, ConsKept, Clients, WsCons, CloseBusy
  <2>4. \A con, ctx, last : ClientOf(con, ctx) /\ Ended(con, ctx, last) => busy'.con # con
    BY <2>1 DEF Ended
  <2>5. \A con \in WsCons' : ~wsCon'[con].live =>
          con \in WsCons /\ (~wsCon[con].live \/ (wsRing[1].kind = "close" /\ wsRing[1].con = con))
    BY <2>1, <2>3 DEF ClosesCon
  <2> QED
    BY <1>00, <2>1, <2>3, <2>4, <2>5, EndsTaken
<1>12. CASE \E con \in WsCons : Terminate(con)
  BY <1>12, TerminateEffect
<1>13. CASE WsEnds
  <2>1. wsRing' = <<>> /\ wsCon' = <<>> /\ busy' = Idle
    BY <1>13, EndsReset DEF WsReset
  <2>2. DOMAIN wsRing' = {} /\ WsCons' = {}
    BY <2>1 DEF WsCons
  <2> QED
    BY <2>1, <2>2 DEF Ends, DeadEnds, CloseEnds, ClosePackets, CloseBusy, ClientOf
<1>14. CASE UNCHANGED wsVars
  BY <1>00, <1>14
     DEF Ends, DeadEnds, CloseEnds, ClosePackets, CloseBusy, ClientOf, Ended, LastPacket, LastEvent, WsCons, Clients
<1> QED
  BY <1>1, <1>2, <1>3, <1>4, <1>5, <1>6, <1>7, <1>8, <1>9, <1>10, <1>11, <1>12, <1>13, <1>14 DEF WsNext, WsEnds

UsesGone(fault) == fault \in {"freed connection", "event of a closed connection"}

\* Only a client that is closed early, terminated or heard of again makes a connection be used
\* that is gone.
LEMMA EndsExplain ==
  ASSUME WsBase, Spared => Ends, [WsNext]_wsVars, wsFault = "none",
         UsesGone(wsFault')
  PROVE  early # {} \/ again # {}
<1> SUFFICES ASSUME Spared PROVE FALSE
  BY DEF Spared
<1>0. Ends
  OBVIOUS
<1>1. ASSUME NEW con \in WsCons, wsCon[con].live = FALSE PROVE \E ctx : wsCon[con].ctx = ctx /\ Ended(con, ctx, 0)
  BY <1>0, <1>1 DEF Ends, DeadEnds, ClientOf, WsBase, NumbersMade
<1>2. \A con \in WsCons : ~wsCon[con].live => wsCon[con].live = FALSE
  BY Indices DEF WsBase, WsCon
<1>3. WsEnds /\ ~AcceptWithoutKey /\ ~BufferOverflow
  BY Zenon DEF UsesGone, WsNext, WsAccepted, WsAccept, WsPacket, Handshake, PostAccept, AcceptWithoutKey,
         BufferOverflow, WsCloseEvent, ProcessPacket, WsReceived, WsClosed, WsClosedEarly, WsMessage, Terminate,
         WsFails, WsEnds
<1>4. ASSUME NEW ctx \in Clients, CloseUsesFreed(ctx) PROVE FALSE
  <2>1. FindWs(ctx) \in wsList
    BY <1>4, Finds DEF CloseUsesFreed
  <2> QED
    BY <1>4, <2>1 DEF CloseUsesFreed, LiveCon, WsBase, NumbersMade
<1>5. ASSUME wsRing # <<>> PROVE 1 \in DOMAIN wsRing /\ Head(wsRing) = wsRing[1]
  <2> PICK n \in Nat : n = Len(wsRing) /\ DOMAIN wsRing = 1 .. n
    BY LenProperties DEF WsBase, WsType
  <2>1. wsRing \in Seq(WsItem) /\ n > 0 /\ Head(wsRing) = wsRing[1]
    BY <1>5, HeadTailProperties, LenProperties DEF WsBase, WsType
  <2> QED
    BY <2>1
<1>6. ASSUME PacketOfFreed PROVE FALSE
  <2> PICK item : item = Head(wsRing)
    OBVIOUS
  <2> PICK con : con = IF item.con # 0 THEN item.con ELSE FindWs(item.ctx)
    OBVIOUS
  <2>1. wsRing # <<>> /\ item.kind = "packet" /\ con # 0 /\ ~LiveCon(con)
    BY <1>6 DEF PacketOfFreed, WsTakes
  <2>2. 1 \in DOMAIN wsRing /\ item = wsRing[1]
    BY <1>5, <2>1
  <2>3. CASE item.con # 0
    <3>1. con \in WsCons /\ wsCon[con].ctx = item.ctx
      BY <2>1, <2>2, <2>3 DEF WsBase, NumbersMade, ItemMade
    <3>2. Ended(con, item.ctx, 0)
      BY <1>1, <1>2, <2>1, <3>1 DEF LiveCon
    <3>3. \A i \in DOMAIN wsRing : wsRing[i].kind = "packet" /\ wsRing[i].ctx = item.ctx => i <= 0
      BY <3>2 DEF Ended, LastPacket
    <3>4. ~(1 <= 0)
      OBVIOUS
    <3> QED
      BY <2>1, <2>2, <3>3, <3>4
  <2>4. CASE item.con = 0
    <3>1. con \in wsList
      BY <2>1, <2>4, Finds
    <3> QED
      BY <2>1, <3>1 DEF LiveCon, WsBase, NumbersMade
  <2> QED
    BY <2>3, <2>4
<1>7. ASSUME BusyWithFreed PROVE FALSE
  <2>1. busy.con \in WsCons /\ ~wsCon[busy.con].live
    BY <1>7 DEF BusyWithFreed, LiveCon, WsBase, NumbersMade
  <2> QED
    BY <1>1, <1>2, <2>1 DEF Ended
<1>8. ASSUME EventWithoutHandle PROVE FALSE
  <2>1. wsRing # <<>> /\ Head(wsRing).kind \in {"message", "close"} /\ ~LiveCon(Head(wsRing).con)
    BY <1>8 DEF EventWithoutHandle, WsTakes
  <2>2. 1 \in DOMAIN wsRing /\ Head(wsRing) = wsRing[1]
    BY <1>5, <2>1
  <2>3. wsRing[1].con \in WsCons /\ ~wsCon[wsRing[1].con].live
    BY <2>1, <2>2 DEF LiveCon, WsBase, NumbersMade, ItemMade
  <2>4. LastEvent(wsRing[1].con, 0)
    BY <1>1, <1>2, <2>3 DEF Ended
  <2>5. \A i \in DOMAIN wsRing :
          wsRing[i].kind \in {"message", "close"} /\ wsRing[i].con = wsRing[1].con => i <= 0
    BY <2>4 DEF LastEvent
  <2>6. ~(1 <= 0)
    OBVIOUS
  <2> QED
    BY <2>1, <2>2, <2>5, <2>6
<1> QED
  BY <1>3, <1>4, <1>6, <1>7, <1>8 DEF WsEnds

-----------------------------------------------------------------------------
(***************************************************************************)
(* Web sockets: the buffer and the events that take from it.               *)
(***************************************************************************)
\* Frames are handled in the order they came in.
RingInOrder ==
  \A i, j \in DOMAIN wsRing :
    /\ i < j /\ wsRing[i].kind = wsRing[j].kind /\ wsRing[i].kind \in {"packet", "message"} =>
         wsRing[i].n < wsRing[j].n
    /\ wsRing[i].kind = "message" /\ wsRing[j].kind = "packet" => wsRing[i].n < wsRing[j].n
BusyInOrder ==
  busy # Idle =>
    \A i \in DOMAIN wsRing : /\ wsRing[i].kind = "packet" => busy.n < wsRing[i].n
                             /\ wsRing[i].kind = "message" => wsRing[i].n < busy.n

Awaits(con, m) == \E i \in DOMAIN wsRing : wsRing[i].kind = "message" /\ wsRing[i].con = con /\ wsRing[i].n = m

\* The units m of a buffer are c, and together.
Block(s, m, c) == \E p \in Nat : \A k \in Nat : k \in p + 1 .. p + c <=> k \in DOMAIN s /\ s[k] = m
Ascends(s)     == \A k, l \in DOMAIN s : k <= l => s[k] <= s[l]

\* The buffer holds the units of the messages that wait, in their order, each message's together.
InBuffer(con) ==
  /\ Ascends(wsCon[con].unread)
  /\ \A k \in DOMAIN wsCon[con].unread : \A m : m = wsCon[con].unread[k] => Awaits(con, m)
  /\ \A m \in DOMAIN frames : Awaits(con, m) => Block(wsCon[con].unread, m, frames[m])
Buffered == \A con \in WsCons : con \notin wsMixed => InBuffer(con)

LEMMA BlockGrows ==
  ASSUME NEW s, NEW t, NEW n, NEW d \in Nat, Grows(s, t, n, d), NEW m, m # n, NEW c \in Nat, Block(s, m, c)
  PROVE  Block(t, m, c)
<1> PICK size \in Nat : /\ DOMAIN s = 1 .. size /\ DOMAIN t = 1 .. size + d
                        /\ \A k \in 1 .. size : t[k] = s[k]
                        /\ \A k \in size + 1 .. size + d : t[k] = n
  BY DEF Grows
<1> PICK p \in Nat : \A k \in Nat : k \in p + 1 .. p + c <=> k \in DOMAIN s /\ s[k] = m
  BY DEF Block
<1>1. ASSUME NEW k \in Nat PROVE k \in DOMAIN s /\ s[k] = m <=> k \in DOMAIN t /\ t[k] = m
  <2>1. CASE k \in 1 .. size
    <3>1. k \in DOMAIN t
      BY <2>1
    <3> QED
      BY <2>1, <3>1
  <2>2. CASE k \in size + 1 .. size + d
    BY <2>2
  <2>3. CASE k \notin 1 .. size /\ k \notin size + 1 .. size + d
    BY <2>3
  <2> QED
    BY <2>1, <2>2, <2>3
<1> QED
  BY <1>1 DEF Block

LEMMA BlockNew ==
  ASSUME NEW s, NEW t, NEW n, NEW d \in Nat, Grows(s, t, n, d), \A k \in DOMAIN s : s[k] # n
  PROVE  Block(t, n, d)
<1> PICK size \in Nat : /\ DOMAIN s = 1 .. size /\ DOMAIN t = 1 .. size + d
                        /\ \A k \in 1 .. size : t[k] = s[k]
                        /\ \A k \in size + 1 .. size + d : t[k] = n
  BY DEF Grows
<1>1. ASSUME NEW k \in Nat PROVE k \in size + 1 .. size + d <=> k \in DOMAIN t /\ t[k] = n
  <2>1. CASE k \in 1 .. size
    BY <2>1
  <2>2. CASE k \in size + 1 .. size + d
    BY <2>2
  <2>3. CASE k \notin 1 .. size /\ k \notin size + 1 .. size + d
    BY <2>3
  <2> QED
    BY <2>1, <2>2, <2>3
<1> QED
  BY <1>1 DEF Block

Leads(s, n, d) == \A k \in 1 .. d : k \in DOMAIN s /\ s[k] = n

LEMMA BlockShrinks ==
  ASSUME NEW s, NEW t, NEW d \in Nat, Shrinks(s, t, d), NEW n, Leads(s, n, d), NEW m, m # n, NEW c \in Nat,
         Block(s, m, c)
  PROVE  Block(t, m, c)
<1> USE DEF Leads
<1> PICK size \in Nat : /\ DOMAIN s = 1 .. size /\ DOMAIN t = 1 .. size - d
                        /\ \A k \in 1 .. size - d : t[k] = s[k + d]
  BY DEF Shrinks
<1> PICK p \in Nat : \A k \in Nat : k \in p + 1 .. p + c <=> k \in DOMAIN s /\ s[k] = m
  BY DEF Block
<1>1. ASSUME NEW k \in Nat PROVE k \in DOMAIN t /\ t[k] = m <=> k + d \in p + 1 .. p + c
  <2>1. k + d \in Nat /\ (k + d \in p + 1 .. p + c <=> k + d \in DOMAIN s /\ s[k + d] = m)
    OBVIOUS
  <2>2. CASE k \in 1 .. size - d
    <3>1. k + d \in 1 .. size
      BY <2>2
    <3> QED
      BY <2>1, <2>2, <3>1
  <2>3. CASE k > size - d
    BY <2>1, <2>3
  <2>4. CASE k = 0
    <3>1. k + d = 0 \/ k + d \in 1 .. d
      BY <2>4
    <3> QED
      BY <2>1, <2>4, <3>1
  <2> QED
    BY <2>2, <2>3, <2>4
<1>2. CASE p >= d
  <2>1. p - d \in Nat
    BY <1>2
  <2>2. \A k \in Nat : k + d \in p + 1 .. p + c <=> k \in (p - d) + 1 .. (p - d) + c
    OBVIOUS
  <2> QED
    BY <1>1, <2>1, <2>2 DEF Block
<1>3. CASE p < d /\ c = 0
  <2>1. \A k \in Nat : k + d \notin p + 1 .. p + c /\ k \notin p + 1 .. p + c
    BY <1>3
  <2> QED
    BY <1>1, <2>1 DEF Block
<1>4. CASE p < d /\ c > 0
  <2>1. p + 1 \in 1 .. d /\ p + 1 \in p + 1 .. p + c /\ p + 1 \in Nat
    BY <1>4
  <2> QED
    BY <2>1
<1> QED
  BY <1>2, <1>3, <1>4

\* The units of the least number are the first.
LEMMA FirstBlock ==
  ASSUME NEW s \in Seq(Nat), Ascends(s), NEW n \in Nat, NEW c \in Nat, Block(s, n, c), \A k \in DOMAIN s : n <= s[k]
  PROVE  /\ \A k \in 1 .. c : k \in DOMAIN s /\ s[k] = n
         /\ \A k \in DOMAIN s : s[k] = n => k <= c
<1> PICK size \in Nat : DOMAIN s = 1 .. size /\ \A k \in 1 .. size : s[k] \in Nat
  BY LenProperties, ElementOfSeq
<1> PICK p \in Nat : \A k \in Nat : k \in p + 1 .. p + c <=> k \in DOMAIN s /\ s[k] = n
  BY DEF Block
<1>1. CASE c = 0
  <2>1. \A k \in 1 .. size : k \in Nat /\ k \notin p + 1 .. p + c
    BY <1>1
  <2> QED
    BY <1>1, <2>1
<1>2. CASE c > 0
  <2>1. p + 1 \in 1 .. size /\ s[p + 1] = n
    <3>1. p + 1 \in Nat /\ p + 1 \in p + 1 .. p + c
      BY <1>2
    <3> QED
      BY <3>1
  <2>2. p = 0
    <3> SUFFICES ASSUME p # 0 PROVE FALSE
      OBVIOUS
    <3>1. p \in 1 .. size /\ p <= p + 1 /\ p \notin p + 1 .. p + c
      BY <2>1
    <3>2. s[p] <= n /\ n <= s[p] /\ s[p] \in Nat
      BY <2>1, <3>1 DEF Ascends
    <3>3. s[p] = n
      BY <3>2
    <3> QED
      BY <3>1, <3>3
  <2>3. \A k \in Nat : k \in 1 .. c <=> k \in DOMAIN s /\ s[k] = n
    BY <2>2
  <2>4. \A k \in 1 .. c : k \in Nat
    OBVIOUS
  <2>5. \A k \in 1 .. size : k \in Nat
    OBVIOUS
  <2> QED
    BY <2>3, <2>4, <2>5
<1> QED
  BY <1>1, <1>2

InOrder == RingInOrder /\ BusyInOrder

LEMMA OrderTaken ==
  ASSUME InOrder, RingTaken
  PROVE  RingInOrder' /\ (busy' = busy \/ busy' = Idle => BusyInOrder')
<1>1. \A i \in DOMAIN wsRing' : i \in Nat /\ i + 1 \in DOMAIN wsRing /\ wsRing'[i] = wsRing[i + 1]
  BY DEF RingTaken
<1>2. RingInOrder'
  <2> SUFFICES ASSUME NEW i \in DOMAIN wsRing', NEW j \in DOMAIN wsRing'
               PROVE  /\ i < j /\ wsRing'[i].kind = wsRing'[j].kind /\ wsRing'[i].kind \in {"packet", "message"} =>
                           wsRing'[i].n < wsRing'[j].n
                      /\ wsRing'[i].kind = "message" /\ wsRing'[j].kind = "packet" => wsRing'[i].n < wsRing'[j].n
    BY DEF RingInOrder
  <2>1. /\ i + 1 \in DOMAIN wsRing /\ wsRing'[i] = wsRing[i + 1] /\ j + 1 \in DOMAIN wsRing
        /\ wsRing'[j] = wsRing[j + 1] /\ (i < j => i + 1 < j + 1)
    BY <1>1
  <2> QED
    BY <2>1 DEF InOrder, RingInOrder
<1>3. ASSUME busy' = busy \/ busy' = Idle PROVE BusyInOrder'
  BY <1>1, <1>3 DEF InOrder, BusyInOrder
<1> QED
  BY <1>2, <1>3

LEMMA OrderAppended ==
  ASSUME WsBase, InOrder, NEW item, Appends(item), busy' = busy \/ busy' = Idle,
         item.kind = "packet" => /\ \A i \in DOMAIN wsRing :
                                         wsRing[i].kind \in {"packet", "message"} => wsRing[i].n < item.n
                                 /\ busy' = Idle \/ busy.n < item.n,
         item.kind = "message" => /\ busy # Idle /\ busy' = Idle /\ item.n = busy.n
  PROVE  InOrder'
<1>0. WsType
  BY DEF WsBase
<1>1. RingInOrder'
  <2> SUFFICES ASSUME NEW i \in DOMAIN wsRing', NEW j \in DOMAIN wsRing'
               PROVE  /\ i < j /\ wsRing'[i].kind = wsRing'[j].kind /\ wsRing'[i].kind \in {"packet", "message"} =>
                           wsRing'[i].n < wsRing'[j].n
                      /\ wsRing'[i].kind = "message" /\ wsRing'[j].kind = "packet" => wsRing'[i].n < wsRing'[j].n
    BY DEF RingInOrder
  <2>1. CASE /\ i \in DOMAIN wsRing /\ wsRing'[i] = wsRing[i]
             /\ j \in DOMAIN wsRing /\ wsRing'[j] = wsRing[j]
    BY <2>1 DEF InOrder, RingInOrder
  <2>2. CASE ~(i \in DOMAIN wsRing /\ wsRing'[i] = wsRing[i])
    <3>1. wsRing'[i] = item /\ i \in Nat /\ j <= i
      BY <1>0, <2>2, AppendsLast
    <3>2. (j \in DOMAIN wsRing /\ wsRing'[j] = wsRing[j]) \/ wsRing'[j] = item
      BY AppendsPoints
    <3>3. j \in Nat /\ ~(i < j)
      <4>1. j \in Nat
        <5>1. CASE j \in DOMAIN wsRing
          BY <1>0, <5>1, Indices
        <5>2. CASE j \notin DOMAIN wsRing
          BY <1>0, <5>2, AppendsLast
        <5> QED
          BY <5>1, <5>2
      <4> QED
        BY <3>1, <4>1
    <3>4. item.kind = "message" /\ j \in DOMAIN wsRing /\ wsRing[j].kind = "packet" => item.n < wsRing[j].n
      BY DEF InOrder, BusyInOrder
    <3> QED
      BY <3>1, <3>2, <3>3, <3>4
  <2>3. CASE i \in DOMAIN wsRing /\ wsRing'[i] = wsRing[i] /\ ~(j \in DOMAIN wsRing /\ wsRing'[j] = wsRing[j])
    <3>1. wsRing'[j] = item
      BY <1>0, <2>3, AppendsLast
    <3>2. item.kind = "message" /\ wsRing[i].kind = "message" => wsRing[i].n < item.n
      BY <2>3 DEF InOrder, BusyInOrder
    <3> QED
      BY <2>3, <3>1, <3>2
  <2> QED
    BY <2>1, <2>2, <2>3
<1>2. BusyInOrder'
  <2> SUFFICES ASSUME busy' # Idle, NEW i \in DOMAIN wsRing'
               PROVE  /\ wsRing'[i].kind = "packet" => busy'.n < wsRing'[i].n
                      /\ wsRing'[i].kind = "message" => wsRing'[i].n < busy'.n
    BY DEF BusyInOrder
  <2>1. busy' = busy /\ item.kind # "message"
    OBVIOUS
  <2>2. CASE i \in DOMAIN wsRing /\ wsRing'[i] = wsRing[i]
    BY <2>1, <2>2 DEF InOrder, BusyInOrder
  <2>3. CASE wsRing'[i] = item
    BY <2>1, <2>3
  <2> QED
    BY <2>2, <2>3, AppendsPoints
<1> QED
  BY <1>1, <1>2 DEF InOrder

LEMMA OrderKept ==
  ASSUME WsBase, InOrder, [WsNext]_wsVars
  PROVE  InOrder'
<1>1. CASE WsAccepted
  <2>1. PICK n \in Nat : RingQueued(Accepted(n + 1))
    BY <1>1, AcceptedEffect
  <2> PICK item : item = Accepted(n + 1)
    OBVIOUS
  <2>2. item.kind = "accept" /\ Appends(item) /\ busy' = busy
    BY <1>1, <2>1, AcceptedEffect DEF Accepted, Appends
  <2> QED
    BY <2>2, OrderAppended
<1>2. CASE WsAccept
  <2>1. RingTaken /\ busy' = busy
    BY <1>2, AcceptEffect
  <2> QED
    BY <2>1, OrderTaken DEF InOrder
<1>3. CASE WsPacket
  <2>1. /\ RingTaken /\ wsRing[1].kind = "packet"
        /\ busy' = Idle \/ busy'.n = wsRing[1].n
    BY <1>3, PacketEffect
  <2>2. RingInOrder' /\ (busy' = Idle => BusyInOrder')
    BY <2>1, OrderTaken
  <2>3. CASE busy'.n = wsRing[1].n
    <3>1. ASSUME NEW i \in DOMAIN wsRing'
          PROVE  /\ wsRing'[i].kind = "packet" => busy'.n < wsRing'[i].n
                 /\ wsRing'[i].kind = "message" => wsRing'[i].n < busy'.n
      <4>1. 1 < i + 1 /\ i + 1 \in DOMAIN wsRing /\ wsRing'[i] = wsRing[i + 1] /\ 1 \in DOMAIN wsRing
        BY <2>1 DEF RingTaken
      <4> QED
        BY <2>1, <2>3, <4>1 DEF InOrder, RingInOrder
    <3> QED
      BY <2>2, <3>1 DEF InOrder, BusyInOrder
  <2> QED
    BY <2>1, <2>2, <2>3 DEF InOrder
<1>4. CASE Handshake
  <2>1. busy' = Idle /\ (RingQueued(Event("handler", busy.con, 0)) \/ UNCHANGED <<wsRing, wsLost>>)
    BY <1>4, HandshakeEffect
  <2> PICK item : item = Event("handler", busy.con, 0)
    OBVIOUS
  <2>2. item.kind = "handler" /\ Appends(item)
    BY <2>1 DEF Event, Appends, RingSame
  <2> QED
    BY <2>1, <2>2, OrderAppended
<1>5. CASE \E chosen \in BOOLEAN : PostAccept(chosen)
  <2>1. RingTaken /\ busy' = busy
    BY <1>5, PostAcceptEffect
  <2> QED
    BY <2>1, OrderTaken DEF InOrder
<1>6. CASE \E type \in FrameTypes : ProcessPacket(type)
  <2>1. PICK type \in FrameTypes : ProcessPacket(type)
    BY <1>6
  <2>2. /\ busy # Idle /\ busy' = Idle
        /\ CASE type = "text"  -> RingQueued(Event("message", busy.con, busy.n))
             [] type = "close" -> RingQueued(Event("close", busy.con, 0))
             [] OTHER -> UNCHANGED <<wsRing, wsLost>>
    BY <2>1, ProcessEffect
  <2>3. CASE type = "text"
    <3> PICK item : item = Event("message", busy.con, busy.n)
      OBVIOUS
    <3>1. item.kind = "message" /\ item.n = busy.n /\ Appends(item)
      BY <2>2, <2>3 DEF Event, Appends
    <3> QED
      BY <2>2, <3>1, OrderAppended
  <2>4. CASE type # "text"
    <3> PICK item : item = Event("close", busy.con, 0)
      OBVIOUS
    <3>1. item.kind = "close" /\ Appends(item)
      BY <2>2, <2>4 DEF Event, Appends, RingSame
    <3> QED
      BY <2>2, <3>1, OrderAppended
  <2> QED
    BY <2>3, <2>4
<1>7. CASE \E ctx \in Clients, type \in FrameTypes, size \in WsSizes : WsReceived(ctx, type, size)
  <2>1. PICK ctx \in Clients, type \in FrameTypes, size \in WsSizes : WsReceived(ctx, type, size)
    BY <1>7
  <2>2. busy' = busy
    BY <2>1, ReceivedEffect
  <2>3. PICK m \in Nat : DOMAIN frames = 1 .. m /\ RingQueued(Packet(ctx, FindWs(ctx), type, m + 1))
    BY <2>1, ReceivedEffect
  <2> PICK item : item = Packet(ctx, FindWs(ctx), type, m + 1)
    OBVIOUS
  <2>4. item.kind = "packet" /\ item.n = m + 1 /\ Appends(item)
    BY <2>3 DEF Packet, Appends
  <2>5. ASSUME NEW i \in DOMAIN wsRing, wsRing[i].kind \in {"packet", "message"} PROVE wsRing[i].n < item.n
    <3>1. wsRing[i].n \in 1 .. m
      BY <2>3, <2>5 DEF WsBase, NumbersMade, ItemMade
    <3> QED
      BY <2>4, <3>1
  <2>6. busy' = Idle \/ busy.n < item.n
    <3>1. busy # Idle => busy.n \in 1 .. m
      BY <2>3 DEF WsBase, NumbersMade
    <3> QED
      BY <2>2, <2>4, <3>1
  <2> QED
    BY <2>2, <2>4, <2>5, <2>6, OrderAppended
<1>8. CASE \E ctx \in Clients : WsClosed(ctx)
  <2>1. PICK ctx \in Clients : WsClosed(ctx)
    BY <1>8
  <2> PICK item : item = Event("close", FindWs(ctx), 0)
    OBVIOUS
  <2>2. item.kind = "close" /\ Appends(item) /\ busy' = busy
    BY <2>1, ClosedEffect DEF Event, Appends
  <2> QED
    BY <2>2, OrderAppended
<1>9. CASE (\E ctx \in Clients : WsClosedEarly(ctx)) \/ (\E con \in WsCons : Terminate(con)) \/ UNCHANGED wsVars
  <2>1. wsRing' = wsRing /\ busy' = busy
    BY <1>9, ClosedEarlyEffect, TerminateEffect
  <2> QED
    BY <2>1 DEF InOrder, RingInOrder, BusyInOrder
<1>10. CASE \E made \in BOOLEAN : WsMessage(made)
  <2>1. RingTaken /\ busy' = busy
    BY <1>10, MessageEffect
  <2> QED
    BY <2>1, OrderTaken DEF InOrder
<1>11. CASE WsCloseEvent
  <2>1. RingTaken /\ busy' = busy
    BY <1>11, CloseEventEffect
  <2> QED
    BY <2>1, OrderTaken DEF InOrder
<1>12. CASE WsEnds
  <2>1. wsRing' = <<>> /\ busy' = Idle
    BY <1>12, EndsReset DEF WsReset
  <2>2. DOMAIN wsRing' = {}
    BY <2>1
  <2> QED
    BY <2>1, <2>2 DEF InOrder, RingInOrder, BusyInOrder
<1> QED
  BY <1>1, <1>2, <1>3, <1>4, <1>5, <1>6, <1>7, <1>8, <1>9, <1>10, <1>11, <1>12 DEF WsNext, WsEnds

\* The messages that wait for a connection, after a step that leaves them alone.
SameAwaited(con) == \A m : Awaits(con, m)' <=> Awaits(con, m)

LEMMA AwaitedAppended ==
  ASSUME NEW item, Appends(item), NEW con, ~(item.kind = "message" /\ item.con = con)
  PROVE  SameAwaited(con)
<1> SUFFICES ASSUME NEW m PROVE Awaits(con, m)' <=> Awaits(con, m)
  BY DEF SameAwaited
<1>1. ASSUME Awaits(con, m) PROVE Awaits(con, m)'
  <2>1. PICK i \in DOMAIN wsRing : wsRing[i].kind = "message" /\ wsRing[i].con = con /\ wsRing[i].n = m
    BY <1>1 DEF Awaits
  <2>2. i \in DOMAIN wsRing' /\ wsRing'[i] = wsRing[i]
    <3>1. CASE RingSame
      BY <3>1 DEF RingSame
    <3>2. CASE RingAdded(item)
      <4>1. PICK n \in Nat : /\ DOMAIN wsRing = 1 .. n /\ DOMAIN wsRing' = 1 .. n + 1
                             /\ \A k \in 1 .. n : wsRing'[k] = wsRing[k]
        BY <3>2 DEF RingAdded
      <4> QED
        BY <4>1
    <3> QED
      BY <3>1, <3>2 DEF Appends, RingQueued
  <2> QED
    BY <2>1, <2>2 DEF Awaits
<1>2. ASSUME Awaits(con, m)' PROVE Awaits(con, m)
  <2>1. PICK i \in DOMAIN wsRing' : wsRing'[i].kind = "message" /\ wsRing'[i].con = con /\ wsRing'[i].n = m
    BY <1>2 DEF Awaits
  <2>2. i \in DOMAIN wsRing /\ wsRing'[i] = wsRing[i]
    BY <2>1, AppendsPoints
  <2> QED
    BY <2>1, <2>2 DEF Awaits
<1> QED
  BY <1>1, <1>2

LEMMA AwaitedTaken ==
  ASSUME RingTaken, NEW con, ~(wsRing[1].kind = "message" /\ wsRing[1].con = con)
  PROVE  SameAwaited(con)
<1> SUFFICES ASSUME NEW m PROVE Awaits(con, m)' <=> Awaits(con, m)
  BY DEF SameAwaited
<1>1. ASSUME Awaits(con, m) PROVE Awaits(con, m)'
  <2>1. PICK i \in DOMAIN wsRing : wsRing[i].kind = "message" /\ wsRing[i].con = con /\ wsRing[i].n = m
    BY <1>1 DEF Awaits
  <2>2. i # 1
    BY <2>1
  <2>3. i - 1 \in DOMAIN wsRing' /\ wsRing'[i - 1] = wsRing[i]
    BY <2>2 DEF RingTaken
  <2> QED
    BY <2>1, <2>3 DEF Awaits
<1>2. ASSUME Awaits(con, m)' PROVE Awaits(con, m)
  <2>1. PICK i \in DOMAIN wsRing' : wsRing'[i].kind = "message" /\ wsRing'[i].con = con /\ wsRing'[i].n = m
    BY <1>2 DEF Awaits
  <2>2. i + 1 \in DOMAIN wsRing /\ wsRing'[i] = wsRing[i + 1]
    BY DEF RingTaken
  <2> QED
    BY <2>1, <2>2 DEF Awaits
<1> QED
  BY <1>1, <1>2

FramesKept == \A k \in DOMAIN frames : k \in DOMAIN frames' /\ frames'[k] = frames[k]

LEMMA AwaitedMade ==
  ASSUME WsBase, NEW con, NEW m, Awaits(con, m)
  PROVE  m \in DOMAIN frames /\ m \in Nat /\ frames[m] \in Nat
<1>1. m \in DOMAIN frames
  BY DEF Awaits, WsBase, NumbersMade, ItemMade
<1> QED
  BY <1>1, Indices DEF WsBase

LEMMA InBufferStays ==
  ASSUME WsBase, NEW con, InBuffer(con), wsCon'[con].unread = wsCon[con].unread, FramesKept, SameAwaited(con)
  PROVE  InBuffer(con)'
<1> PICK s : s = wsCon[con].unread /\ s = wsCon'[con].unread
  OBVIOUS
<1>1. \A k \in DOMAIN s : \A m : m = s[k] => Awaits(con, m)'
  BY DEF InBuffer, SameAwaited
<1>2. ASSUME NEW m \in DOMAIN frames', Awaits(con, m)' PROVE Block(s, m, frames'[m])
  <2>1. Awaits(con, m)
    BY <1>2 DEF SameAwaited
  <2>2. m \in DOMAIN frames /\ frames'[m] = frames[m]
    BY <2>1, AwaitedMade DEF FramesKept
  <2> QED
    BY <2>1, <2>2 DEF InBuffer
<1>3. Ascends(s)
  BY DEF InBuffer
<1> QED
  BY <1>1, <1>2, <1>3 DEF InBuffer, Awaits

\* A step that leaves the buffers and the messages alone.
LEMMA BufferedStays ==
  ASSUME WsBase, Buffered, FramesKept, WsCons' = WsCons, UnreadKept, wsMixed \subseteq wsMixed',
         \A con \in WsCons : SameAwaited(con)
  PROVE  Buffered'
<1> SUFFICES ASSUME NEW con \in WsCons, con \notin wsMixed' PROVE InBuffer(con)'
  BY DEF Buffered
<1>1. InBuffer(con)
  BY DEF Buffered
<1>2. wsCon'[con].unread = wsCon[con].unread
  BY DEF UnreadKept
<1> QED
  BY <1>1, <1>2, InBufferStays

LEMMA ProcessKeepsBuffered ==
  ASSUME WsBase, InOrder, Buffered, NEW type \in FrameTypes, ProcessPacket(type)
  PROVE  Buffered'
<1> PICK con, n, c : con = busy.con /\ n = busy.n /\ c = frames[n]
  OBVIOUS
<1> PICK item : item = Event("message", con, n)
  OBVIOUS
<1>0. item.kind = "message" /\ item.con = con /\ item.n = n
  BY DEF Event
<1>1. /\ busy # Idle /\ con \in WsCons /\ ConsKept /\ OthersUnread(con) /\ wsMixed \subseteq wsMixed'
      /\ CASE type = "text"  -> RingQueued(item)
           [] type = "close" -> RingQueued(Event("close", con, 0))
           [] OTHER -> UNCHANGED <<wsRing, wsLost>>
      /\ frames' = frames
  BY ProcessEffect
<1>2. con \notin wsMixed' =>
        \/ RingAdded(item) /\ Grows(wsCon[con].unread, wsCon'[con].unread, n, c)
        \/ (type # "text" \/ UNCHANGED wsRing) /\ UnreadKept
  BY ProcessEffect
<1>3. FramesKept /\ n \in DOMAIN frames /\ n \in Nat /\ c \in Nat
  BY <1>1, Indices DEF FramesKept, WsBase, NumbersMade
<1>4. WsCons' = WsCons
  BY <1>1 DEF ConsKept, WsCons
<1>10. ASSUME NEW other \in WsCons, type # "text" PROVE SameAwaited(other)
  <2> PICK close : close = Event("close", con, 0)
    OBVIOUS
  <2>1. Appends(close) /\ close.kind = "close"
    BY <1>1, <1>10 DEF Appends, RingSame, Event
  <2> QED
    BY <2>1, AwaitedAppended
<1>5. ASSUME NEW other \in WsCons, other # con, other \notin wsMixed' PROVE InBuffer(other)'
  <2>1. SameAwaited(other)
    <3>1. CASE type = "text"
      <4>1. Appends(item)
        BY <1>1, <3>1 DEF Appends
      <4> QED
        BY <1>0, <1>5, <4>1, AwaitedAppended
    <3>2. CASE type # "text"
      BY <1>10, <3>2
    <3> QED
      BY <3>1, <3>2
  <2>2. InBuffer(other) /\ wsCon'[other].unread = wsCon[other].unread
    BY <1>1, <1>5 DEF Buffered, OthersUnread
  <2> QED
    BY <1>3, <2>1, <2>2, InBufferStays
<1>6. ASSUME con \notin wsMixed', type # "text" \/ UNCHANGED wsRing, UnreadKept PROVE InBuffer(con)'
  <2>1. SameAwaited(con)
    <3>1. CASE UNCHANGED wsRing
      BY <3>1 DEF SameAwaited, Awaits
    <3>2. CASE type # "text"
      BY <1>1, <1>10, <3>2
    <3> QED
      BY <1>6, <3>1, <3>2
  <2>2. InBuffer(con) /\ wsCon'[con].unread = wsCon[con].unread
    BY <1>1, <1>6 DEF Buffered, UnreadKept
  <2> QED
    BY <1>3, <2>1, <2>2, InBufferStays
<1>7. ASSUME con \notin wsMixed', RingAdded(item), Grows(wsCon[con].unread, wsCon'[con].unread, n, c)
      PROVE  InBuffer(con)'
  <2> PICK s, t : s = wsCon[con].unread /\ t = wsCon'[con].unread
    OBVIOUS
  <2>1. InBuffer(con)
    BY <1>1, <1>7 DEF Buffered
  <2>2. Ascends(s) /\ (\A k \in DOMAIN s : \A m : m = s[k] => Awaits(con, m))
        /\ \A m \in DOMAIN frames : Awaits(con, m) => Block(s, m, frames[m])
    BY <2>1 DEF InBuffer
  <2>3. \A m : Awaits(con, m) => m < n
    BY <1>1 DEF Awaits, InOrder, BusyInOrder
  <2>4. \A m : Awaits(con, m)' <=> Awaits(con, m) \/ m = n
    <3>1. PICK l \in Nat : /\ DOMAIN wsRing = 1 .. l /\ DOMAIN wsRing' = 1 .. l + 1 /\ wsRing'[l + 1] = item
                           /\ \A k \in 1 .. l : wsRing'[k] = wsRing[k]
      BY <1>7 DEF RingAdded
    <3>2. \A k : k \in DOMAIN wsRing' <=> k \in DOMAIN wsRing \/ k = l + 1
      BY <3>1
    <3>3. \A k \in DOMAIN wsRing : wsRing'[k] = wsRing[k]
      BY <3>1
    <3> QED
      BY <1>0, <3>1, <3>2, <3>3 DEF Awaits
  <2>5. PICK size \in Nat : /\ DOMAIN s = 1 .. size /\ DOMAIN t = 1 .. size + c
                            /\ \A k \in 1 .. size : t[k] = s[k]
                            /\ \A k \in size + 1 .. size + c : t[k] = n
    BY <1>7 DEF Grows
  <2>6. \A k \in DOMAIN t : (k \in DOMAIN s /\ t[k] = s[k]) \/ (k > size /\ t[k] = n)
    <3> SUFFICES ASSUME NEW k \in DOMAIN t PROVE (k \in DOMAIN s /\ t[k] = s[k]) \/ (k > size /\ t[k] = n)
      OBVIOUS
    <3>1. k \in 1 .. size + c
      BY <2>5
    <3>2. k \in 1 .. size \/ (k \in size + 1 .. size + c /\ k > size)
      BY <1>3, <3>1
    <3> QED
      BY <2>5, <3>2
  <2>7. \A k \in DOMAIN s : s[k] < n
    BY <2>2, <2>3
  <2>8. Ascends(t)
    <3> SUFFICES ASSUME NEW k \in DOMAIN t, NEW l \in DOMAIN t, k <= l PROVE t[k] <= t[l]
      BY DEF Ascends
    <3>1. CASE k \in DOMAIN s /\ t[k] = s[k] /\ l \in DOMAIN s /\ t[l] = s[l]
      BY <2>2, <3>1 DEF Ascends
    <3>2. CASE k \in DOMAIN s /\ t[k] = s[k] /\ t[l] = n
      <4>1. s[k] < n /\ s[k] \in Nat
        BY <2>2, <2>7, <3>2, AwaitedMade
      <4> QED
        BY <1>3, <3>2, <4>1
    <3>3. CASE k > size /\ t[k] = n /\ l \in DOMAIN s
      BY <1>3, <2>5, <3>3
    <3>4. CASE t[k] = n /\ t[l] = n
      BY <1>3, <3>4
    <3> QED
      BY <2>6, <3>1, <3>2, <3>3, <3>4
  <2>9. \A k \in DOMAIN t : \A m : m = t[k] => Awaits(con, m)'
    BY <2>2, <2>4, <2>6
  <2>10. ASSUME NEW m \in DOMAIN frames, Awaits(con, m)' PROVE Block(t, m, frames[m])
    <3>0. Grows(s, t, n, c)
      BY <1>7
    <3>1. CASE m = n
      <4>1. \A k \in DOMAIN s : s[k] # n
        BY <1>3, <2>7
      <4> QED
        BY <1>3, <3>0, <3>1, <4>1, BlockNew
    <3>2. CASE m # n
      <4>1. Block(s, m, frames[m]) /\ frames[m] \in Nat
        BY <2>2, <2>4, <2>10, <3>2, AwaitedMade
      <4> QED
        BY <1>3, <3>0, <3>2, <4>1, BlockGrows
    <3> QED
      BY <3>1, <3>2
  <2> QED
    BY <1>1, <2>8, <2>9, <2>10 DEF InBuffer, Awaits
<1> QED
  BY <1>2, <1>4, <1>5, <1>6, <1>7 DEF Buffered

\* The head message's units are the first of its buffer.
LEMMA HeadIsFirst ==
  ASSUME WsBase, RingInOrder, 1 \in DOMAIN wsRing, wsRing[1].kind = "message", InBuffer(wsRing[1].con)
  PROVE  /\ \A k \in 1 .. frames[wsRing[1].n] : /\ k \in DOMAIN wsCon[wsRing[1].con].unread
                                                /\ wsCon[wsRing[1].con].unread[k] = wsRing[1].n
         /\ \A k \in DOMAIN wsCon[wsRing[1].con].unread :
              wsCon[wsRing[1].con].unread[k] = wsRing[1].n => k <= frames[wsRing[1].n]
<1> PICK con, n, s : con = wsRing[1].con /\ n = wsRing[1].n /\ s = wsCon[con].unread
  OBVIOUS
<1>1. con \in WsCons /\ Awaits(con, n)
  BY DEF WsBase, NumbersMade, ItemMade, Awaits
<1>2. n \in DOMAIN frames /\ n \in Nat /\ frames[n] \in Nat
  BY <1>1, AwaitedMade
<1>3. s \in Seq(Nat)
  BY <1>1, Indices DEF WsBase, WsCon
<1>4. Ascends(s) /\ Block(s, n, frames[n]) /\ \A k \in DOMAIN s : Awaits(con, s[k])
  BY <1>1, <1>2 DEF InBuffer
<1>5. ASSUME NEW m, Awaits(con, m) PROVE n <= m
  <2>1. PICK i \in DOMAIN wsRing : wsRing[i].kind = "message" /\ wsRing[i].n = m
    BY <1>5 DEF Awaits
  <2>2. m \in Nat /\ i \in Nat \ {0}
    BY <1>5, AwaitedMade, Indices DEF WsBase
  <2>3. CASE i = 1
    BY <1>2, <2>1, <2>3
  <2>4. CASE 1 < i
    <3>1. n < m
      BY <2>1, <2>4 DEF RingInOrder
    <3> QED
      BY <1>2, <2>2, <3>1
  <2> QED
    BY <2>2, <2>3, <2>4
<1>6. \A k \in DOMAIN s : n <= s[k]
  BY <1>4, <1>5
<1>7. /\ \A k \in 1 .. frames[n] : k \in DOMAIN s /\ s[k] = n
      /\ \A k \in DOMAIN s : s[k] = n => k <= frames[n]
  BY <1>2, <1>3, <1>4, <1>6, FirstBlock
<1> QED
  BY <1>7

LEMMA MessageKeepsBuffered ==
  ASSUME WsBase, InOrder, Buffered, NEW made \in BOOLEAN, WsMessage(made)
  PROVE  Buffered' /\ (wsBad' => wsBad)
<1> PICK con, n, c : con = wsRing[1].con /\ n = wsRing[1].n /\ c = frames[n]
  OBVIOUS
<1>1. /\ RingTaken /\ wsRing[1].kind = "message" /\ con \in WsCons /\ ConsKept /\ OthersUnread(con)
      /\ wsMixed \subseteq wsMixed'
      /\ con \notin wsMixed' => Shrinks(wsCon[con].unread, wsCon'[con].unread, c)
      /\ wsBad' => wsBad \/ (/\ con \notin wsMixed
                             /\ \E i \in 1 .. c : ~(i \in DOMAIN wsCon[con].unread /\ wsCon[con].unread[i] = n))
      /\ frames' = frames
  BY MessageEffect
<1>2. FramesKept /\ 1 \in DOMAIN wsRing /\ RingInOrder /\ WsCons' = WsCons
  BY <1>1 DEF FramesKept, RingTaken, InOrder, ConsKept, WsCons
<1>3. ASSUME con \notin wsMixed
      PROVE  /\ InBuffer(con)
             /\ \A k \in 1 .. c : k \in DOMAIN wsCon[con].unread /\ wsCon[con].unread[k] = n
             /\ \A k \in DOMAIN wsCon[con].unread : wsCon[con].unread[k] = n => k <= c
  <2>1. InBuffer(con)
    BY <1>1, <1>3 DEF Buffered
  <2> QED
    BY <1>1, <1>2, <2>1, HeadIsFirst
<1>4. wsBad' => wsBad
  BY <1>1, <1>3
<1>5. ASSUME NEW other \in WsCons, other # con, other \notin wsMixed' PROVE InBuffer(other)'
  <2>1. SameAwaited(other)
    BY <1>1, <1>5, AwaitedTaken
  <2>2. InBuffer(other) /\ wsCon'[other].unread = wsCon[other].unread
    BY <1>1, <1>5 DEF Buffered, OthersUnread
  <2> QED
    BY <1>2, <2>1, <2>2, InBufferStays
<1>6. ASSUME con \notin wsMixed' PROVE InBuffer(con)'
  <2> PICK s, t : s = wsCon[con].unread /\ t = wsCon'[con].unread
    OBVIOUS
  <2>0. con \notin wsMixed
    BY <1>1, <1>6
  <2>1. /\ Ascends(s) /\ (\A k \in DOMAIN s : \A m : m = s[k] => Awaits(con, m))
        /\ \A m \in DOMAIN frames : Awaits(con, m) => Block(s, m, frames[m])
        /\ \A k \in 1 .. c : k \in DOMAIN s /\ s[k] = n
        /\ \A k \in DOMAIN s : s[k] = n => k <= c
    BY <1>3, <2>0 DEF InBuffer
  <2>2. Shrinks(s, t, c)
    BY <1>1, <1>6
  <2>3. Awaits(con, n)
    BY <1>1, <1>2 DEF Awaits
  <2>4. n \in Nat /\ c \in Nat
    BY <2>3, AwaitedMade
  <2>5. PICK size \in Nat : /\ DOMAIN s = 1 .. size /\ DOMAIN t = 1 .. size - c
                            /\ \A k \in 1 .. size - c : t[k] = s[k + c]
    BY <2>2 DEF Shrinks
  <2>6. ASSUME NEW k \in DOMAIN t PROVE k \in Nat /\ k > 0 /\ k + c \in DOMAIN s /\ t[k] = s[k + c]
    <3>1. k \in 1 .. size - c
      BY <2>5
    <3>2. k \in Nat /\ k > 0 /\ k + c \in 1 .. size
      BY <2>4, <3>1
    <3> QED
      BY <2>5, <3>1, <3>2
  <2>7. Ascends(t)
    <3> SUFFICES ASSUME NEW k \in DOMAIN t, NEW l \in DOMAIN t, k <= l PROVE t[k] <= t[l]
      BY DEF Ascends
    <3>1. k + c \in DOMAIN s /\ l + c \in DOMAIN s /\ k + c <= l + c
      BY <2>4, <2>6
    <3> QED
      BY <2>1, <2>6, <3>1 DEF Ascends
  <2>8. ASSUME NEW m, Awaits(con, m), m # n PROVE Awaits(con, m)'
    <3>1. PICK i \in DOMAIN wsRing : wsRing[i].kind = "message" /\ wsRing[i].con = con /\ wsRing[i].n = m
      BY <2>8 DEF Awaits
    <3>2. i # 1
      BY <2>8, <3>1
    <3>3. i - 1 \in DOMAIN wsRing' /\ wsRing'[i - 1] = wsRing[i]
      BY <1>1, <3>2 DEF RingTaken
    <3> QED
      BY <3>1, <3>3 DEF Awaits
  <2>9. ASSUME NEW k \in DOMAIN t, NEW m, m = t[k] PROVE Awaits(con, m)'
    <3>1. k + c \in DOMAIN s /\ m = s[k + c] /\ ~(k + c <= c)
      BY <2>4, <2>6, <2>9
    <3>2. Awaits(con, m) /\ m # n
      BY <2>1, <3>1
    <3> QED
      BY <2>8, <3>2
  <2>10. ASSUME NEW m \in DOMAIN frames, Awaits(con, m)' PROVE Block(t, m, frames[m])
    <3>1. PICK i \in DOMAIN wsRing' : wsRing'[i].kind = "message" /\ wsRing'[i].con = con /\ wsRing'[i].n = m
      BY <2>10 DEF Awaits
    <3>2. i \in Nat /\ i > 0 /\ i + 1 \in DOMAIN wsRing /\ wsRing'[i] = wsRing[i + 1]
      BY <1>1 DEF RingTaken
    <3>3. 1 < i + 1
      BY <3>2
    <3>4. n < m /\ Awaits(con, m)
      BY <1>1, <1>2, <3>1, <3>2, <3>3 DEF RingInOrder, Awaits
    <3>5. m # n /\ frames[m] \in Nat
      BY <2>4, <3>4, AwaitedMade
    <3>6. Block(s, m, frames[m])
      BY <2>1, <3>4
    <3>7. Leads(s, n, c)
      BY <2>1 DEF Leads
    <3> QED
      BY <2>2, <2>4, <3>5, <3>6, <3>7, BlockShrinks
  <2>11. \A k \in DOMAIN t : \A m : m = t[k] => Awaits(con, m)'
    BY <2>9
  <2> QED
    BY <1>1, <2>7, <2>10, <2>11 DEF InBuffer, Awaits
<1> QED
  BY <1>2, <1>4, <1>5, <1>6 DEF Buffered

LEMMA BufferedKept ==
  ASSUME WsBase, InOrder, Buffered, [WsNext]_wsVars
  PROVE  Buffered' /\ (wsBad' => wsBad)
<1>1. CASE WsAccepted
  <2>1. UNCHANGED <<wsCon, frames, wsMixed, wsBad>>
    BY <1>1, AcceptedEffect
  <2>2. PICK n \in Nat : RingQueued(Accepted(n + 1))
    BY <1>1, AcceptedEffect
  <2> PICK item : item = Accepted(n + 1)
    OBVIOUS
  <2>3. item.kind = "accept" /\ Appends(item)
    BY <2>2 DEF Accepted, Appends
  <2>4. \A con \in WsCons : SameAwaited(con)
    BY <2>3, AwaitedAppended
  <2>5. FramesKept /\ UnreadKept /\ WsCons' = WsCons
    BY <2>1 DEF FramesKept, UnreadKept, WsCons
  <2> QED
    BY <2>1, <2>4, <2>5, BufferedStays
<1>2. CASE WsAccept
  <2>1. RingTaken /\ wsRing[1].kind = "accept" /\ UNCHANGED <<frames, wsMixed, wsBad>>
    BY <1>2, AcceptEffect
  <2>2. PICK n \in Nat : /\ WsCons = 1 .. n /\ WsCons' = 1 .. n + 1 /\ \A con \in 1 .. n : wsCon'[con] = wsCon[con]
                         /\ wsCon'[n + 1].unread = <<>>
    BY <1>2, AcceptEffect
  <2>3. FramesKept /\ \A con : SameAwaited(con)
    BY <2>1, AwaitedTaken DEF FramesKept
  <2>4. ASSUME NEW con \in WsCons, con \notin wsMixed' PROVE InBuffer(con)'
    <3>1. InBuffer(con) /\ wsCon'[con].unread = wsCon[con].unread
      BY <2>1, <2>2, <2>4 DEF Buffered
    <3> QED
      BY <2>3, <3>1, InBufferStays
  <2>5. InBuffer(n + 1)'
    <3>1. n + 1 \notin WsCons
      BY <2>2
    <3>2. \A m : ~Awaits(n + 1, m)
      BY <3>1 DEF Awaits, WsBase, NumbersMade, ItemMade
    <3>3. \A m : ~Awaits(n + 1, m)'
      BY <2>3, <3>2 DEF SameAwaited
    <3>4. DOMAIN (wsCon'[n + 1].unread) = {}
      BY <2>2
    <3> QED
      BY <3>3, <3>4 DEF InBuffer, Ascends
  <2>6. \A con \in WsCons' : con \in WsCons \/ con = n + 1
    BY <2>2
  <2> QED
    BY <2>1, <2>4, <2>5, <2>6 DEF Buffered
<1>3. CASE WsPacket \/ \E chosen \in BOOLEAN : PostAccept(chosen)
  <2>1. /\ RingTaken /\ wsRing[1].kind \in {"packet", "handler"} /\ ConsKept /\ UnreadKept
        /\ UNCHANGED <<frames, wsMixed, wsBad>>
    BY <1>3, PacketEffect, PostAcceptEffect
  <2>2. FramesKept /\ WsCons' = WsCons
    BY <2>1 DEF FramesKept, ConsKept, WsCons
  <2>3. \A con \in WsCons : SameAwaited(con)
    BY <2>1, AwaitedTaken
  <2> QED
    BY <2>1, <2>2, <2>3, BufferedStays
<1>4. CASE Handshake
  <2>1. /\ ConsKept /\ UnreadKept /\ UNCHANGED <<frames, wsMixed, wsBad>>
        /\ RingQueued(Event("handler", busy.con, 0)) \/ UNCHANGED <<wsRing, wsLost>>
    BY <1>4, HandshakeEffect
  <2> PICK item : item = Event("handler", busy.con, 0)
    OBVIOUS
  <2>2. item.kind = "handler" /\ Appends(item)
    BY <2>1 DEF Event, Appends, RingSame
  <2>3. \A con \in WsCons : SameAwaited(con)
    BY <2>2, AwaitedAppended
  <2>4. FramesKept /\ WsCons' = WsCons
    BY <2>1 DEF FramesKept, ConsKept, WsCons
  <2> QED
    BY <2>1, <2>3, <2>4, BufferedStays
<1>5. CASE \E type \in FrameTypes : ProcessPacket(type)
  BY <1>5, ProcessKeepsBuffered, ProcessEffect
<1>6. CASE \E ctx \in Clients, type \in FrameTypes, size \in WsSizes : WsReceived(ctx, type, size)
  <2>1. PICK ctx \in Clients, type \in FrameTypes, size \in WsSizes : WsReceived(ctx, type, size)
    BY <1>6
  <2>2. UNCHANGED <<wsCon, wsMixed, wsBad>>
    BY <2>1, ReceivedEffect
  <2>3. PICK m \in Nat : /\ DOMAIN frames = 1 .. m /\ DOMAIN frames' = 1 .. m + 1
                         /\ \A k \in 1 .. m : frames'[k] = frames[k]
                         /\ RingQueued(Packet(ctx, FindWs(ctx), type, m + 1))
    BY <2>1, ReceivedEffect
  <2> PICK item : item = Packet(ctx, FindWs(ctx), type, m + 1)
    OBVIOUS
  <2>4. item.kind = "packet" /\ Appends(item)
    BY <2>3 DEF Packet, Appends
  <2>5. \A con \in WsCons : SameAwaited(con)
    BY <2>4, AwaitedAppended
  <2>6. FramesKept
    BY <2>3 DEF FramesKept
  <2>7. UnreadKept /\ WsCons' = WsCons
    BY <2>2 DEF UnreadKept, WsCons
  <2> QED
    BY <2>2, <2>5, <2>6, <2>7, BufferedStays
<1>7. CASE \E ctx \in Clients : WsClosed(ctx)
  <2>1. PICK ctx \in Clients : WsClosed(ctx)
    BY <1>7
  <2> PICK item : item = Event("close", FindWs(ctx), 0)
    OBVIOUS
  <2>2. item.kind = "close" /\ Appends(item) /\ UNCHANGED <<wsCon, frames, wsMixed, wsBad>>
    BY <2>1, ClosedEffect DEF Event, Appends
  <2>3. \A con \in WsCons : SameAwaited(con)
    BY <2>2, AwaitedAppended
  <2>4. FramesKept /\ UnreadKept /\ WsCons' = WsCons
    BY <2>2 DEF FramesKept, UnreadKept, WsCons
  <2> QED
    BY <2>2, <2>3, <2>4, BufferedStays
<1>8. CASE (\E ctx \in Clients : WsClosedEarly(ctx)) \/ (\E con \in WsCons : Terminate(con)) \/ UNCHANGED wsVars
  <2>1. (UNCHANGED wsCon \/ \E con : ClosesCon(con)) /\ UNCHANGED <<wsRing, frames, wsMixed, wsBad>>
    BY <1>8, ClosedEarlyEffect, TerminateEffect
  <2>2. FramesKept /\ UnreadKept /\ WsCons' = WsCons
    BY <2>1 DEF FramesKept, UnreadKept, ClosesCon, ConsKept, WsCons
  <2>3. \A con \in WsCons : SameAwaited(con)
    BY <2>1 DEF SameAwaited, Awaits
  <2> QED
    BY <2>1, <2>2, <2>3, BufferedStays
<1>9. CASE \E made \in BOOLEAN : WsMessage(made)
  BY <1>9, MessageKeepsBuffered
<1>10. CASE WsCloseEvent
  <2>1. RingTaken /\ wsRing[1].kind = "close" /\ ClosesCon(wsRing[1].con) /\ UNCHANGED <<frames, wsMixed, wsBad>>
    BY <1>10, CloseEventEffect
  <2>2. FramesKept /\ UnreadKept /\ WsCons' = WsCons
    BY <2>1 DEF FramesKept, ClosesCon, ConsKept, WsCons
  <2>3. \A con \in WsCons : SameAwaited(con)
    BY <2>1, AwaitedTaken
  <2> QED
    BY <2>1, <2>2, <2>3, BufferedStays
<1>11. CASE WsEnds
  <2>1. wsCon' = <<>> /\ wsBad' = FALSE
    BY <1>11, EndsReset DEF WsReset
  <2>2. WsCons' = {}
    BY <2>1 DEF WsCons
  <2> QED
    BY <2>1, <2>2 DEF Buffered
<1> QED
  BY <1>1, <1>2, <1>3, <1>4, <1>5, <1>6, <1>7, <1>8, <1>9, <1>10, <1>11 DEF WsNext, WsEnds

-----------------------------------------------------------------------------
(***************************************************************************)
(* Web sockets: the theorems.                                              *)
(***************************************************************************)
WsInv == WsBase /\ ClosesComing /\ (Spared => Ends) /\ InOrder /\ Buffered /\ ~wsBad

LEMMA WsInitInv ==
  ASSUME WsInit
  PROVE  WsInv
<1>1. /\ peers = <<>> /\ wsCon = <<>> /\ wsList = {} /\ wsRing = <<>> /\ busy = Idle /\ frames = <<>>
      /\ wsLost = FALSE /\ wsBad = FALSE
  BY DEF WsInit
<1>2. WsCons = {} /\ Clients = {} /\ DOMAIN wsRing = {}
  BY <1>1 DEF WsCons, Clients
<1>3. WsType
  BY <1>1, ItemsTyped, EmptySeq DEF WsType
<1>4. NumbersMade /\ MadeOnce
  BY <1>1, <1>2 DEF NumbersMade, MadeOnce
<1>5. ClosesComing
  BY <1>1, <1>2 DEF ClosesComing, AcceptsTold, ClosesTold
<1>6. Ends
  BY <1>1, <1>2 DEF Ends, DeadEnds, CloseEnds, ClosePackets, CloseBusy, ClientOf
<1>7. InOrder /\ Buffered
  BY <1>1, <1>2 DEF InOrder, RingInOrder, BusyInOrder, Buffered
<1> QED
  BY <1>1, <1>3, <1>4, <1>5, <1>6, <1>7 DEF WsInv, WsBase

LEMMA WsInvKept ==
  ASSUME WsInv, [WsNext]_wsVars
  PROVE  WsInv'
<1>1. WsBase /\ ClosesComing /\ (Spared => Ends) /\ InOrder /\ Buffered /\ ~wsBad
  BY DEF WsInv
<1>2. WsBase'
  BY <1>1, WsBaseKept
<1>3. ClosesComing'
  BY <1>1, <1>2, ClosesComingKept
<1>4. (Spared => Ends)'
  BY <1>1, <1>2, EndsKept
<1>5. InOrder' /\ Buffered' /\ ~wsBad'
  BY <1>1, OrderKept, BufferedKept
<1> QED
  BY <1>2, <1>3, <1>4, <1>5 DEF WsInv

\* A message carries the payload of its own frame, unless an earlier event of the connection was
\* lost or cancelled, or a binary or close frame used the buffer.
THEOREM MessagesIntactTheorem == WsSpec => []MessagesIntact
<1>1. WsInit => WsInv
  BY WsInitInv
<1>2. WsInv /\ [WsNext]_wsVars => WsInv'
  BY WsInvKept
<1>3. WsInv => MessagesIntact
  BY DEF WsInv, MessagesIntact
<1> QED
  BY <1>1, <1>2, <1>3, PTL DEF WsSpec

\* When main has nothing to do, no connection is left of a client that is gone, but of one that
\* closed before main had made its connection, or when the ring had no room.
THEOREM GoneAreClosedTheorem == WsSpec => []GoneAreClosed
<1>1. WsInit => WsInv
  BY WsInitInv
<1>2. WsInv /\ [WsNext]_wsVars => WsInv'
  BY WsInvKept
<1>3. WsInv => GoneAreClosed
  BY ToldIsClosed DEF WsInv
<1> QED
  BY <1>1, <1>2, <1>3, PTL DEF WsSpec

\* A connection is used after it is gone only when a client was closed early, terminated by
\* the script, heard of after its close frame, or closed before its packets were handled.
THEOREM WsFaultsExplainedTheorem == WsSpec => WsFaultsExplained
<1>1. WsInit => WsInv
  BY WsInitInv
<1>2. WsInv /\ [WsNext]_wsVars => WsInv'
  BY WsInvKept
<1>3. WsInv /\ [WsNext]_wsVars =>
        (wsFault = "none" /\ wsFault' \in {"freed connection", "event of a closed connection"}
           => early # {} \/ again # {})
  <2>1. ASSUME WsInv, [WsNext]_wsVars, wsFault = "none", UsesGone(wsFault')
        PROVE  early # {} \/ again # {}
    BY <2>1, EndsExplain DEF WsInv
  <2> QED
    BY Zenon, <2>1 DEF UsesGone
<1> QED
  BY <1>1, <1>2, <1>3, PTL DEF WsSpec, WsFaultsExplained

-----------------------------------------------------------------------------
(***************************************************************************)
(* Together.                                                               *)
(***************************************************************************)
\* A behaviour of the composition is one of each protocol, which stutters while another is
\* looked at.
LEMMA ProtocolParts == Spec => WsSpec /\ DgramSpec /\ OcfSpec
<1>1. Init => WsInit /\ DgramInit /\ OcfInit
  BY DEF Init
<1>2. [Next]_socketsVars => [WsNext]_wsVars /\ [DgramNext]_udpVars /\ [OcfNext]_ocfVars
  BY DEF Next, socketsVars
<1> QED
  BY <1>1, <1>2, PTL DEF Spec, WsSpec, DgramSpec, OcfSpec

\* Whichever protocol is looked at, its messages are intact, the connections of clients that
\* are gone are closed, datagrams reach their own sockets and searches their own answers, and
\* a connection is used after it is gone only for the reasons named.
THEOREM SocketsAgree ==
  Spec => /\ [](MessagesIntact /\ GoneAreClosed /\ UdpReachesItsOwn /\ SearchesDoNotMix)
          /\ WsFaultsExplained
BY ProtocolParts, MessagesIntactTheorem, GoneAreClosedTheorem, UdpReachesItsOwnTheorem,
   SearchesDoNotMixTheorem, WsFaultsExplainedTheorem, PTL
=============================================================================
