------------------------------- MODULE Dgram -------------------------------
(***************************************************************************)
(* Datagram sockets (src/zjs_dgram.c) and DHCP (src/zjs_net_config.c).     *)
(* Both are called by threads of the network stack and reach the script    *)
(* by callback ids: a socket keeps the id of its handler, net_config the   *)
(* id of the one dhcp was called with.  What an id means while a signal    *)
(* waits is the subject of module Callbacks; here the lowest free one is   *)
(* given again, and main skips the signals of a removed one.               *)
(***************************************************************************)
EXTENDS Integers, Sequences

CONSTANTS
  MaxSockets,  \* model bound: sockets created
  MaxDatagrams,\* model bound: datagrams and addresses that come
  MaxUdpCalls, \* model bound: the script's calls of on, send and dhcp
  UdpIds       \* callback ids there are

ASSUME DgramAssumption == {MaxSockets, MaxDatagrams, MaxUdpCalls, UdpIds} \subseteq Nat

VARIABLES
  udp,       \* the dgram_handle_t made: live, bound, the ids of their handlers (0: -1)
  udpOwner,  \* whose callback has each id
  udpRing,   \* pending signals: the id (0 once it is removed), and whom they are for
  sends,     \* functions that wait for the stack to send, and whether the script still has them
  dhcpId,    \* dhcp_id
  udpServed, \* history: what handlers were called for, and with
  nulled,    \* history: a handler was set to null
  dhcpAgain, \* history: dhcp was called while an earlier call waited
  udpCount,  \* history: datagrams and calls so far
  udpFault   \* the undefined behaviour that ended this behaviour, or "none"

udpVars == <<udp, udpOwner, udpRing, sends, dhcpId, udpServed, nulled, dhcpAgain, udpCount, udpFault>>

Sockets == DOMAIN udp
NoOwner == [who |-> "none", s |-> 0]
Gone    == [id |-> 0, for |-> NoOwner]

UdpFails(reason) ==
  /\ udpFault' = reason
  /\ udp' = <<>> /\ udpOwner' = [id \in 1..UdpIds |-> NoOwner] /\ udpRing' = <<>> /\ sends' = {}
  /\ dhcpId' = 0 /\ udpServed' = {} /\ nulled' = FALSE /\ dhcpAgain' = FALSE
  /\ udpCount' = [come |-> 0, calls |-> 0]

UdpAlive == udpFault = "none"
UdpCall ==
  /\ UdpAlive /\ udpCount.calls < MaxUdpCalls
  /\ udpCount' = [udpCount EXCEPT !.calls = @ + 1]
Come ==
  /\ UdpAlive /\ udpCount.come < MaxDatagrams
  /\ udpCount' = [udpCount EXCEPT !.come = @ + 1]

\* The id that is given next: the lowest free one.
GivenNext(owner, id) ==
  /\ id \in DOMAIN owner /\ owner[id] = NoOwner
  /\ \A lower \in 1 .. id - 1 : owner[lower] # NoOwner

\* Removing callbacks: main will skip their signals.
Removed(owner, ids) == [id \in DOMAIN owner |-> IF id \in ids THEN NoOwner ELSE owner[id]]
Skipped(ring, ids)  ==
  [i \in DOMAIN ring |-> IF ring[i].id \in ids THEN Gone ELSE ring[i]]

\* A signal of no callback is refused.
UdpSignal(id, for) ==
  IF id # 0 /\ udpOwner[id] # NoOwner THEN Append(udpRing, [id |-> id, for |-> for]) ELSE udpRing

-----------------------------------------------------------------------------
(***************************************************************************)
(* The script.                                                             *)
(***************************************************************************)
\* zjs_dgram_createSocket and zjs_dgram_sock_bind, which starts to receive.
CreateSocket ==
  /\ UdpAlive /\ Len(udp) < MaxSockets
  /\ udp' = Append(udp, [live |-> TRUE, bound |-> FALSE, message |-> 0, error |-> 0])
  /\ UNCHANGED <<udpOwner, udpRing, sends, dhcpId, udpServed, nulled, dhcpAgain, udpCount, udpFault>>

Bind(s) ==
  /\ UdpAlive /\ udp[s].live
  /\ udp' = [udp EXCEPT ![s].bound = TRUE]
  /\ UNCHANGED <<udpOwner, udpRing, sends, dhcpId, udpServed, nulled, dhcpAgain, udpCount, udpFault>>

\* zjs_dgram_sock_on with a function: the callback of the id in the slot is removed first.
On(s, event) ==
  /\ udp[s].live
  /\ UdpCall
  /\ LET owner == Removed(udpOwner, {udp[s][event]}) IN
       \E id \in 1 .. UdpIds :
         /\ GivenNext(owner, id)
         /\ udpOwner' = [owner EXCEPT ![id] = [who |-> event, s |-> s]]
         /\ udp' = [udp EXCEPT ![s][event] = id]
  /\ udpRing' = Skipped(udpRing, {udp[s][event]})
  /\ UNCHANGED <<sends, dhcpId, udpServed, nulled, dhcpAgain, udpFault>>

\* With null: the slot keeps the id, which another callback may get.
OnNull(s, event) ==
  /\ udp[s].live /\ udp[s][event] # 0
  /\ UdpCall
  /\ udpOwner' = Removed(udpOwner, {udp[s][event]})
  /\ udpRing' = Skipped(udpRing, {udp[s][event]})
  /\ nulled' = TRUE
  /\ UNCHANGED <<udp, sends, dhcpId, udpServed, dhcpAgain, udpFault>>

\* zjs_dgram_sock_send: the stack keeps the function, which nobody holds for it.
Send(s) ==
  /\ udp[s].live
  /\ UdpCall
  /\ sends' = sends \cup {[n |-> udpCount.calls, held |-> TRUE]}
  /\ UNCHANGED <<udp, udpOwner, udpRing, dhcpId, udpServed, nulled, dhcpAgain, udpFault>>

ScriptDropsFunction(f) ==
  /\ UdpAlive /\ f.held
  /\ sends' = (sends \ {f}) \cup {[f EXCEPT !.held = FALSE]}
  /\ UNCHANGED <<udp, udpOwner, udpRing, dhcpId, udpServed, nulled, dhcpAgain, udpCount, udpFault>>

\* zjs_dgram_sock_close frees the handle that the object still names.
SockClose(s) ==
  /\ UdpAlive /\ udp[s].live
  /\ udp' = [udp EXCEPT ![s].live = FALSE]
  /\ udpOwner' = Removed(udpOwner, {udp[s].message, udp[s].error})
  /\ udpRing' = Skipped(udpRing, {udp[s].message, udp[s].error})
  /\ UNCHANGED <<sends, dhcpId, udpServed, nulled, dhcpAgain, udpCount, udpFault>>

\* The object is used or collected.
UsesClosed(s) ==
  /\ UdpAlive /\ ~udp[s].live
  /\ UdpFails("freed socket")

\* dhcp.
Dhcp ==
  /\ UdpCall
  /\ \E id \in 1 .. UdpIds :
       /\ GivenNext(udpOwner, id)
       /\ dhcpId' = id
       /\ udpOwner' = [udpOwner EXCEPT ![id] = [who |-> "dhcp", s |-> udpCount.calls]]
  /\ dhcpAgain' = (dhcpAgain \/ dhcpId # 0)
  /\ UNCHANGED <<udp, udpRing, sends, udpServed, nulled, udpFault>>

-----------------------------------------------------------------------------
(***************************************************************************)
(* The threads of the stack, and main's service of their signals.          *)
(***************************************************************************)
UdpReceivedByError(s) ==
  /\ udp[s].live /\ udp[s].bound
  /\ Come
  /\ udpRing' = UdpSignal(udp[s].error, [who |-> "message", s |-> s])
  /\ UNCHANGED <<udp, udpOwner, sends, dhcpId, udpServed, nulled, dhcpAgain, udpFault>>

\* udp_received.
UdpReceived(s) ==
  /\ udp[s].live /\ udp[s].bound
  /\ Come
  /\ udpRing' = UdpSignal(udp[s].message, [who |-> "message", s |-> s])
  /\ UNCHANGED <<udp, udpOwner, sends, dhcpId, udpServed, nulled, dhcpAgain, udpFault>>

\* udp_sent: a callback that is called once.
UdpSent(f) ==
  /\ UdpAlive /\ f.held
  /\ LET owner == [who |-> "sent", s |-> f.n] IN
       \E id \in 1 .. UdpIds :
         /\ GivenNext(udpOwner, id)
         /\ udpOwner' = [udpOwner EXCEPT ![id] = owner]
         /\ udpRing' = Append(udpRing, [id |-> id, for |-> owner])
  /\ sends' = sends \ {f}
  /\ UNCHANGED <<udp, dhcpId, udpServed, nulled, dhcpAgain, udpCount, udpFault>>

UdpSentDropped(f) ==
  /\ UdpAlive /\ ~f.held
  /\ UdpFails("collected function")

\* dhcp_callback: of the address dhcp found.
DhcpCallback ==
  /\ Come
  /\ udpRing' = UdpSignal(dhcpId, [who |-> "dhcp", s |-> 0])
  /\ dhcpId' = 0
  /\ UNCHANGED <<udp, udpOwner, sends, udpServed, nulled, dhcpAgain, udpFault>>

\* Main calls the callback the id has now, and removes one that is called once.
UdpService ==
  LET signal == Head(udpRing)  owner == udpOwner[signal.id]
      ended  == IF owner.who \in {"sent", "dhcp"} THEN {signal.id} ELSE {}
  IN  /\ UdpAlive /\ udpRing # <<>> /\ signal.id # 0
      /\ udpServed' = udpServed \cup {<<owner.who, signal.for.who,
                                       signal.for.who = "dhcp" \/ owner.s = signal.for.s>>}
      /\ udpOwner' = Removed(udpOwner, ended)
      /\ udpRing' = Skipped(Tail(udpRing), ended)
      /\ UNCHANGED <<udp, sends, dhcpId, nulled, dhcpAgain, udpCount, udpFault>>

UdpSkip ==
  /\ UdpAlive /\ udpRing # <<>> /\ Head(udpRing).id = 0
  /\ udpRing' = Tail(udpRing)
  /\ UNCHANGED <<udp, udpOwner, sends, dhcpId, udpServed, nulled, dhcpAgain, udpCount, udpFault>>

-----------------------------------------------------------------------------
DgramInit ==
  /\ udp = <<>> /\ udpOwner = [id \in 1..UdpIds |-> NoOwner] /\ udpRing = <<>> /\ sends = {}
  /\ dhcpId = 0 /\ udpServed = {} /\ nulled = FALSE /\ dhcpAgain = FALSE
  /\ udpCount = [come |-> 0, calls |-> 0] /\ udpFault = "none"

DgramNext ==
  \/ CreateSocket \/ Dhcp \/ DhcpCallback \/ UdpService \/ UdpSkip
  \/ \E s \in Sockets : Bind(s) \/ Send(s) \/ SockClose(s) \/ UsesClosed(s) \/ UdpReceived(s)
  \/ \E s \in Sockets, event \in {"message", "error"} : On(s, event) \/ OnNull(s, event)
  \/ \E f \in sends : ScriptDropsFunction(f) \/ UdpSent(f) \/ UdpSentDropped(f)
  \/ (udpFault # "none" \/ udpRing = <<>>) /\ UNCHANGED udpVars

DgramSpec == DgramInit /\ [][DgramNext]_udpVars

-----------------------------------------------------------------------------
(***************************************************************************)
(* Properties.                                                             *)
(***************************************************************************)
\* A datagram calls the "message" handler of its socket, the end of a send its own
\* function, and an address the function dhcp was called with, however the ids are given
\* again; and the callback of dhcp is there until it is called, unless dhcp was called again
\* meanwhile.  All this unless a handler was set to null: its id then stays in its slot.
UdpReachesItsOwn ==
  nulled \/
    (/\ \A served \in udpServed : served[1] = served[2] /\ served[3]
     /\ (udpFault = "none" /\ ~dhcpAgain) =>
          \A id \in DOMAIN udpOwner : udpOwner[id].who = "dhcp" =>
            (id = dhcpId) # (\E i \in DOMAIN udpRing : udpRing[i].id = id))
=============================================================================
