----------------------------- MODULE WebSockets -----------------------------
(***************************************************************************)
(* The web socket server (src/zjs_web_sockets.c).  The receive thread of   *)
(* the network stack defers to main what happens on the clients' contexts, *)
(* but reads the list of connections and a connection's state itself, and  *)
(* closes one that is not connected yet.  Main does the handshake, with    *)
(* the script's accept handler if there is one, and turns frames into      *)
(* deferred events whose data wait in the connection's read buffer.        *)
(*                                                                         *)
(* There is one server; a context is used for one client, and a payload is *)
(* a number of units, each marked with its frame.                          *)
(***************************************************************************)
EXTENDS Integers, Sequences

CONSTANTS
  MaxWsClients,  \* model bound: clients that connect
  MaxFrames,     \* model bound: packets they send
  WsRing,        \* signals the ring has room for
  WsBuffer,      \* units of the read buffer
  WsSizes        \* payload sizes, in units

ASSUME WsAssumption ==
  {MaxWsClients, MaxFrames, WsRing, WsBuffer} \subseteq Nat /\ WsSizes \subseteq Nat

VARIABLES
  hasHandler, \* the server has an accept handler
  peers,      \* each client's context: "open", "closing" once it sent a close frame, "closed"
  wsCon,      \* the ws_connection_t made; field "ctx" is tcp_sock
  wsList,     \* server_h->connections: their numbers
  wsRing,     \* pending signals
  busy,       \* main is in the handler of an item: the connection it uses and what is left to do
  frames,     \* history: packets so far, and the units of each
  wsMixed,    \* history: connections whose buffer holds units no event will take
  early,      \* history: clients that closed before the receive thread saw them connected, and
              \* whether main had made their connection
  again,      \* history: clients terminated by the script, heard of after their close frame, or
              \* that closed before main had handled all their packets
  wsLost,     \* history: the ring had no room
  wsBad,      \* history: a message had units of another frame
  wsFault     \* the undefined behaviour that ended this behaviour, or "none"

wsVars == <<hasHandler, peers, wsCon, wsList, wsRing, busy, frames, wsMixed, early, again, wsLost,
            wsBad, wsFault>>

WsCons    == DOMAIN wsCon
Clients   == DOMAIN peers
Idle      == [con |-> 0, n |-> 0, do |-> "none"]

\* What process_packet makes of a packet by its opcode: "text" stands for continuation, ping
\* and pong frames too, whose events are made alike; "unknown" is of no opcode of the list;
\* "refused" one that it does not take: undecodable, larger than maxPayload, or no memory.
FrameTypes == {"text", "binary", "close", "unknown", "refused"}
LiveCon(con) == con \in WsCons /\ wsCon[con].live

WsFails(reason) ==
  /\ wsFault' = reason
  /\ peers' = <<>> /\ wsCon' = <<>> /\ wsList' = {} /\ wsRing' = <<>> /\ busy' = Idle
  /\ frames' = <<>> /\ wsMixed' = {} /\ wsLost' = FALSE /\ wsBad' = FALSE
  /\ UNCHANGED <<hasHandler, early, again>>

WsUp   == wsFault = "none"
WsMain == WsUp /\ busy = Idle
WsFull(ring)       == Len(ring) >= WsRing
WsQueue(ring, item) == IF WsFull(ring) THEN ring ELSE Append(ring, item)

\* A signal: of a client that connects, of a packet, or for a connection.
Accepted(ctx) == [kind |-> "accept", ctx |-> ctx, con |-> 0, type |-> "none", n |-> 0]
Packet(ctx, con, type, n) == [kind |-> "packet", ctx |-> ctx, con |-> con, type |-> type, n |-> n]
Event(kind, con, n) == [kind |-> kind, ctx |-> 0, con |-> con, type |-> "none", n |-> n]

\* find_connection, the latest first: one that was freed but is listed is found too.
FindWs(ctx) ==
  LET found == {con \in wsList : wsCon[con].ctx = ctx}
  IN  IF found = {} THEN 0 ELSE CHOOSE con \in found : \A other \in found : other <= con

CloseConnectionListed(con) ==
  /\ wsList' = wsList
  /\ wsCon' = [wsCon EXCEPT ![con].live = FALSE]

\* close_connection: the accept handler's callback is removed, and its signals skipped.
CloseConnection(con) ==
  /\ wsList' = wsList \ {con}
  /\ wsCon' = [wsCon EXCEPT ![con].live = FALSE]

-----------------------------------------------------------------------------
(***************************************************************************)
(* The receive thread.                                                     *)
(***************************************************************************)
\* tcp_accepted.
WsAccepted ==
  /\ WsUp
  /\ Len(peers) < MaxWsClients
  /\ peers' = Append(peers, "open")
  /\ wsRing' = WsQueue(wsRing, Accepted(Len(peers) + 1))
  /\ wsLost' = (wsLost \/ WsFull(wsRing))
  /\ UNCHANGED <<hasHandler, wsCon, wsList, busy, frames, wsMixed, early, again, wsBad, wsFault>>

After(ctx) == IF peers[ctx] = "closing" THEN again \cup {ctx} ELSE again

\* tcp_received: the packet is queued with the connection found now, if there is one.
WsReceived(ctx, type, size) ==
  /\ WsUp
  /\ peers[ctx] # "closed"
  /\ Len(frames) < MaxFrames
  /\ peers' = [peers EXCEPT ![ctx] = IF type = "close" THEN "closing" ELSE @]
  /\ again' = After(ctx)
  /\ frames' = Append(frames, size)
  /\ wsRing' = WsQueue(wsRing, Packet(ctx, FindWs(ctx), type, Len(frames) + 1))
  /\ wsLost' = (wsLost \/ WsFull(wsRing))
  /\ UNCHANGED <<hasHandler, wsCon, wsList, busy, wsMixed, early, wsBad, wsFault>>

CloseUsesFreed(ctx) ==
  /\ WsUp /\ peers[ctx] # "closed"
  /\ FindWs(ctx) # 0 /\ ~LiveCon(FindWs(ctx))
  /\ WsFails("freed connection")

\* Main has not handled all packets of the client, some of which may name no connection.
Unhandled(ctx, con) ==
  busy.con = con \/ \E i \in DOMAIN wsRing : wsRing[i].kind = "packet" /\ wsRing[i].ctx = ctx

\* The close of a connected client is deferred.  The events of packets that main has not
\* handled yet are deferred after it.
WsClosed(ctx) ==
  LET con == FindWs(ctx) IN
    /\ WsUp /\ peers[ctx] # "closed"
    /\ LiveCon(con) /\ wsCon[con].state = "connected"
    /\ peers' = [peers EXCEPT ![ctx] = "closed"]
    /\ wsRing' = WsQueue(wsRing, Event("close", con, 0))
    /\ again' = After(ctx) \cup (IF Unhandled(ctx, con) THEN {ctx} ELSE {})
    /\ wsLost' = (wsLost \/ WsFull(wsRing))
    /\ UNCHANGED <<hasHandler, wsCon, wsList, busy, frames, wsMixed, early, wsBad, wsFault>>

\* A plausible mistake: only a connected client's close is dealt with.
WsClosedEarlyIgnored(ctx) ==
  LET con == FindWs(ctx) IN
    /\ WsUp /\ peers[ctx] # "closed"
    /\ con # 0 => LiveCon(con) /\ wsCon[con].state # "connected"
    /\ peers' = [peers EXCEPT ![ctx] = "closed"]
    /\ early' = early \cup {[ctx |-> ctx, made |-> con # 0]}
    /\ UNCHANGED <<hasHandler, wsCon, wsList, wsRing, busy, frames, wsMixed, again, wsLost, wsBad,
                   wsFault>>

\* One that main has not found connected yet is closed and freed here, whatever is queued
\* for it; one that main has not made yet is not remembered.
WsClosedEarly(ctx) ==
  LET con == FindWs(ctx) IN
    /\ WsUp /\ peers[ctx] # "closed"
    /\ con # 0 => LiveCon(con) /\ wsCon[con].state # "connected"
    /\ peers' = [peers EXCEPT ![ctx] = "closed"]
    /\ early' = early \cup {[ctx |-> ctx, made |-> con # 0]}
    /\ IF con # 0 THEN CloseConnection(con) ELSE UNCHANGED <<wsCon, wsList>>
    /\ UNCHANGED <<hasHandler, wsRing, busy, frames, wsMixed, again, wsLost, wsBad, wsFault>>

-----------------------------------------------------------------------------
(***************************************************************************)
(* Main.                                                                   *)
(***************************************************************************)
WsTakes(kind) ==
  /\ WsMain /\ wsRing # <<>>
  /\ Head(wsRing).kind = kind

\* accept_connection.
WsAccept ==
  /\ WsTakes("accept")
  /\ wsCon' = Append(wsCon, [ctx |-> Head(wsRing).ctx, live |-> TRUE, state |-> "unconnected",
                             key |-> FALSE, objects |-> 0, end |-> 0, unread |-> <<>>])
  /\ wsList' = wsList \cup {Len(wsCon) + 1}
  /\ wsRing' = Tail(wsRing)
  /\ UNCHANGED <<hasHandler, peers, busy, frames, wsMixed, early, again, wsLost, wsBad, wsFault>>

\* receive_packet, up to what it does with the packet: the first packet of a connection is
\* the handshake's, the one after the answer makes it connected.
WsPacket ==
  LET item == Head(wsRing)  con == IF item.con # 0 THEN item.con ELSE FindWs(item.ctx) IN
    /\ WsTakes("packet")
    /\ con # 0 => LiveCon(con)
    /\ IF con = 0
       THEN UNCHANGED <<wsCon, busy>>
       ELSE /\ wsCon' = [wsCon EXCEPT ![con].state = IF @ = "awaiting" THEN "connected" ELSE @]
            /\ busy' = [con |-> con, n |-> item.n,
                        do |-> IF wsCon[con].state = "unconnected" THEN "handshake" ELSE item.type]
    /\ wsRing' = Tail(wsRing)
    /\ UNCHANGED <<hasHandler, peers, wsList, frames, wsMixed, early, again, wsLost, wsBad, wsFault>>

PacketOfFreed ==
  LET item == Head(wsRing)  con == IF item.con # 0 THEN item.con ELSE FindWs(item.ctx) IN
    /\ WsTakes("packet") /\ con # 0 /\ ~LiveCon(con)
    /\ WsFails("freed connection")

\* The receive thread closed the connection meanwhile.
BusyWithFreed ==
  /\ WsUp /\ busy # Idle /\ ~LiveCon(busy.con)
  /\ WsFails("freed connection")

Doing(what) == WsUp /\ busy # Idle /\ LiveCon(busy.con) /\ busy.do = what

\* The handshake: the server's handler is asked, or the answer is sent and "connection"
\* emitted.
Handshake ==
  /\ Doing("handshake")
  /\ IF hasHandler
     THEN /\ wsRing' = WsQueue(wsRing, Event("handler", busy.con, 0))
          /\ wsLost' = (wsLost \/ WsFull(wsRing))
          /\ wsCon' = [wsCon EXCEPT ![busy.con].key = TRUE]
     ELSE /\ wsCon' = [wsCon EXCEPT ![busy.con].state = "awaiting", ![busy.con].objects = @ + 1]
          /\ UNCHANGED <<wsRing, wsLost>>
  /\ busy' = Idle
  /\ UNCHANGED <<hasHandler, peers, wsList, frames, wsMixed, early, again, wsBad, wsFault>>

\* post_accept_handler, with the protocol the script's handler chose; without one the
\* connection waits for another handshake.
PostAccept(chosen) ==
  LET con == Head(wsRing).con IN
    /\ WsTakes("handler")
    /\ LiveCon(con) /\ chosen => wsCon[con].key
    /\ wsCon' = IF LiveCon(con) /\ chosen
                THEN [wsCon EXCEPT ![con].state = "awaiting", ![con].key = FALSE,
                                   ![con].objects = @ + 1]
                ELSE wsCon
    /\ wsRing' = Tail(wsRing)
    /\ UNCHANGED <<hasHandler, peers, wsList, busy, frames, wsMixed, early, again, wsLost, wsBad,
                   wsFault>>

\* A client that sent two handshakes: the first answer used up the key.
AcceptWithoutKey ==
  LET con == Head(wsRing).con IN
    /\ WsTakes("handler")
    /\ LiveCon(con) /\ ~wsCon[con].key
    /\ WsFails("no accept key")

ConsumeAll(con, n) ==
  [con EXCEPT !.unread = <<>>, !.end = 0]

\* consume_data: the buffer starts again only when all is read.
Consume(con, n) ==
  LET left == SubSeq(con.unread, n + 1, Len(con.unread))
  IN  [con EXCEPT !.unread = left, !.end = IF left = <<>> THEN 0 ELSE @]

Units(n)  == [i \in 1..frames[n] |-> n]
Stored(con, n) == [con EXCEPT !.unread = @ \o Units(n), !.end = @ + frames[n]]

\* process_packet: the payload is put in the buffer.  A text's event takes it later; a binary
\* frame's units are taken off the other end of the buffer; a close's stay there, and those of
\* an opcode that is not recognized.
ProcessPacket(type) ==
  LET con    == busy.con
      stored == Stored(wsCon[con], busy.n)
      new    == CASE type = "refused" -> wsCon[con]
                  [] type = "binary"  -> Consume(stored, frames[busy.n])
                  [] OTHER            -> stored
  IN /\ Doing(type)
     /\ type = "refused" \/ stored.end <= WsBuffer
     /\ wsCon' = [wsCon EXCEPT ![con] = new]
     /\ wsRing' = CASE type = "text"  -> WsQueue(wsRing, Event("message", con, busy.n))
                    [] type = "close" -> WsQueue(wsRing, Event("close", con, 0))
                    [] OTHER          -> wsRing
     /\ wsLost' = (wsLost \/ (type \in {"text", "close"} /\ WsFull(wsRing)))
     /\ wsMixed' = IF \/ type = "text" /\ ~WsFull(wsRing)
                      \/ new.unread = wsCon[con].unread
                   THEN wsMixed ELSE wsMixed \cup {con}
     /\ busy' = Idle
     /\ UNCHANGED <<hasHandler, peers, wsList, frames, early, again, wsBad, wsFault>>

BufferOverflow ==
  /\ \E type \in FrameTypes \ {"refused"} : Doing(type)
  /\ Stored(wsCon[busy.con], busy.n).end > WsBuffer
  /\ wsFault' = IF wsCon[busy.con].unread = <<>> THEN "large payload" ELSE "backlog"
  /\ peers' = <<>> /\ wsCon' = <<>> /\ wsList' = {} /\ wsRing' = <<>> /\ busy' = Idle
  /\ frames' = <<>> /\ wsMixed' = {} /\ wsLost' = FALSE /\ wsBad' = FALSE
  /\ UNCHANGED <<hasHandler, early, again>>

\* The units at the start of the connection's buffer are those of the n-th packet.
Brings(con, n) == \A i \in 1 .. frames[n] : i \in DOMAIN con.unread /\ con.unread[i] = n

\* A deferred "message": trigger_data takes the length it was deferred with; when the Buffer
\* cannot be made the event is cancelled and the units stay.
WsMessage(made) ==
  LET item == Head(wsRing)  con == item.con  n == frames[item.n] IN
    /\ WsTakes("message") /\ LiveCon(con)
    /\ wsCon' = IF made THEN [wsCon EXCEPT ![con] = Consume(@, n)] ELSE wsCon
    /\ wsBad' = (wsBad \/ (made /\ con \notin wsMixed /\ ~Brings(wsCon[con], item.n)))
    /\ wsMixed' = IF made THEN wsMixed ELSE wsMixed \cup {con}
    /\ wsRing' = Tail(wsRing)
    /\ UNCHANGED <<hasHandler, peers, wsList, busy, frames, early, again, wsLost, wsFault>>

\* A deferred "close": the script's listeners, then close_connection.
WsCloseEvent ==
  LET con == Head(wsRing).con IN
    /\ WsTakes("close") /\ LiveCon(con)
    /\ CloseConnection(con)
    /\ wsRing' = Tail(wsRing)
    /\ UNCHANGED <<hasHandler, peers, busy, frames, wsMixed, early, again, wsLost, wsBad, wsFault>>

\* The connection is gone: its emitter gives no handle.
EventWithoutHandle ==
  /\ WsTakes("message") \/ WsTakes("close")
  /\ ~LiveCon(Head(wsRing).con)
  /\ WsFails("event of a closed connection")

\* ws_terminate.
Terminate(con) ==
  /\ WsMain /\ LiveCon(con) /\ wsCon[con].objects > 0
  /\ CloseConnection(con)
  /\ again' = again \cup {wsCon[con].ctx}
  /\ UNCHANGED <<hasHandler, peers, wsRing, busy, frames, wsMixed, early, wsLost, wsBad, wsFault>>

-----------------------------------------------------------------------------
WsInit ==
  /\ hasHandler \in BOOLEAN
  /\ peers = <<>> /\ wsCon = <<>> /\ wsList = {} /\ wsRing = <<>> /\ busy = Idle
  /\ frames = <<>> /\ wsMixed = {} /\ early = {} /\ again = {} /\ wsLost = FALSE
  /\ wsBad = FALSE /\ wsFault = "none"

WsNext ==
  \/ WsAccepted \/ WsAccept \/ WsPacket \/ PacketOfFreed \/ BusyWithFreed \/ Handshake
  \/ \E chosen \in BOOLEAN : PostAccept(chosen)
  \/ AcceptWithoutKey \/ BufferOverflow \/ WsCloseEvent \/ EventWithoutHandle
  \/ \E type \in FrameTypes : ProcessPacket(type)
  \/ \E ctx \in Clients, type \in FrameTypes, size \in WsSizes :
       WsReceived(ctx, type, size)
  \/ \E ctx \in Clients : CloseUsesFreed(ctx) \/ WsClosed(ctx) \/ WsClosedEarly(ctx)
  \/ \E made \in BOOLEAN : WsMessage(made)
  \/ \E con \in WsCons : Terminate(con)
  \/ (wsFault # "none" \/ (wsRing = <<>> /\ busy = Idle)) /\ UNCHANGED wsVars

WsSpec == WsInit /\ [][WsNext]_wsVars

-----------------------------------------------------------------------------
(***************************************************************************)
(* Properties.                                                             *)
(***************************************************************************)
\* A "message" carries the payload of its own frame, in whatever order frames, events and
\* closes of several clients are served: unless an earlier event of the connection was lost
\* or cancelled, or the payload of a binary frame, a close or one of an unknown opcode went
\* through the buffer, or stayed in it.
MessagesIntact == ~wsBad

\* Once main has served its ring no connection is left of a client that is gone, but of one
\* that closed before main had made its connection, or when the ring had no room.
GoneAreClosed ==
  wsRing = <<>> /\ busy = Idle /\ ~wsLost =>
    \A con \in wsList : LET ctx == wsCon[con].ctx IN
      peers[ctx] = "closed" => [ctx |-> ctx, made |-> FALSE] \in early

\* A freed connection is used, or an event finds its connection gone, only if the receive
\* thread closed a client early, the script terminated one, one was heard of after its close
\* frame, or one closed before main had handled its packets.
WsFaultsExplained ==
  [][wsFault = "none" /\ wsFault' \in {"freed connection", "event of a closed connection"}
       => early # {} \/ again # {}]_wsVars
=============================================================================
