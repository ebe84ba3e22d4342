-------------------------------- MODULE Net --------------------------------
(***************************************************************************)
(* TCP servers and sockets (src/zjs_net.c).  The network's receive thread  *)
(* (RX) takes new connections, packets and closes, looks for the socket of *)
(* their context, and defers the rest as work of main, in order, through   *)
(* the ring of the callback module, which may be full.                     *)
(*                                                                         *)
(* One server is modelled, and the stub server of client sockets.  The     *)
(* kernel is external: a context that nothing refers to may serve a new    *)
(* connection.  RX is cooperative, so each of its handlers is one step;    *)
(* main's work is divided where listeners run, and RX meanwhile.           *)
(* Addresses, the properties of objects and the callback of a write are    *)
(* left out; a packet is one unit of the read buffer, or too long for it.  *)
(***************************************************************************)
EXTENDS Integers, Sequences, SequencesExt

CONSTANTS
  Contexts,    \* the kernel's net_contexts
  NoContext,   \* the null context
  MaxConns,    \* model bound: connections of a behaviour
  MaxClients,  \* model bound: client sockets of a behaviour
  MaxCloses,   \* model bound: times the script closes a server that is closed
  Mixed,       \* model bound: FALSE if a behaviour has client sockets or a server, not both
  MaxCalls,    \* model bound: calls of sockets' functions, and connections refused
  MaxPackets,  \* model bound: packets of a behaviour
  NetRing,     \* deferred items the ring has room for
  ReadBuffer,  \* SOCK_READ_BUF_SIZE, in packets
  MaxSegment   \* the length of the longest packet

ASSUME NetAssumption ==
  /\ NoContext \notin Contexts
  /\ {MaxConns, MaxClients, MaxCloses, MaxCalls, MaxPackets, NetRing, ReadBuffer, MaxSegment} \subseteq Nat
  /\ Mixed \in BOOLEAN

VARIABLES
  server,   \* server_handle_t: listening, closed, early (early_closed); how often
            \* close_server has run; whether its object is collected
  conns,    \* server_h->connections, the latest first
  clients,  \* no_server.connections
  sock,     \* every sock_handle_t made; history: its connection, what was given
  conn,     \* the connections made; history: how often main dropped its context
  refs,     \* the kernel's count of references to a context
  netRing,  \* pending deferred items; the first of them is in main's hands at "copy"
  netCount, \* history: packets, calls of a socket's functions, refused accepts so far
  netMain,  \* the listeners main is in ("idle" if none), and their socket; "copy" while it
            \* goes on to use a packet that it has released
  netLost,  \* history: kinds of deferred items lost, "reused" for a context that is used again while
            \* a client's socket names it, and "amiss" for a close of the server
  netFault  \* the undefined behaviour that ended this behaviour, or "none"

netVars == <<server, conns, clients, sock, conn, refs, netRing, netMain, netCount, netLost, netFault>>

Socks == DOMAIN sock
NetIdle == [at |-> "idle", h |-> 0]
Item(kind, c, h, n) == [kind |-> kind, conn |-> c, h |-> h, n |-> n]
ContextOf(c) == conn[c].ctx
InSeq(h, list) == \E i \in DOMAIN list : list[i] = h

\* An event with a socket's object, or (h = 0) with the server's: neither is acquired.  History:
\* n = 1 if the close of the socket is on its way or dealt with.
Event(h) == Item("event", 0, h, IF h # 0 /\ (sock[h].closing \/ sock[h].closed) THEN 1 ELSE 0)

\* zjs_defer_work and zjs_defer_emit_event: an item is put into the ring or lost.
HasRoom == Len(netRing) < NetRing + (IF netMain.at = "copy" THEN 1 ELSE 0)
Queue(item) == netRing' = IF HasRoom THEN Append(netRing, item) ELSE netRing
Lost(item)  == IF HasRoom THEN {} ELSE {item.kind} \ {"event"}
DeferItem(item) == Queue(item) /\ netLost' = netLost \cup Lost(item)

\* find_connection: the first socket of the list with this context, or 0.
FindConnection(c) ==
  LET list  == IF conn[c].client THEN clients ELSE conns
      found == SelectInSeq(list, LAMBDA h : sock[h].ctx = ContextOf(c))
  IN  IF found = 0 THEN 0 ELSE list[found]

\* start_socket_timeout.
Restarted(h) == [sock EXCEPT ![h].timer = sock[h].timeout]

\* net_context_unref: one reference less; none is taken from a free context.
Unref(context) == [refs EXCEPT ![context] = IF @ = 0 THEN 0 ELSE @ - 1]

\* Main drops a context, which was given to connection c, if there is one.
Drop(context, c) ==
  /\ refs' = Unref(context)
  /\ conn' = IF c = 0 THEN conn ELSE [conn EXCEPT ![c].drops = conn[c].drops + 1]

\* A context is used again that a client's socket has not put yet: the kernel gave it back
\* when the peer closed, and the socket goes on naming it.
Reuses(context) == IF \E i \in DOMAIN clients : sock[clients[i]].ctx = context THEN {"reused"} ELSE {}

NetOk == netFault = "none"
NewServer == [listening |-> FALSE, closed |-> FALSE, early |-> NoContext, closes |-> 0,
              collected |-> FALSE]
NoCount == [packets |-> 0, calls |-> 0, fails |-> 0]
NoRefs == [context \in Contexts |-> 0]

\* Undefined behaviour: of the rest nothing is known any more.
NetFails(reason) ==
  /\ NetOk
  /\ netFault' = reason
  /\ server' = NewServer /\ refs' = NoRefs /\ netMain' = NetIdle
  /\ conns' = <<>> /\ clients' = <<>> /\ sock' = <<>> /\ conn' = <<>> /\ netRing' = <<>>
  /\ netCount' = NoCount /\ netLost' = {}

-----------------------------------------------------------------------------
(***************************************************************************)
(* The receive thread.                                                     *)
(***************************************************************************)
NewConnection(context, client) ==
  /\ Len(conn) < MaxConns
  /\ conn' = Append(conn, [ctx |-> context, client |-> client, open |-> TRUE,
                           packets |-> 0, early |-> FALSE, drops |-> 0])

\* tcp_accepted: the kernel made a context; the server's receive function is
\* registered, a reference taken, and the rest deferred.
TcpAccepted(context) ==
  /\ NetOk
  /\ server.listening /\ ~server.closed
  /\ refs[context] = 0
  /\ NewConnection(context, FALSE)
  /\ refs' = [refs EXCEPT ![context] = 2]
  /\ Queue(Item("accept", Len(conn) + 1, 0, 0))
  /\ netLost' = netLost \cup Lost(Item("accept", Len(conn) + 1, 0, 0)) \cup Reuses(context)
  /\ UNCHANGED <<server, conns, clients, sock, netMain, netCount, netFault>>

\* The function cannot be registered: an "error" event of the server is deferred instead.
TcpAcceptedFails ==
  /\ NetOk
  /\ server.listening /\ ~server.closed
  /\ netCount.fails < MaxCalls
  /\ netCount' = [netCount EXCEPT !.fails = @ + 1]
  /\ DeferItem(Event(0))
  /\ UNCHANGED <<server, conns, clients, sock, conn, refs, netMain, netFault>>

\* A connection with its own context still, whose next packet or close may come.
Alive(c) ==
  /\ NetOk
  /\ c \in DOMAIN conn
  /\ conn[c].open
  /\ refs[ContextOf(c)] > 0
  /\ \A d \in DOMAIN conn : d > c => ContextOf(d) # ContextOf(c)

\* The handle of tcp_received: none for a context that was closed and is used again
\* before main has dealt with the close.
SocketOf(c) == IF ~conn[c].client /\ ContextOf(c) = server.early THEN 0 ELSE FindConnection(c)

\* tcp_received with a packet.
TcpReceived(c) ==
  /\ Alive(c)
  /\ netCount.packets < MaxPackets
  /\ netCount' = [netCount EXCEPT !.packets = @ + 1]
  /\ conn' = [conn EXCEPT ![c].packets = conn[c].packets + 1]
  /\ DeferItem(Item("data", c, SocketOf(c), conn[c].packets + 1))
  /\ UNCHANGED <<server, conns, clients, sock, refs, netMain, netFault>>

\* RX is given the packet that main has released and goes on to use: what main copies is
\* another's, and what it releases next as well.
PacketTakenAgain(c) ==
  /\ Alive(c)
  /\ netMain.at \in {"copy", "data"}
  /\ NetFails("packet_taken_again")

\* tcp_received without a packet: the peer has closed, and the kernel gives back its
\* reference.  The socket's "close" event and release_close are deferred.
TcpClosed(c) ==
  /\ Alive(c)
  /\ SocketOf(c) # 0
  /\ conn' = [conn EXCEPT ![c].open = FALSE]
  /\ refs' = Unref(ContextOf(c))
  /\ sock' = [sock EXCEPT ![SocketOf(c)].closing = TRUE]
  /\ DeferItem(Item("close", c, SocketOf(c), 0))
  /\ UNCHANGED <<server, conns, clients, netMain, netCount, netFault>>

\* There is no socket yet: the context is remembered until main gets there, unless
\* another one is.
TcpClosedEarly(c) ==
  /\ Alive(c)
  /\ SocketOf(c) = 0
  /\ ~conn[c].client
  /\ refs' = Unref(ContextOf(c))
  /\ IF server.early = NoContext
     THEN /\ server' = [server EXCEPT !.early = ContextOf(c)]
          /\ conn' = [conn EXCEPT ![c] = [conn[c] EXCEPT !.open = FALSE, !.early = TRUE]]
          /\ DeferItem(Item("clear", c, 0, 0))
     ELSE /\ conn' = [conn EXCEPT ![c].open = FALSE]
          /\ netLost' = netLost \cup {"clear"}
          /\ UNCHANGED <<server, netRing>>
  /\ UNCHANGED <<conns, clients, sock, netMain, netCount, netFault>>

\* tcp_connected.
TcpConnected(h) ==
  /\ NetOk
  /\ InSeq(h, clients)
  /\ sock[h].ctx # NoContext /\ sock[h].conn = 0
  /\ NewConnection(sock[h].ctx, TRUE)
  /\ sock' = [sock EXCEPT ![h] = [sock[h] EXCEPT !.timer = sock[h].timeout, !.conn = Len(conn) + 1]]
  /\ DeferItem(Event(h))
  /\ UNCHANGED <<server, conns, clients, refs, netMain, netCount, netFault>>

\* socket_timeout_callback, in the timer's interrupt: the socket is looked for in
\* all lists; if found its "timeout" event is deferred and the timer stopped, whether
\* or not a close is pending that will release the event's object.
SocketTimeout(h) ==
  /\ NetOk
  /\ h \in Socks
  /\ sock[h].timer
  /\ InSeq(h, conns) \/ InSeq(h, clients)
  /\ sock' = [sock EXCEPT ![h] = [sock[h] EXCEPT !.timeout = FALSE, !.timer = FALSE]]
  /\ DeferItem(Event(h))
  /\ UNCHANGED <<server, conns, clients, conn, refs, netMain, netCount, netFault>>

\* The timer was not stopped when its socket was freed.
TimerOfFreed(h) ==
  /\ h \in Socks
  /\ sock[h].timer /\ ~sock[h].held
  /\ NetFails("freed_timer")

-----------------------------------------------------------------------------
(***************************************************************************)
(* Deferred work on main.                                                  *)
(***************************************************************************)
Upcoming(kind) == netRing # <<>> /\ Head(netRing).kind = kind

Take(kind) ==
  /\ NetOk
  /\ netMain = NetIdle
  /\ Upcoming(kind)
  /\ netRing' = Tail(netRing)

\* Work that names the server, or a socket, by its handle or object.
OfServer(item) == item.kind \in {"accept", "clear"} \/ (item.kind \in {"data", "event"} /\ item.h = 0)
ServerHeld == OfServer(Head(netRing)) => ~server.collected
SocketHeld == Head(netRing).h # 0 => sock[Head(netRing).h].held

UseFreedServer ==
  /\ netMain = NetIdle
  /\ netRing # <<>>
  /\ ~ServerHeld
  /\ NetFails("freed_server")

\* A socket was freed, or its object collected, that the item names.
UseFreedSocket ==
  /\ netMain = NetIdle
  /\ netRing # <<>>
  /\ ~SocketHeld
  /\ NetFails("freed_socket")

NewSocket(c, context, client) ==
  [conn |-> c, ctx |-> context, client |-> client, closing |-> FALSE, closed |-> FALSE,
   paused |-> FALSE, timeout |-> FALSE, timer |-> FALSE, held |-> TRUE,
   buf |-> <<>>, given |-> <<>>, closes |-> 0]

\* accept_connection: a socket is made, closed already if its context was closed
\* meanwhile, put into the list, and the "connection" listeners run.
AcceptConnection ==
  /\ Take("accept") /\ ServerHeld
  /\ LET c     == Head(netRing).conn
         early == server.early = ContextOf(c)
     IN  /\ sock' = Append(sock, [NewSocket(c, ContextOf(c), FALSE) EXCEPT !.closed = early])
         /\ IF early THEN Drop(ContextOf(c), c) ELSE UNCHANGED <<refs, conn>>
  /\ conns' = <<Len(sock) + 1>> \o conns
  /\ netMain' = [at |-> "connection", h |-> Len(sock) + 1]
  /\ UNCHANGED <<server, clients, netCount, netLost, netFault>>

AcceptConnectionFails ==
  /\ Take("accept") /\ ServerHeld
  /\ Drop(ContextOf(Head(netRing).conn), Head(netRing).conn)
  /\ UNCHANGED <<server, conns, clients, sock, netMain, netCount, netLost, netFault>>

\* The socket of a packet: the one RX found, or else the one its context has now.
SocketNow(item) == IF item.h # 0 THEN item.h ELSE FindConnection(item.conn)

\* Mutant: the last packet only is handed over.
ReadOne(h, buf) == <<buf[Len(buf)]>>

\* What the "data" listeners are handed: all that was not consumed before.
ReadAll(h, buf) == buf

\* receive_packet: the packet is released before anything is done with it.
ReleasePacket ==
  /\ NetOk
  /\ netMain = NetIdle
  /\ Upcoming("data") /\ ServerHeld /\ SocketHeld
  /\ netMain' = [at |-> "copy", h |-> 0]
  /\ UNCHANGED <<server, conns, clients, sock, conn, refs, netRing, netCount, netLost, netFault>>

\* The packet that was released is dealt with.
Copy ==
  /\ NetOk
  /\ netMain.at = "copy"
  /\ Upcoming("data")
  /\ netRing' = Tail(netRing)

\* The timer is restarted, the data appended to the socket's and, unless the socket is
\* paused or a buffer cannot be made, handed to the listeners.  Then the packet is
\* released once more.
ReceivePacket(emits) ==
  /\ Copy
  /\ LET item == Head(netRing)
         h    == SocketNow(item)
         buf  == Append(sock[h].buf, <<item.conn, item.n>>)
     IN  /\ h # 0
         /\ sock[h].held
         /\ Len(buf) <= ReadBuffer
         /\ emits => ~sock[h].paused
         /\ sock' = [sock EXCEPT ![h] =
                       [sock[h] EXCEPT !.timer = sock[h].timeout,
                                       !.buf   = IF emits THEN <<>> ELSE buf,
                                       !.given = IF emits THEN sock[h].given \o ReadAll(h, buf)
                                                 ELSE sock[h].given]]
         /\ netMain' = [at |-> "data", h |-> h]
  /\ UNCHANGED <<server, conns, clients, conn, refs, netCount, netLost, netFault>>

ReceiveUnknown ==
  /\ Copy
  /\ SocketNow(Head(netRing)) = 0
  /\ netMain' = NetIdle
  /\ UNCHANGED <<server, conns, clients, sock, conn, refs, netCount, netLost, netFault>>

\* More is copied than the read buffer has room for.
ReceiveOverflow ==
  /\ netMain.at = "copy"
  /\ Upcoming("data")
  /\ SocketNow(Head(netRing)) # 0
  /\ Len(sock[SocketNow(Head(netRing))].buf) + MaxSegment > ReadBuffer
  /\ NetFails("overflow")

\* emit_event_callback with the "close" event of a socket.
EmitClose ==
  /\ Take("close")
  /\ LET h == Head(netRing).h
     IN  /\ sock[h].held
         /\ sock' = [sock EXCEPT ![h].closes = sock[h].closes + 1]
         /\ netMain' = [at |-> "close", h |-> h]
  /\ UNCHANGED <<server, conns, clients, conn, refs, netCount, netLost, netFault>>

\* Mutant: the context goes on being remembered.
ForgetNot == UNCHANGED server

Forget == server' = [server EXCEPT !.early = NoContext]

\* clear_closed: nothing is remembered any more, and the socket that has the context
\* drops it and closes.
ClearClosed ==
  /\ Take("clear") /\ ServerHeld
  /\ Forget
  /\ LET c == Head(netRing).conn
         h == FindConnection(c)
     IN  IF h = 0
         THEN UNCHANGED <<sock, refs, conn, netMain>>
         ELSE /\ Drop(sock[h].ctx, sock[h].conn)
              /\ sock' = [sock EXCEPT ![h] = [sock[h] EXCEPT !.closed = TRUE, !.closes = sock[h].closes + 1]]
              /\ netMain' = [at |-> "close", h |-> h]
  /\ UNCHANGED <<conns, clients, netCount, netLost, netFault>>

\* Any other event.  A socket that was freed has no listeners left, if the script still has
\* its object.
EmitOther ==
  /\ Take("event") /\ ServerHeld
  /\ UNCHANGED <<server, conns, clients, sock, conn, refs, netMain, netCount, netLost, netFault>>

ListenersReturn ==
  /\ NetOk
  /\ netMain.at \in {"connection", "data"}
  /\ netMain' = NetIdle
  /\ UNCHANGED <<server, conns, clients, sock, conn, refs, netRing, netCount, netLost, netFault>>

\* Mutant: the socket stays in the list.
RemoveConnectionNot(h) ==
  /\ server' = IF server.closed /\ conns = <<h>> THEN [server EXCEPT !.closes = @ + 1] ELSE server
  /\ UNCHANGED conns

\* The list without a socket, and the server closed with the last one (close_server).
RemoveConnection(h) ==
  /\ conns' = RemoveFirst(conns, h)
  /\ server' = IF server.closed /\ conns' = <<>>
               THEN [server EXCEPT !.closes = @ + 1] ELSE server

DropUnlessClosed(h) == IF sock[h].closed THEN UNCHANGED <<refs, conn>> ELSE Drop(sock[h].ctx, sock[h].conn)

\* release_close, after the "close" listeners of a server's socket: the context is
\* dropped unless it was before, and the socket freed, but not its timer stopped.
ReleaseClose ==
  /\ NetOk
  /\ netMain.at = "close"
  /\ ~sock[netMain.h].client
  /\ RemoveConnection(netMain.h)
  /\ DropUnlessClosed(netMain.h)
  /\ sock' = [sock EXCEPT ![netMain.h].held = FALSE]
  /\ netMain' = NetIdle
  /\ UNCHANGED <<clients, netRing, netCount, netLost, netFault>>

\* release_close of a client's socket: its context is put and goes on being its own.
ReleaseCloseClient ==
  /\ NetOk
  /\ netMain.at = "close"
  /\ sock[netMain.h].client
  /\ clients' = RemoveFirst(clients, netMain.h)
  /\ Drop(sock[netMain.h].ctx, sock[netMain.h].conn)
  /\ netMain' = NetIdle
  /\ UNCHANGED <<server, conns, sock, netRing, netCount, netLost, netFault>>

-----------------------------------------------------------------------------
(***************************************************************************)
(* The script, which runs in listeners and in what other modules call.     *)
(***************************************************************************)
ScriptRuns == NetOk /\ netMain.at # "copy"

ScriptUses(h) ==
  /\ ScriptRuns
  /\ h \in Socks
  /\ sock[h].held

CallCounts == netCount.calls < MaxCalls /\ netCount' = [netCount EXCEPT !.calls = @ + 1]

\* A socket's object keeps the address of its handle after release_close.
ScriptUsesFreed ==
  /\ ScriptRuns
  /\ \E h \in Socks : ~sock[h].held
  /\ NetFails("freed_by_script")

PauseOrResume(h) ==
  /\ ScriptUses(h)
  /\ CallCounts
  /\ sock' = [sock EXCEPT ![h].paused = ~sock[h].paused]
  /\ UNCHANGED <<server, conns, clients, conn, refs, netRing, netMain, netLost, netFault>>

SetSocketTimeout(h, time) ==
  /\ ScriptUses(h)
  /\ CallCounts
  /\ sock' = [sock EXCEPT ![h] = [sock[h] EXCEPT !.timeout = time, !.timer = time]]
  /\ UNCHANGED <<server, conns, clients, conn, refs, netRing, netMain, netLost, netFault>>

\* socket_write, refused when the socket closes: the timer restarts, and the packet
\* is sent or an "error" event deferred.
SocketWrite(h) ==
  /\ ScriptUses(h)
  /\ CallCounts
  /\ ~sock[h].closing /\ ~sock[h].closed
  /\ sock[h].ctx # NoContext
  /\ sock' = Restarted(h)
  /\ (UNCHANGED <<netRing, netLost>> \/ DeferItem(Event(h)))
  /\ UNCHANGED <<server, conns, clients, conn, refs, netMain, netFault>>

NewClientSocket ==
  /\ ScriptRuns
  /\ Len(SelectSeq(sock, LAMBDA s : s.client)) < MaxClients
  /\ Mixed \/ server = NewServer
  /\ sock' = Append(sock, NewSocket(0, NoContext, TRUE))
  /\ clients' = <<Len(sock) + 1>> \o clients
  /\ UNCHANGED <<server, conns, conn, refs, netRing, netMain, netCount, netLost, netFault>>

\* socket_connect of a socket without a context: one is taken.
SocketConnect(h, context) ==
  /\ ScriptUses(h)
  /\ sock[h].client /\ sock[h].ctx = NoContext
  /\ refs[context] = 0
  /\ sock' = [sock EXCEPT ![h].ctx = context]
  /\ refs' = [refs EXCEPT ![context] = 1]
  /\ netLost' = netLost \cup Reuses(context)
  /\ UNCHANGED <<server, conns, clients, conn, netRing, netMain, netCount, netFault>>

\* The context that a socket still has is connected again, unless main has put it; the
\* next connection is the socket's then.
SocketConnectAgain(h) ==
  /\ ScriptUses(h)
  /\ CallCounts
  /\ InSeq(h, clients) /\ sock[h].conn # 0
  /\ sock' = [sock EXCEPT ![h].conn = 0]
  /\ netLost' = netLost \cup {"reused"}
  /\ UNCHANGED <<server, conns, clients, conn, refs, netRing, netMain, netFault>>

\* Without success: an "error" event is deferred, and the context put, a new one or the
\* one that the socket had.
SocketConnectFails(h) ==
  /\ ScriptUses(h)
  /\ CallCounts
  /\ sock[h].client
  /\ Queue(Event(h))
  /\ IF sock[h].ctx = NoContext
     THEN UNCHANGED <<sock, conn, refs, netLost>>
     ELSE /\ Drop(sock[h].ctx, sock[h].conn)
          /\ sock' = [sock EXCEPT ![h] = [sock[h] EXCEPT !.ctx = NoContext, !.conn = 0]]
          /\ netLost' = netLost \cup {"reused"}
  /\ UNCHANGED <<server, conns, clients, netMain, netFault>>

ServerListen ==
  /\ ScriptRuns
  /\ ~server.listening /\ ~server.closed
  /\ Mixed \/ sock = <<>>
  /\ server' = [server EXCEPT !.listening = TRUE]
  /\ DeferItem(Event(0))
  /\ UNCHANGED <<conns, clients, sock, conn, refs, netMain, netCount, netFault>>

\* server_close: no more connections are taken, and without any the server is closed
\* now.  Amiss is history: it was closed before, or a connection is on its way.
ServerClose ==
  /\ ScriptRuns
  /\ ~server.collected /\ server.closes < MaxCloses
  /\ Mixed \/ \A h \in Socks : ~sock[h].client
  /\ server' = [server EXCEPT !.listening = FALSE, !.closed = TRUE,
                              !.closes = IF conns = <<>> THEN @ + 1 ELSE @]
  /\ netLost' = IF server.closed \/ \E i \in DOMAIN netRing : netRing[i].kind = "accept"
                THEN netLost \cup {"amiss"} ELSE netLost
  /\ UNCHANGED <<conns, clients, sock, conn, refs, netRing, netMain, netCount, netFault>>

\* The closed server's object is collected, and its handle freed.
CollectServer ==
  /\ ScriptRuns
  /\ server.closes > 0 /\ ~server.collected
  /\ server' = [server EXCEPT !.collected = TRUE]
  /\ UNCHANGED <<conns, clients, sock, conn, refs, netRing, netMain, netCount, netLost, netFault>>

-----------------------------------------------------------------------------
NetInit ==
  /\ server = NewServer /\ refs = NoRefs /\ netMain = NetIdle
  /\ conns = <<>> /\ clients = <<>> /\ sock = <<>> /\ conn = <<>> /\ netRing = <<>>
  /\ netCount = NoCount /\ netLost = {}
  /\ netFault = "none"

NetRX ==
  \/ \E context \in Contexts : TcpAccepted(context)
  \/ TcpAcceptedFails
  \/ \E c \in 1 .. MaxConns :
       TcpReceived(c) \/ PacketTakenAgain(c) \/ TcpClosed(c) \/ TcpClosedEarly(c)
  \/ \E h \in Socks : TcpConnected(h) \/ SocketTimeout(h) \/ TimerOfFreed(h)

NetWork ==
  \/ AcceptConnection \/ AcceptConnectionFails
  \/ ReleasePacket \/ (\E emits \in BOOLEAN : ReceivePacket(emits))
  \/ ReceiveUnknown \/ ReceiveOverflow
  \/ EmitClose \/ ClearClosed \/ EmitOther \/ ListenersReturn
  \/ ReleaseClose \/ ReleaseCloseClient \/ UseFreedServer \/ UseFreedSocket

NetScript ==
  \/ \E h \in Socks :
       \/ PauseOrResume(h) \/ SocketWrite(h) \/ SocketConnectAgain(h) \/ SocketConnectFails(h)
       \/ \E time \in BOOLEAN : SetSocketTimeout(h, time)
       \/ \E context \in Contexts : SocketConnect(h, context)
  \/ NewClientSocket \/ ServerListen \/ ServerClose \/ CollectServer \/ ScriptUsesFreed

\* Undefined behaviour, after which nothing is described, or main waiting.
NetRests == (netFault # "none" \/ (netRing = <<>> /\ netMain = NetIdle)) /\ UNCHANGED netVars

NetNext == NetRX \/ NetWork \/ NetScript \/ NetRests

NetSpec == NetInit /\ [][NetNext]_netVars /\ WF_netVars(NetWork)
-----------------------------------------------------------------------------
(***************************************************************************)
(* Properties.                                                             *)
(***************************************************************************)
NoCloseLost == netLost \cap {"close", "clear", "reused"} = {}
DroppedOnce == \A c \in DOMAIN conn : conn[c].drops <= 1
Regular     == NoCloseLost /\ DroppedOnce

\* What the listeners of a socket are given, and what waits in its buffer, are the
\* packets of its own connection, in order and, when none was lost, without a gap,
\* although contexts are found by RX and used again before main gets to them: as long
\* as no close was lost, no context dropped twice and none used again while a socket of a
\* client names it, nor (a fault) a packet by RX that main has released and goes on to use.
OwnDataInOrder ==
  Regular => \A h \in Socks :
    LET data == sock[h].given \o sock[h].buf
    IN  \A i \in DOMAIN data :
          /\ data[i][1] = sock[h].conn
          /\ IF "data" \in netLost THEN \A j \in 1 .. i - 1 : data[j][2] < data[i][2]
                                  ELSE data[i][2] = i

\* A connection that its peer has closed is always on its way to release_close: a
\* "close" event or clear_closed is pending, or its socket's listeners run.  Also,
\* a context that is remembered as closed is about to be forgotten.
CloseIsCovered ==
  LET pending(c) == \E i \in DOMAIN netRing :
                      netRing[i].kind \in {"close", "clear"} /\ netRing[i].conn = c
  IN  Regular =>
        /\ \A h \in Socks : LET c == sock[h].conn IN
             c # 0 /\ ~conn[c].open /\ InSeq(h, IF sock[h].client THEN clients ELSE conns)
               => pending(c) \/ netMain = [at |-> "close", h |-> h]
        /\ server.early # NoContext
             => \E c \in DOMAIN conn : ContextOf(c) = server.early /\ pending(c)

\* A context is dropped for its connection once, as long as no peer closes before main has
\* made the socket: accept_connection and clear_closed both drop that context, and then the
\* references that later connections count on are short.
DropsExplained ==
  NoCloseLost /\ ~DroppedOnce => \E c \in DOMAIN conn : conn[c].early /\ conn[c].drops > 1

\* The server is closed, and its object released, once, although its last socket, the
\* script and connections on their way may close it: unless it was closed amiss.
ServerClosedOnce == server.closes <= 1 \/ "amiss" \in netLost

\* Whoever closes first, a close reaches its end, and only once.
ClosesAreCovered == CloseIsCovered /\ DropsExplained /\ ServerClosedOnce

\* Deferred work does not use a socket that was freed, or its object, while it was queued, as
\* long as no close was lost, no context dropped twice and none used again while a socket of a
\* client names it: but for the event of a timer that expired when the socket's close was
\* already on its way.
QueuedSocketIsHeld ==
  [][netFault = "none" /\ netFault' = "freed_socket" =>
       ~Regular \/ (Head(netRing).kind = "event" /\ Head(netRing).n = 1)]_netVars
=============================================================================
