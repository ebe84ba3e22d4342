-------------------------------- MODULE Ble --------------------------------
(***************************************************************************)
(* The Bluetooth peripheral (src/zjs_ble.c).  The Bluetooth thread serves  *)
(* one attribute request at a time: it signals main and waits at one       *)
(* semaphore for the script's answer.  It also keeps the list of           *)
(* connections, which main walks to notify clients.  Main registers        *)
(* services, calls the script's handlers and gives it the events.          *)
(*                                                                         *)
(* Values, offsets, identifiers and advertising are left out.  A request   *)
(* is told from the others by its number, and an answer by the request     *)
(* the script gave it for (0: none, the error code set beforehand).        *)
(***************************************************************************)
EXTENDS Integers, Sequences, FiniteSets

CONSTANTS
  ServiceSets, \* what the script may pass to setServices: the services' numbers of characteristics
  BleBudgets,  \* model bound: attribute requests and connections, together
  BleRing      \* signals and deferred events the ring has room for

ASSUME BleAssumption ==
  /\ BleRing \in Nat
  /\ BleBudgets \subseteq [requests : Nat, clients : Nat]
  /\ \A sizes \in ServiceSets : sizes \in Seq(Nat \ {0})

VARIABLES
  chrcs,     \* characteristics registered, named by the call of setServices, service and place:
             \* freed, whether get_base_chrc finds it, latest request and answer of read_cb, write_cb
  bleReq,    \* the request the Bluetooth thread waits for
  bleSem,    \* ble_sem, which counts to one
  bleRing,   \* pending signals and deferred events
  asked,     \* answer functions the script holds
  conns,     \* ble_handle->connections; the list has the latest, of the greatest number, first
  seen,      \* the connections the script knows of, by its events
  bleWalk,   \* where main is in the list of connections, or 0
  bleUp,     \* ble_handle is set
  bleLast,   \* the last request that was answered: its number, and the answer's
  refused,   \* history: requests answered with invalid arguments
  bleLate,   \* history: a request timed out, or an answer function was called again
  bleLost,   \* history: the ring had no room for an event
  replaced,  \* history: services were set a second time
  bleCount,  \* history: requests and connections so far
  bleBudget, \* history: the bound chosen
  bleFault   \* the undefined behaviour that ended this behaviour, or "none"

bleVars == <<chrcs, bleReq, bleSem, bleRing, asked, conns, seen, bleWalk, bleUp, bleLast, refused,
             bleLate, bleLost, replaced, bleCount, bleBudget,
             bleFault>>
history == <<refused, bleLate, bleLost, replaced, bleCount, bleBudget>>
scriptVars == <<asked, seen, bleWalk, bleUp>>

NoReq  == [op |-> "none", c |-> <<>>, n |-> 0]
Chrcs  == DOMAIN chrcs
NoAnswer == [req |-> 0, ans |-> 0]
NoChrcs  == [c \in {} |-> NoAnswer]

BleFails(reason) ==
  /\ bleFault' = reason
  /\ chrcs' = NoChrcs /\ bleReq' = NoReq /\ bleSem' = 0 /\ bleRing' = <<>> /\ asked' = {}
  /\ conns' = {} /\ seen' = {} /\ bleWalk' = 0 /\ bleUp' = FALSE
  /\ bleLast' = [n |-> 0, got |-> 0] /\ refused' = {} /\ bleLost' = FALSE
  /\ bleCount' = [requests |-> 0, clients |-> 0]
  /\ UNCHANGED <<bleLate, replaced, bleBudget>>

BleAlive == bleFault = "none"
BtIdle   == BleAlive /\ bleReq = NoReq
BleMain  == BleAlive /\ bleWalk = 0 /\ bleUp
BleSignal(item) == IF Len(bleRing) < BleRing THEN Append(bleRing, item) ELSE bleRing

-----------------------------------------------------------------------------
(***************************************************************************)
(* Services.                                                               *)
(***************************************************************************)
\* zjs_ble_parse_service and zjs_ble_set_services append to "previous", which stays the first
\* element: of n elements the list holds the first and the last.
Linked(n) == {1, n}

\* zjs_ble_register_service: an attribute of each characteristic in its service's list; a
\* subscription finds it only if the service is in ble_handle's list.
Registered(sizes, good) ==
  [c \in UNION {{<<IF Chrcs = {} THEN 1 ELSE 2, s, i>> : i \in Linked(sizes[s])} : s \in 1..good} |->
    [freed |-> FALSE, found |-> c[2] \in Linked(good), read |-> NoAnswer, write |-> NoAnswer]]

\* zjs_ble_free_services, of those in the list: the stack still has the attributes.
Freed == [c \in Chrcs |-> [chrcs[c] EXCEPT !.freed = @ \/ chrcs[c].found]]

\* The first "good" services are registered; one that cannot be parsed or registered ends
\* the call.
SetServices(sizes, good) ==
  /\ BleMain /\ ~replaced
  /\ good <= Len(sizes)
  /\ LET new == Registered(sizes, good) IN
       chrcs' = [c \in Chrcs \cup DOMAIN new |-> IF c \in Chrcs THEN Freed[c] ELSE new[c]]
  /\ replaced' = (Chrcs # {})
  /\ UNCHANGED <<bleReq, bleSem, bleRing, scriptVars, conns, bleLast, refused, bleLate, bleLost,
                 bleCount, bleBudget, bleFault>>

\* The callbacks of a freed characteristic are removed: their signals are skipped.
SkipFreed(c) ==
  /\ BleMain /\ bleRing # <<>> /\ chrcs[c].freed
  /\ \E kind \in {"read", "write", "subscribe"} : Head(bleRing) = <<kind, c>>
  /\ bleRing' = Tail(bleRing)
  /\ UNCHANGED <<chrcs, bleReq, bleSem, scriptVars, conns, bleLast, history, bleFault>>

-----------------------------------------------------------------------------
(***************************************************************************)
(* Attribute requests.                                                     *)
(***************************************************************************)
RequestResetsNothing(op, c) ==
  /\ BtIdle /\ bleUp
  /\ bleCount.requests < bleBudget.requests
  /\ ~chrcs[c].freed
  /\ LET n == bleCount.requests + 1 IN
       /\ chrcs' = [chrcs EXCEPT ![c][op].req = n]
       /\ bleReq' = [op |-> op, c |-> c, n |-> n]
       /\ bleCount' = [bleCount EXCEPT !.requests = n]
  /\ bleRing' = BleSignal(<<op, c>>)
  /\ UNCHANGED <<bleSem, scriptVars, conns, bleLast, refused, bleLate, bleLost, replaced, bleBudget,
                 bleFault>>

\* zjs_ble_read_attr_callback and zjs_ble_write_attr_callback, up to the semaphore: the
\* answer is reset, and a write keeps the address of the stack's data.
AttrRequest(op, c) ==
  /\ BtIdle /\ bleUp
  /\ bleCount.requests < bleBudget.requests
  /\ ~chrcs[c].freed
  /\ LET n == bleCount.requests + 1 IN
       /\ chrcs' = [chrcs EXCEPT ![c][op] = [req |-> n, ans |-> 0]]
       /\ bleReq' = [op |-> op, c |-> c, n |-> n]
       /\ bleCount' = [bleCount EXCEPT !.requests = n]
  /\ bleRing' = BleSignal(<<op, c>>)
  /\ UNCHANGED <<bleSem, scriptVars, conns, bleLast, refused, bleLate, bleLost, replaced, bleBudget,
                 bleFault>>

\* The stack never forgets an attribute.
RequestOfFreed ==
  /\ BtIdle
  /\ \E c \in Chrcs : chrcs[c].freed
  /\ BleFails("freed attribute")

\* The rest of both: whoever gave the semaphore, what the characteristic now holds is the
\* answer.
RequestAnswered ==
  /\ BleAlive /\ bleReq # NoReq /\ bleSem = 1
  /\ ~chrcs[bleReq.c].freed
  /\ bleSem' = 0
  /\ bleLast' = [n |-> bleReq.n, got |-> chrcs[bleReq.c][bleReq.op].ans]
  /\ bleReq' = NoReq
  /\ UNCHANGED <<chrcs, bleRing, scriptVars, conns, history, bleFault>>

AnsweredForFreed ==
  /\ BleAlive /\ bleReq # NoReq /\ bleSem = 1
  /\ chrcs[bleReq.c].freed
  /\ BleFails("freed characteristic")

RequestTimesOut ==
  /\ BleAlive /\ bleReq # NoReq /\ bleSem = 0
  /\ bleReq' = NoReq
  /\ bleLate' = TRUE
  /\ UNCHANGED <<chrcs, bleSem, bleRing, scriptVars, conns, bleLast, refused, bleLost, replaced,
                 bleCount, bleBudget, bleFault>>

\* zjs_ble_read_c_callback and zjs_ble_write_c_callback: the script is given a function to
\* answer the latest request with; a write's data are copied from the stack's.
HandlerCalled(op, c) ==
  /\ BleMain /\ bleRing # <<>> /\ Head(bleRing) = <<op, c>>
  /\ ~chrcs[c].freed
  /\ op = "write" => bleReq.n = chrcs[c].write.req
  /\ bleRing' = Tail(bleRing)
  /\ asked' = asked \cup {[op |-> op, c |-> c, n |-> chrcs[c][op].req, used |-> FALSE]}
  /\ UNCHANGED <<chrcs, bleReq, bleSem, conns, seen, bleWalk, bleUp, bleLast, history, bleFault>>

HandlerReadsFreed(c) ==
  /\ BleMain /\ bleRing # <<>> /\ Head(bleRing) = <<"write", c>>
  /\ ~chrcs[c].freed /\ bleReq.n # chrcs[c].write.req
  /\ BleFails("data of a request that is over")

\* zjs_ble_read_callback_function and zjs_ble_write_callback_function, at any time and any
\* number of times.
ScriptAnswers(f) ==
  /\ BleMain /\ ~chrcs[f.c].freed
  /\ chrcs' = [chrcs EXCEPT ![f.c][f.op].ans = f.n]
  /\ bleSem' = 1
  /\ asked' = (asked \ {f}) \cup {[f EXCEPT !.used = TRUE]}
  /\ bleLate' = (bleLate \/ f.used)
  /\ UNCHANGED <<bleReq, bleRing, conns, seen, bleWalk, bleUp, bleLast, refused, bleLost, replaced,
                 bleCount, bleBudget, bleFault>>

ScriptAnswersFreed(f) ==
  /\ BleMain /\ chrcs[f.c].freed
  /\ BleFails("freed characteristic")

\* With invalid arguments the thread goes on with the error code set beforehand.
ScriptAnswersBadly(f) ==
  /\ BleMain
  /\ bleSem' = 1
  /\ asked' = (asked \ {f}) \cup {[f EXCEPT !.used = TRUE]}
  /\ refused' = refused \cup {f.n}
  /\ bleLate' = (bleLate \/ f.used)
  /\ UNCHANGED <<chrcs, bleReq, bleRing, conns, seen, bleWalk, bleUp, bleLast, bleLost, replaced,
                 bleCount, bleBudget, bleFault>>

-----------------------------------------------------------------------------
(***************************************************************************)
(* Connections.                                                            *)
(***************************************************************************)
\* zjs_ble_connected.
Connected ==
  /\ BtIdle /\ bleUp
  /\ bleCount.clients < bleBudget.clients
  /\ LET k == bleCount.clients + 1 IN
       /\ conns' = conns \cup {k}
       /\ bleRing' = BleSignal(<<"accept", k>>)
       /\ bleLost' = (bleLost \/ Len(bleRing) = BleRing)
       /\ bleCount' = [bleCount EXCEPT !.clients = k]
  /\ UNCHANGED <<chrcs, bleReq, bleSem, scriptVars, bleLast, refused, bleLate, replaced, bleBudget,
                 bleFault>>

\* zjs_ble_release_connection.
ReleaseConnection(k) == conns \ {k}

\* Main goes to the first of some connections in the list, or to the end of the list.
WalkTo(some) ==
  \/ some = {} /\ bleWalk' = 0
  \/ \E k \in some : (\A j \in some : j <= k) /\ bleWalk' = k

\* zjs_ble_disconnected.
Disconnected(k) ==
  /\ BtIdle /\ bleUp
  /\ k \in conns
  /\ bleRing' = BleSignal(<<"disconnect", k>>)
  /\ bleLost' = (bleLost \/ Len(bleRing) = BleRing)
  /\ conns' = ReleaseConnection(k)
  /\ UNCHANGED <<chrcs, bleReq, bleSem, scriptVars, bleLast, refused, bleLate, replaced, bleCount,
                 bleBudget, bleFault>>

\* Main emits the events in their order.
ClientEvent ==
  /\ BleMain /\ bleRing # <<>>
  /\ LET kind == Head(bleRing)[1]  k == Head(bleRing)[2] IN
       /\ kind \in {"accept", "disconnect"}
       /\ seen' = IF kind = "accept" THEN seen \cup {k} ELSE seen \ {k}
  /\ bleRing' = Tail(bleRing)
  /\ UNCHANGED <<chrcs, bleReq, bleSem, asked, conns, bleWalk, bleUp, bleLast, history, bleFault>>

\* zjs_ble_blvl_ccc_cfg_changed: signalled only if get_base_chrc finds the characteristic.
Subscribed(c) ==
  /\ BtIdle /\ bleUp
  /\ chrcs[c].found /\ ~chrcs[c].freed
  /\ \A i \in DOMAIN bleRing : bleRing[i] # <<"subscribe", c>>
  /\ bleRing' = BleSignal(<<"subscribe", c>>)
  /\ UNCHANGED <<chrcs, bleReq, bleSem, scriptVars, conns, bleLast, history, bleFault>>

\* The script's handler, which may then call the update function: main goes through the
\* list and notifies each client.
Notify(c) ==
  /\ BleMain /\ bleRing # <<>> /\ Head(bleRing) = <<"subscribe", c>>
  /\ ~chrcs[c].freed
  /\ bleRing' = Tail(bleRing)
  /\ WalkTo(conns)
  /\ UNCHANGED <<chrcs, bleReq, bleSem, asked, conns, seen, bleUp, bleLast, history, bleFault>>

NotifyNext ==
  /\ BleAlive /\ bleWalk # 0 /\ bleWalk \in conns
  /\ WalkTo({k \in conns : k < bleWalk})
  /\ UNCHANGED <<chrcs, bleReq, bleSem, bleRing, asked, conns, seen, bleUp, bleLast, history, bleFault>>

\* The thread freed the connection meanwhile.
NotifyFreed ==
  /\ BleAlive /\ bleWalk # 0 /\ bleWalk \notin conns
  /\ BleFails("freed connection")

\* zjs_ble_cleanup: the stack keeps its callbacks, which then use the handle that is gone.
BleCleanup ==
  /\ BleMain
  /\ bleUp' = FALSE
  /\ chrcs' = Freed /\ conns' = {} /\ bleRing' = <<>> /\ asked' = {} /\ seen' = {}
  /\ bleLast' = [n |-> 0, got |-> 0]
  /\ UNCHANGED <<bleReq, bleSem, bleWalk, refused, bleLate, bleLost, replaced, bleCount, bleBudget,
                 bleFault>>

StackUsesHandle ==
  /\ BtIdle /\ ~bleUp
  /\ BleFails("no handle")

-----------------------------------------------------------------------------

\* zjs_ble_init.
BleInit ==
  /\ chrcs = NoChrcs /\ bleReq = NoReq /\ bleSem = 0 /\ bleRing = <<>> /\ asked = {}
  /\ conns = {} /\ seen = {} /\ bleWalk = 0 /\ bleUp = TRUE
  /\ bleLast = [n |-> 0, got |-> 0] /\ refused = {} /\ bleLate = FALSE /\ bleLost = FALSE
  /\ replaced = FALSE /\ bleCount = [requests |-> 0, clients |-> 0] /\ bleFault = "none"
  /\ bleBudget \in BleBudgets

BleNext ==
  \/ \E sizes \in ServiceSets, good \in 0..3 : SetServices(sizes, good)
  \/ \E c \in Chrcs, op \in {"read", "write"} : AttrRequest(op, c) \/ HandlerCalled(op, c)
  \/ \E c \in Chrcs : SkipFreed(c) \/ HandlerReadsFreed(c) \/ Subscribed(c) \/ Notify(c)
  \/ RequestOfFreed \/ RequestAnswered \/ AnsweredForFreed \/ RequestTimesOut
  \/ \E f \in asked : ScriptAnswers(f) \/ ScriptAnswersFreed(f) \/ ScriptAnswersBadly(f)
  \/ Connected \/ ClientEvent \/ NotifyNext \/ NotifyFreed \/ BleCleanup \/ StackUsesHandle
  \/ \E k \in 1..bleCount.clients : Disconnected(k)
  \/ bleFault # "none" /\ UNCHANGED bleVars

BleSpec == BleInit /\ [][BleNext]_bleVars

-----------------------------------------------------------------------------
(***************************************************************************)
(* Properties.                                                             *)
(***************************************************************************)
\* A request that did not time out returns what the script answered to this very request,
\* or the error set beforehand if that answer was invalid: unless an earlier request timed
\* out or was answered twice, for the one semaphore may then be given to a later request.
OwnAnswers ==
  \/ bleLate
  \/ bleLast.got = bleLast.n
  \/ bleLast.got = 0 /\ bleLast.n \in refused

\* The script knows of exactly the connections in the list once main has emitted the
\* events, unless one found no room.
SeenAreConnected ==
  (/\ bleFault = "none" /\ bleUp /\ ~bleLost
   /\ \A i \in DOMAIN bleRing : bleRing[i][1] \notin {"accept", "disconnect"})
  => seen = conns

\* The script agrees with the clients about their requests and about who is connected,
\* whatever the Bluetooth thread does while main is at work.
ClientsAgree == OwnAnswers /\ SeenAreConnected

\* Memory of the module is used after it was freed in these cases only: the data of a write
\* once a request timed out or was answered twice; an attribute, or its characteristic, once
\* the script set services again or after a cleanup; the handle itself after a cleanup; and a
\* connection that main is about to notify when its client left meanwhile, so that the event
\* which says so waits behind the handler that notifies, or was lost.
BleFaultsExplained ==
  [][bleFault = "none" =>
       /\ bleFault' = "data of a request that is over" => bleLate
       /\ bleFault' \in {"freed attribute", "freed characteristic"} => replaced \/ ~bleUp
       /\ bleFault' = "no handle" => ~bleUp
       /\ bleFault' = "freed connection" =>
            bleUp /\ (bleLost \/ \E i \in DOMAIN bleRing : bleRing[i] = <<"disconnect", bleWalk>>)]_bleVars
=============================================================================
