-------------------------------- MODULE Ocf --------------------------------
(***************************************************************************)
(* The OCF client and server (src/zjs_ocf_client.c, src/zjs_ocf_server.c). *)
(* The stack is external: main polls it, and it calls back from the poll.  *)
(*                                                                         *)
(* A search of the client adds an entry to resource_list and asks the      *)
(* stack for a discovery; the stack reports resources to the discovery's   *)
(* own handler, but any entry that is still searched for may take them.    *)
(* Later calls name an entry by the identifier of its device.              *)
(*                                                                         *)
(* The server keeps the resources that the script registers in a list,     *)
(* and gives them to the stack when the script starts OCF.                 *)
(*                                                                         *)
(* Payloads, addresses and the platform's description are left out, and    *)
(* memory for the handlers is taken to suffice.                            *)
(***************************************************************************)
EXTENDS Integers, Sequences, FiniteSets

CONSTANTS
  Remotes,    \* the resources others serve: [id, type, path]
  Filters,    \* what the script searches for: [id, type, path], "" where it does not say
  OcfBudgets  \* model bound: promises of the client and registrations, together

ASSUME OcfAssumption ==
  /\ OcfBudgets \subseteq [calls : Nat, resources : Nat]
  /\ Remotes \cup Filters \subseteq [id : STRING, type : STRING, path : STRING]
  /\ \A r \in Remotes : "" \notin {r.id, r.type, r.path}

VARIABLES
  entries,    \* resource_list, the oldest first: filter, what was found, FLAG_OBSERVE and the
              \* stack's observations of it
  ocfCalls,   \* the client's promises and the stack's callbacks for them
  registered, \* res_list, the oldest first: whether the promise was fulfilled, whether its types
              \* could be stored, whether it is served
  started,    \* oc_main_init succeeded
  requests,   \* requests whose respond function the script kept
  ocfBudget,  \* history: the bound chosen
  ocfUp,      \* the module has not been cleaned up
  ocfFault    \* the undefined behaviour that ended this behaviour, or "none"

ocfVars == <<entries, ocfCalls, registered, started, requests, ocfBudget, ocfUp, ocfFault>>
clientVars == <<entries, ocfCalls>>
serverVars == <<registered, started, requests>>

Unknown == [id |-> "", type |-> "", path |-> ""]
OcfRuns == ocfFault = "none"
Script  == OcfRuns /\ ocfUp

OcfFails(reason) ==
  /\ ocfFault' = reason
  /\ entries' = <<>> /\ ocfCalls' = <<>> /\ registered' = <<>> /\ started' = FALSE /\ requests' = 0
  /\ UNCHANGED <<ocfBudget, ocfUp>>

-----------------------------------------------------------------------------
(***************************************************************************)
(* Searches.                                                               *)
(***************************************************************************)
Searching(e) == entries[e].found = Unknown

\* A search of the script, and whether others were under way while it was.
Call(kind, e, state, alone) ==
  [kind |-> kind, entry |-> e, state |-> state, got |-> 0, live |-> state = "pending", alone |-> alone]

\* ocf_find_resources and add_resource.
FindResources(f) ==
  /\ Script /\ Len(ocfCalls) < ocfBudget.calls
  /\ LET alone == \A e \in DOMAIN entries : ~Searching(e)
         new   == [filter |-> f, found |-> Unknown, observe |-> FALSE, observers |-> 0]
     IN  /\ entries' = Append(entries, new)
         /\ ocfCalls' = Append([i \in DOMAIN ocfCalls |->
                                 [ocfCalls[i] EXCEPT !.alone = @ /\ ocfCalls[i].state # "pending"]],
                               Call("find", Len(entries) + 1, "pending", alone))
  /\ UNCHANGED <<serverVars, ocfBudget, ocfUp, ocfFault>>

\* A plausible mistake: the path is not compared, as the stack asks for the type only.
WantsAnyPath(f, r) ==
  \/ f.id # "" /\ f.id = r.id
  \/ f.id = "" /\ f.type # "" /\ f.type = r.type
  \/ f.id = "" /\ f.type = "" /\ f.path # ""

\* discovery, of one entry: only the first filter that was given counts, and an entry
\* without one is never found.
Wants(f, r) ==
  \/ f.id # "" /\ f.id = r.id
  \/ f.id = "" /\ f.type # "" /\ f.type = r.type
  \/ f.id = "" /\ f.type = "" /\ f.path = r.path

Newest(E, e) == e \in E /\ \A d \in E : d <= e

\* discovery: the stack reports r to the handler of call i.  The newest entry that wants it
\* takes it, and the promise is that of the handler; then the stack ends the discovery.
\* A discovery asks only for the type its search named.
Discovered(i, r) ==
  /\ OcfRuns /\ ocfCalls[i].kind = "find" /\ ocfCalls[i].live
  /\ entries # <<>>
  /\ entries[ocfCalls[i].entry].filter.type \in {"", r.type}
  /\ LET takers == {e \in DOMAIN entries : Searching(e) /\ Wants(entries[e].filter, r)} IN
       \E e \in takers :
         /\ Newest(takers, e)
         /\ entries' = [entries EXCEPT ![e].found = r]
         /\ ocfCalls' = [ocfCalls EXCEPT ![i] = [@ EXCEPT !.state = "resolved", !.got = e, !.live = FALSE]]
  /\ UNCHANGED <<serverVars, ocfBudget, ocfUp, ocfFault>>

-----------------------------------------------------------------------------
(***************************************************************************)
(* Calls that name a device.                                               *)
(***************************************************************************)
FoundWith(id) == {e \in DOMAIN entries : ~Searching(e) /\ entries[e].found.id = id}

\* find_resource_by_id, which does not look at the path.
FindResourceById(id, e) == Newest(FoundWith(id), e)

\* ocf_retrieve, when a resource is found: FLAG_OBSERVE stays set, so a later retrieve
\* observes again.  Its request is sent, or the promise is rejected.
Retrieve(id, observe, sent) ==
  /\ Script /\ Len(ocfCalls) < ocfBudget.calls
  /\ \E e \in FoundWith(id) :
       LET on == observe \/ entries[e].observe IN
         /\ FindResourceById(id, e)
         /\ entries' = [entries EXCEPT ![e].observe = on, ![e].observers = @ + (IF on THEN 1 ELSE 0)]
         /\ ocfCalls' = Append(ocfCalls, Call("get", e, IF sent THEN "pending" ELSE "rejected", TRUE))
  /\ UNCHANGED <<serverVars, ocfBudget, ocfUp, ocfFault>>

\* ocf_update, ocf_get_platform_info and ocf_get_device_info.
UpdateOrInfo(kind, id, sent) ==
  /\ Script /\ Len(ocfCalls) < ocfBudget.calls
  /\ \E e \in FoundWith(id) :
       /\ FindResourceById(id, e)
       /\ ocfCalls' = Append(ocfCalls, Call(kind, e, IF sent THEN "pending" ELSE "rejected", TRUE))
  /\ UNCHANGED <<entries, serverVars, ocfBudget, ocfUp, ocfFault>>

NotFound(id) ==
  /\ Script /\ Len(ocfCalls) < ocfBudget.calls
  /\ FoundWith(id) = {}
  /\ ocfCalls' = Append(ocfCalls, Call("get", 0, "rejected", TRUE))
  /\ UNCHANGED <<entries, serverVars, ocfBudget, ocfUp, ocfFault>>

\* ocf_get_handler, put_finished and the handlers of platform and device information, which
\* take any answer for a success.  The stack gives an answer once, or never.
ResponseArrives(i, ok) ==
  /\ OcfRuns /\ ocfCalls[i].kind # "find" /\ ocfCalls[i].live
  /\ entries # <<>>
  /\ ocfCalls[i].kind = "info" => ok
  /\ ocfCalls' = [ocfCalls EXCEPT ![i] =
       [@ EXCEPT !.state = IF ok THEN "resolved" ELSE "rejected", !.got = ocfCalls[i].entry, !.live = FALSE]]
  /\ UNCHANGED <<entries, serverVars, ocfBudget, ocfUp, ocfFault>>

\* observe_callback, or a response, after client_free_cb.
CallbackOfFreed ==
  /\ OcfRuns /\ ~ocfUp
  /\ \E i \in DOMAIN ocfCalls : ocfCalls[i].live
  /\ OcfFails("freed resource")

-----------------------------------------------------------------------------
(***************************************************************************)
(* The server.                                                             *)
(***************************************************************************)
Resource(accepted, stored) == [accepted |-> accepted, stored |-> stored, served |-> FALSE]

\* ocf_register, once the path and the types are seen to be given: the resource is in the
\* list before its types are stored and its interfaces are looked at, and stays there when
\* the promise is rejected.
Register(outcome) ==
  /\ Script /\ Len(registered) < ocfBudget.resources
  /\ registered' = Append(registered, Resource(outcome = "accepted", outcome # "no memory"))
  /\ UNCHANGED <<clientVars, started, requests, ocfBudget, ocfUp, ocfFault>>

\* ocf_start and zjs_ocf_register_resources, from the newest on: if the stack has no room for
\* the k newest but first, those before are not served.
OcfStart(room) ==
  /\ Script /\ ~started
  /\ room <= Len(registered)
  /\ \A s \in DOMAIN registered : registered[s].stored
  /\ started' = TRUE
  /\ registered' = [s \in DOMAIN registered |->
                     [registered[s] EXCEPT !.served = s > Len(registered) - room]]
  /\ UNCHANGED <<clientVars, requests, ocfBudget, ocfUp, ocfFault>>

\* The types of a resource that had no memory for them are an array that is not there, or
\* not filled.
OcfStartUnstored ==
  /\ Script /\ ~started
  /\ \E s \in DOMAIN registered : ~registered[s].stored
  /\ OcfFails("types not stored")

\* ocf_get_handler and ocf_put_handler: the event is emitted at once, then the handler is
\* freed; the script may have kept the request.
RemoteRequest(s, kept) ==
  /\ Script /\ registered[s].served
  /\ registered[s].accepted
  /\ requests' = IF kept THEN 1 ELSE requests
  /\ UNCHANGED <<clientVars, registered, started, ocfBudget, ocfUp, ocfFault>>

\* A rejected resource has no object to emit its event.
RemoteRequestOfRejected(s) ==
  /\ Script /\ registered[s].served
  /\ ~registered[s].accepted
  /\ OcfFails("no object")

\* ocf_respond after the handler's end.
RespondLate ==
  /\ Script /\ requests > 0
  /\ OcfFails("freed handler")

\* zjs_ocf_cleanup: zjs_ocf_server_cleanup releases an object that register did not acquire;
\* zjs_ocf_client_cleanup lets client_free_cb free resource_list, and the stack is not told.
OcfCleanup ==
  /\ Script
  /\ \A s \in DOMAIN registered : ~registered[s].accepted /\ registered[s].stored
  /\ ocfUp' = FALSE
  /\ entries' = <<>> /\ registered' = <<>> /\ requests' = 0
  /\ UNCHANGED <<ocfCalls, started, ocfBudget, ocfFault>>

OcfCleanupReleases ==
  /\ Script
  /\ \E s \in DOMAIN registered : registered[s].accepted \/ ~registered[s].stored
  /\ OcfFails("released without being held")

-----------------------------------------------------------------------------
\* zjs_ocf_init.
OcfInit ==
  /\ entries = <<>> /\ ocfCalls = <<>> /\ registered = <<>> /\ started = FALSE /\ requests = 0
  /\ ocfUp = TRUE /\ ocfFault = "none"
  /\ ocfBudget \in OcfBudgets

OcfNext ==
  \/ \E f \in Filters : FindResources(f)
  \/ \E i \in DOMAIN ocfCalls, r \in Remotes : Discovered(i, r)
  \/ \E id \in {r.id : r \in Remotes} :
       \/ NotFound(id)
       \/ \E sent \in BOOLEAN :
            \/ \E observe \in BOOLEAN : Retrieve(id, observe, sent)
            \/ \E kind \in {"put", "info"} : UpdateOrInfo(kind, id, sent)
  \/ \E i \in DOMAIN ocfCalls, ok \in BOOLEAN : ResponseArrives(i, ok)
  \/ \E outcome \in {"accepted", "no interfaces", "no memory"} : Register(outcome)
  \/ \E room \in 0..ocfBudget.resources : OcfStart(room)
  \/ OcfStartUnstored \/ CallbackOfFreed \/ RespondLate \/ OcfCleanup \/ OcfCleanupReleases
  \/ \E s \in DOMAIN registered :
       RemoteRequestOfRejected(s) \/ \E kept \in BOOLEAN : RemoteRequest(s, kept)
  \/ (ocfFault # "none" \/ ~ocfUp) /\ UNCHANGED ocfVars

OcfSpec == OcfInit /\ [][OcfNext]_ocfVars

-----------------------------------------------------------------------------
(***************************************************************************)
(* Properties.                                                             *)
(***************************************************************************)
Given(f) == {k \in DOMAIN f : f[k] # ""}
Meets(r, f) == \A k \in Given(f) : f[k] = r[k]

\* A search that met no other is fulfilled exactly when its own entry is found, with that
\* entry, and the resource meets its filter if that has one part (of several, one counts).
\* When searches overlap, an entry may take what another's discovery reports: its own
\* promise then waits for a resource that no entry wants any more.
SearchesDoNotMix ==
  \A i \in DOMAIN ocfCalls :
    (ocfCalls[i].kind = "find" /\ ocfCalls[i].alone /\ entries # <<>>)
    => LET e == ocfCalls[i].entry IN
         /\ ocfCalls[i].state = "resolved" <=> ~Searching(e)
         /\ ocfCalls[i].state = "resolved" => ocfCalls[i].got = e
         /\ (~Searching(e) /\ Cardinality(Given(entries[e].filter)) = 1)
              => Meets(entries[e].found, entries[e].filter)
=============================================================================
