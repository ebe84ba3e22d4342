----------------------------- MODULE MCSockets -----------------------------
(***************************************************************************)
(* The protocols above the sockets, one at a time: web sockets, datagrams  *)
(* with DHCP, and OCF.                                                     *)
(***************************************************************************)
EXTENDS WebSockets, Dgram, Ocf

VARIABLE protocol  \* the one this behaviour is about

socketsVars == <<wsVars, udpVars, ocfVars, protocol>>

Remote(i, t, p) == [id |-> i, type |-> t, path |-> p]
RemotesDef == {Remote("d1", "light", "/a"), Remote("d1", "fan", "/b"), Remote("d2", "light", "/a")}
FiltersDef == {Remote("d1", "", ""), Remote("", "light", ""), Remote("", "", "/b"),
               Remote("d2", "light", ""), Remote("", "", "")}
OcfBudgetsDef == {[calls |-> 3, resources |-> 0], [calls |-> 1, resources |-> 2]}

Init ==
  /\ WsInit /\ DgramInit /\ OcfInit
  /\ protocol \in {"ws", "udp", "ocf"}
  /\ protocol # "ocf" => ocfBudget.resources = 0
  /\ protocol # "ws" => ~hasHandler

Next ==
  \/ protocol = "ws" /\ WsNext /\ UNCHANGED <<udpVars, ocfVars, protocol>>
  \/ protocol = "udp" /\ DgramNext /\ UNCHANGED <<wsVars, ocfVars, protocol>>
  \/ protocol = "ocf" /\ OcfNext /\ UNCHANGED <<wsVars, udpVars, protocol>>

Spec == Init /\ [][Next]_socketsVars
=============================================================================
