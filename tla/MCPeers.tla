------------------------------ MODULE MCPeers ------------------------------
(***************************************************************************)
(* Main and the processors and threads it waits for, one at a time: the    *)
(* drivers of the sensor core, its sensors, the pattern matching engine    *)
(* and the Bluetooth thread share nothing but main.                        *)
(***************************************************************************)
EXTENDS Ipm, Sensors, Pme, Ble

VARIABLE peer  \* the one this behaviour is about

peerVars == <<ipmVars, senVars, pmeVars, bleVars, peer>>

VectorsDef == {<<1, 0>>, <<0, 1>>}
ServiceSetsDef == {<<1, 1>>}
BleBudgetsDef == {[requests |-> 2, clients |-> 0], [requests |-> 1, clients |-> 2]}

Init ==
  /\ IpmInit /\ SensorsInit /\ PmeInit /\ BleInit
  /\ peer \in {"ipm", "sensors", "pme", "ble"}
  /\ peer # "ble" => bleBudget.clients = 0

Next ==
  \/ peer = "ipm" /\ IpmNext /\ UNCHANGED <<senVars, pmeVars, bleVars, peer>>
  \/ peer = "sensors" /\ SensorsNext /\ UNCHANGED <<ipmVars, pmeVars, bleVars, peer>>
  \/ peer = "pme" /\ PmeNext /\ UNCHANGED <<ipmVars, senVars, bleVars, peer>>
  \/ peer = "ble" /\ BleNext /\ UNCHANGED <<ipmVars, senVars, pmeVars, peer>>

Spec == Init /\ [][Next]_peerVars

-----------------------------------------------------------------------------
\* Memory that was freed is used by an interrupt, the sensor core or another thread, or by
\* main because of what another thread did, only as each part says: after a call that timed
\* out, a message still on its way or overtaken, a cleanup of the sensors that began with one
\* that was not activated, any cleanup of the Bluetooth module, services that were set again,
\* or a client that leaves while main notifies it.  What scripts do to main alone (a pin
\* closed twice, a sensor collected after its cleanup) no part speaks of.
FaultsExplained ==
  /\ TextsOutliveReads /\ ChangesNameOpenPins
  /\ CleanupStopsReadings
  /\ BleFaultsExplained
=============================================================================
