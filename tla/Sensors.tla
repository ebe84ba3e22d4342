------------------------------ MODULE Sensors ------------------------------
(***************************************************************************)
(* Sensor objects of one channel (src/zjs_sensor.c, sensors/*.c) on the    *)
(* Arduino 101: main starts and stops them with calls to the sensor core   *)
(* (zjs_sensor_board_a101.c), which polls the device for all of them       *)
(* (arc/src/arc_sensor.c) and interrupts with readings; signals reach the  *)
(* objects through the ring of the callback module.                        *)
(*                                                                         *)
(* The calls' semaphore is the subject of module Ipm: here a call gets its *)
(* own answer, or times out and its message is handled later.  Readings    *)
(* are not told apart.                                                     *)
(***************************************************************************)
EXTENDS Integers, Sequences, FiniteSets

CONSTANTS
  MaxSensors,  \* model bound: sensors created
  MaxStarts,   \* model bound: calls of start and stop that do something
  MaxReadings, \* model bound: readings the sensor core sends
  SensorRing   \* signals the ring has room for

ASSUME SensorsAssumption == {MaxSensors, MaxStarts, MaxReadings, SensorRing} \subseteq Nat

VARIABLES
  sensor,     \* the sensor_handle_t made: state, and what the object's properties show;
              \* instance->handles lists them, the latest first
  senCall,    \* main's blocking call: what for, whose, and its answer so far
  senMsgs,    \* messages the sensor core has not handled
  senPoll,    \* accel_poll of the sensor core
  senRing,    \* pending signals
  senUp,      \* "up", "cleanup" while zjs_sensor_free_handles runs, "down"
  senShared,  \* history: sensors that are activated though another has been stopped since
  senPending, \* history: sensors stopped with a reading pending, or with no room for a signal
  senMixed,   \* history: the cleanup found an idle handle, or a call timed out
  senCount,   \* history: starts, stops and readings so far
  senFault    \* the undefined behaviour that ended this behaviour, or "none"

senVars == <<sensor, senCall, senMsgs, senPoll, senRing, senUp, senShared, senPending,
             senMixed, senCount, senFault>>

Quiet     == [op |-> "none", s |-> 0, answer |-> "none"]
Sensors   == DOMAIN sensor
SensorOf(state) == {s \in Sensors : sensor[s].state = state}
HasSignal(kind, s) == \E i \in DOMAIN senRing : senRing[i] = <<kind, s>>

SensorFails(reason) ==
  /\ senFault' = reason
  /\ sensor' = <<>> /\ senCall' = Quiet /\ senMsgs' = <<>> /\ senPoll' = FALSE
  /\ senRing' = <<>> /\ senUp' = "down" /\ senShared' = {} /\ senPending' = {}
  /\ senMixed' = FALSE /\ senCount' = [calls |-> 0, readings |-> 0]

MainFree == senFault = "none" /\ senCall = Quiet
Signalled(ring, signals) ==
  LET all == ring \o signals IN IF Len(all) <= SensorRing THEN all ELSE SubSeq(all, 1, SensorRing)

\* zjs_sensor_set_state: only an activated sensor keeps its "hasReading".
SetState(s, state) ==
  [sensor EXCEPT ![s].state = state, ![s].hasReading = @ /\ state = "activated"]

\* zjs_sensor_create, with a board that has the device.
SensorCreate ==
  /\ MainFree /\ senUp = "up"
  /\ Len(sensor) < MaxSensors
  /\ sensor' = Append(sensor, [state |-> "unconnected", hasReading |-> FALSE, value |-> FALSE])
  /\ UNCHANGED <<senCall, senMsgs, senPoll, senRing, senUp, senShared, senPending, senMixed,
                 senCount, senFault>>

\* CALL_REMOTE_FUNCTION, first half.
BoardCall(op, s) ==
  /\ senCall' = [op |-> op, s |-> s, answer |-> "none"]
  /\ senMsgs' = Append(senMsgs, <<op, s>>)
  /\ senCount' = [senCount EXCEPT !.calls = @ + 1]

SensorStart(s) ==
  /\ MainFree /\ senUp = "up"
  /\ senCount.calls < MaxStarts
  /\ sensor[s].state \notin {"activating", "activated"}
  /\ sensor' = SetState(s, "activating")
  /\ BoardCall("start", s)
  /\ senPending' = senPending \ {s}
  /\ UNCHANGED <<senPoll, senRing, senUp, senShared, senMixed, senFault>>

SensorStop(s) ==
  /\ MainFree /\ senUp = "up"
  /\ senCount.calls < MaxStarts
  /\ sensor[s].state = "activated"
  /\ BoardCall("stop", s)
  /\ UNCHANGED <<sensor, senPoll, senRing, senUp, senShared, senPending, senMixed, senFault>>

\* Second half: the answer, or a timeout.
Answered(op) ==
  /\ senFault = "none"
  /\ senCall.op = op
  /\ senCall' = Quiet
  /\ senMixed' = (senMixed \/ senCall.answer = "none")
  /\ UNCHANGED <<senMsgs, senPoll, senCount, senFault>>

\* The rest of zjs_sensor_start: after an error too the sensor becomes activated; "activate"
\* is signalled only without one.
SensorStarted ==
  /\ Answered("start")
  /\ LET s == senCall.s IN
       /\ sensor' = SetState(s, "activated")
       /\ senRing' = Signalled(Signalled(senRing,
            <<<<IF senCall.answer = "ok" THEN "activate" ELSE "error", s>>>>), <<<<"start", s>>>>)
       /\ senShared' = senShared \ {s}
  /\ UNCHANGED <<senUp, senPending>>

\* A plausible mistake: a refused stop changes nothing.
SensorStoppedUnlessError ==
  /\ Answered("stop")
  /\ LET s == senCall.s
     IN  /\ sensor' = IF senCall.answer = "ok" THEN SetState(s, "idle") ELSE sensor
         /\ senRing' = Signalled(senRing, <<<<"stop", s>>>>)
         /\ senShared' = (senShared \ {s}) \cup (SensorOf("activated") \ {s})
         /\ senPending' = senPending
  /\ UNCHANGED <<senUp>>

\* The rest of zjs_sensor_stop.
SensorStopped ==
  /\ Answered("stop")
  /\ LET s == senCall.s
         errors == IF senCall.answer = "ok" THEN <<>> ELSE <<<<"error", s>>>>
     IN  /\ sensor' = SetState(s, "idle")
         /\ senRing' = Signalled(Signalled(senRing, errors), <<<<"stop", s>>>>)
         /\ senShared' = (senShared \ {s}) \cup (SensorOf("activated") \ {s})
         /\ senPending' = IF HasSignal("change", s) \/ Len(senRing \o errors) >= SensorRing
                          THEN senPending \cup {s} ELSE senPending
  /\ UNCHANGED <<senUp>>

\* Main services a signal: a reading sets the object's values and "hasReading" whatever its
\* state, a stop makes the values null.
SensorSignal ==
  /\ MainFree /\ senUp = "up" /\ senRing # <<>>
  /\ LET kind == senRing[1][1]  s == senRing[1][2] IN
       sensor' = CASE kind = "change" -> [sensor EXCEPT ![s].value = TRUE, ![s].hasReading = TRUE]
                   [] kind = "stop"   -> [sensor EXCEPT ![s].value = FALSE]
                   [] OTHER           -> sensor
  /\ senRing' = Tail(senRing)
  /\ UNCHANGED <<senCall, senMsgs, senPoll, senUp, senShared, senPending, senMixed,
                 senCount, senFault>>

-----------------------------------------------------------------------------
(***************************************************************************)
(* The sensor core, and its interrupts.                                    *)
(***************************************************************************)
\* handle_sensor_bmi160: one flag for all sensors of the channel; to start what is polled,
\* or stop what is not, is an error.
HandleSensor ==
  /\ senFault = "none" /\ senMsgs # <<>>
  /\ LET op == senMsgs[1][1]  own == senCall.answer = "none" /\ senMsgs[1] = <<senCall.op, senCall.s>>
     IN  /\ senPoll' = (op = "start")
         /\ senCall' = IF own /\ Len(senMsgs) = 1
                       THEN [senCall EXCEPT !.answer = IF senPoll = (op = "start") THEN "refused" ELSE "ok"]
                       ELSE senCall
  /\ senMsgs' = Tail(senMsgs)
  /\ UNCHANGED <<sensor, senRing, senUp, senShared, senPending, senMixed, senCount, senFault>>

\* zjs_sensor_signal_callbacks, in the interrupt of a reading: every activated handle.
Readings ==
  LET active == SensorOf("activated")
  IN  {r \in [1 .. Cardinality(active) -> {"change"} \X active] :
         \A i, j \in DOMAIN r : i < j => r[i][2] > r[j][2]}

Polls ==
  /\ senFault = "none" /\ senPoll
  /\ senCount.readings < MaxReadings

FetchSensor ==
  /\ Polls
  /\ SensorOf("freed") = {}
  /\ senUp # "down"
  /\ \E readings \in Readings : senRing' = Signalled(senRing, readings)
  /\ senCount' = [senCount EXCEPT !.readings = @ + 1]
  /\ UNCHANGED <<sensor, senCall, senMsgs, senPoll, senUp, senShared, senPending,
                 senMixed, senFault>>

\* The interrupt walks the list while, or after, main frees it.
FetchWhileFreed ==
  /\ Polls
  /\ senUp = "down" \/ SensorOf("freed") # {}
  /\ SensorFails("freed handles in interrupt")

-----------------------------------------------------------------------------
(***************************************************************************)
(* The end of the script.                                                  *)
(***************************************************************************)
SensorCleanup ==
  /\ MainFree /\ senUp = "up" /\ sensor # <<>>
  /\ senUp' = "cleanup"
  /\ senMixed' = (senMixed \/ SensorOf("activated") # Sensors)
  /\ UNCHANGED <<sensor, senCall, senMsgs, senPoll, senRing, senShared, senPending,
                 senCount, senFault>>

\* zjs_sensor_free_handles: an activated sensor is stopped first; then its handle is freed
\* with its callbacks, whose signals are skipped, and its object released.
Held     == Sensors \ SensorOf("freed")
Frees(s) == MainFree /\ senUp = "cleanup" /\ s \in Held /\ \A t \in Held : t <= s

FreeStops(s) ==
  /\ Frees(s)
  /\ sensor[s].state = "activated"
  /\ BoardCall("free", s)
  /\ UNCHANGED <<sensor, senPoll, senRing, senUp, senShared, senPending, senMixed, senFault>>

FreeStopped ==
  /\ Answered("free")
  /\ sensor' = SetState(senCall.s, "freed")
  /\ senShared' = senShared \ {senCall.s}
  /\ UNCHANGED <<senRing, senUp, senPending>>

FreeAny(s) ==
  /\ Frees(s)
  /\ sensor' = SetState(s, "freed")
  /\ UNCHANGED <<senCall, senMsgs, senPoll, senRing, senUp, senShared, senPending,
                 senMixed, senCount, senFault>>

FreeIdle(s) ==
  /\ Frees(s)
  /\ sensor[s].state # "activated"
  /\ sensor' = SetState(s, "freed")
  /\ UNCHANGED <<senCall, senMsgs, senPoll, senRing, senUp, senShared, senPending,
                 senMixed, senCount, senFault>>

FreeInstance ==
  /\ MainFree /\ senUp = "cleanup" /\ Held = {}
  /\ senUp' = "down"
  /\ senRing' = <<>>
  /\ UNCHANGED <<sensor, senCall, senMsgs, senPoll, senShared, senPending, senMixed,
                 senCount, senFault>>

\* The objects were released but still name their handles, which zjs_sensor_free_cb then
\* frees again when the engine ends.
SensorCollected ==
  /\ MainFree /\ senUp = "down"
  /\ SensorFails("freed twice")

-----------------------------------------------------------------------------
SensorsInit ==
  /\ sensor = <<>> /\ senCall = Quiet /\ senMsgs = <<>> /\ senPoll = FALSE
  /\ senRing = <<>> /\ senUp = "up" /\ senShared = {} /\ senPending = {}
  /\ senMixed = FALSE /\ senCount = [calls |-> 0, readings |-> 0] /\ senFault = "none"

SensorsNext ==
  \/ SensorCreate \/ SensorStarted \/ SensorStopped \/ SensorSignal
  \/ \E s \in Sensors : SensorStart(s) \/ SensorStop(s) \/ FreeStops(s) \/ FreeIdle(s)
  \/ HandleSensor \/ FetchSensor \/ FetchWhileFreed
  \/ SensorCleanup \/ FreeStopped \/ FreeInstance \/ SensorCollected
  \/ senFault # "none" /\ UNCHANGED senVars

SensorsSpec == SensorsInit /\ [][SensorsNext]_senVars

-----------------------------------------------------------------------------
(***************************************************************************)
(* Properties.                                                             *)
(***************************************************************************)
\* Once the sensor core has handled its messages it polls for every sensor that main holds
\* activated, even one whose start was refused, unless another sensor was stopped since.
ActivatedIsPolled ==
  senCall = Quiet /\ senMsgs = <<>> /\ senUp = "up"
    => \A s \in SensorOf("activated") : senPoll \/ s \in senShared

\* An idle sensor shows no values and no reading once its signals are serviced: unless one
\* was pending as it stopped ("hasReading" then stays), or the ring had no room.
IdleShowsNothing ==
  senCall = Quiet /\ senRing = <<>> =>
    \A s \in SensorOf("idle") \ senPending : ~sensor[s].value /\ ~sensor[s].hasReading

\* The state of the cores and of the sensor's object agree, however starts, stops, readings
\* and refusals are interleaved.
SensorsAgree == ActivatedIsPolled /\ IdleShowsNothing

\* A reading finds freed handles only when the cleanup began with a sensor that was not
\* activated (its handle is freed while the others' device is still polled), or after a
\* call that timed out.
CleanupStopsReadings ==
  [][senFault = "none" /\ senFault' = "freed handles in interrupt" => senMixed]_senVars
=============================================================================
