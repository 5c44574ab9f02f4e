------------------------------ MODULE MCFleet ------------------------------
(***************************************************************************)
(* The console's side on small instances, one component per behaviour.     *)
(* The scene says which of them moves:                                     *)
(*   ota       OtaDeployment;                                              *)
(*   ingest    readings and the staff, DeviceIngest;                       *)
(*   monitor   time, ticks, heartbeats and genuine readings, nobody        *)
(*             changes a device, DeviceMonitor;                            *)
(*   grants    callers ask for grants, make and revoke them;               *)
(*   requests  requests of an operator whose account, grants and homes     *)
(*             change, OperatorAccess.                                     *)
(***************************************************************************)
EXTENDS OtaDeployment, DeviceMonitor, OperatorAccess, TLC

CONSTANT RealGateway  \* the gateway of the targets that are not simulated

VARIABLE scene

fleetVars == <<otaVars, allMonitorVars, operatorVars, scene>>

FleetGatewayOf == [t \in Target |-> IF t \in Simulated THEN None ELSE RealGateway]

FleetInit ==
  /\ scene \in {"ota", "ingest", "monitor", "grants", "requests"}
  /\ OtaInit /\ IngestInit /\ MonitorInit /\ OperatorInit
  /\ CASE scene = "ingest" -> provisioned = Device /\ \A d \in Device : age[d] = 0
       [] scene = "monitor" -> provisioned = Device
       [] OTHER -> provisioned = {} /\ \A d \in Device : age[d] = Window
  /\ \A d \in Device : status[d] = "active" \/ (scene = "monitor" /\ d \in GatewayDevice)
  /\ CASE scene = "grants" -> claimed = House
       [] scene = "requests" -> TRUE
       [] OTHER -> claimed = {}

OtaScene ==
  scene = "ota" /\ UNCHANGED <<allMonitorVars, operatorVars, scene>>

IngestScene ==
  scene = "ingest" /\ UNCHANGED <<otaVars, monitorVars, operatorVars, scene>>

\* Only genuine messages, no change by the staff, and failures only
\* with heartbeats alone.
MonitorScene ==
  /\ scene = "monitor" /\ UNCHANGED <<otaVars, operatorVars, scene>>
  /\ UNCHANGED <<status, failCount, deleting>>
  /\ failures' = 0 \/ /\ \A d \in Device : status[d] = "active"
                      /\ \A m \in Message : handler'[m].pc = "idle"
  /\ \A m \in Message : handler'[m].pc # "count"
  /\ \E m \in Message : \A n \in Message \ {m} : handler'[n].pc = "idle"

GrantsScene ==
  /\ scene = "grants" /\ UNCHANGED <<otaVars, allMonitorVars, scene>>
  /\ UNCHANGED <<cookie, claimed, logins>> /\ \A o \in Operator : account'[o].version = 0
  /\ \A c \in Caller : request'[c].kind \notin {"write", "edit", "legacy"}

RequestsScene ==
  /\ scene = "requests" /\ UNCHANGED <<otaVars, allMonitorVars, scene>>
  /\ made' < MaxGrant /\ \A i \in 1..MaxGrant : grants'[i] = Nothing \/ grants'[i].recent
  /\ \A c \in Caller : request'[c].kind \notin {"self", "revoke"}
  /\ Cardinality({c \in Caller : request'[c].kind \in {"write", "edit", "legacy"}}) <= 1

FleetNext ==
  \/ OtaScene /\ OtaNext
  \/ IngestScene /\ IngestNext
  \/ scene = "monitor" /\ MonitorNext /\ MonitorScene
  \/ scene \in {"grants", "requests"} /\ OperatorNext /\ (GrantsScene \/ RequestsScene)

\* The states of the components have their types.
FleetTypeOK == OtaTypeOK /\ IngestTypeOK /\ MonitorTypeOK /\ OperatorTypeOK

\* OtaFairness and MonitorFairness, each in its scene.
FleetFairness ==
  /\ WF_fleetVars(TickStep /\ OtaScene)
  /\ WF_fleetVars(TimerFires /\ MonitorScene)
  /\ \A k \in Tick : WF_fleetVars(TickStepOf(k) /\ MonitorScene)
  /\ \A m \in Message :
       WF_fleetVars(HandlerStep(m) /\ UNCHANGED monitorVars /\ MonitorScene)

FleetSpec == FleetInit /\ [][FleetNext]_fleetVars /\ FleetFairness
=============================================================================
