---------------------------- MODULE DeviceIngest ----------------------------
(***************************************************************************)
(* Readings on their way into the database: mqttDataService.ts and, with   *)
(* the same statements, validateDevice.ts and data.routes.ts.  A message   *)
(* is signed by a gateway and by a sensor.  Failed signatures are counted  *)
(* and block the device; a stored reading clears the counter.  The handler *)
(* awaits every statement, so messages overlap each other and the staff    *)
(* who change the status of a device or delete it.  A statement that fails *)
(* and a stop of the process between two of them are left out.             *)
(***************************************************************************)
EXTENDS Integers, FiniteSets

CONSTANTS
  Message,         \* handlers of messages that run at the same time
  GatewayDevice, SensorDevice,
  BlockThreshold,  \* BLOCK_THRESHOLD
  MaxCount,        \* the 1000 of LEAST(fail_count + 1, 1000)
  Window           \* ONLINE_WINDOW_SECONDS, in ticks of the device monitor

ASSUME IngestAssumption ==
  /\ BlockThreshold \in Nat \ {0} /\ MaxCount \in Nat /\ MaxCount >= BlockThreshold
  /\ Window \in Nat \ {0}
  /\ GatewayDevice \cap SensorDevice = {}  \* a device has one device_type

Device == GatewayDevice \cup SensorDevice

VARIABLES
  status,      \* [Device -> DeviceStatus], "gone" when the row is deleted
  failCount,   \* [Device -> 0..MaxCount]
  age,         \* [Device -> 0..Window], ticks since last_seen; Window is offline
  provisioned, \* devices with provision_status 'provisioned'
  readings,    \* rows of sensor_data: the sensor and the gateway that sent it
  handler,     \* [Message -> the handler of a message]
  deleting,    \* [Device -> statements of DELETE /api/devices/:id still to run]
  shown        \* [Device -> BOOLEAN], what the last device_state event said

ingestVars == <<status, failCount, age, provisioned, readings, handler, deleting, shown>>

DeviceStatus == {"inactive", "active", "blocked", "gone"}

Exists(d) == status[d] # "gone"
IsOnline(d) == age[d] < Window

Idle == [pc |-> "idle", gateway |-> "none", sensor |-> "none", device |-> "none",
         wake |-> {}]

NewMessage(g, s, good) ==
  [pc |-> IF good THEN "sensor" ELSE "count", gateway |-> g, sensor |-> s,
   device |-> IF good THEN "none" ELSE g, wake |-> {}]

\* A bug to be caught: the fast path compares with the threshold itself.
MutReachesThreshold(count) == count = BlockThreshold

ReachesThreshold(count) == count >= BlockThreshold

IngestInit ==
  /\ status \in [Device -> {"active", "blocked"}]
  /\ failCount = [d \in Device |-> 0]
  /\ age \in [Device -> {0, Window}]
  /\ provisioned \in {{}, Device}
  /\ readings = {}
  /\ handler = [m \in Message |-> Idle]
  /\ deleting = [d \in Device |-> 0]
  /\ shown = [d \in Device |-> IsOnline(d)]

Goto(m, pc) == handler' = [handler EXCEPT ![m].pc = pc]
Drop(m) == handler' = [handler EXCEPT ![m] = Idle]
-----------------------------------------------------------------------------
\* verifyGatewayHMAC and verifyDeviceHMAC: the row is read, the timestamp and
\* the digest compared.  A device that is not found is not counted.
Verify(m, d, good, next) ==
  IF ~Exists(d) THEN Drop(m)
  ELSE IF good THEN Goto(m, next)
  ELSE handler' = [handler EXCEPT ![m].pc = "count", ![m].device = d]

\* A message arrives; missing fields are the same as no message.
VerifyGateway(m) ==
  /\ handler[m].pc = "idle"
  /\ \E g \in GatewayDevice, s \in SensorDevice, good \in BOOLEAN :
       /\ Exists(g)
       /\ handler' = [handler EXCEPT ![m] = NewMessage(g, s, good)]
  /\ UNCHANGED <<status, failCount, age, provisioned, readings, deleting, shown>>

VerifySensor(m) ==
  /\ handler[m].pc = "sensor"
  /\ \E good \in BOOLEAN : Verify(m, handler[m].sensor, good, "check")
  /\ UNCHANGED <<status, failCount, age, provisioned, readings, deleting, shown>>

\* incrementAndMaybeBlock: the counter is raised, read and acted upon.
IncrementFailCount(m) ==
  LET d == handler[m].device IN
  /\ handler[m].pc = "count"
  /\ failCount' = [failCount EXCEPT
       ![d] = IF Exists(d) /\ @ < MaxCount THEN @ + 1 ELSE @]
  /\ Goto(m, "read")
  /\ UNCHANGED <<status, age, provisioned, readings, deleting, shown>>

ReadFailCount(m) ==
  LET d == handler[m].device IN
  /\ handler[m].pc = "read"
  /\ IF Exists(d) /\ ReachesThreshold(failCount[d]) THEN Goto(m, "block") ELSE Drop(m)
  /\ UNCHANGED <<status, failCount, age, provisioned, readings, deleting, shown>>

BlockDevice(m) ==
  LET d == handler[m].device IN
  /\ handler[m].pc = "block"
  /\ status' = [status EXCEPT ![d] = IF Exists(d) THEN "blocked" ELSE @]
  /\ Drop(m)
  /\ UNCHANGED <<failCount, age, provisioned, readings, deleting, shown>>

\* One SELECT reads the status of both devices.
CheckStatus(m) ==
  /\ handler[m].pc = "check"
  /\ IF status[handler[m].gateway] = "active" /\ status[handler[m].sensor] = "active"
     THEN Goto(m, "store") ELSE Drop(m)
  /\ UNCHANGED <<status, failCount, age, provisioned, readings, deleting, shown>>

\* The INSERT fails when one of the two rows is gone (fk_sensor_data_*).
StoreReading(m) ==
  /\ handler[m].pc = "store"
  /\ IF Exists(handler[m].gateway) /\ Exists(handler[m].sensor)
     THEN /\ readings' = readings \cup {<<handler[m].sensor, handler[m].gateway>>}
          /\ Goto(m, "hook")
     ELSE UNCHANGED readings /\ Drop(m)
  /\ UNCHANGED <<status, failCount, age, provisioned, deleting, shown>>

\* onTelemetryIngested reads the rows before last_seen is written, to know who
\* comes online; without its sensor it returns.
TelemetryIngested(m) ==
  LET g == handler[m].gateway
      s == handler[m].sensor
  IN
  /\ handler[m].pc = "hook"
  /\ handler' = [handler EXCEPT
       ![m].pc = "emit",
       ![m].wake = IF Exists(s) THEN {d \in {g, s} : Exists(d) /\ ~IsOnline(d)} ELSE {}]
  /\ provisioned' = IF Exists(s) THEN provisioned \cup {d \in {g, s} : Exists(d)}
                    ELSE provisioned
  /\ UNCHANGED <<status, failCount, age, readings, deleting, shown>>

\* emitCameOnline.
EmitCameOnline(m) ==
  /\ handler[m].pc = "emit"
  /\ shown' = [d \in Device |-> d \in handler[m].wake \/ shown[d]]
  /\ handler' = [handler EXCEPT ![m].pc = "gateway", ![m].wake = {}]
  /\ UNCHANGED <<status, failCount, age, provisioned, readings, deleting>>

\* A bug to be caught: the UPDATE also activates the device.
MutSeenStatus(d) == "active"

SeenStatus(d) == status[d]

\* UPDATE devices SET last_seen = NOW(), fail_count = 0.
Seen(d) ==
  IF Exists(d)
    THEN /\ age' = [age EXCEPT ![d] = 0]
         /\ failCount' = [failCount EXCEPT ![d] = 0]
         /\ status' = [status EXCEPT ![d] = SeenStatus(d)]
    ELSE UNCHANGED <<age, failCount, status>>

SeeGateway(m) ==
  /\ handler[m].pc = "gateway"
  /\ Seen(handler[m].gateway)
  /\ Goto(m, "seen")
  /\ UNCHANGED <<provisioned, readings, deleting, shown>>

SeeSensor(m) ==
  /\ handler[m].pc = "seen"
  /\ Seen(handler[m].sensor)
  /\ Drop(m)
  /\ UNCHANGED <<provisioned, readings, deleting, shown>>
-----------------------------------------------------------------------------
\* PATCH /api/devices/:id/status, of administrators and operators alike, and
\* setDeviceStatus of the console; who may is in OperatorAccess.
SetStatus(d, new) ==
  /\ Exists(d) /\ new \in {"inactive", "active", "blocked"}
  /\ status' = [status EXCEPT ![d] = new]
  /\ failCount' = [failCount EXCEPT ![d] = IF new = "active" THEN 0 ELSE @]
  /\ UNCHANGED <<age, provisioned, readings, handler, deleting, shown>>

\* DELETE /api/devices/:id: three statements, no transaction; a failure between
\* them leaves the device without its readings.
DeleteReadings(d) ==
  /\ Exists(d) /\ deleting[d] = 0
  /\ readings' = {r \in readings : r[1] # d}
  /\ deleting' = [deleting EXCEPT ![d] = 1]
  /\ UNCHANGED <<status, failCount, age, provisioned, handler, shown>>

\* A bug to be caught: the foreign keys do not cascade.
MutCascade(d) == readings

\* The row takes the readings with it that were stored since, and those that a
\* gateway has sent (ON DELETE CASCADE).
Cascade(d) == {r \in readings : d \notin {r[1], r[2]}}

DeleteDevice(d) ==
  /\ deleting[d] = 1
  /\ deleting' = [deleting EXCEPT ![d] = 0]
  /\ status' = [status EXCEPT ![d] = "gone"]
  /\ failCount' = [failCount EXCEPT ![d] = 0]
  /\ readings' = Cascade(d)
  /\ provisioned' = provisioned \ {d}
  /\ age' = [age EXCEPT ![d] = Window]
  /\ UNCHANGED <<handler, shown>>

DeleteFails(d) ==
  /\ deleting[d] = 1
  /\ deleting' = [deleting EXCEPT ![d] = 0]
  /\ UNCHANGED <<status, failCount, age, provisioned, readings, handler, shown>>
-----------------------------------------------------------------------------
FailStep(m) == IncrementFailCount(m) \/ ReadFailCount(m) \/ BlockDevice(m)

HandlerStep(m) ==
  \/ VerifySensor(m) \/ FailStep(m) \/ CheckStatus(m) \/ StoreReading(m)
  \/ TelemetryIngested(m) \/ EmitCameOnline(m) \/ SeeGateway(m) \/ SeeSensor(m)

StaffStep(d) ==
  \/ \E new \in {"inactive", "active", "blocked"} : SetStatus(d, new)
  \/ DeleteReadings(d) \/ DeleteDevice(d) \/ DeleteFails(d)

IngestNext ==
  \/ \E m \in Message : VerifyGateway(m) \/ HandlerStep(m)
  \/ \E d \in Device : StaffStep(d)
-----------------------------------------------------------------------------
HandlerRecord ==
  [pc : {"idle", "sensor", "count", "read", "block", "check", "store", "hook", "emit",
         "gateway", "seen"},
   gateway : GatewayDevice \cup {"none"}, sensor : SensorDevice \cup {"none"},
   device : Device \cup {"none"}, wake : SUBSET Device]

\* Types; the readings of a device go with its row, and a device without a row
\* is offline and not counted (routes/devices.ts:295-297).
IngestTypeOK ==
  /\ status \in [Device -> DeviceStatus]
  /\ failCount \in [Device -> 0..MaxCount]
  /\ age \in [Device -> 0..Window]
  /\ provisioned \subseteq Device /\ readings \subseteq SensorDevice \X GatewayDevice
  /\ handler \in [Message -> HandlerRecord]
  /\ deleting \in [Device -> {0, 1}]
  /\ shown \in [Device -> BOOLEAN]
  /\ \A d \in Device : status[d] = "gone" =>
       /\ failCount[d] = 0 /\ age[d] = Window
       /\ \A r \in readings : d \notin {r[1], r[2]}

\* When no message is about to act on a counter, a device whose counter has
\* reached the threshold is not active, in whatever order failing messages
\* raise and read it, successes clear it and the staff set the status
\* (mqttDataService.ts:16-20, validateDevice.ts:64-66).
CountedOut ==
  \A d \in Device :
    failCount[d] >= BlockThreshold
      /\ (\A m \in Message : handler[m].pc \in {"read", "block"} => handler[m].device # d)
    => status[d] # "active"

\* Only the staff end a block: a message that was admitted before the
\* device was blocked clears the counter and leaves the status alone
\* (mqttDataService.ts:144-160, routes/devices.ts:228).
BlockHolds ==
  [][\A d \in Device :
       status[d] = "blocked" /\ (\E m \in Message : handler'[m] # handler[m])
         => status'[d] = "blocked"]_ingestVars

\* A device is blocked when it has failed too often, and until somebody of the
\* staff says otherwise.
BlockingIsExact == []CountedOut /\ BlockHolds
=============================================================================
