------------------------------ MODULE Inventory ------------------------------
(***************************************************************************)
(* The console's inventory: which home, room and gateway a device has      *)
(* (dashboard/devices/devices.service.ts, homes/provisioning.service.ts).  *)
(* A request reads the device, asks what it needs to know, and writes with *)
(* one UPDATE or DELETE, without a transaction round them; the clients of  *)
(* the old and the new home are told afterwards.  What an operator may     *)
(* touch is in OperatorAccess: here the caller is an administrator.        *)
(***************************************************************************)
EXTENDS Integers, FiniteSets

CONSTANTS
  Home, Room, HomeOf,  \* rooms.home_id never changes
  Node, Hub,           \* devices of device_type 'sensor' and 'gateway'
  Edit,                \* requests that may run at the same time
  None,                \* null
  Keep                 \* a field that the request does not have

ASSUME InventoryAssumption ==
  /\ HomeOf \in [Room -> Home]
  /\ Node \cap Hub = {}
  /\ {None, Keep} \cap (Home \cup Room \cup Node \cup Hub) = {}

Thing == Node \cup Hub

VARIABLES
  built,     \* homes that exist
  devices,   \* [Thing -> DeviceRow]
  edit,      \* [Edit -> the request and its local variables]
  told,      \* [Home -> the devices its clients saw at the last home_changed]
  crossed,   \* history: devices whose requests have overlapped
  wandered   \* history: homes that have got, given or lost a gateway

inventoryVars == <<built, devices, edit, told, crossed, wandered>>

DeviceRow == [home : Home \cup {None}, room : Room \cup {None},
              gateway : Hub \cup {None},
              status : {"absent", "inactive", "active", "deleted"}]

NoRow == [home |-> None, room |-> None, gateway |-> None, status |-> "absent"]

NoEdit == [pc |-> "idle", thing |-> None, from |-> None, home |-> None,
           room |-> None, gateway |-> None, patch |-> "none"]

InTable(t) == devices[t].status \in {"inactive", "active"}
ThingsIn(h) == {t \in Thing : devices[t].home = h}
EditsOf(t) == {e \in Edit : edit[e].thing = t}

InventoryInit ==
  /\ built = {}
  /\ devices = [t \in Thing |-> NoRow]
  /\ edit = [e \in Edit |-> NoEdit]
  /\ told = [h \in Home |-> {}]
  /\ crossed = {} /\ wandered = {}
-----------------------------------------------------------------------------
\* The rows of a kit: the gateway in no room, every node in one and on the gateway.
WithKit(h, g, nodes, place) ==
  [t \in Thing |->
    CASE t = g -> [NoRow EXCEPT !.home = h, !.status = "active"]
      [] t \in nodes -> [home |-> h, room |-> place[t], gateway |-> g, status |-> "active"]
      [] OTHER -> devices[t]]

\* createKitHome, in one transaction: a home, its gateway and nodes in its rooms.
CreateKitHome(h) ==
  /\ h \notin built /\ built' = built \cup {h}
  /\ \E g \in Hub, nodes \in (SUBSET Node) \ {{}} :
       /\ \A t \in nodes \cup {g} : devices[t].status = "absent"
       /\ \E place \in [nodes -> {r \in Room : HomeOf[r] = h}] :
            devices' = WithKit(h, g, nodes, place)
       /\ told' = [told EXCEPT ![h] = nodes \cup {g}]
  /\ UNCHANGED <<edit, crossed, wandered>>

\* POST /api/devices/register.
RegisterDevice(t) ==
  /\ devices[t].status = "absent"
  /\ devices' = [devices EXCEPT ![t].status = "inactive"]
  /\ UNCHANGED <<built, edit, told, crossed, wandered>>

\* setDeviceStatus, its UPDATE; inactive stands for blocked as well.
SetDeviceStatus(t) ==
  /\ InTable(t)
  /\ devices' = [devices EXCEPT ![t].status = IF @ = "active" THEN "inactive" ELSE "active"]
  /\ UNCHANGED <<built, edit, told, crossed, wandered>>
-----------------------------------------------------------------------------
\* Requests for one device, and requests for two gateways, get in each other's way.
Rivals(t) ==
  {edit[e].thing : e \in EditsOf(t)}
    \cup IF t \in Hub THEN {edit[e].thing : e \in Edit} \cap Hub ELSE {}

BeginEdit(e, request) ==
  /\ edit[e] = NoEdit
  /\ edit' = [edit EXCEPT ![e] = request]
  /\ crossed' = crossed \cup Rivals(request.thing)
                        \cup IF Rivals(request.thing) = {} THEN {} ELSE {request.thing}

\* A bug to be caught: a room of any home will do.
MutRoomFits(t, h, r) == r # None => h # None /\ t \notin Hub

\* The checks on the room: 400 INVALID_INPUT, ROOM_NOT_IN_HOME.
RoomFits(t, h, r) == r # None => h # None /\ t \notin Hub /\ HomeOf[r] = h

\* findHomeGatewayId, the one with the lowest id.
FindHomeGatewayId(h) ==
  LET hubs == ThingsIn(h) \cap Hub IN IF hubs = {} THEN {None} ELSE hubs

\* assignDevice: the row is read, target and room are worked out and checked.
\* A request that is refused here changes nothing.
AssignDevice(e) ==
  \E t \in Thing, toHome \in built \cup {None, Keep}, toRoom \in Room \cup {None, Keep} :
    LET changed == toHome # Keep /\ toHome # devices[t].home
        home == IF toHome = Keep THEN devices[t].home ELSE toHome
        room == IF toRoom # Keep THEN toRoom
                ELSE IF changed THEN None ELSE devices[t].room
    IN /\ InTable(t) /\ RoomFits(t, home, room)
       /\ BeginEdit(e,
            [pc |-> IF ~changed \/ home = None THEN "write"
                    ELSE IF t \in Hub THEN "check" ELSE "find",
             thing |-> t, from |-> devices[t].home, home |-> home, room |-> room,
             gateway |-> None,
             patch |-> IF changed THEN "home" ELSE IF toRoom # Keep THEN "room" ELSE "none"])
       /\ UNCHANGED <<built, devices, told, wandered>>

\* A bug to be caught: the home may have a gateway already.
MutHomeIsFree(t, existing) == TRUE

HomeIsFree(t, existing) == existing \in {None, t}

\* 409 HOME_HAS_GATEWAY.
CheckGateway(e) ==
  /\ edit[e].pc = "check"
  /\ \E existing \in FindHomeGatewayId(edit[e].home) :
       edit' = [edit EXCEPT ![e] = IF HomeIsFree(@.thing, existing)
                                   THEN [@ EXCEPT !.pc = "write"] ELSE NoEdit]
  /\ UNCHANGED <<built, devices, told, crossed, wandered>>

FindGateway(e) ==
  /\ edit[e].pc = "find"
  /\ \E g \in FindHomeGatewayId(edit[e].home) :
       edit' = [edit EXCEPT ![e].gateway = g, ![e].pc = "write"]
  /\ UNCHANGED <<built, devices, told, crossed, wandered>>

\* A bug to be caught: a node keeps its gateway when it moves.
MutPatched(row, q) ==
  CASE q.patch = "home" -> [row EXCEPT !.home = q.home, !.room = q.room]
    [] q.patch = "room" -> [row EXCEPT !.room = q.room]
    [] OTHER -> row

\* The columns of the patch: a gateway has no gateway to begin with.
Patched(row, q) ==
  CASE q.patch = "home" -> [row EXCEPT !.home = q.home, !.room = q.room, !.gateway = q.gateway]
    [] q.patch = "room" -> [row EXCEPT !.room = q.room]
    [] OTHER -> row

Leaves(t, homes) == wandered' = wandered \cup IF t \in Hub THEN homes \ {None} ELSE {}

\* updateDeviceFields.  A gateway that is gone by now fails fk_devices_gateway;
\* a device that is gone is not updated, and the rest goes on.
WriteRow(e) ==
  LET q == edit[e] IN
  /\ q.pc = "write"
  /\ IF InTable(q.thing) /\ q.gateway # None /\ ~InTable(q.gateway)
     THEN /\ edit' = [edit EXCEPT ![e] = NoEdit]
          /\ UNCHANGED <<devices, wandered>>
     ELSE /\ edit' = [edit EXCEPT ![e].pc = "announce"]
          /\ devices' = [devices EXCEPT
               ![q.thing] = IF InTable(q.thing) THEN Patched(@, q) ELSE @]
          /\ Leaves(q.thing, {devices[q.thing].home, devices'[q.thing].home})
  /\ UNCHANGED <<built, told, crossed>>

\* A bug to be caught: only the new home is told.
MutToTell(q) == {q.home}

ToTell(q) == {q.from, q.home}

\* After the audit row: home_changed, for the home that was read and the target.
AnnounceHomes(e) ==
  /\ edit[e].pc = "announce"
  /\ told' = [h \in Home |-> IF h \in ToTell(edit[e]) THEN ThingsIn(h) ELSE told[h]]
  /\ edit' = [edit EXCEPT ![e] = NoEdit]
  /\ UNCHANGED <<built, devices, crossed, wandered>>
-----------------------------------------------------------------------------
\* removeDevice: the row is read, then deleted.
RemoveDevice(e) ==
  \E t \in Thing :
    /\ InTable(t)
    /\ BeginEdit(e, [NoEdit EXCEPT !.pc = "delete", !.thing = t, !.from = devices[t].home])
    /\ UNCHANGED <<built, devices, told, wandered>>

\* deleteDeviceRow: ON DELETE SET NULL takes the gateway from its nodes.
DeleteDeviceRow(e) ==
  LET t == edit[e].thing IN
  /\ edit[e].pc = "delete"
  /\ edit' = [edit EXCEPT ![e].pc = "announce"]
  /\ devices' = [s \in Thing |->
       IF s = t THEN [NoRow EXCEPT !.status = "deleted"]
       ELSE [devices[s] EXCEPT !.gateway = IF @ = t THEN None ELSE @]]
  /\ Leaves(t, {devices[t].home})
  /\ UNCHANGED <<built, told, crossed>>

\* The process ends: requests are lost, and clients that connect again reload.
ConsoleRestart ==
  /\ edit' = [e \in Edit |-> NoEdit]
  /\ told' = [h \in Home |-> ThingsIn(h)]
  /\ UNCHANGED <<built, devices, crossed, wandered>>

InventoryNext ==
  \/ \E h \in Home : CreateKitHome(h)
  \/ \E t \in Thing : RegisterDevice(t) \/ SetDeviceStatus(t)
  \/ \E e \in Edit : \/ AssignDevice(e) \/ CheckGateway(e) \/ FindGateway(e)
                     \/ WriteRow(e) \/ AnnounceHomes(e)
                     \/ RemoveDevice(e) \/ DeleteDeviceRow(e)
  \/ ConsoleRestart

InventorySpec == InventoryInit /\ [][InventoryNext]_inventoryVars
-----------------------------------------------------------------------------
InventoryTypeOK ==
  /\ built \subseteq Home
  /\ devices \in [Thing -> DeviceRow]
  /\ edit \in [Edit -> [pc : {"idle", "check", "find", "write", "delete", "announce"},
                        thing : Thing \cup {None}, from : Home \cup {None},
                        home : Home \cup {None}, room : Room \cup {None},
                        gateway : Hub \cup {None}, patch : {"none", "room", "home"}]]
  /\ told \in [Home -> SUBSET Thing]
  /\ crossed \subseteq Thing /\ wandered \subseteq Home

Settled == Thing \ crossed

\* A device whose requests came one at a time is in no room of another home,
\* and a gateway in no room at all (devices.service.ts:141-153).
RoomsAgree ==
  \A t \in Settled : devices[t].room # None =>
    t \in Node /\ HomeOf[devices[t].room] = devices[t].home

\* No home has two gateways, unless they were moved at the same time
\* (devices.service.ts:132-137; no index of the schema backs this up).
OneGatewayEach ==
  \A g, k \in Settled \cap Hub :
    devices[g].home # None /\ devices[g].home = devices[k].home => g = k

\* In a home that has kept the gateway it was made with, every node hangs on
\* that gateway, wherever the node came from (devices.service.ts:156).
NodesFollow ==
  \A n \in Settled \cap Node :
    devices[n].home \notin wandered \cup {None} =>
      devices[n].gateway # None /\ devices[devices[n].gateway].home = devices[n].home

\* The clients of both homes have seen a move, and those of its home a removal,
\* once the request is over: other devices that move meanwhile do no harm
\* (devices.service.ts:189-190, 208).
BothHomesAreTold ==
  \A t \in Settled : EditsOf(t) = {} =>
    \A h \in Home : t \in told[h] <=> devices[t].home = h

\* Rows of devices, homes and what clients were told agree after requests that
\* overlap in any way but on one device or on two gateways.
InventoryAgrees == RoomsAgree /\ OneGatewayEach /\ NodesFollow /\ BothHomesAreTold
=============================================================================
