------------------------------ MODULE MCGateway ------------------------------
(***************************************************************************)
(* What a house consists of, on small instances, one part per behaviour.   *)
(* The scene says which of them moves:                                     *)
(*   command    DeviceCommand;                                             *)
(*   inventory  requests that overlap, for a home with its kit and another *)
(*              that has a gateway only, Inventory;                        *)
(*   gateway    the firmware, while its kit is made, devices are added and *)
(*              switched, and its row is removed, GatewayNode.             *)
(***************************************************************************)
EXTENDS DeviceCommand, GatewayNode

CONSTANTS HomeA, HomeB, RoomA, OtherHub, MoreThings, OneEdit

ASSUME HouseAssumption ==
  /\ Home = {HomeA, HomeB} /\ HomeA # HomeB
  /\ RoomA \in Room /\ HomeOf[RoomA] = HomeA
  /\ Self # OtherHub /\ OtherHub \in Hub /\ {Self, OtherHub} \cap MoreThings = {}
  /\ Hub \subseteq {Self, OtherHub} \cup MoreThings

VARIABLE scene

HouseHomeOf == [r \in Room |-> IF r = RoomA THEN HomeA ELSE HomeB]

houseVars == <<vars, inventoryVars, gatewayVars, scene>>

Still(t) == devices'[t].status \in {devices[t].status, "deleted"}

\* One kit, one more gateway, every home built; nothing at all in the scene
\* gateway, where the firmware runs before its kit is recorded.
KitRow(t) ==
  CASE t = Self -> [NoRow EXCEPT !.home = HomeA, !.status = "active"]
    [] t = OtherHub -> [NoRow EXCEPT !.home = HomeB, !.status = "active"]
    [] t \in MoreThings -> NoRow
    [] OTHER -> [home |-> HomeA, room |-> RoomA, gateway |-> Self, status |-> "active"]

HouseInit ==
  /\ scene \in {"command", "inventory", "gateway"}
  /\ Init /\ GatewayInit
  /\ synced <=> scene = "gateway"
  /\ \A d \in Device : OnDevice(d) = {} => ~admissible[d] /\ ~relay[d]
  /\ scene # "command" => \A c \in Command :
       input[c] = [device |-> CHOOSE d \in Orphan : TRUE, on |-> FALSE]
         /\ ~admissible[input[c].device] /\ ~relay[input[c].device]
  /\ edit = [e \in Edit |-> NoEdit] /\ crossed = {} /\ wandered = {}
  /\ built = IF scene = "gateway" THEN {} ELSE Home
  /\ devices = [t \in Thing |-> IF scene = "gateway" THEN NoRow ELSE KitRow(t)]
  /\ told = [h \in Home |-> ThingsIn(h)]

CommandScene == scene = "command" /\ UNCHANGED <<inventoryVars, gatewayVars, scene>>

\* Bound: once requests have crossed, those that run are the last.
InventoryScene ==
  /\ scene = "inventory" /\ UNCHANGED <<vars, gatewayVars, scene>>
  /\ \A t \in Thing : Still(t)
  /\ crossed # {} => \A e \in Edit : edit[e] = NoEdit => edit'[e] = NoEdit

GatewayScene ==
  /\ scene = "gateway" /\ UNCHANGED <<vars, scene>>
  /\ built' \subseteq {HomeA} /\ devices'[OtherHub] = devices[OtherHub]
  /\ \A e \in Edit : edit'[e] # NoEdit =>
       e = OneEdit /\ edit'[e].thing = Self /\ edit'[e].pc \in {"delete", "announce"}

HouseNext ==
  \/ scene = "command" /\ Next /\ CommandScene
  \/ scene = "inventory" /\ InventoryNext /\ InventoryScene
  \/ scene = "gateway" /\ GatewayNext /\ GatewayScene

\* BackendFairness, BrokerFairness and GatewayFairness, each in its scene.
HouseFairness ==
  /\ \A c \in Command :
       /\ WF_houseVars(scene = "command" /\ CallStep(c) /\ pc[c] # "idle" /\ CommandScene)
       /\ WF_houseVars(scene = "command" /\ AckTimer(c) /\ CommandScene)
       /\ WF_houseVars(scene = "command" /\ PubAck(c) /\ CommandScene)
  /\ WF_houseVars(scene = "command" /\ LinkUp /\ CommandScene)
  /\ WF_houseVars(scene = "gateway" /\ RefreshRegistry /\ GatewayScene)
  /\ WF_houseVars(scene = "gateway" /\ ConnectSub /\ GatewayScene)
  /\ WF_houseVars(scene = "gateway" /\ ConnectPub /\ GatewayScene)
  /\ WF_houseVars(scene = "gateway" /\ WifiReconnects /\ GatewayScene)
  /\ WF_houseVars(scene = "gateway" /\ PassTime /\ GatewayScene)
  /\ \A n \in Node :
       /\ WF_houseVars(scene = "gateway" /\ ForwardSensorData(n) /\ GatewayScene)
       /\ WF_houseVars(scene = "gateway" /\ SensorSends(n) /\ GatewayScene)

HouseSpec == HouseInit /\ [][HouseNext]_houseVars /\ HouseFairness

\* Types of the inventory and the firmware, and InventoryAgrees.
HouseAgrees == InventoryTypeOK /\ GatewayTypeOK /\ InventoryAgrees
=============================================================================
