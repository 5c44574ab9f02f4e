----------------------------- MODULE GatewayNode -----------------------------
(***************************************************************************)
(* The firmware of a gateway, firmware/gateway-node: one loop that keeps   *)
(* the connections up, passes on the readings of the sensors whose keys it *)
(* has, and fetches those keys from GET /api/device/sensors, which reads   *)
(* the table of Inventory.  What setup() does once, loop() repeats, except *)
(* for the clock.  Readings are genuine and in time (forged ones are in    *)
(* DeviceIngest); a message of QoS 0 is there or lost.                     *)
(***************************************************************************)
EXTENDS Inventory

CONSTANTS
  Self,          \* this gateway
  KnownSensors,  \* compiled into config_gw.h
  RegistryMax,   \* SENSOR_REGISTRY_MAX
  Lifetime,      \* SENSOR_REGISTRY_TTL_MS, in ticks
  MaxOutages     \* bound: lost connections, failed fetches and power cycles

ASSUME GatewayAssumption ==
  /\ Self \in Hub /\ KnownSensors \subseteq Node
  /\ RegistryMax \in Nat /\ Lifetime \in Nat \ {0} /\ MaxOutages \in Nat

VARIABLES
  wifi,        \* WiFi.status() = WL_CONNECTED
  synced,      \* ntpIsSynced
  linked,      \* connected to broker 1, where the sensors publish
  subscribed,  \* broker 1 has taken the subscription of this connection
  upstream,    \* connected to broker 2, where the backend listens
  fetched,     \* _hasFetched
  registry,    \* _entries
  age,         \* ticks since _lastFetchMs, Lifetime at most
  mailbox,     \* sensors of which a reading waits to be handled
  heard,       \* sensors whose reading went to the backend in this tick
  outages

gatewayVars == <<wifi, synced, linked, subscribed, upstream, fetched, registry, age,
                 mailbox, heard, outages>>
networkVars == <<wifi, synced, linked, subscribed, upstream>>
registryVars == <<fetched, registry, age>>

GatewayInit ==
  /\ wifi = TRUE /\ synced \in BOOLEAN
  /\ linked = FALSE /\ subscribed = FALSE /\ upstream = FALSE
  /\ fetched = FALSE /\ registry = {} /\ age = 0
  /\ mailbox = {} /\ heard = {} /\ outages = 0

\* sensors.routes.ts: the active sensors of this gateway and those of none.
Listed == {n \in Node : devices[n].status = "active" /\ devices[n].gateway \in {None, Self}}
-----------------------------------------------------------------------------
\* A bug to be caught: a list that was fetched is never fetched again.
MutRegistryNeedsRefresh == ~fetched

RegistryNeedsRefresh == fetched => age = Lifetime

\* A failed fetch or a lost connection that needs an outage of its own.
Outage == outages < MaxOutages /\ outages' = outages + 1

\* The first RegistryMax of the list are taken, in no order the query states.
FetchSucceeds ==
  /\ wifi /\ InTable(Self)
  /\ \E keys \in SUBSET Listed :
       /\ keys = Listed \/ Cardinality(keys) = RegistryMax
       /\ Cardinality(keys) <= RegistryMax
       /\ registry' = keys
  /\ fetched' = TRUE /\ age' = 0
  /\ UNCHANGED outages

\* Any answer but 200, or none: the next attempt waits, if there was a success.
FetchRefused ==
  /\ IF wifi /\ InTable(Self) THEN Outage ELSE UNCHANGED outages
  /\ age' = 0
  /\ UNCHANGED <<fetched, registry>>

\* The body does not parse, or is too long for the document of 4096 bytes: the
\* time of the fetch is not noted.
FetchGarbled ==
  /\ wifi /\ InTable(Self)
  /\ \/ Outage
     \/ Cardinality(Listed) > RegistryMax /\ UNCHANGED outages
  /\ UNCHANGED registryVars

FetchSensorList == FetchSucceeds \/ FetchRefused \/ FetchGarbled

\* loop(): wifiIsConnected, ntpIsSynced, registryNeedsRefresh.
RefreshRegistry ==
  /\ wifi /\ synced /\ RegistryNeedsRefresh
  /\ FetchSensorList
  /\ UNCHANGED <<inventoryVars, networkVars, mailbox, heard>>

\* onSensorMessage and forwardSensorData: without a clock or a key the reading
\* is dropped; for a sensor that is not known the list may be fetched first.
ForwardSensorData(n) ==
  /\ subscribed /\ n \in mailbox /\ mailbox' = mailbox \ {n}
  /\ IF synced /\ n \notin registry \cup KnownSensors /\ RegistryNeedsRefresh
     THEN FetchSensorList
     ELSE UNCHANGED <<registryVars, outages>>
  /\ heard' = IF synced /\ upstream /\ n \in registry' \cup KnownSensors
              THEN heard \cup {n} ELSE heard
  /\ UNCHANGED <<inventoryVars, networkVars>>

\* mqttSubConnect, of mqttClientMaintain: a subscription that fails is only
\* logged.  The link is kept, and while there is one nobody subscribes again.
ConnectSub ==
  /\ wifi /\ ~linked /\ linked' = TRUE
  /\ \/ subscribed' = TRUE /\ UNCHANGED outages
     \/ subscribed' = FALSE /\ Outage
  /\ UNCHANGED <<inventoryVars, wifi, synced, upstream, registryVars, mailbox, heard>>


\* mqttPubConnect.
ConnectPub ==
  /\ wifi /\ ~upstream /\ upstream' = TRUE
  /\ UNCHANGED <<inventoryVars, wifi, synced, linked, subscribed, registryVars, mailbox,
                 heard, outages>>

\* wifiMaintain.
WifiReconnects ==
  /\ ~wifi /\ wifi' = TRUE
  /\ UNCHANGED <<inventoryVars, synced, linked, subscribed, upstream, registryVars, mailbox,
                 heard, outages>>
-----------------------------------------------------------------------------
\* loop() of the sensor's firmware: every SEND_INTERVAL, to whoever subscribes.
SensorSends(n) ==
  /\ subscribed /\ mailbox' = mailbox \cup {n}
  /\ UNCHANGED <<inventoryVars, networkVars, registryVars, heard, outages>>

LoseConnection ==
  /\ Outage
  /\ \/ /\ wifi /\ wifi' = FALSE
        /\ linked' = FALSE /\ subscribed' = FALSE /\ upstream' = FALSE
     \/ /\ linked /\ linked' = FALSE /\ subscribed' = FALSE /\ UNCHANGED <<wifi, upstream>>
     \/ /\ upstream /\ upstream' = FALSE /\ UNCHANGED <<wifi, linked, subscribed>>
  /\ mailbox' = IF subscribed' THEN mailbox ELSE {}
  /\ UNCHANGED <<inventoryVars, synced, registryVars, heard>>

\* setup(): the clock is asked for here and never again.
PowerCycle ==
  /\ Outage
  /\ wifi' \in BOOLEAN /\ synced' \in {FALSE, wifi'}
  /\ linked' = FALSE /\ subscribed' = FALSE /\ upstream' = FALSE
  /\ fetched' = FALSE /\ registry' = {} /\ age' = 0
  /\ mailbox' = {}
  /\ UNCHANGED <<inventoryVars, heard>>

PassTime ==
  /\ age' = IF age < Lifetime THEN age + 1 ELSE age
  /\ heard' = {}
  /\ UNCHANGED <<inventoryVars, networkVars, fetched, registry, mailbox, outages>>

LoopStep ==
  RefreshRegistry \/ ConnectSub \/ ConnectPub \/ WifiReconnects

GatewayNext ==
  \/ LoopStep \/ LoseConnection \/ PowerCycle \/ PassTime
  \/ \E n \in Node : ForwardSensorData(n) \/ SensorSends(n)
  \/ InventoryNext /\ UNCHANGED gatewayVars

\* The loop comes round to each of its duties, the network comes back, and
\* sensors go on sending.
GatewayFairness ==
  /\ WF_gatewayVars(RefreshRegistry) /\ WF_gatewayVars(ConnectSub)
  /\ WF_gatewayVars(ConnectPub) /\ WF_gatewayVars(WifiReconnects)
  /\ WF_gatewayVars(PassTime)
  /\ \A n \in Node : /\ WF_gatewayVars(ForwardSensorData(n))
                     /\ WF_gatewayVars(SensorSends(n))

GatewaySpec ==
  InventoryInit /\ GatewayInit /\ [][GatewayNext]_<<inventoryVars, gatewayVars>>
    /\ GatewayFairness
-----------------------------------------------------------------------------
\* Types; links need Wi-Fi, a subscription needs its link, and a reading waits
\* only where it was subscribed to.
GatewayTypeOK ==
  /\ {wifi, synced, linked, subscribed, upstream, fetched} \subseteq BOOLEAN
  /\ (subscribed => linked) /\ (linked => wifi)
  /\ registry \subseteq Node /\ Cardinality(registry) <= RegistryMax
  /\ age \in 0..Lifetime /\ outages \in 0..MaxOutages
  /\ mailbox \subseteq Node /\ heard \subseteq Node
  /\ mailbox # {} => subscribed

Working == synced /\ InTable(Self) /\ Cardinality(Listed) <= RegistryMax

\* Connected where the sensors publish, but the subscription has failed.
Deaf == linked /\ ~subscribed

\* A gateway that has got the time and is in the inventory keeps up with it,
\* whatever else fails in between and whenever devices change: a listed sensor is
\* heard again and again unless the gateway is left deaf, which lasts until the
\* link is lost, and the key of a sensor that is listed no more does not stay,
\* unless the list is longer than the registry (sensor_registry.cpp:70,
\* main.cpp:59, forwarder.cpp:61, mqtt_client.cpp:69-74).
GatewayKeepsUp ==
  \A n \in Node :
    /\ []<>(Working /\ ~Deaf /\ n \in Listed => n \in heard)
    /\ []<>(Working /\ n \notin Listed => n \notin registry)
=============================================================================
