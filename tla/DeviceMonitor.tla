--------------------------- MODULE DeviceMonitor ---------------------------
(***************************************************************************)
(* deviceMonitor.ts beside the readings of DeviceIngest and the heartbeat  *)
(* of simulator.ts: every 15 s a tick compares who is online with the tick *)
(* before, and announces the changes on the bus, in the log and to the     *)
(* members of the home.  The hook of a reading announces arrivals as well. *)
(* Time passes when the timer fires; all devices are in a home.  The       *)
(* UPDATE of last_seen that follows the hook is taken to succeed.          *)
(***************************************************************************)
EXTENDS DeviceIngest

CONSTANTS
  Tick,         \* ticks that could run at the same time
  MaxSkips,     \* bound: firings between two SELECTs that start none or fail
  MaxFailures   \* bound: ticks that fail, and restarts

\* Six ticks make a window; ticks that are skipped or fail until a device could
\* go offline and come back unseen are not modelled.
ASSUME MonitorAssumption ==
  /\ MaxSkips \in Nat /\ MaxFailures \in Nat
  /\ Window > 2 * MaxSkips + 1

VARIABLES
  previous,   \* [Device -> "unknown", "on" or "off"], previousState
  running,    \* the flag of that name
  ticks,      \* [Tick -> the local variables of a tick]
  skips, failures,
  audit,      \* [Device -> what the log said last]
  lost        \* devices of which a change was noted and then not announced

monitorVars == <<previous, running, ticks, skips, failures, audit, lost>>
allMonitorVars == <<ingestVars, monitorVars>>

NoTick == [pc |-> "idle", current |-> {}, rows |-> {}, todo |-> {}, told |-> {}]

\* startDeviceMonitor starts the first tick at once.
FirstTicks ==
  [k \in Tick |->
    IF k = CHOOSE j \in Tick : TRUE THEN [NoTick EXCEPT !.pc = "select"] ELSE NoTick]

MonitorInit ==
  /\ previous = [d \in Device |-> "unknown"]
  /\ running = TRUE
  /\ ticks = FirstTicks
  /\ skips = 0 /\ failures = 0
  /\ audit = [d \in Device |-> "unknown"]
  /\ lost = {}

GatewayOfSensor(d) == IF d \in SensorDevice THEN GatewayDevice ELSE {}
Present == {d \in Device : Exists(d)}
-----------------------------------------------------------------------------
\* A bug to be caught: a tick does not look whether the one before is over.
MutMayStart(k) == TRUE

MayStart(k) == ~running

\* setInterval fires: time has passed, and a tick starts unless one is running.
\* The one SELECT a tick starts with takes less than the interval.
TimerFires ==
  /\ \A k \in Tick : ticks[k].pc # "select"
  /\ age' = [d \in Device |-> IF age[d] < Window THEN age[d] + 1 ELSE Window]
  /\ \/ \E k \in Tick :
          /\ ticks[k].pc = "idle" /\ MayStart(k)
          /\ k = CHOOSE j \in Tick : ticks[j].pc = "idle"
          /\ running' = TRUE
          /\ ticks' = [ticks EXCEPT ![k].pc = "select"]
          /\ UNCHANGED skips
     \/ /\ running /\ skips < MaxSkips
        /\ skips' = skips + 1
        /\ UNCHANGED <<running, ticks>>
  /\ UNCHANGED <<status, failCount, provisioned, readings, handler, deleting, shown,
                 previous, failures, audit, lost>>

EndTick(k) == running' = FALSE /\ ticks' = [ticks EXCEPT ![k] = NoTick]

OnOff(online) == IF online THEN "on" ELSE "off"

\* A bug to be caught: the state is noted when a change has been announced.
MutNoted(d) == IF previous[d] = "unknown" THEN OnOff(IsOnline(d)) ELSE previous[d]

\* previousState after the SELECT of a tick; devices that are gone leave it.
Noted(d) == IF Exists(d) THEN OnOff(IsOnline(d)) ELSE "unknown"

\* The SELECT of all devices: who has changed since the last tick.  The first
\* tick only notes the state.
SelectSeen(k) ==
  LET changed == {d \in Present : previous[d] \notin {"unknown", OnOff(IsOnline(d))}} IN
  /\ ticks[k].pc = "select"
  /\ previous' = [d \in Device |-> Noted(d)]
  /\ IF changed = {}
     THEN EndTick(k)
     ELSE /\ ticks' = [ticks EXCEPT ![k] = [@ EXCEPT
                 !.pc = "rows", !.current = {d \in Present : IsOnline(d)},
                 !.todo = changed]]
          /\ UNCHANGED running
  /\ skips' = 0
  /\ UNCHANGED <<ingestVars, failures, audit, lost>>

\* listDeviceRowsByIds: the changed rows are read a second time.
ReadChanged(k) ==
  LET found == ticks[k].todo \cap Present IN
  /\ ticks[k].pc = "rows"
  /\ ticks' = [ticks EXCEPT ![k] = [@ EXCEPT
       !.pc = "announce", !.todo = found,
       !.rows = {[device |-> d, online |-> IsOnline(d), active |-> status[d] = "active"]
                 : d \in found}]]
  /\ UNCHANGED <<ingestVars, previous, running, skips, failures, audit, lost>>

\* A bug to be caught: any change of the gateway in this tick silences its nodes.
MutFollows(k, d) == \E r \in ticks[k].rows : r.device \in GatewayOfSensor(d)

\* The gateway changed in the same tick and in the same direction.
Follows(k, d) ==
  \E r \in ticks[k].rows :
    /\ r.device \in GatewayOfSensor(d)
    /\ r.device \in ticks[k].current <=> d \in ticks[k].current

\* announceTransition: the bus tells what the second read saw, the log and the
\* notification what the first one saw.
AnnounceTransition(k) ==
  /\ ticks[k].pc = "announce"
  /\ \E r \in ticks[k].rows :
       LET d == r.device IN
       /\ d \in ticks[k].todo
       /\ shown' = [shown EXCEPT ![d] = r.online]
       /\ audit' = [audit EXCEPT ![d] = OnOff(d \in ticks[k].current)]
       /\ lost' = lost \ {d}
       /\ ticks' = [ticks EXCEPT
            ![k].todo = @ \ {d},
            ![k].told = IF r.active /\ ~Follows(k, d) THEN @ \cup {d} ELSE @]
  /\ UNCHANGED <<status, failCount, age, provisioned, readings, handler, deleting,
                 previous, running, skips, failures>>

FinishTick(k) ==
  /\ ticks[k].pc = "announce" /\ ticks[k].todo = {}
  /\ EndTick(k)
  /\ UNCHANGED <<ingestVars, previous, skips, failures, audit, lost>>

\* A query fails.  After the first SELECT the changes have been noted already,
\* and the next tick does not see them any more; as long as the first tick has
\* not succeeded, nothing has been noted to compare with.
MonitorFails(k) ==
  /\ failures < MaxFailures /\ failures' = failures + 1
  /\ \/ ticks[k].pc = "select" /\ skips < MaxSkips /\ skips' = skips + 1
     \/ ticks[k].pc = "rows" /\ UNCHANGED skips
  /\ lost' = lost \cup ticks[k].todo \cup {d \in Device : previous[d] = "unknown"}
  /\ EndTick(k)
  /\ UNCHANGED <<ingestVars, previous, audit>>

\* The process starts again; clients connect again and read the devices.
RestartBackend ==
  /\ failures < MaxFailures /\ failures' = failures + 1
  /\ previous' = [d \in Device |-> "unknown"]
  /\ running' = TRUE /\ skips' = 0
  /\ ticks' = FirstTicks
  /\ audit' = [d \in Device |-> "unknown"]
  /\ lost' = {}
  /\ handler' = [m \in Message |-> Idle]
  /\ deleting' = [d \in Device |-> 0]
  /\ shown' = [d \in Device |-> IsOnline(d)]
  /\ UNCHANGED <<status, failCount, age, provisioned, readings>>

\* runSimulatedHeartbeat writes last_seen and announces nothing.  It runs 2 s
\* after the start for the first time, when the first tick has seen the devices.
RunSimulatedHeartbeat ==
  /\ \A k \in Tick :
       ticks[k].pc = "select" => \E d \in Device : previous[d] # "unknown"
  /\ \E alive \in (SUBSET Present) \ {{}} :
       /\ age' = [d \in Device |-> IF d \in alive THEN 0 ELSE age[d]]
       /\ provisioned' = provisioned \cup alive
  /\ UNCHANGED <<status, failCount, readings, handler, deleting, shown, monitorVars>>

TickStepOf(k) == SelectSeen(k) \/ ReadChanged(k) \/ AnnounceTransition(k) \/ FinishTick(k)

MonitorNext ==
  \/ TimerFires \/ RestartBackend \/ RunSimulatedHeartbeat
  \/ \E k \in Tick : TickStepOf(k) \/ MonitorFails(k)
  \/ IngestNext /\ UNCHANGED monitorVars

\* The timer fires for ever, and statements return.
MonitorFairness ==
  /\ WF_allMonitorVars(TimerFires)
  /\ \A k \in Tick : WF_allMonitorVars(TickStepOf(k))
  /\ \A m \in Message : WF_allMonitorVars(HandlerStep(m) /\ UNCHANGED monitorVars)
-----------------------------------------------------------------------------
TickRecord == [pc : {"idle", "select", "rows", "announce"}, current : SUBSET Device,
               rows : SUBSET [device : Device, online : BOOLEAN, active : BOOLEAN],
               todo : SUBSET Device, told : SUBSET Device]

\* Types; the flag is up while a tick runs, ticks do not overlap, and a tick
\* announces rows it has read (deviceMonitor.ts:95-142).
MonitorTypeOK ==
  /\ previous \in [Device -> {"unknown", "on", "off"}]
  /\ running \in BOOLEAN
  /\ ticks \in [Tick -> TickRecord]
  /\ skips \in 0..MaxSkips /\ failures \in 0..MaxFailures
  /\ audit \in [Device -> {"unknown", "on", "off"}]
  /\ lost \subseteq Device
  /\ \A k \in Tick : ticks[k].pc # "idle" => running
  /\ \A j, k \in Tick : ticks[j].pc # "idle" /\ ticks[k].pc # "idle" => j = k
  /\ \A k \in Tick : ticks[k].pc = "announce" =>
       ticks[k].todo \subseteq {r.device : r \in ticks[k].rows}

\* The log of a device alternates: it never says twice in a row that a device
\* went offline, or came online, unless a failing tick lost the change between
\* (deviceMonitor.ts:106-115).
LogAlternates ==
  [][\A d \in Device, k \in Tick :
       ticks[k].pc = "announce" /\ d \in ticks[k].todo \ ticks'[k].todo /\ failures' = 0
         => audit'[d] # audit[d]]_allMonitorVars

\* When a tick is over, the members have been told of every active device that
\* went offline, or of its gateway in its place; except when that gateway is
\* itself not active, for then nobody is told of either
\* (deviceMonitor.ts:56, 121-132).
OutageIsTold ==
  \A k \in Tick : ticks[k].pc = "announce" /\ ticks[k].todo = {} =>
    \A r \in ticks[k].rows : r.active /\ r.device \notin ticks[k].current =>
      \/ r.device \in ticks[k].told
      \/ \E q \in ticks[k].rows :
           /\ q.device \in GatewayOfSensor(r.device) \ ticks[k].current
           /\ q.device \in ticks[k].told \/ ~q.active

\* When a device stays online, or stays offline, the last event on the bus says
\* so in the end, although the hook of a reading and the tick announce from
\* rows they read at different times; unless a failing query lost the change
\* (deviceMonitor.ts:118-132, telemetry.service.ts:84-100).
BusFollows ==
  \A d \in Device, b \in BOOLEAN :
    <>[](Exists(d) /\ IsOnline(d) = b) => <>[](shown[d] = b \/ d \in lost)

\* What the tick tells of a device, in the log and on the bus, follows the
\* device.
ChangesAreTold == LogAlternates /\ BusFollows
=============================================================================
