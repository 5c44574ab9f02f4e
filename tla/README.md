# Verification of the smart-home system

TLA+ models of the smart-home system in this repository (a Node/Express backend on
PostgreSQL and MQTT, a Flutter app, web consoles, ESP32 firmware), the TLC
configurations that check them on small instances, and theorems about them that
the TLAPS proof system checks for every instance.

Contents: [the system](#the-system) · [plan](#plan) · [models and
code](#models-and-code) · [runs](#runs) · [bounds](#bounds) · [fairness](#fairness) ·
[proofs](#proofs) · [findings](#findings) · [facts](#facts) · [not modelled](#not-modelled)

Run a check with `tlc -config MCDeviceCommand_safety.cfg MCDeviceCommand` and a
proof with `tlapm DeviceCommandProofs.tla`, inside this directory.

## The system

Sensors sign readings and send them to a gateway over a local MQTT broker; the
gateway checks them, signs them again and forwards them over a second broker to the
backend. The backend stores them, runs automation rules, commands relays through the
gateway, and serves three groups over HTTP and WebSocket: customers (app and
portal), operators and administrators (consoles).

The backend is one Node process. Its code runs to the next `await` without
interruption, so what interleaves are the stretches between database round trips,
MQTT callbacks and timers. Durable state is in PostgreSQL at READ COMMITTED, the rest
is in module-level variables that a restart loses. The app and the portals are single
threads too: what interleaves there are answers, events and timers. Backend paths below
are relative to `backend/src/modules` unless they begin elsewhere.

| Component (code) | State | Operations | Talks to | What is hard | What makes it correct | Module |
|---|---|---|---|---|---|---|
| Device commands (`devices/deviceCommand.service.ts`) | `device_commands`, `devices.power_state`; in memory `pendingAcks`, the MQTT link | `sendDeviceCommand`, ack handler, 5 s timer | broker, gateway, event bus; called by portal and automations | ack, timer, PUBACK and link loss race; duplicates; restart | one verdict per command, never revised; stored state follows the relay; every call answered | `DeviceCommand`, `CommandLedger` |
| Claiming and activation (`customer/claim`, `homes/activation.service.ts`, `dashboard/smart-homes`) | `smart_homes`, `smart_home_members`, `activation_tokens`, `activation_history` | claim, assign, issue, revoke, expire, create, suspend | PostgreSQL row locks | two claimants; codes revoked while in use; COMMIT whose answer is lost; parallel guesses | one owner, for good; a spent code bought its home; limits hold in parallel | `HomeClaim`, `HomeOwnership` |
| Sessions (`auth`, `customer/profile`) | `refresh_tokens`, `token_version` | login, exchange, logout, change of password | app | one token used twice; UPDATE against INSERT; old password | one live token per login; ended logins stay ended; a revocation reaches everything but what is issued behind it | `RefreshTokens` |
| Mobile session (`mobile/lib/core/network`, `features/auth`) | token in memory and in secure storage, one refresh in flight | login, refresh, logout, restart | sessions | answers lost, storage failing, app killed | two devices never share a login; single flight never looks like reuse | `MobileSession` |
| Live picture (`mobile/lib/core/realtime`, `features/shell`, `features/homes`) | socket with generations, poll timer, the switch on the screen | connect, back off, poll, catch up, switch, roll back | hub, REST | events, polls, rollbacks and late ends in any order | never both deaf and not polling; the screen comes to the server's state | `LiveHome` |
| Notifications (`notifications`, `customer/notifications`, `mobile/lib/features/notifications`) | `notifications`; list and badge on the phone | notify, read, mark one or all | hub, REST | optimistic marks against events and pages | list and badge agree with the rows | `Inbox` |
| Portal session (`frontend/packages/shared/auth`, `auth/auth.cookies.ts`) | cookie jar, `user`, page, `expiringRef`, `pendingLogoutRef` | start, login, logout, 401, redirect | backend, router | answers of an earlier session after the next login; guards against proxy | the cookie is the user's; no redirect loop | `PortalSession` |
| Automation (`automation/automationEngine.ts`, `customer/automation`) | `automation_rules`, `automation_history` | telemetry handler, schedule tick, edits | telemetry bus, device commands | copies of rules that are stale; overlapping handlers; ticks that miss or repeat a minute | once per minute; on edges and 60 s apart; nothing due is skipped | `AutomationEngine` |
| Suggestions (`ai`, `customer/suggestions`) | `recommendation_history`, `user_feedback` | find a habit, scan, accept, dismiss | automation rules | arithmetic on a circle; two answers; scan against new rules | a habit fits the log; one answer; one suggestion at a time and a day | `HabitPattern`, `HabitSuggestion` |
| Members (`customer/members`) | `smart_home_members`, `member_device_access` | invite, edit, remove, leave, accept, decline, guest expiry | hub, notifications | check-then-insert; edits of a stale row | one membership per person; a guest always has an end | `Members` |
| Realtime hub (`realtime/wsHub.ts`) | connections with a copy of their rights | authenticate, refresh, forward, close | bus, sessions, members | coalesced refreshes; closing between two awaits | copies follow the rows; revoked sessions are closed; limits | `WsHub` |
| OTA (`dashboard/firmware`, `simulator`) | `ota_jobs`, `ota_history`, `devices.firmware_version` | deploy, deliver, tick, finish, roll back | gateway commands | jobs with real and simulated rows; roll back between any two statements | a job says what its rows say; an outcome is final | `OtaDeployment` |
| Device authentication and ingestion (`services/mqttDataService.ts`, `middleware/validateDevice.ts`, `routes/devices.ts`) | `devices.status`, `fail_count`, `sensor_data` | ingest over MQTT and HTTP, block, unblock, delete | gateway, telemetry | counter raised and read by two statements; status read early | threshold failures in a row block; only the staff end a block, though a message admitted before it is still stored | `DeviceIngest` |
| Telemetry and monitor (`devices/telemetry.service.ts`, `devices/deviceMonitor.ts`) | `last_seen`; in memory the states of the last tick | hook of a reading, 15 s tick | bus, notifications | two observers of one transition | each change is announced, alternately; an outage is told | `DeviceMonitor` |
| Operator access and accounts (`dashboard/operator-access`, `access`, `dashboard/team`) | `operator_access_grants`, `users`, cookies | grant, self-service, revoke, lock, reset; guarded requests, legacy route | console routes that read home and grant; legacy routes beside them | limit per day in parallel; expiry between guard and write | limit holds; a write of the console was permitted during its request; a cookie of the console ends with its session | `OperatorAccess` |
| Inventory (`homes/provisioning.service.ts`, `dashboard/devices`, `dashboard/gateways`, `customer/devices`) | `devices`, `rooms`, `smart_homes` | kit, register, assign, switch on, remove | commands, firmware | read-then-write by overlapping requests | rooms, gateways and homes of a device fit; both homes are told | `Inventory` |
| Gateway firmware (`firmware/gateway-node`) | registry of keys, clock, Wi-Fi and two MQTT links | forward, refresh, reconnect | sensors, brokers, backend | keys that change; links lost; lists that do not fit | goes on forwarding what it should and forgets the rest | `GatewayNode` |

`PROJECT.json` lists every component with its status, the lines each definition stands
for, and the hazards of the code line by line with the properties that cover them.

## Plan

Steps 1–11 are done. What is left is at the end.

1. **Commands** – `CommandLedger` (abstract), `DeviceCommand`, proofs.
2. **Ownership** – `HomeOwnership` (abstract), `HomeClaim`, proofs.
3. **Sessions** – `RefreshTokens`, proofs; 4. `MobileSession` on top of them.
5. **Automation** – `AutomationEngine`, proofs; suggestions beside it.
6. **Rights** – `Members`, and `WsHub` which extends it with cached copies.
7. **The consoles' side** – `OtaDeployment`, `DeviceIngest` with `DeviceMonitor` on top,
   `OperatorAccess`.
8. **The house** – `Inventory`, and `GatewayNode` which extends it with the firmware.
9. **Screens** – `LiveHome`, `Inbox`; 10. `PortalSession`.
11. **Proofs** of every safety property of every run – `FleetProofs`, `RightsProofs`,
   `GatewayProofs`, `ClientsProofs`, and `SessionProofs` for both halves of 3 and 4.
12. *Left, models*: the rows of `sendGatewayCommand`, creating automation rules, the
    database's clock beside the backend's.

A component has a module, a component that works on another's state extends it, and MC
modules gather components whose questions belong together. Such a run has one variable
`scene` that says which part moves; the scenes share no state, so a run explores the sum
of their behaviours and not the product. No module has a RECURSIVE operator, so each can
be proved about.

## Models and code

Three conventions. A database statement outside a transaction, a wait and a callback are
steps of their own; code between them belongs to the step. A transaction's writes appear
at its commit and its row locks are explicit. Names are the code's. Operators that begin
with `Mut` are the faults with which each property is tried: the one named by a `mutants`
entry of `PROJECT.json` replaces the definition after it, and the run must then fail.
History variables are said to be so where they are declared; no action of the code depends
on one.

### CommandLedger, DeviceCommand

`CommandLedger` is the promise: a command is opened, may be carried out by the relay at
any time after that, and gets one verdict; "acked" needs the execution.

`DeviceCommand` is `sendDeviceCommand`. Each call walks through `pc`: `ReadDevice`
(guards on the device row), `InsertRow`, then `NoRoute`, `SimulatorAnswers` or
`PublishCommand` (entry in `pendingAcks`, timer armed), `PubAck` or `PublishFailed`
(the callback of `publish`), `MarkSent`, and one of `FinishTimeout`, `FinishError` or
`SetPower`, `MarkAcked`, `RereadDevice`, `Announce`. Callbacks and accidents interleave:
`HandleAck`, `AckTimer`, `DatabaseError`, `MarkCommandLost`, `LinkDown`, `LinkUp`,
`Restart`. The relay, outside the repository, executes or refuses what was published,
at any time, and its acks can be delivered again and again. Abstracted: topics and
signatures (an ack is genuine, refused or `invalid`), log entries and notifications.

### HomeOwnership, HomeClaim

`HomeOwnership`: a home is given away once; a call that is told it won did give it, in
that step; a call may also never learn what happened.

`HomeClaim` has two kinds of calls. A claim: `InsertPendingAttempt`,
`EnforceRateLimits`, `FindToken`, then a transaction `LockHome` (SELECT … FOR UPDATE),
`AssignOwner` (the guarded UPDATEs; no affected row rolls back) and `Commit`; a
refusal ends in `RecordFailure`. An assignment by an operator: `CheckUnclaimed` and the
same transaction. Beside them `CreateSmartHome`, `IssueActivationCode`,
`RevokeActivation`, `SetHomeStatus`, `Expire`, the ageing of attempts (`Grow`),
`QueryError`, `CommitUnheard` (committed, but the caller gets an error) and `Crash`
(every open transaction rolls back; PENDING rows remain).

### RefreshTokens, MobileSession

`RefreshTokens` is one customer. `Ask` puts a request into a call; a login runs
`VerifyCredentials`, `StartMobileSession` (insert), a refresh `FindRefreshToken` (row
lock, reuse and expiry) and `Rotate`; logout, logout everywhere, reuse and change of
password revoke with one UPDATE, split into `BeginSweep` (its snapshot) and `EndSweep`
(rows looked at again), because at READ COMMITTED what commits in between is not seen.

`MobileSession` puts devices on top: memory, disk and the shared refresh of
`api_client.dart`, with lost answers, storage that fails between memory and disk,
restarts of the app and requests from the portal.

### AutomationEngine, HabitPattern, HabitSuggestion

Every telemetry event has a handler: it reads the enabled rules into a copy, then for
each rule re-arms (`ConditionFails`) or claims the run by a conditional UPDATE
(`ClaimEdge`) that compares with the row of that moment. The schedule tick never overlaps
itself: `LoadSchedules`, `ClaimMinute` per due rule, `EndTick`; a slow command keeps it in
its loop while the clock goes on. Customers' edits read a row and later write every
column from that reading; administrators enable, disable and suspend; statements fail and
the backend restarts. The clock counts half minutes, the period of the tick.

`HabitPattern` is `findPattern` as a function on a circle of minutes. The order in which
the query returns events may decide ties, so it gives the set of all possible answers.
The median is described by places (how many dates lie below) and not by sorting.
`MinutesTurn` is about this arithmetic alone: the dates of the log given, the answers do
not depend on where the circle of minutes is cut. It says nothing of another time zone,
under which dates change too. `PatternFits` says that an answer has the events it claims.
`HabitSuggestion` is the job statement by statement (what is offered already, rules, the
day's limit, insert) beside answers, whose transaction locks the suggestion, and changes
of rules and devices.

### Members, WsHub

`Members` has one action per statement of `members.service.ts`; a request carries what it
has read, and its transaction appears at its commit (`CommitPatch`, `ActivateInvite`, …).
`WsHub` extends it: connections with their timers, limits and a copy of their user's
rights; `refreshHomes` splits into what the database reads and the assignment, and a
second request joins one that runs.

### OtaDeployment, DeviceIngest, DeviceMonitor, OperatorAccess

`OtaDeployment`: the request that deploys (one publish per gateway, its rows, closing
the job), the tick of the simulator over its rows, and a roll back, all statement by
statement with failures and restarts. `DeviceIngest`: a message reads its device, counts
or clears failures, blocks and stores, while the staff change the status of the device or delete
it. `DeviceMonitor` adds the tick and the heartbeat; time is counted in ticks.
`OperatorAccess`: grants with the transaction that locks the operator's row, requests of
the console whose guard reads account, home and grant before the write (`Authenticate`
and on), and the two legacy routes that do not: one changes the status of a device with a
cookie that carries no version (`AuthenticateLegacy`, `TokenHolds`) and reads no grant, one
sets a password and leaves the version (`ResetPassword`).

### Inventory, GatewayNode

`Inventory`: every request reads, then writes by one UPDATE; two overlap. What clients of
a home have been told is part of the state. `GatewayNode` is the loop of the firmware on
top of it: links, clock, the age of the registry, fetches that fail or do not fit. A
connection may come up without its subscription (`Deaf`), which the firmware logs and does
not repeat; it counts as one of the accidents that `MaxOutages` bounds. `GatewayKeepsUp`
asks that sensors are heard of a gateway that is not left so, and that keys go of any.

### LiveHome, Inbox, PortalSession

`LiveHome`: `WebSocketRealtimeSource` with the generation each callback belongs to, the
controller that polls while it is not connected, and one optimistic switch; the backend
is the hub's greeting and the three steps of the command. Left out: the list of homes,
rooms and telemetry, which are replaced in the same way; back-off times. The check
`_generation` in `stop()` appears as "built, and the latest".

`Inbox`: rows, events and one read at a time, whose list and count are two statements;
marks change the screen before the server agrees and put everything back when it does
not. The socket is up or down for both ends at once. Left out: the unread number of a
home's overview.

`PortalSession`: one document with its requests, the cookie jar and the proxy. A cookie
stands for the login that set it, a page for one of three kinds. An answer takes effect
on the jar in the step in which the code hears of it.

## Runs

| Run | Instance | What it asks |
|---|---|---|
| `command_safety` | 2 calls, one relay over MQTT or one simulated, 1 fault | registry exact (`PendingExact`), stored and announced state (`StateTracksRelay`, `PowerFollowsAck`), `CommandLedger` implemented (`LedgerSpec`) |
| `command_broker` (violation) | 1 call, only the backend is fair | does the five-second timer bound the call? |
| `claim_race` | 1 home, 2 users, 2 codes, 2 calls, all faults | homes, owners and codes agree (`HomesAgree`); `HomeOwnership` implemented |
| `claim_log` | 2 homes, 1 code, 2 calls, limits of 1, failing statements and crashes | the log tells the owner, limits hold, every call is answered |
| `clients` | four scenes, see below | refresh tokens; what the phone and a portal tab show and hold |
| `session_change` (violation) | 4 tokens, 4 requests | does a change of password end every session? |
| `mobile` | 2 devices, 4 requests, 3 tokens, everything that can happen to a device | `LoginIsKept`: what a device holds is live, one refresh at a time is enough, no two devices share a login |
| `automation` | four scenes | rules run when due and only then; habits, offers and answers |
| `rights` | four scenes | legal rows, bounded connections, copies that follow, revoked sessions closed |
| `rights_guests` (violation) | scene `edits`, 2 requests | does a guest always have a device? |
| `fleet` | five scenes | jobs, blocking, announcements, grants |
| `house` | three scenes | every call answered; rows and clients agree; the gateway keeps up |

The scenes:

| Run | Scene | Moves | Its properties |
|---|---|---|---|
| `clients` | tokens | `RefreshTokens`, 3 tokens, 3 requests, 1 change of password | `FamiliesSound`, `RevocationExact`, `EndedForGood`, `EveryCallAnswered` |
| | picture | `LiveHome`, 3 turns | `SourceSound` (never deaf without polling), `PictureSettles` |
| | inbox | `Inbox`, 2 notifications (one of another home), a page of 1, 2 marks, 3 taps | `InboxAgrees`, `InboxSettles` |
| | portal | `PortalSession`, 2 logins, 2 requests of pages, 5 visits | `CookieIsUsers`, `ComesToRest` |
| `automation` | sensor / schedule | one enabled rule, 2 handlers, 2 conditions, 3 minutes, 2 disturbances | `RulesKeepUp`, `RunsOnlyWhenDue` |
| | pattern | every log of 4 events on 3 dates, a day of 8 minutes | `MinutesTurn`, `PatternFits` |
| | suggestions | 1 habit at 3 minutes, 2 runs, 2 answers, 2 offers | `AnsweredOnce`, `NobodyIsPestered` |
| `rights` | invitations / edits | 3 rows, 2 requests, 1 disturbance | `EndsIffGuest`, `OneMembership`, `DeclineSparesMembers` |
| | connected / revoked | 2 connections, limits of 1, 1 revocation | `AuthLimit`, `NoTimerLeft`, `CopyFollows`, `RevokedIsClosed` |
| `fleet` | ota | 1 job, a simulated and a real target, 2 faults | `JobTellsRows`, `OutcomeIsFinal`, `OpenRowsEnd` |
| | ingest | 2 messages, a gateway and a sensor, threshold 2 | `BlockingIsExact`, types with the foreign keys |
| | monitor | 2 ticks, 1 skipped, 1 failure, window of 4 | `OutageIsTold`, `ChangesAreTold` |
| | grants / requests | 2 callers, 3 grants, limit of 1 | `GrantsHold`, `RightsMove` |
| `house` | command | 3 relays, one per route, 1 call, 2 faults | `EveryCallAnswered` |
| | inventory | 2 homes with a room each, 2 gateways, 2 nodes, 2 requests | `InventoryAgrees` |
| | gateway | a registry of 1, a lifetime of 2, 2 outages | `GatewayKeepsUp` |

Where a run's properties gather several, the MC module or the component defines the
conjunction under one name: `HouseAgrees`, `ScreensAgree`, `ScreensSettle`, `HomeTypeOK`,
`RightsTypeOK`, `FleetTypeOK`. Every safety property of a passing run is an invariant or
an action property, and excuses itself only by naming the case (`raced`, `overlapped`,
`lapse`, `astray`, `crossed`, `Forgotten`, …): these are the cases in which the code does
go wrong or lag behind, listed under [facts](#facts).

## Bounds

Two calls, requests or handlers are what it takes for every race in the backend: shared
state is written by single statements or under the lock of one row, and where there are
theorems they remove the bound. Three requests give the sessions a login, an exchange
and a sweep; the fourth in `session_change` and `mobile` is the change of password
beside a refresh. Limits are 1 or 2, so that they are reached; two connections at a
limit of 1 race for it. `MaxFaults`, `Faults`, `MaxDisturbances`, `MaxEvents`,
`MaxOutages`, `MaxEpoch`, `MaxClock`, `MaxTurns`, `MaxTaps`, `MaxVisits`, `MaxSkips`,
`MaxFailures`, `MaxRevocations`, `MaxGrant`, `MaxOffer` and `MaxLogins` bound counters
of what comes from outside: faults, edits, time, taps. `MaxClock = 6` is three whole
minutes of two ticks each. In `picture` three turns are enough for a stop with a late
end, a new start and a failure or a switch, that is for two generations and one accident.
Two notifications and a page of one put a row behind the page; five visits are a login,
a lock, a second login and two losses. Bounds that hide interleavings are named where
they stand (`InventoryScene`, `MonitorScene`, `InScene`, one read at a time in
`LiveHome` and `Inbox`). Symmetry is used only in runs without liveness. Deadlock is
checked where the system never stops by itself: in the runs of commands and claims and
in `house`; elsewhere the supply of requests and time ends.

## Fairness

Safety assumes none. Liveness assumes weak fairness of single steps:

- *Event loops.* A call that can go on does, and a timer that is due fires
  (`BackendFairness`, `HubFairness`, `OtaFairness`, `MonitorFairness`, the steps of the
  source and the controller in `HomeLiveFairness`, guards and answers in
  `PortalFairness`, the duties of `loop()` in `GatewayFairness`).
- *PostgreSQL* answers statements, and a statement blocked by a row lock runs once the
  lock is free (`HomeClaim!LiveSpec`, `CallStep` of `RefreshTokens`). Weak fairness is
  enough as each call competes for one lock, which nobody takes twice.
- *Other machines.* The MQTT client reconnects and a connected broker acknowledges a
  QoS 1 publish (`BrokerFairness`; `command_broker` shows that it cannot be dropped).
  The phone's TCP stack eventually notices a closed socket: the app has no ping of its
  own. Wi-Fi comes back and sensors go on sending (`GatewayFairness`). A request of the
  phone or the portal is answered or fails.
- `BusFollows` needs that a tick is over within the time in which a device goes from
  heard to offline: the instance has a window of 4 ticks and skips at most one.

Nothing is assumed of people, relays, acks in flight, or the arrival of calls.
`MobileSession`, `AutomationEngine`, `Members` and `Inventory` promise nothing eventually:
taps and telemetry are external, and `DueFires` is an invariant about finished ticks.

## Proofs

Eight modules prove every safety property that a passing run checks, invariants, action
properties and refinements alike, for any sets of calls, tokens, rules, devices,
connections and so on and any bounds; `PROJECT.json` lists the 55 theorems a reader
should know. Each rests on an inductive invariant, which is proved action by action.

| Module | Inductive invariant: what it adds to types and properties | Theorems |
|---|---|---|
| `DeviceCommandProofs` | `IInv`: `Progress` (what a call's position says of its row, outcome and publication), `AcksGenuine`, `OkWasExecuted` | types, registry, genuine acks, final verdicts, power and state tracking, refinement of `CommandLedger` |
| `HomeClaimProofs` | `IInv`: `ClaimPhases`, `Locked` (who holds a home's row), `CodesPlaced`, `Staged` (what a transaction has checked still holds when it commits) | types, one owner, code and owner, one open code, `HomesAlwaysAgree`, owner for good, refinement of `HomeOwnership`, limits, log |
| `SessionProofs` | `IInv`: `Phases`, `Locked`, `Families`, `Epochs`, `FamilyIsChain`, `Covered`; with devices `ClientInv`: `Served`, `Waits`, `Apart`, `Quiet` | types, chains with one live token, ended logins, nothing lost, reach of a sweep; no two devices share a login, and a device left alone keeps its own (`LoginsAreKept`) |
| `AutomationEngineProofs` | `IInv`: `FiredBefore`, `ArmedUnlessTrue`, `Untouched`, `AllHandled`, `Alone`, `Fresh`, `Tracked`; `SuggestionInv`: `OneRun`, `SeenByRun`, `RepliesFit`, `NothingMadeYet` | types, once a minute and on edges, due rules and tracked edges; one answer, nobody pestered; the arithmetic of habits turns with the minutes, and a habit fits the log |
| `RightsProofs` | `MembersInv`: `CallFits`; `HubInv`: `Fits`; `RightsInv` is both | legal rows, with and without the hub; types; bounded connections without timers left; declining spares members |
| `FleetProofs` | `OtaInv`: `NotBegun`, `Closing`, `RolledBackTogether`, `Lingering`; `IngestInv`: `HandlerFits`; `MonitorInv`: `OneTick`, `TickFits`, `AuditFits`; `OperatorInv`: `Unmade`, `Trusted`, `Revocations`, `Sessions`, `LocksFit` | jobs tell their rows, final outcomes, exact blocking, outages told, alternating log, daily limit, rights only move forward, types and foreign keys |
| `GatewayProofs` | `InventoryInv`: `RowsFit`, `RivalsCross`, `RequestFits`, `KitStays`, `AllNodesFollow`, `AllTold` | rooms, homes, gateways and what clients were told agree, for the component and for the run's scenes |
| `ClientsProofs` | `PortalInv`: `OnlyMe`, `Orderly`, `Numbered`; `PictureInv`: `Counted`, `Versions`, `Socket`, `Phased`; `BoxInv`: `ScreenTrue` (`Told`: `Ordered`, `Mirrors`, `Reaches`, `Badges`) | `ClientsAgree`: never deaf without polling, list and badge agree with the rows, the cookie is the user's |

Assumptions are those of the models and nothing else: `ConstantsAssumption` of
`DeviceCommand`, `HomeClaim`, `RefreshTokens` and `AutomationEngine`, `ActsAssumption`,
`PatternAssumption`, `SuggestionAssumption`, `MembersAssumption`, `WsHubAssumption`,
`OtaAssumption`, `IngestAssumption`, `MonitorAssumption`, `OperatorAssumption`,
`InventoryAssumption`, `GatewayAssumption`, `LiveHomeAssumption`, `InboxAssumption`,
`PortalAssumption`, and for what an MC module starts from `HomeAssumption`,
`SceneAssumption` and `HouseAssumption`. They say that bounds are naturals, that parts of
a set are its subsets, that `None`, `Nobody`, `Tick` and so on are no members of the sets
they stand beside, that sets which are counted are finite, that a match radius is less
than half a day and a day a multiple of the rounding (1440, 30 and 5 in the code), and
which kit the house begins with. TLC evaluates each in some run.

Why the strengthening is needed, in short.

- *Verdicts*: nothing in the rows alone says that no second writer is on its way;
  `Progress` does, since a row has a verdict only when its call is past every write.
- *Ownership*: the unguarded commit is right only because what it re-checked is protected
  by the lock; `Locked` and `Staged` say that.
- *Limits*: an attempt counts itself before it counts others, so of the attempts that were
  let through the last one to count saw all others; the proof turns this into a bound on a
  cardinality. For operators the row's lock does it: what was counted under the lock
  stays true until the insert (`Trusted`). Connections are counted and entered in one step
  of the event loop, so there the types and `Fits` are all it takes.
- *Log of a home*: without a lost COMMIT the row is the owner's witness (the theorem
  assumes `"commit" \notin Faults`).
- *Sweeps*: `Covered` follows a running UPDATE and says that its snapshot holds all it has
  to reach but what was issued behind it.
- *Devices*: `Apart` must speak of tokens held, sent and about to arrive, or the next
  answer breaks it; `Quiet` that a refresh in flight is about the token in memory.
- *Minutes, edges*: the last run of a rule bounds all minutes it was started in; a rule
  that may not fire is marked in its state, whatever stale copy a handler holds, as the
  claim re-reads it; undisturbed, a copy equals its row, and a minute that is over has
  been handled.
- *Offers*: what a run has read (no offer of today, none like the candidate) stays true
  until it inserts, as the run is alone and answers only close offers (`SeenByRun`).
- *Habits*: differences, days, medians and rounding are each shown to turn with the
  minutes, dates being fixed, with arithmetic of quotients and remainders as lemmas
  (`DivMod`, …). It is the rounding that needs the day to be a multiple of the step. That
  a habit fits its log needs the median to lie within the radius of the event the days
  were counted about (`MedianWithinRadius`).
- *Members*: a call that wrote without a lock may rely only on what it read
  (`CallFits`): a guest's end is safe, as it is written from the row it read together with
  the role; a guest's devices are not, see the third finding.
- *Jobs*: the request counts open rows several steps before it closes; it may, because rows
  that are not open never open again (`Closing`). `Lingering` names the job nobody closes.
- *Outages*: a tick knows one row of each device, and a device it has passed was told of or
  its gateway went too (`TickFits`). The log alternates as long as no tick failed.
- *House*: `RivalsCross` puts overlapping requests on record, so that a request on a device
  that is not crossed still finds what it read; `AllNodesFollow` is about all nodes,
  crossed ones included, as a gateway that moves must not leave one of another behind.
- *Live picture*: generations and versions stay within what taps have started (`Counted`),
  and each phase of a connection says whether a socket and a timer exist (`Phased`).
- *Notifications*: marks under way are ordered by the list each was tapped on; what is shown
  is the rows, less the events on their way, with the marks' ids read; the badge differs by
  exactly these. An event or a rollback shifts all of them together.
- *Portal*: while a document starts, `GET /me` is alone; beside a user no clearing of the
  cookie is under way (`Orderly`). The attempt to prove this found a case that the history
  variable `astray` had forgotten: a late `refreshUser` brings back a user who has gone,
  who logs out again while a login is under way. That login does not set things right, as
  the answer of the logout still takes the cookie; `SignedIn` now leaves `astray` alone then.

Only model-checked: the liveness properties (`EveryCallAnswered` and its parts,
`ScreensSettle`, `CopyFollows`, `RevokedIsClosed`, `OpenRowsEnd`, `GatewayKeepsUp` and
the part of `ChangesAreTold` about the bus), as fairness and ENABLED are outside the
prover, and the three counterexamples, which need no proof.

## Findings

Each is a violation run; `PROJECT.json` quotes the sentence and the line.

1. `command_broker`: "ack ≤ 5 s" – the timer does not cover the wait for the broker's PUBACK.
2. `session_change`: "a change of password revokes every session" – not that of a
   login which verified the old password and inserts its token after the UPDATE.
3. `rights_guests`: "a guest must have an end and devices" – `patchMember` checks the row
   it read; after another edit in between, a guest is left without a device.

## Facts

What the models had to allow, because the code does it; no run states the contrary.

- *Commands.* A command may be carried out after its caller was told "timeout"; overlapping
  commands to one relay may leave the stored state behind the relay's. The ack's field
  `power` is stored if there is one (`deviceCommand.service.ts:374`), and the signature
  does not cover it (`:162`).
- *Claims.* An error or a stop between the PENDING row and the verdict leaves the row
  PENDING; it counts as a failure until it ages out of the window.
- *Live picture.* The failed `ready` of an earlier generation sets the channel of the new
  one to null (`realtime_source.dart:135`), whose close is then ignored (`:186`): no
  reconnect and no polling, contrary to `:49`. The late `_setStatus(disconnected)` of
  `stop()` (`:242`) can land after the next start has connected; polling covers it. A
  rollback restores the old value although an event brought the same value meanwhile
  (`homes_providers.dart:249`). The catch-up of a connection is tried once. An older answer
  of REST can replace a newer event, and `refreshDevice` a pending switch. A home selected
  while `homes.refresh` waits jumps back.
- *Notifications.* Two overlapping marks that are refused leave one shown as read; what
  arrived meanwhile vanishes until the next read. List and count of a page are read apart,
  so an event can be counted twice. Marks made in the portal reach the phone with the next
  read only. With nothing unread on the page a badge of older rows cannot be cleared.
- *Portal.* A 401 of an earlier session that arrives after the next login ends that one
  (`login` resets `expiringRef`). A late `refreshUser` shows a user who has logged out. A
  cookie that another tab removed leaves guard and proxy at odds until a 401. A logout
  without network leaves the cookie, so that a reload logs in again.
- *Inventory.* Two moves at once can give a home two gateways (`sensors.routes.ts:24`: one
  per home); a gateway that is moved leaves nodes behind that point to it; a change of
  home beside a change of room can leave a device in a room of another home.
- *Firmware.* The back-off after a failed fetch does not work before the first success
  (`sensor_registry.cpp:71`) or after a body that does not parse (`:50`); the time is asked
  for in `setup()` only; a list of more than 4096 bytes never parses; a subscription that
  fails (`mqtt_client.cpp:69`) is not repeated while the link is up, so that the gateway
  is deaf until the link is lost.
- *Operators.* `PATCH /api/devices/:id/status` lets an operator change the status of any
  device without a grant (`routes/devices.ts:205`), and its cookie `token` is checked for
  the account but not for `token_version` (`verifyJWT.ts:50`): it is good again after an
  unlock. `PATCH /api/users/:id/password` (`routes/users.ts:86`) does not raise
  `token_version`, so cookies of the console survive it, unlike a new password of the team
  page.
- *Jobs.* A job with one failed row and one applied later stays `running`
  (`simulator.ts:203` against `ota.repository.ts:170`); the tick writes `firmware_version`
  of a row that was rolled back meanwhile (`simulator.ts:255`).
- *Habits.* `findPattern` tries only minutes at which something happened. It counts local
  dates (`habitSuggestion.job.ts:77`, `:110`), so a habit about midnight loses some: at
  23:58 on the first, 00:02 on the third and 23:58 on the third are two dates, not three.
- *Minutes.* A tick that takes longer than a minute skips the minutes in between; a
  rule whose UPDATE fails misses its minute unless a second tick falls into it.

## Not modelled

- The rows of `sendGatewayCommand`, which nobody waits for; the account's daily limit of
  claims (the shape of the 15-minute one); renaming; creating rules, moving them between
  kinds, and the database's clock beside the backend's; access tokens (signed values); the
  app's retry of a refused request and its check at start; uploading firmware files.
- Retention deletes by age what nothing refers to; logs, statistics and the timeline are
  append-only writes whose errors are swallowed, and queries. Validation, formatting,
  routing and the types of the interface have no state. The app's screens, its mock
  backend and the pages of the consoles show what the models of the clients hold. The seed
  and the random readings of the simulator are data. Infrastructure, contracts and the
  vendor's display demos are not part of the running logic; the schema's indexes and
  triggers enter the models where they decide.
- Most lines of the repository are of these kinds, which is why the map covers a small
  part of them.
- Small liberties: `MarkHistory` is one UPDATE, where more than 500 targets take several
  (`ota.repository.ts:146`); `ReadHomes` is one read for the queries of `loadHomes`; a
  session check whose query fails waits for the next (`wsHub.ts:295`); in `DeviceIngest`
  and the hook of `DeviceMonitor` no statement fails and nothing stops between two of them,
  so neither does the UPDATE of `last_seen`, nor is a device left unblocked after its
  counter was raised; an ack carries no other power than was asked. Console routes
  that need no grant (restart of a gateway, the simulator) are left out.
- Cryptography is a relation (an ack, a digest or a token is genuine or not); messages
  carry only what properties distinguish; texts, logs and layout are absent.
