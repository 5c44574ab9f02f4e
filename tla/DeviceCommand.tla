---------------------------- MODULE DeviceCommand ----------------------------
(***************************************************************************)
(* Switching a relay: sendDeviceCommand and the acknowledgement registry   *)
(* of backend/src/modules/devices/deviceCommand.service.ts.                *)
(*                                                                         *)
(* A call reads the device row, inserts a device_commands row, publishes   *)
(* the command over MQTT (QoS 1), waits at most five seconds for the ack   *)
(* and then writes the verdict.  Every database round trip and every wait  *)
(* is a step of its own, so the steps of concurrent calls, acks, timers,   *)
(* link losses, database errors and a restart of the backend interleave.   *)
(*                                                                         *)
(* The relay, the broker and the mqtt.js client are outside the            *)
(* repository: they are modelled from how the service uses them.           *)
(***************************************************************************)
EXTENDS Naturals

CONSTANTS
  Command,    \* calls of sendDeviceCommand; also names their rows and uuids
  Device,     \* relays
  Simulated,  \* relays with is_simulated, while the simulator has its handler
  Orphan,     \* relays with no gateway or whose gateway has no secret
  MaxFaults   \* bound: database errors, link losses and restarts per run

ASSUME ConstantsAssumption ==
  /\ Simulated \subseteq Device
  /\ Orphan \subseteq Device
  /\ MaxFaults \in Nat

VARIABLES
  input,       \* what each call asks for: a device and on/off
  admissible,  \* device row: active, online, and its home not suspended
  power,       \* devices.power_state
  rows,        \* device_commands.status
  pc,          \* where each call is
  outcome,     \* the value the call's AckOutcome promise was settled with
  pendingAcks, \* keys of the pendingAcks map
  published,   \* commands handed to the MQTT client
  link,        \* commandClient.connected
  acks,        \* acks on their way to the backend
  relay,       \* physical state of the relays
  executed,    \* commands a relay has carried out
  snapshot,    \* power_state re-read by each call after its ack
  shown,       \* power in the last device_state event of each device
  overlapped,  \* history: calls that ran beside another of their device
  faults

dbVars == <<power, rows>>
deviceVars == <<relay, executed, acks>>
busVars == <<snapshot, shown>>
vars == <<input, admissible, power, rows, pc, outcome, pendingAcks, published,
          link, acks, relay, executed, snapshot, shown, overlapped, faults>>

Input == [device : Device, on : BOOLEAN]
Ack == [command : Command, kind : {"ok", "error", "invalid"}]

Waiting == {"publishing", "marking", "waiting"}
Live == Waiting \cup {"admitted", "loading", "simulating", "powered", "acked",
                      "announcing"}
Ended == {"refused", "timedout", "failed", "done", "errored", "lost"}
Final == {"acked", "failed", "timeout"}

Goto(c, label) == pc' = [pc EXCEPT ![c] = label]

OnDevice(d) == {c \in Command : input[c].device = d}
LiveOn(d) == {c \in OnDevice(d) : pc[c] \in Live}

Init ==
  /\ input \in [Command -> Input]
  /\ admissible \in [Device -> BOOLEAN]
  /\ relay \in [Device -> BOOLEAN]
  /\ power = relay
  /\ shown = relay
  /\ rows = [c \in Command |-> "none"]
  /\ pc = [c \in Command |-> "idle"]
  /\ outcome = [c \in Command |-> "none"]
  /\ snapshot = [c \in Command |-> FALSE]
  /\ pendingAcks = {}
  /\ published = {}
  /\ link = TRUE
  /\ acks = {}
  /\ executed = {}
  /\ overlapped = {}
  /\ faults = 0

-----------------------------------------------------------------------------
(***************************************************************************)
(* The call                                                                *)
(***************************************************************************)

\* getDeviceRow and the guards: one SELECT, judged at that moment only.
ReadDevice(c) ==
  LET d == input[c].device IN
  /\ pc[c] = "idle"
  /\ IF admissible[d]
       THEN /\ Goto(c, "admitted")
            /\ overlapped' = IF LiveOn(d) = {} THEN overlapped
                             ELSE overlapped \cup LiveOn(d) \cup {c}
       ELSE /\ Goto(c, "refused")
            /\ UNCHANGED overlapped
  /\ UNCHANGED <<input, admissible, dbVars, outcome, pendingAcks, published,
                 link, deviceVars, busVars, faults>>

\* insertCommandRow, then the choice of the simulated or the MQTT path.
InsertRow(c) ==
  /\ pc[c] = "admitted"
  /\ rows' = [rows EXCEPT ![c] = "pending"]
  /\ Goto(c, IF input[c].device \in Simulated THEN "simulating" ELSE "loading")
  /\ UNCHANGED <<input, admissible, power, outcome, pendingAcks, published,
                 link, deviceVars, busVars, overlapped, faults>>

\* No gateway, no secret, or the broker is down: the outcome is a timeout.
NoRoute(c) ==
  /\ pc[c] = "loading"
  /\ input[c].device \in Orphan \/ ~link
  /\ outcome' = [outcome EXCEPT ![c] = "timeout"]
  /\ Goto(c, "waiting")
  /\ UNCHANGED <<input, admissible, dbVars, pendingAcks, published, link,
                 deviceVars, busVars, overlapped, faults>>

\* registerPending before client.publish, in one turn of the event loop.
PublishCommand(c) ==
  /\ pc[c] = "loading"
  /\ input[c].device \notin Orphan
  /\ link
  /\ pendingAcks' = pendingAcks \cup {c}
  /\ published' = published \cup {c}
  /\ Goto(c, "publishing")
  /\ UNCHANGED <<input, admissible, dbVars, outcome, link, deviceVars, busVars,
                 overlapped, faults>>

\* The publish callback runs without an error: PUBACK came from the broker.
PubAck(c) ==
  /\ pc[c] = "publishing"
  /\ link
  /\ Goto(c, "marking")
  /\ UNCHANGED <<input, admissible, dbVars, outcome, pendingAcks, published,
                 link, deviceVars, busVars, overlapped, faults>>

\* The publish callback runs with an error: waiter.cancel, PUBLISH_FAILED even
\* if the promise was already settled.
PublishFailed(c) ==
  /\ pc[c] = "publishing"
  /\ faults < MaxFaults
  /\ faults' = faults + 1
  /\ pendingAcks' = pendingAcks \ {c}
  /\ outcome' = [outcome EXCEPT ![c] = "timeout"]
  /\ Goto(c, "waiting")
  /\ UNCHANGED <<input, admissible, dbVars, published, link, deviceVars,
                 busVars, overlapped>>

\* Faulty variant: markCommand(sent) is not awaited, it may land at any time.
MutMarkSentNotAwaited(c) ==
  /\ c \in published
  /\ rows' = [rows EXCEPT ![c] = "sent"]
  /\ IF pc[c] = "marking" THEN Goto(c, "waiting") ELSE UNCHANGED pc
  /\ UNCHANGED <<input, admissible, power, outcome, pendingAcks, published,
                 link, deviceVars, busVars, overlapped, faults>>

\* markCommand(sent) is awaited before the outcome is looked at.
MarkSent(c) ==
  /\ pc[c] = "marking"
  /\ rows' = [rows EXCEPT ![c] = "sent"]
  /\ Goto(c, "waiting")
  /\ UNCHANGED <<input, admissible, power, outcome, pendingAcks, published,
                 link, deviceVars, busVars, overlapped, faults>>

\* runSimulated: the handler answers; a restarting gateway answers "error".
SimulatorAnswers(c) ==
  /\ pc[c] = "simulating"
  /\ \/ /\ outcome' = [outcome EXCEPT ![c] = "ok"]
        /\ relay' = [relay EXCEPT ![input[c].device] = input[c].on]
        /\ executed' = executed \cup {c}
     \/ /\ outcome' = [outcome EXCEPT ![c] = "error"]
        /\ UNCHANGED <<relay, executed>>
  /\ Goto(c, "waiting")
  /\ UNCHANGED <<input, admissible, dbVars, pendingAcks, published, link, acks,
                 busVars, overlapped, faults>>

\* runSimulated: the five seconds are over first.
SimulatorTooLate(c) ==
  /\ pc[c] = "simulating"
  /\ outcome' = [outcome EXCEPT ![c] = "timeout"]
  /\ Goto(c, "waiting")
  /\ UNCHANGED <<input, admissible, dbVars, pendingAcks, published, link,
                 deviceVars, busVars, overlapped, faults>>

\* Faulty variant: the timer settles the promise but keeps the map entry.
MutAckTimerKeepsEntry(c) ==
  /\ c \in pendingAcks
  /\ outcome' = [outcome EXCEPT ![c] = "timeout"]
  /\ UNCHANGED <<input, admissible, dbVars, pc, pendingAcks, published, link,
                 deviceVars, busVars, overlapped, faults>>

\* Faulty variant: the timer forgets the call without settling its promise.
MutAckTimerNotSettling(c) ==
  /\ c \in pendingAcks
  /\ pendingAcks' = pendingAcks \ {c}
  /\ UNCHANGED <<input, admissible, dbVars, pc, outcome, published, link,
                 deviceVars, busVars, overlapped, faults>>

\* The ACK_TIMEOUT_MS timer of registerPending.
AckTimer(c) ==
  /\ c \in pendingAcks
  /\ pendingAcks' = pendingAcks \ {c}
  /\ outcome' = [outcome EXCEPT ![c] = "timeout"]
  /\ UNCHANGED <<input, admissible, dbVars, pc, published, link, deviceVars,
                 busVars, overlapped, faults>>

\* Faulty variant: any usable ack counts as a success, its status is not read.
MutHandleAckStatusIgnored(m) ==
  /\ link
  /\ m \in acks
  /\ acks' \in {acks, acks \ {m}}
  /\ IF m.command \in pendingAcks /\ m.kind # "invalid"
       THEN /\ pendingAcks' = pendingAcks \ {m.command}
            /\ outcome' = [outcome EXCEPT ![m.command] = "ok"]
       ELSE UNCHANGED <<pendingAcks, outcome>>
  /\ UNCHANGED <<input, admissible, dbVars, pc, published, link, relay,
                 executed, busVars, overlapped, faults>>

\* handleAckMessage.  QoS 1: a message may be delivered again.  An ack that is
\* unknown or late, or fails a check ("invalid"), is ignored and leaves the
\* entry waiting.  An ack's power, if any, is what its command asked for.
HandleAck(m) ==
  /\ link
  /\ m \in acks
  /\ acks' \in {acks, acks \ {m}}
  /\ IF m.command \in pendingAcks /\ m.kind # "invalid"
       THEN /\ pendingAcks' = pendingAcks \ {m.command}
            /\ outcome' = [outcome EXCEPT ![m.command] = m.kind]
       ELSE UNCHANGED <<pendingAcks, outcome>>
  /\ UNCHANGED <<input, admissible, dbVars, pc, published, link, relay,
                 executed, busVars, overlapped, faults>>

\* The outcome is a timeout: markCommand(timeout), 504 TIMEOUT.
FinishTimeout(c) ==
  /\ pc[c] = "waiting"
  /\ outcome[c] = "timeout"
  /\ rows' = [rows EXCEPT ![c] = "timeout"]
  /\ Goto(c, "timedout")
  /\ UNCHANGED <<input, admissible, power, outcome, pendingAcks, published,
                 link, deviceVars, busVars, overlapped, faults>>

\* The device reported an error: markCommand(failed), 502 COMMAND_FAILED.
FinishError(c) ==
  /\ pc[c] = "waiting"
  /\ outcome[c] = "error"
  /\ rows' = [rows EXCEPT ![c] = "failed"]
  /\ Goto(c, "failed")
  /\ UNCHANGED <<input, admissible, power, outcome, pendingAcks, published,
                 link, deviceVars, busVars, overlapped, faults>>

\* Faulty variant: the new state is written before an ack has come.
MutSetPowerOptimistic(c) ==
  /\ pc[c] = "waiting"
  /\ outcome[c] \in {"ok", "none"}
  /\ power' = [power EXCEPT ![input[c].device] = input[c].on]
  /\ Goto(c, "powered")
  /\ UNCHANGED <<input, admissible, rows, outcome, pendingAcks, published,
                 link, deviceVars, busVars, overlapped, faults>>

\* Ack ok: UPDATE devices SET power_state = outcome.power ?? (what was asked).
\* An ack is taken to carry no other power than was asked; its signature does
\* not cover that field (deviceCommand.service.ts:162).
SetPower(c) ==
  /\ pc[c] = "waiting"
  /\ outcome[c] = "ok"
  /\ power' = [power EXCEPT ![input[c].device] = input[c].on]
  /\ Goto(c, "powered")
  /\ UNCHANGED <<input, admissible, rows, outcome, pendingAcks, published,
                 link, deviceVars, busVars, overlapped, faults>>

\* UPDATE device_commands SET status = 'acked'.
MarkAcked(c) ==
  /\ pc[c] = "powered"
  /\ rows' = [rows EXCEPT ![c] = "acked"]
  /\ Goto(c, "acked")
  /\ UNCHANGED <<input, admissible, power, outcome, pendingAcks, published,
                 link, deviceVars, busVars, overlapped, faults>>

\* getDeviceRow again; its answer may arrive after that of a later query.
RereadDevice(c) ==
  /\ pc[c] = "acked"
  /\ snapshot' = [snapshot EXCEPT ![c] = power[input[c].device]]
  /\ Goto(c, "announcing")
  /\ UNCHANGED <<input, admissible, dbVars, outcome, pendingAcks, published,
                 link, deviceVars, shown, overlapped, faults>>

\* Faulty variant: the event carries the opposite, pre-command state.
MutAnnounceOldState(c) ==
  /\ pc[c] = "announcing"
  /\ shown' = [shown EXCEPT ![input[c].device] = ~input[c].on]
  /\ Goto(c, "done")
  /\ UNCHANGED <<input, admissible, dbVars, outcome, pendingAcks, published,
                 link, deviceVars, snapshot, overlapped, faults>>

\* eventBus.emit("device_state"), then the 200 answer.
Announce(c) ==
  /\ pc[c] = "announcing"
  /\ shown' = [shown EXCEPT ![input[c].device] = snapshot[c]]
  /\ Goto(c, "done")
  /\ UNCHANGED <<input, admissible, dbVars, outcome, pendingAcks, published,
                 link, deviceVars, snapshot, overlapped, faults>>

-----------------------------------------------------------------------------
(***************************************************************************)
(* Failures and the environment                                            *)
(***************************************************************************)

\* A statement whose rejection the call does not catch: the SELECTs before
\* publishing, the insert, the two UPDATEs after the ack, the re-read.  The
\* call ends with a 500.
DatabaseError(c) ==
  /\ pc[c] \in {"idle", "admitted", "loading", "powered", "acked"}
       \/ (pc[c] = "waiting" /\ outcome[c] = "ok")
  /\ faults < MaxFaults
  /\ faults' = faults + 1
  /\ Goto(c, "errored")
  /\ UNCHANGED <<input, admissible, dbVars, outcome, pendingAcks, published,
                 link, deviceVars, busVars, overlapped>>

\* markCommand catches its own error: the call goes on, the row stays.
MarkCommandLost(c) ==
  /\ \/ pc[c] = "marking" /\ Goto(c, "waiting")
     \/ pc[c] = "waiting" /\ outcome[c] = "timeout" /\ Goto(c, "timedout")
     \/ pc[c] = "waiting" /\ outcome[c] = "error" /\ Goto(c, "failed")
  /\ faults < MaxFaults
  /\ faults' = faults + 1
  /\ UNCHANGED <<input, admissible, dbVars, outcome, pendingAcks, published,
                 link, deviceVars, busVars, overlapped>>

\* The process stops and starts again: calls and pendingAcks are gone, rows and
\* what was published remain.
Restart ==
  /\ faults < MaxFaults
  /\ faults' = faults + 1
  /\ pc' = [c \in Command |-> IF pc[c] \in Live THEN "lost" ELSE pc[c]]
  /\ pendingAcks' = {}
  /\ link' = FALSE
  /\ UNCHANGED <<input, admissible, dbVars, outcome, published, deviceVars,
                 busVars, overlapped>>

LinkDown ==
  /\ link
  /\ faults < MaxFaults
  /\ faults' = faults + 1
  /\ link' = FALSE
  /\ UNCHANGED <<input, admissible, dbVars, pc, outcome, pendingAcks,
                 published, deviceVars, busVars, overlapped>>

\* mqtt.js reconnects by itself (reconnectPeriod) and sends again what was not
\* acknowledged.
LinkUp ==
  /\ ~link
  /\ link' = TRUE
  /\ UNCHANGED <<input, admissible, dbVars, pc, outcome, pendingAcks,
                 published, deviceVars, busVars, overlapped, faults>>

\* Blocking, unblocking, suspending, coming online or going offline.
ChangeAdmissible(d) ==
  /\ admissible' = [admissible EXCEPT ![d] = ~admissible[d]]
  /\ UNCHANGED <<input, dbVars, pc, outcome, pendingAcks, published, link,
                 deviceVars, busVars, overlapped, faults>>

\* The relay carries out a command, once per command id, however late, and its
\* gateway acknowledges it; the ack may be unusable (bad clock, wrong key).
RelayExecutes(c) ==
  /\ c \in published \ executed
  /\ relay' = [relay EXCEPT ![input[c].device] = input[c].on]
  /\ executed' = executed \cup {c}
  /\ \E kind \in {"ok", "invalid"} :
       acks' = acks \cup {[command |-> c, kind |-> kind]}
  /\ UNCHANGED <<input, admissible, dbVars, pc, outcome, pendingAcks,
                 published, link, busVars, overlapped, faults>>

\* The gateway reports that the node failed or stayed silent.
RelayRefuses(c) ==
  /\ c \in published \ executed
  /\ acks' = acks \cup {[command |-> c, kind |-> "error"]}
  /\ UNCHANGED <<input, admissible, dbVars, pc, outcome, pendingAcks,
                 published, link, relay, executed, busVars, overlapped, faults>>

CallStep(c) ==
  \/ ReadDevice(c)
  \/ InsertRow(c)
  \/ NoRoute(c)
  \/ PublishCommand(c)
  \/ MarkSent(c)
  \/ SimulatorAnswers(c)
  \/ SimulatorTooLate(c)
  \/ FinishTimeout(c)
  \/ FinishError(c)
  \/ SetPower(c)
  \/ MarkAcked(c)
  \/ RereadDevice(c)
  \/ Announce(c)

Next ==
  \/ \E c \in Command :
       \/ CallStep(c)
       \/ PubAck(c)
       \/ PublishFailed(c)
       \/ AckTimer(c)
       \/ DatabaseError(c)
       \/ MarkCommandLost(c)
       \/ RelayExecutes(c)
       \/ RelayRefuses(c)
  \/ \E m \in acks : HandleAck(m)
  \/ \E d \in Device : ChangeAdmissible(d)
  \/ Restart
  \/ LinkDown
  \/ LinkUp

Spec == Init /\ [][Next]_vars

(***************************************************************************)
(* The event loop runs every call that can go on and fires every timer.    *)
(* The broker is another machine: that it comes back and acknowledges what *)
(* was published is an assumption of its own.  Nothing is assumed of the   *)
(* relay, of an ack in flight, or of callers.                              *)
(***************************************************************************)
BackendFairness ==
  \A c \in Command :
    /\ WF_vars(CallStep(c) /\ pc[c] # "idle")
    /\ WF_vars(AckTimer(c))

BrokerFairness ==
  WF_vars(LinkUp) /\ \A c \in Command : WF_vars(PubAck(c))

LiveSpec == Spec /\ BackendFairness /\ BrokerFairness
BackendOnlySpec == Spec /\ BackendFairness

-----------------------------------------------------------------------------
(***************************************************************************)
(* Properties                                                              *)
(***************************************************************************)

TypeOK ==
  /\ input \in [Command -> Input]
  /\ admissible \in [Device -> BOOLEAN]
  /\ power \in [Device -> BOOLEAN]
  /\ rows \in [Command -> {"none", "pending", "sent"} \cup Final]
  /\ pc \in [Command -> {"idle"} \cup Live \cup Ended]
  /\ outcome \in [Command -> {"none", "ok", "error", "timeout"}]
  /\ pendingAcks \subseteq Command
  /\ published \subseteq Command
  /\ link \in BOOLEAN
  /\ acks \subseteq Ack
  /\ relay \in [Device -> BOOLEAN]
  /\ executed \subseteq Command
  /\ snapshot \in [Command -> BOOLEAN]
  /\ shown \in [Device -> BOOLEAN]
  /\ overlapped \subseteq Command
  /\ faults \in 0..MaxFaults

\* The map holds exactly the calls whose promise is still open: no exit path
\* (ack, timer, failed publish, restart) leaves an entry, and with it a gateway
\* secret, behind, and no call waits on a promise nothing can settle.
PendingExact ==
  pendingAcks = {c \in Command : pc[c] \in Waiting /\ outcome[c] = "none"}

\* A row says "acked" only if the relay carried that very command out.
AckedWasExecuted ==
  \A c \in Command : rows[c] = "acked" => c \in executed

\* power_state only changes to a state that a relay really was put in by a
\* command that is still waiting for its verdict (no optimistic update).
PowerFollowsAck ==
  [][\A d \in Device : power'[d] # power[d] =>
       \E c \in executed \cap OnDevice(d) :
         input[c].on = power'[d] /\ rows[c] \notin Final]_power

\* A verdict in device_commands is never overwritten, in particular not by
\* the "sent" of the same call.
VerdictFinal ==
  [][\A c \in Command : rows[c] \in Final => rows'[c] = rows[c]]_rows

\* When no call of a device is running, the stored and the announced state are
\* those of the relay, unless a command was carried out whose call did not end
\* well, or two calls of the device ran at the same time.
StateTracksRelay ==
  \A d \in Device :
    LiveOn(d) = {} /\ (power[d] # relay[d] \/ shown[d] # relay[d]) =>
      \E c \in executed \cap OnDevice(d) : pc[c] # "done" \/ c \in overlapped

\* Every accepted call is answered, whatever the relay does, provided the
\* broker acknowledges what was published to it.
EveryCallAnswered ==
  \A c \in Command : pc[c] = "admitted" ~> pc[c] \in Ended

\* The five seconds bound the call: once the timer of a call is armed, the
\* backend alone is enough for it to be answered (the header comment's "ack
\* within 5 s, or an HttpError").
TimerBoundsCall ==
  \A c \in Command : c \in pendingAcks ~> pc[c] \in Ended

(***************************************************************************)
(* DeviceCommand implements CommandLedger.                                 *)
(***************************************************************************)
LedgerOf(status) ==
  CASE status = "none" -> "none"
    [] status \in {"pending", "sent"} -> "open"
    [] OTHER -> status

Ledger == INSTANCE CommandLedger WITH
            ledger <- [c \in Command |-> LedgerOf(rows[c])]

LedgerSpec == Ledger!Spec
=============================================================================
