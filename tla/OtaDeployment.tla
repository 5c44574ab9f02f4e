--------------------------- MODULE OtaDeployment ---------------------------
(***************************************************************************)
(* Firmware deployments: ota.service.ts, ota.repository.ts and the OTA     *)
(* tick of simulator.ts.  A job has one row per target.  The request that  *)
(* creates it publishes one command per gateway of its real targets, marks *)
(* their rows and closes the job when no row is open; rows of simulated    *)
(* targets are moved on by a tick every 5 s, which closes the jobs it has  *)
(* touched; a request to roll back may come at any time.  Every statement  *)
(* is a step of its own, and any of them may fail.                         *)
(***************************************************************************)
EXTENDS Integers, FiniteSets

CONSTANTS
  Job,          \* ota_jobs, each of one firmware version
  Target,       \* devices of the firmware's type that are in a home
  Simulated,    \* those with is_simulated
  Gateway, GatewayOf,  \* the gateway that takes a target's command, or None
  None,
  Full,         \* progress 100; a tick adds 1 or 2 (10 to 25 percent)
  MaxFaults     \* bound: failing statements and restarts

ASSUME OtaAssumption ==
  /\ Simulated \subseteq Target
  /\ GatewayOf \in [Target -> Gateway \cup {None}]
  /\ None \notin Job \cup Gateway \cup (Job \X Target)
  /\ Full \in Nat /\ Full > 2
  /\ MaxFaults \in Nat

VARIABLES
  jobStatus,   \* [Job -> JobStatus]
  history,     \* [Job -> [Target -> row]]
  firmware,    \* [Target -> Job or None], devices.firmware_version
  simOnline,   \* the simulated targets that are switched on
  deploy,      \* [Job -> the request that creates it]
  rolling,     \* jobs a request to roll back has read and not yet written
  tick,        \* the OTA tick: the flag otaRunning and its local variables
  faults

otaVars == <<jobStatus, history, firmware, simOnline, deploy, rolling, tick, faults>>

JobStatus == {"none", "running", "completed", "failed_partial", "rolled_back"}
RowStatus == {"absent", "pending", "downloading", "applied", "failed", "rolled_back"}
Open == {"pending", "downloading"}

OpenRows(j) == {t \in Target : history[j][t].status \in Open}
RowsIn(j, status) == {t \in Target : history[j][t].status = status}

NoDeploy == [pc |-> "idle", left |-> {}, sent |-> {}, verdict |-> "none"]

TickOver == [running |-> FALSE, rows |-> {}, apply |-> None, touched |-> {}]

OtaInit ==
  /\ jobStatus = [j \in Job |-> "none"]
  /\ history = [j \in Job |-> [t \in Target |-> [status |-> "absent", progress |-> 0]]]
  /\ firmware = [t \in Target |-> None]
  /\ simOnline = Simulated
  /\ deploy = [j \in Job |-> NoDeploy]
  /\ rolling = {}
  /\ tick = TickOver
  /\ faults = 0
-----------------------------------------------------------------------------
\* createDeployment: the transaction that inserts the job and its rows.
CreateJob(j) ==
  /\ deploy[j].pc = "idle"
  /\ \E targets \in (SUBSET Target) \ {{}} :
       /\ jobStatus' = [jobStatus EXCEPT ![j] = "running"]
       /\ history' = [history EXCEPT ![j] = [t \in Target |->
            [@[t] EXCEPT !.status = IF t \in targets THEN "pending" ELSE "absent"]]]
       /\ deploy' = [deploy EXCEPT ![j] =
            [@ EXCEPT !.pc = "deliver",
                      !.left = {GatewayOf[t] : t \in targets \ Simulated} \ {None}]]
  /\ UNCHANGED <<firmware, simOnline, rolling, tick, faults>>

\* publishOtaCommand, once per gateway: no answer is awaited.
PublishOtaCommand(j) ==
  /\ deploy[j].pc = "deliver"
  /\ \E g \in deploy[j].left, ok \in BOOLEAN :
       deploy' = [deploy EXCEPT
         ![j].left = @ \ {g},
         ![j].sent = @ \cup {t \in Target \ Simulated : ok /\ GatewayOf[t] = g}]
  /\ UNCHANGED <<jobStatus, history, firmware, simOnline, rolling, tick, faults>>

\* A bug to be caught: the UPDATE without status = 'pending'.
MutMarkHistory(j, targets, status) ==
  [history EXCEPT ![j] = [t \in Target |->
    IF t \in targets /\ @[t].status # "absent" THEN [@[t] EXCEPT !.status = status]
    ELSE @[t]]]

\* markHistory: the rows that are still pending, of up to 500 targets (more of
\* them take an UPDATE for each 500).
MarkHistory(j, targets, status) ==
  [history EXCEPT ![j] = [t \in Target |->
    IF t \in targets /\ @[t].status = "pending" THEN [@[t] EXCEPT !.status = status]
    ELSE @[t]]]

MarkSent(j) ==
  /\ deploy[j].pc = "deliver" /\ deploy[j].left = {}
  /\ history' = MarkHistory(j, deploy[j].sent, "downloading")
  /\ deploy' = [deploy EXCEPT ![j].pc = "failed"]
  /\ UNCHANGED <<jobStatus, firmware, simOnline, rolling, tick, faults>>

MarkFailed(j) ==
  /\ deploy[j].pc = "failed"
  /\ history' = MarkHistory(j, Target \ (Simulated \cup deploy[j].sent), "failed")
  /\ deploy' = [deploy EXCEPT ![j].pc = "open", ![j].sent = {}]
  /\ UNCHANGED <<jobStatus, firmware, simOnline, rolling, tick, faults>>

\* finalizeJobIfDone: two SELECTs and an UPDATE.
CountOpen(j) ==
  /\ deploy[j].pc = "open"
  /\ deploy' = [deploy EXCEPT ![j].pc = IF OpenRows(j) = {} THEN "count" ELSE "done"]
  /\ UNCHANGED <<jobStatus, history, firmware, simOnline, rolling, tick, faults>>

CountFailed(j) ==
  /\ deploy[j].pc = "count"
  /\ deploy' = [deploy EXCEPT
       ![j].pc = "close",
       ![j].verdict = IF RowsIn(j, "failed") # {} THEN "failed_partial" ELSE "completed"]
  /\ UNCHANGED <<jobStatus, history, firmware, simOnline, rolling, tick, faults>>

\* A bug to be caught: the UPDATE without status = 'running'.
MutFinalized(j) == deploy[j].verdict

Finalized(j) == IF jobStatus[j] = "running" THEN deploy[j].verdict ELSE jobStatus[j]

FinalizeJob(j) ==
  /\ deploy[j].pc = "close"
  /\ jobStatus' = [jobStatus EXCEPT ![j] = Finalized(j)]
  /\ deploy' = [deploy EXCEPT ![j] = [NoDeploy EXCEPT !.pc = "done"]]
  /\ UNCHANGED <<history, firmware, simOnline, rolling, tick, faults>>
-----------------------------------------------------------------------------
\* rollbackDeployment: the job is read before the transaction that writes it.
ReadJob(j) ==
  /\ jobStatus[j] \notin {"none", "rolled_back"}
  /\ rolling' = rolling \cup {j}
  /\ UNCHANGED <<jobStatus, history, firmware, simOnline, deploy, tick, faults>>

\* rollbackJob.
RollbackJob(j) ==
  /\ j \in rolling
  /\ rolling' = rolling \ {j}
  /\ jobStatus' = [jobStatus EXCEPT ![j] = "rolled_back"]
  /\ history' = [history EXCEPT ![j] = [t \in Target |->
       IF @[t].status \in Open THEN [@[t] EXCEPT !.status = "rolled_back"] ELSE @[t]]]
  /\ UNCHANGED <<firmware, simOnline, deploy, tick, faults>>
-----------------------------------------------------------------------------
\* A bug to be caught: the SELECT finds rows that have not begun.
MutToMove(j) == {t \in simOnline : jobStatus[j] = "running" /\ history[j][t].status = "pending"}

\* The WHERE of the SELECT.
ToMove(j) == {t \in simOnline : jobStatus[j] = "running" /\ history[j][t].status \in Open}

\* runOtaTick: nothing while a tick runs, else the SELECT of the rows to move.
RunOtaTick ==
  /\ ~tick.running
  /\ tick' = [TickOver EXCEPT
       !.running = TRUE,
       !.rows = UNION {{<<j, t, history[j][t].progress>> : t \in ToMove(j)} : j \in Job}]
  /\ UNCHANGED <<jobStatus, history, firmware, simOnline, deploy, rolling, faults>>

\* A bug to be caught: the UPDATE without status IN ('pending', 'downloading').
MutMovedRow(row, progress) ==
  [status |-> IF progress = Full THEN "applied" ELSE "downloading", progress |-> progress]

\* The UPDATE of one row of ota_history by the tick.
MovedRow(row, progress) ==
  IF row.status \in Open
    THEN [status |-> IF progress = Full THEN "applied" ELSE "downloading",
          progress |-> progress]
    ELSE row

\* A bug to be caught: a job is noted only when a row of it moves on.
MutTouchedBy(j, progress) == IF progress = Full THEN {} ELSE {j}

TouchedBy(j, progress) == {j}

\* The first UPDATE of a row; a row that is applied has a second one to come.
MoveRow ==
  /\ tick.apply = None
  /\ \E r \in tick.rows, step \in 1..2 :
       LET j == r[1]
           t == r[2]
           progress == IF r[3] + step > Full THEN Full ELSE r[3] + step
       IN /\ history' = [history EXCEPT ![j][t] = MovedRow(@, progress)]
          /\ tick' = [tick EXCEPT
               !.rows = @ \ {r},
               !.apply = IF progress = Full THEN <<j, t>> ELSE None,
               !.touched = IF progress = Full THEN @ ELSE @ \cup TouchedBy(j, progress)]
  /\ UNCHANGED <<jobStatus, firmware, simOnline, deploy, rolling, faults>>

\* The UPDATE of devices.firmware_version, whatever became of the row.
WriteVersion ==
  /\ tick.apply # None
  /\ firmware' = [firmware EXCEPT ![tick.apply[2]] = tick.apply[1]]
  /\ tick' = [tick EXCEPT !.apply = None,
                          !.touched = @ \cup TouchedBy(tick.apply[1], Full)]
  /\ UNCHANGED <<jobStatus, history, simOnline, deploy, rolling, faults>>

\* A bug to be caught: NOT EXISTS is left out.
MutAllApplied(j) == TRUE

AllApplied(j) == \A t \in Target : history[j][t].status \in {"absent", "applied"}

\* finishJobIfDone: one UPDATE with NOT EXISTS.
FinishJobIfDone ==
  /\ tick.rows = {} /\ tick.apply = None
  /\ \E j \in tick.touched :
       /\ tick' = [tick EXCEPT !.touched = @ \ {j}]
       /\ jobStatus' = [jobStatus EXCEPT ![j] =
            IF @ = "running" /\ AllApplied(j) THEN "completed" ELSE @]
  /\ UNCHANGED <<history, firmware, simOnline, deploy, rolling, faults>>

EndOtaTick ==
  /\ tick.running /\ tick.rows = {} /\ tick.apply = None /\ tick.touched = {}
  /\ tick' = TickOver
  /\ UNCHANGED <<jobStatus, history, firmware, simOnline, deploy, rolling, faults>>
-----------------------------------------------------------------------------
\* A statement about one row fails: the next row, and the job is not noted.
RowFails ==
  /\ faults < MaxFaults /\ faults' = faults + 1
  /\ \/ /\ tick.apply # None
        /\ tick' = [tick EXCEPT !.apply = None]
     \/ /\ tick.apply = None
        /\ \E r \in tick.rows : tick' = [tick EXCEPT !.rows = @ \ {r}]
  /\ UNCHANGED <<jobStatus, history, firmware, simOnline, deploy, rolling>>

\* A statement outside of the loop fails: the tick is over.
TickFails ==
  /\ faults < MaxFaults /\ faults' = faults + 1
  /\ tick.running /\ tick.rows = {} /\ tick.apply = None
  /\ tick' = TickOver
  /\ UNCHANGED <<jobStatus, history, firmware, simOnline, deploy, rolling>>

\* A statement of a request fails: 500, and what was committed stays.
RequestFails(j) ==
  /\ faults < MaxFaults /\ faults' = faults + 1
  /\ deploy[j].pc \notin {"idle", "done"}
  /\ deploy' = [deploy EXCEPT ![j] = [NoDeploy EXCEPT !.pc = "done"]]
  /\ UNCHANGED <<jobStatus, history, firmware, simOnline, rolling, tick>>

\* The process ends and is started again.
Restart ==
  /\ faults < MaxFaults /\ faults' = faults + 1
  /\ deploy' = [j \in Job |-> IF deploy[j].pc = "idle" THEN NoDeploy
                              ELSE [NoDeploy EXCEPT !.pc = "done"]]
  /\ rolling' = {}
  /\ tick' = TickOver
  /\ UNCHANGED <<jobStatus, history, firmware, simOnline>>

\* simulator.routes.ts: an administrator switches a simulated device.
SetPower(t) ==
  /\ t \in Simulated
  /\ simOnline' = IF t \in simOnline THEN simOnline \ {t} ELSE simOnline \cup {t}
  /\ UNCHANGED <<jobStatus, history, firmware, deploy, rolling, tick, faults>>
-----------------------------------------------------------------------------
DeployStep(j) ==
  \/ PublishOtaCommand(j) \/ MarkSent(j) \/ MarkFailed(j)
  \/ CountOpen(j) \/ CountFailed(j) \/ FinalizeJob(j)

TickStep == RunOtaTick \/ MoveRow \/ WriteVersion \/ FinishJobIfDone \/ EndOtaTick

OtaNext ==
  \/ TickStep \/ RowFails \/ TickFails \/ Restart
  \/ \E j \in Job : \/ CreateJob(j) \/ DeployStep(j) \/ RequestFails(j)
                    \/ ReadJob(j) \/ RollbackJob(j)
  \/ \E t \in Target : SetPower(t)

\* setInterval calls the tick for ever, and its statements return.
OtaFairness == WF_otaVars(TickStep)

OtaSpec == OtaInit /\ [][OtaNext]_otaVars /\ OtaFairness
-----------------------------------------------------------------------------
DeployCall == [pc : {"idle", "deliver", "failed", "open", "count", "close", "done"},
               left : SUBSET Gateway, sent : SUBSET (Target \ Simulated),
               verdict : {"none", "completed", "failed_partial"}]

\* Types; a row has progress 100 exactly when it is applied, the flag
\* otaRunning is up while a tick has work, and every row to move has progress
\* to make (ota_history, simulator.ts:230-274).
OtaTypeOK ==
  /\ jobStatus \in [Job -> JobStatus]
  /\ history \in [Job -> [Target -> [status : RowStatus, progress : 0..Full]]]
  /\ firmware \in [Target -> Job \cup {None}]
  /\ simOnline \in SUBSET Simulated
  /\ deploy \in [Job -> DeployCall]
  /\ rolling \in SUBSET Job
  /\ tick \in [running : BOOLEAN, rows : SUBSET (Job \X Simulated \X (0..Full - 1)),
               apply : {None} \cup (Job \X Simulated), touched : SUBSET Job]
  /\ faults \in 0..MaxFaults
  /\ ~tick.running => tick = TickOver
  /\ \A j \in Job, t \in Target :
       history[j][t].progress = Full <=> history[j][t].status = "applied"

\* A job that is over has no open row, whatever a roll back overtakes: neither
\* a mark of the request nor a step of the tick opens a row again
\* (ota.repository.ts:158, 183-189).
OverHasNoOpenRow ==
  \A j \in Job : jobStatus[j] # "running" => OpenRows(j) = {}

\* A job is completed only when all its rows are applied, and failed_partial
\* only when one of them has failed (ota.repository.ts:175, simulator.ts:201).
VerdictIsTrue ==
  \A j \in Job : /\ jobStatus[j] = "completed" =>
                      \A t \in Target : history[j][t].status \in {"absent", "applied"}
                 /\ jobStatus[j] = "failed_partial" => RowsIn(j, "failed") # {}

\* Without failures and restarts only a job of which one row failed and another
\* was applied later is left running with no row open and nobody at work:
\* finishJobIfDone wants every row applied (simulator.ts:203), and
\* finalizeJobIfDone ran when rows were still open (ota.repository.ts:170).
OnlyMixedJobsLinger ==
  \A j \in Job :
    jobStatus[j] = "running" /\ OpenRows(j) = {} /\ deploy[j].pc = "done"
      /\ ~tick.running /\ faults = 0
    => RowsIn(j, "failed") # {} /\ RowsIn(j, "applied") # {}

\* The status of a job tells what became of its rows, in whatever order the
\* request, the tick, a roll back and failures write them.
JobTellsRows == OverHasNoOpenRow /\ VerdictIsTrue /\ OnlyMixedJobsLinger

\* What has ended stays as it ended. A roll back is not undone by the request
\* that made the job, or the tick, being about to close it (ota.repository.ts:176,
\* simulator.ts:202); an applied row is the evidence a roll back leaves alone,
\* and a tick that selected a row before it was rolled back does not apply it
\* (ota.repository.ts:181, simulator.ts:252, 259).
OutcomeIsFinal ==
  [][\A j \in Job :
       /\ jobStatus[j] = "rolled_back" => jobStatus'[j] = "rolled_back"
       /\ \A t \in Target :
            history[j][t].status \in {"applied", "failed", "rolled_back"}
              => history'[j][t] = history[j][t]]_otaVars

\* No row of a simulated target that stays switched on stays open for ever, in
\* spite of failing statements and restarts (simulator.ts:232-274).
OpenRowsEnd ==
  \A j \in Job, t \in Simulated :
    []<>~(history[j][t].status \in Open /\ t \in simOnline)
=============================================================================
