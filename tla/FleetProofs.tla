----------------------------- MODULE FleetProofs -----------------------------
(***************************************************************************)
(* Theorems about the console's side, for any number of jobs, targets,     *)
(* messages, devices, ticks, operators, homes and requests: OtaDeployment, *)
(* OperatorAccess, DeviceIngest and DeviceMonitor.                         *)
(***************************************************************************)
EXTENDS MCFleet, FiniteSetTheorems, TLAPS

(***************************************************************************)
(* OtaDeployment: the inductive invariant.  A request looks at the rows    *)
(* and closes the job several steps later; it may because rows that are    *)
(* not open never open again (Closing), and because a row is rolled back   *)
(* only together with its job (RolledBackTogether).                        *)
(***************************************************************************)
NotBegun ==
  \A j \in Job :
    /\ jobStatus[j] = "none" <=> deploy[j].pc = "idle"
    /\ jobStatus[j] = "none" => \A t \in Target : history[j][t].status = "absent"
    /\ j \in rolling => jobStatus[j] # "none"

Closing ==
  \A j \in Job :
    /\ deploy[j].pc \in {"count", "close"} => OpenRows(j) = {}
    /\ deploy[j].pc = "close" =>
         deploy[j].verdict = IF RowsIn(j, "failed") # {} THEN "failed_partial"
                                                         ELSE "completed"

RolledBackTogether ==
  \A j \in Job, t \in Target :
    history[j][t].status = "rolled_back" => jobStatus[j] = "rolled_back"

\* A job of which no row is open, and that nobody has closed, is mixed, or the
\* tick has yet to look at it.
Lingering ==
  \A j \in Job :
    jobStatus[j] = "running" /\ OpenRows(j) = {} /\ deploy[j].pc = "done" /\ faults = 0
    => /\ RowsIn(j, "applied") # {}
       /\ \/ RowsIn(j, "failed") # {}
          \/ j \in tick.touched
          \/ tick.apply # None /\ tick.apply[1] = j

OtaInv ==
  /\ OtaTypeOK /\ NotBegun /\ Closing /\ RolledBackTogether
  /\ OverHasNoOpenRow /\ VerdictIsTrue /\ Lingering

LEMMA OtaTypeInit == OtaInit => OtaTypeOK
  BY OtaAssumption DEF OtaInit, OtaTypeOK, NoDeploy, TickOver, DeployCall, JobStatus, RowStatus

\* A row has progress 100 exactly when it is applied.
RowFits(row) ==
  /\ row \in [status : RowStatus, progress : 0..Full]
  /\ row.progress = Full <=> row.status = "applied"

\* What a step does to one row: nothing, or its job begins, or the row is
\* open and the request, the tick or a roll back moves it on.
RowStep(j, t) ==
  \/ history'[j][t] = history[j][t]
  \/ /\ deploy[j].pc = "idle" /\ deploy'[j].pc = "deliver" /\ jobStatus'[j] = "running"
     /\ history'[j][t].status \in {"absent", "pending"}
     /\ history'[j][t].progress = history[j][t].progress
  \/ /\ history[j][t].status \in Open
     /\ \/ /\ history'[j][t].status \in {"downloading", "failed"}
           /\ history'[j][t].progress = history[j][t].progress
           /\ deploy[j].pc \in {"deliver", "failed"}
        \/ /\ history'[j][t].progress \in 0..Full
           /\ history'[j][t].status =
                IF history'[j][t].progress = Full THEN "applied" ELSE "downloading"
           /\ history'[j][t].status = "applied" => tick'.apply = <<j, t>>
           /\ UNCHANGED <<deploy, jobStatus>>
        \/ /\ history'[j][t].status = "rolled_back"
           /\ history'[j][t].progress = history[j][t].progress
           /\ jobStatus'[j] = "rolled_back"

\* Rows move as RowStep says.
LEMMA RowsMove ==
  ASSUME OtaTypeOK, [OtaNext]_otaVars, NEW j \in Job, NEW t \in Target
  PROVE  history'[j][t] \in [status : RowStatus, progress : 0..Full] /\ RowStep(j, t)
<1> DEFINE P == history'[j][t] \in [status : RowStatus, progress : 0..Full] /\ RowStep(j, t)
<1>0. /\ history \in [Job -> [Target -> [status : RowStatus, progress : 0..Full]]]
      /\ deploy \in [Job -> DeployCall] /\ jobStatus \in [Job -> JobStatus]
      /\ Full \in Nat /\ Full > 2
  BY OtaAssumption DEF OtaTypeOK
<1> DEFINE row == history[j][t]
<1>7. row \in [status : RowStatus, progress : 0..Full]
  BY <1>0
<1>8. ASSUME NEW s \in RowStatus, history'[j][t] = [row EXCEPT !.status = s]
      PROVE  /\ history'[j][t] \in [status : RowStatus, progress : 0..Full]
             /\ history'[j][t].status = s /\ history'[j][t].progress = row.progress
  BY <1>7, <1>8
<1>1. ASSUME NEW i \in Job, CreateJob(i) PROVE P
  <2>1. CASE i = j
    <3>1. PICK targets \in (SUBSET Target) \ {{}} :
            history' = [history EXCEPT ![i] = [u \in Target |->
              [history[i][u] EXCEPT !.status = IF u \in targets THEN "pending" ELSE "absent"]]]
      BY <1>1 DEF CreateJob
    <3>2. history'[j][t] = [row EXCEPT !.status = IF t \in targets THEN "pending" ELSE "absent"]
      BY <1>0, <2>1, <3>1
    <3>3. /\ deploy[j].pc = "idle" /\ deploy'[j].pc = "deliver"
          /\ jobStatus'[j] = "running"
      BY <1>0, <1>1, <2>1 DEF CreateJob, DeployCall
    <3>4. (IF t \in targets THEN "pending" ELSE "absent") \in RowStatus
      BY DEF RowStatus
    <3> QED
      BY <1>8, <3>2, <3>3, <3>4 DEF RowStep
  <2>2. CASE i # j
    <3>1. history'[j][t] = row
      BY <1>0, <1>1, <2>2 DEF CreateJob
    <3> QED
      BY <1>7, <3>1 DEF RowStep
  <2> QED
    BY <2>1, <2>2
<1>2. ASSUME NEW i \in Job, MarkSent(i) PROVE P
  <2>1. \/ history'[j][t] = row
        \/ i = j /\ row.status = "pending" /\ history'[j][t] = [row EXCEPT !.status = "downloading"]
    BY <1>0, <1>2 DEF MarkSent, MarkHistory
  <2>2. i = j => deploy[j].pc = "deliver"
    BY <1>2 DEF MarkSent
  <2>3. CASE history'[j][t] = row
    BY <1>7, <2>3 DEF RowStep
  <2>4. CASE i = j /\ row.status = "pending" /\ history'[j][t] = [row EXCEPT !.status = "downloading"]
    <3>1. "downloading" \in RowStatus
      BY DEF RowStatus
    <3> QED
      BY <1>8, <2>2, <2>4, <3>1 DEF RowStep, Open
  <2> QED
    BY <2>1, <2>3, <2>4
<1>3. ASSUME NEW i \in Job, MarkFailed(i) PROVE P
  <2>1. \/ history'[j][t] = row
        \/ i = j /\ row.status = "pending" /\ history'[j][t] = [row EXCEPT !.status = "failed"]
    BY <1>0, <1>3 DEF MarkFailed, MarkHistory
  <2>2. i = j => deploy[j].pc = "failed"
    BY <1>3 DEF MarkFailed
  <2>3. CASE history'[j][t] = row
    BY <1>7, <2>3 DEF RowStep
  <2>4. CASE i = j /\ row.status = "pending" /\ history'[j][t] = [row EXCEPT !.status = "failed"]
    <3>1. "failed" \in RowStatus
      BY DEF RowStatus
    <3> QED
      BY <1>8, <2>2, <2>4, <3>1 DEF RowStep, Open
  <2> QED
    BY <2>1, <2>3, <2>4
<1>4. ASSUME NEW i \in Job, RollbackJob(i) PROVE P
  <2>1. \/ history'[j][t] = row
        \/ i = j /\ row.status \in Open /\ history'[j][t] = [row EXCEPT !.status = "rolled_back"]
    BY <1>0, <1>4 DEF RollbackJob
  <2>2. i = j => jobStatus'[j] = "rolled_back"
    BY <1>0, <1>4 DEF RollbackJob
  <2>3. CASE history'[j][t] = row
    BY <1>7, <2>3 DEF RowStep
  <2>4. CASE i = j /\ row.status \in Open /\ history'[j][t] = [row EXCEPT !.status = "rolled_back"]
    <3>1. "rolled_back" \in RowStatus
      BY DEF RowStatus
    <3> QED
      BY <1>8, <2>2, <2>4, <3>1 DEF RowStep
  <2> QED
    BY <2>1, <2>3, <2>4
<1>5. CASE MoveRow
  <2>1. PICK r \in tick.rows, step \in 1..2 :
          LET progress == IF r[3] + step > Full THEN Full ELSE r[3] + step
          IN  /\ history' = [history EXCEPT ![r[1]][r[2]] = MovedRow(@, progress)]
              /\ tick'.apply = IF progress = Full THEN <<r[1], r[2]>> ELSE None
    BY <1>5 DEF MoveRow, OtaTypeOK
  <2>2. r[1] \in Job /\ r[2] \in Target /\ r[3] \in 0..Full - 1
    BY OtaAssumption DEF OtaTypeOK
  <2> DEFINE progress == IF r[3] + step > Full THEN Full ELSE r[3] + step
  <2>3. progress \in 0..Full
    BY <1>0, <2>2
  <2>4. UNCHANGED <<deploy, jobStatus>>
    BY <1>5 DEF MoveRow
  <2>5. CASE r[1] = j /\ r[2] = t
    <3>1. history'[j][t] = MovedRow(history[j][t], progress)
      BY <1>0, <2>1, <2>2, <2>5
    <3>2. tick'.apply = IF progress = Full THEN <<j, t>> ELSE None
      BY <2>1, <2>5
    <3> HIDE DEF progress
    <3> QED
      BY <1>0, <2>3, <2>4, <3>1, <3>2 DEF MovedRow, RowStep, RowStatus, Open
  <2>6. CASE ~(r[1] = j /\ r[2] = t)
    <3>1. history'[j][t] = history[j][t]
      BY <1>0, <2>1, <2>2, <2>6
    <3> QED
      BY <1>0, <3>1 DEF RowStep
  <2> QED
    BY <2>5, <2>6
<1>6. CASE UNCHANGED history
  BY <1>0, <1>6 DEF RowStep
<1> QED
  BY <1>1, <1>2, <1>3, <1>4, <1>5, <1>6
  DEF OtaNext, TickStep, DeployStep, PublishOtaCommand, CountOpen, CountFailed,
      FinalizeJob, ReadJob, RunOtaTick, WriteVersion, FinishJobIfDone, EndOtaTick,
      RowFails, TickFails, RequestFails, Restart, SetPower, otaVars

\* What a step does to the request that creates a job.
CallMove(j) ==
  \/ deploy'[j] = deploy[j]
  \/ deploy[j].pc = "idle" /\ deploy'[j].pc = "idle"
  \/ deploy[j].pc = "idle" /\ deploy'[j].pc = "deliver" /\ jobStatus'[j] = "running"
  \/ /\ deploy[j].pc \in {"deliver", "failed"}
     /\ deploy'[j].pc \in {"deliver", "failed", "open"}
  \/ /\ UNCHANGED <<history, jobStatus>>
     /\ \/ deploy[j].pc = "open" /\ deploy'[j].pc = "done" /\ OpenRows(j) # {}
        \/ deploy[j].pc = "open" /\ deploy'[j].pc = "count" /\ OpenRows(j) = {}
        \/ /\ deploy[j].pc = "count" /\ deploy'[j].pc = "close"
           /\ deploy'[j].verdict = IF RowsIn(j, "failed") # {} THEN "failed_partial"
                                                               ELSE "completed"
  \/ /\ deploy[j].pc = "close" /\ deploy'[j].pc = "done" /\ UNCHANGED history
     /\ jobStatus'[j] = Finalized(j)
  \/ deploy[j].pc # "idle" /\ deploy'[j].pc = "done" /\ faults' = faults + 1

\* Requests move as CallMove says.
LEMMA CallsMove ==
  ASSUME OtaTypeOK, [OtaNext]_otaVars
  PROVE  deploy' \in [Job -> DeployCall] /\ \A j \in Job : CallMove(j)
<1> DEFINE P == deploy' \in [Job -> DeployCall] /\ \A j \in Job : CallMove(j)
<1>0. deploy \in [Job -> DeployCall] /\ jobStatus \in [Job -> JobStatus]
  BY DEF OtaTypeOK
<1>1. ASSUME NEW i \in Job, CreateJob(i) PROVE P
  <2>1. PICK targets \in (SUBSET Target) \ {{}} :
          deploy' = [deploy EXCEPT ![i] =
            [@ EXCEPT !.pc = "deliver",
                      !.left = {GatewayOf[t] : t \in targets \ Simulated} \ {None}]]
    BY <1>1 DEF CreateJob
  <2> DEFINE left == {GatewayOf[t] : t \in targets \ Simulated} \ {None}
  <2>2. left \in SUBSET Gateway
    BY OtaAssumption
  <2>3. deploy' = [deploy EXCEPT ![i] = [@ EXCEPT !.pc = "deliver", !.left = left]]
    BY <2>1
  <2> HIDE DEF left
  <2>4. deploy' \in [Job -> DeployCall] /\ deploy'[i].pc = "deliver"
    BY <1>0, <2>2, <2>3 DEF DeployCall
  <2>5. \A j \in Job \ {i} : deploy'[j] = deploy[j]
    BY <1>0, <2>3
  <2> QED
    BY <1>0, <1>1, <2>4, <2>5 DEF CreateJob, CallMove
<1>2. ASSUME NEW i \in Job, PublishOtaCommand(i) PROVE P
  <2>1. PICK g \in deploy[i].left, ok \in BOOLEAN :
          deploy' = [deploy EXCEPT
            ![i].left = @ \ {g},
            ![i].sent = @ \cup {t \in Target \ Simulated : ok /\ GatewayOf[t] = g}]
    BY <1>2 DEF PublishOtaCommand
  <2>4. deploy' \in [Job -> DeployCall] /\ deploy'[i].pc = deploy[i].pc
    BY <1>0, <2>1 DEF DeployCall
  <2>5. \A j \in Job \ {i} : deploy'[j] = deploy[j]
    BY <1>0, <2>1
  <2>6. deploy[i].pc = "deliver"
    BY <1>2 DEF PublishOtaCommand
  <2>7. CallMove(i)
    BY <2>4, <2>6 DEF CallMove
  <2> QED
    BY <2>4, <2>5, <2>7 DEF CallMove
<1>3. ASSUME NEW i \in Job, MarkSent(i) PROVE P
  BY <1>0, <1>3 DEF MarkSent, CallMove, DeployCall
<1>4. ASSUME NEW i \in Job, MarkFailed(i) PROVE P
  BY <1>0, <1>4 DEF MarkFailed, CallMove, DeployCall
<1>5. ASSUME NEW i \in Job, CountOpen(i) PROVE P
  <2>1. \A j \in Job \ {i} : deploy'[j] = deploy[j]
    BY <1>0, <1>5 DEF CountOpen
  <2>2. deploy'[i].pc = IF OpenRows(i) = {} THEN "count" ELSE "done"
    BY <1>0, <1>5 DEF CountOpen, DeployCall
  <2>3. deploy' \in [Job -> DeployCall]
    BY <1>0, <1>5 DEF CountOpen, DeployCall
  <2> QED
    BY <1>5, <2>1, <2>2, <2>3 DEF CountOpen, CallMove
<1>6. ASSUME NEW i \in Job, CountFailed(i) PROVE P
  <2>1. \A j \in Job \ {i} : deploy'[j] = deploy[j]
    BY <1>0, <1>6 DEF CountFailed
  <2>2. /\ deploy'[i].pc = "close"
        /\ deploy'[i].verdict = IF RowsIn(i, "failed") # {} THEN "failed_partial"
                                                            ELSE "completed"
    BY <1>0, <1>6 DEF CountFailed, DeployCall
  <2>3. deploy' \in [Job -> DeployCall]
    BY <1>0, <1>6 DEF CountFailed, DeployCall
  <2> QED
    BY <1>6, <2>1, <2>2, <2>3 DEF CountFailed, CallMove
<1>7. ASSUME NEW i \in Job, FinalizeJob(i) PROVE P
  BY <1>0, <1>7 DEF FinalizeJob, NoDeploy, CallMove, DeployCall
<1>8. ASSUME NEW i \in Job, RequestFails(i) PROVE P
  BY <1>0, <1>8 DEF RequestFails, NoDeploy, CallMove, DeployCall
<1>9. CASE Restart
  <2>1. /\ faults' = faults + 1
        /\ deploy' = [j \in Job |-> IF deploy[j].pc = "idle" THEN NoDeploy
                                    ELSE [NoDeploy EXCEPT !.pc = "done"]]
    BY <1>9 DEF Restart
  <2> QED
    BY <1>0, <2>1 DEF NoDeploy, CallMove, DeployCall
<1>10. CASE UNCHANGED deploy
  BY <1>0, <1>10 DEF CallMove
<1> QED
  BY <1>1, <1>2, <1>3, <1>4, <1>5, <1>6, <1>7, <1>8, <1>9, <1>10
  DEF OtaNext, TickStep, DeployStep, ReadJob, RollbackJob, RunOtaTick, MoveRow,
      WriteVersion, FinishJobIfDone, EndOtaTick, RowFails, TickFails, SetPower, otaVars

\* What a step does to the status of a job.
JobMove(j) ==
  \/ jobStatus'[j] = jobStatus[j]
  \/ deploy[j].pc = "idle" /\ deploy'[j].pc = "deliver" /\ jobStatus'[j] = "running"
  \/ /\ deploy[j].pc = "close" /\ deploy'[j].pc = "done" /\ UNCHANGED history
     /\ jobStatus[j] = "running" /\ jobStatus'[j] = deploy[j].verdict
  \/ /\ j \in rolling /\ jobStatus'[j] = "rolled_back"
     /\ UNCHANGED deploy
     /\ \A t \in Target : history'[j][t].status \notin Open
  \/ /\ jobStatus[j] = "running" /\ jobStatus'[j] = "completed"
     /\ UNCHANGED <<history, deploy>> /\ AllApplied(j)

\* Jobs move as JobMove says.
LEMMA JobsMove ==
  ASSUME OtaTypeOK, [OtaNext]_otaVars
  PROVE  jobStatus' \in [Job -> JobStatus] /\ \A j \in Job : JobMove(j)
<1> DEFINE P == jobStatus' \in [Job -> JobStatus] /\ \A j \in Job : JobMove(j)
<1>0. /\ jobStatus \in [Job -> JobStatus] /\ deploy \in [Job -> DeployCall]
      /\ history \in [Job -> [Target -> [status : RowStatus, progress : 0..Full]]]
  BY DEF OtaTypeOK
<1>1. ASSUME NEW i \in Job, CreateJob(i) PROVE P
  <2>1. deploy'[i].pc = "deliver"
    BY <1>0, <1>1 DEF CreateJob, DeployCall
  <2> QED
    BY <1>0, <1>1, <2>1 DEF CreateJob, JobMove, JobStatus
<1>2. ASSUME NEW i \in Job, FinalizeJob(i) PROVE P
  <2>1. deploy'[i].pc = "done"
    BY <1>0, <1>2 DEF FinalizeJob, NoDeploy
  <2>2. deploy[i].verdict \in JobStatus
    BY <1>0 DEF DeployCall, JobStatus
  <2> QED
    BY <1>0, <1>2, <2>1, <2>2 DEF FinalizeJob, Finalized, JobMove
<1>3. ASSUME NEW i \in Job, RollbackJob(i) PROVE P
  <2>1. ASSUME NEW t \in Target PROVE history'[i][t].status \notin Open
    <3>1. \/ history'[i][t] = history[i][t] /\ history[i][t].status \notin Open
          \/ history'[i][t] = [history[i][t] EXCEPT !.status = "rolled_back"]
      BY <1>0, <1>3 DEF RollbackJob
    <3>2. history[i][t] \in [status : RowStatus, progress : 0..Full]
      BY <1>0
    <3> QED
      BY <3>1, <3>2 DEF Open
  <2> QED
    BY <1>0, <1>3, <2>1 DEF RollbackJob, JobMove, JobStatus
<1>4. CASE FinishJobIfDone
  <2>1. PICK i \in tick.touched :
          jobStatus' = [jobStatus EXCEPT ![i] =
            IF @ = "running" /\ AllApplied(i) THEN "completed" ELSE @]
    BY <1>4 DEF FinishJobIfDone
  <2>2. i \in Job
    BY DEF OtaTypeOK
  <2> QED
    BY <1>0, <1>4, <2>1, <2>2 DEF FinishJobIfDone, JobMove, JobStatus
<1>5. CASE UNCHANGED jobStatus
  BY <1>0, <1>5 DEF JobMove
<1> QED
  BY <1>1, <1>2, <1>3, <1>4, <1>5
  DEF OtaNext, TickStep, DeployStep, PublishOtaCommand, MarkSent, MarkFailed, CountOpen,
      CountFailed, ReadJob, RunOtaTick, MoveRow, WriteVersion, EndOtaTick, RowFails,
      TickFails, RequestFails, Restart, SetPower, otaVars

\* The tick is to look at job j still.
Noticed(j) == j \in tick.touched \/ (tick.apply # None /\ tick.apply[1] = j)

TickTyped ==
  /\ tick \in [running : BOOLEAN, rows : SUBSET (Job \X Simulated \X (0..Full - 1)),
               apply : {None} \cup (Job \X Simulated), touched : SUBSET Job]
  /\ ~tick.running => tick = TickOver

\* A job that the tick is to look at stays so, until the tick has looked at it
\* or something fails.
LEMMA TickMoves ==
  ASSUME OtaTypeOK, [OtaNext]_otaVars
  PROVE  /\ TickTyped'
         /\ \A j \in Job : Noticed(j) =>
              \/ Noticed(j)'
              \/ faults' = faults + 1
              \/ /\ UNCHANGED <<history, deploy>>
                 /\ jobStatus[j] = "running" /\ AllApplied(j) => jobStatus'[j] = "completed"
<1> DEFINE P == /\ TickTyped'
                /\ \A j \in Job : Noticed(j) =>
                     \/ Noticed(j)'
                     \/ faults' = faults + 1
                     \/ /\ UNCHANGED <<history, deploy>>
                        /\ jobStatus[j] = "running" /\ AllApplied(j)
                             => jobStatus'[j] = "completed"
<1>0. TickTyped /\ jobStatus \in [Job -> JobStatus]
  BY DEF OtaTypeOK, TickTyped
<1>1. CASE RunOtaTick
  <2> DEFINE found == UNION {{<<j, t, history[j][t].progress>> : t \in ToMove(j)} : j \in Job}
  <2>1. found \in SUBSET (Job \X Simulated \X (0..Full - 1))
    <3>1. ASSUME NEW j \in Job, NEW t \in ToMove(j)
          PROVE  t \in Simulated /\ history[j][t].progress \in 0..Full - 1
      <4>1. t \in Simulated /\ t \in Target /\ history[j][t].status # "applied"
        BY OtaAssumption DEF OtaTypeOK, ToMove, Open
      <4>2. /\ history[j][t].progress \in 0..Full /\ Full \in Nat
            /\ history[j][t].progress # Full
        BY <4>1, OtaAssumption DEF OtaTypeOK
      <4> QED
        BY <4>1, <4>2
    <3> QED
      BY <3>1
  <2>2. tick' = [TickOver EXCEPT !.running = TRUE, !.rows = found]
    BY <1>1 DEF RunOtaTick
  <2>3. tick = TickOver
    BY <1>0, <1>1 DEF RunOtaTick, TickTyped
  <2> HIDE DEF found
  <2> QED
    BY <1>0, <2>1, <2>2, <2>3 DEF TickTyped, TickOver, Noticed
<1>2. CASE MoveRow
  <2>1. PICK r \in tick.rows, done \in BOOLEAN :
          tick' = [tick EXCEPT
            !.rows = @ \ {r},
            !.apply = IF done THEN <<r[1], r[2]>> ELSE None,
            !.touched = IF done THEN @ ELSE @ \cup {r[1]}]
    <3>1. PICK r \in tick.rows, step \in 1..2 :
            LET progress == IF r[3] + step > Full THEN Full ELSE r[3] + step
            IN  tick' = [tick EXCEPT
                  !.rows = @ \ {r},
                  !.apply = IF progress = Full THEN <<r[1], r[2]>> ELSE None,
                  !.touched = IF progress = Full THEN @ ELSE @ \cup {r[1]}]
      BY <1>2 DEF MoveRow, TouchedBy
    <3> DEFINE progress == IF r[3] + step > Full THEN Full ELSE r[3] + step
    <3>2. (progress = Full) \in BOOLEAN
      OBVIOUS
    <3> QED
      BY <3>1, <3>2
  <2>2. r[1] \in Job /\ r[2] \in Simulated /\ tick.apply = None /\ tick.running
    BY <1>0, <1>2 DEF TickTyped, TickOver, MoveRow
  <2> QED
    BY <1>0, <2>1, <2>2 DEF TickTyped, Noticed
<1>3. CASE WriteVersion
  <2>1. /\ tick.apply # None /\ tick.apply[1] \in Job /\ tick.running
        /\ tick' = [tick EXCEPT !.apply = None, !.touched = @ \cup {tick.apply[1]}]
    BY <1>0, <1>3 DEF WriteVersion, TouchedBy, TickTyped, TickOver
  <2> QED
    BY <1>0, <2>1 DEF TickTyped, Noticed
<1>4. CASE FinishJobIfDone
  <2>1. PICK i \in tick.touched :
          /\ tick' = [tick EXCEPT !.touched = @ \ {i}]
          /\ jobStatus' = [jobStatus EXCEPT ![i] =
               IF @ = "running" /\ AllApplied(i) THEN "completed" ELSE @]
    BY <1>4 DEF FinishJobIfDone
  <2>2. i \in Job /\ tick.running /\ tick.apply = None /\ UNCHANGED <<history, deploy>>
    BY <1>0, <1>4 DEF TickTyped, TickOver, FinishJobIfDone
  <2> QED
    BY <1>0, <2>1, <2>2 DEF TickTyped, Noticed
<1>5. CASE EndOtaTick
  BY <1>0, <1>5 DEF EndOtaTick, TickTyped, TickOver, Noticed
<1>6. CASE RowFails
  <2>1. faults' = faults + 1 /\ tick.running
    BY <1>0, <1>6 DEF RowFails, TickTyped, TickOver
  <2>2. tick' = [tick EXCEPT !.apply = None] \/ \E r \in tick.rows : tick' = [tick EXCEPT !.rows = @ \ {r}]
    BY <1>6 DEF RowFails
  <2> QED
    BY <1>0, <2>1, <2>2 DEF TickTyped
<1>7. CASE TickFails \/ Restart
  <2>1. faults' = faults + 1 /\ tick' = TickOver
    BY <1>7 DEF TickFails, Restart
  <2> QED
    BY <2>1 DEF TickTyped, TickOver
<1>8. CASE UNCHANGED tick
  BY <1>0, <1>8 DEF TickTyped, TickOver, Noticed
<1> QED
  BY <1>1, <1>2, <1>3, <1>4, <1>5, <1>6, <1>7, <1>8
  DEF OtaNext, TickStep, DeployStep, CreateJob, PublishOtaCommand, MarkSent, MarkFailed,
      CountOpen, CountFailed, FinalizeJob, ReadJob, RollbackJob, RequestFails, SetPower, otaVars

\* The rows stay a table of jobs and targets.
LEMMA RowsShape ==
  ASSUME OtaTypeOK, [OtaNext]_otaVars
  PROVE  /\ history' = [j \in Job |-> history'[j]]
         /\ \A j \in Job : history'[j] = [t \in Target |-> history'[j][t]]
<1> DEFINE P == /\ history' = [j \in Job |-> history'[j]]
                /\ \A j \in Job : history'[j] = [t \in Target |-> history'[j][t]]
<1>0. history \in [Job -> [Target -> [status : RowStatus, progress : 0..Full]]]
  BY DEF OtaTypeOK
<1>1. ASSUME NEW i \in Job, NEW f, f = [t \in Target |-> f[t]], history' = [history EXCEPT ![i] = f]
      PROVE  P
  BY <1>0, <1>1
<1>2. ASSUME NEW i \in Job, CreateJob(i) PROVE P
  BY <1>0, <1>2 DEF CreateJob
<1>3. ASSUME NEW i \in Job, MarkSent(i) PROVE P
  BY <1>0, <1>3 DEF MarkSent, MarkHistory
<1>4. ASSUME NEW i \in Job, MarkFailed(i) PROVE P
  BY <1>0, <1>4 DEF MarkFailed, MarkHistory
<1>5. ASSUME NEW i \in Job, RollbackJob(i) PROVE P
  BY <1>0, <1>5 DEF RollbackJob
<1>6. CASE MoveRow
  <2>1. PICK r \in tick.rows : \E row :
          history' = [history EXCEPT ![r[1]][r[2]] = row]
    BY <1>6 DEF MoveRow
  <2>2. r[1] \in Job /\ r[2] \in Target
    BY OtaAssumption DEF OtaTypeOK
  <2> QED
    BY <1>0, <2>1, <2>2
<1>7. CASE UNCHANGED history
  BY <1>0, <1>7
<1> QED
  BY <1>2, <1>3, <1>4, <1>5, <1>6, <1>7
  DEF OtaNext, TickStep, DeployStep, PublishOtaCommand, CountOpen, CountFailed,
      FinalizeJob, ReadJob, RunOtaTick, WriteVersion, FinishJobIfDone, EndOtaTick,
      RowFails, TickFails, RequestFails, Restart, SetPower, otaVars

LEMMA FaultsMove ==
  ASSUME [OtaNext]_otaVars
  PROVE  UNCHANGED faults \/ (faults < MaxFaults /\ faults' = faults + 1)
  BY DEF OtaNext, TickStep, DeployStep, CreateJob, PublishOtaCommand, MarkSent,
         MarkFailed, CountOpen, CountFailed, FinalizeJob, ReadJob, RollbackJob,
         RequestFails, SetPower, RunOtaTick, MoveRow, WriteVersion, FinishJobIfDone,
         EndOtaTick, RowFails, TickFails, Restart, otaVars

LEMMA OtaTypeStep == OtaTypeOK /\ NotBegun /\ [OtaNext]_otaVars => OtaTypeOK'
<1> SUFFICES ASSUME OtaTypeOK, NotBegun, [OtaNext]_otaVars PROVE OtaTypeOK'
  OBVIOUS
<1>1. /\ jobStatus' \in [Job -> JobStatus] /\ deploy' \in [Job -> DeployCall]
      /\ TickTyped'
  BY JobsMove, CallsMove, TickMoves
<1>2. ASSUME NEW j \in Job, NEW t \in Target
      PROVE  /\ history'[j][t] \in [status : RowStatus, progress : 0..Full]
             /\ history'[j][t].progress = Full <=> history'[j][t].status = "applied"
  <2>1. history'[j][t] \in [status : RowStatus, progress : 0..Full] /\ RowStep(j, t)
    BY RowsMove
  <2>2. history[j][t].progress = Full <=> history[j][t].status = "applied"
    BY DEF OtaTypeOK
  <2>3. jobStatus[j] = "none" => history[j][t].status = "absent"
    BY DEF NotBegun
  <2> QED
    BY <2>1, <2>2, <2>3 DEF RowStep, Open, NotBegun
<1>3. history' \in [Job -> [Target -> [status : RowStatus, progress : 0..Full]]]
  BY <1>2, RowsShape
<1>4. /\ firmware' \in [Target -> Job \cup {None}]
      /\ simOnline' \in SUBSET Simulated
      /\ rolling' \in SUBSET Job
      /\ faults' \in 0..MaxFaults
  <2>0. /\ firmware \in [Target -> Job \cup {None}]
        /\ simOnline \in SUBSET Simulated
        /\ rolling \in SUBSET Job
        /\ faults \in 0..MaxFaults /\ MaxFaults \in Nat
        /\ tick.apply # None => tick.apply[1] \in Job
    BY OtaAssumption DEF OtaTypeOK
  <2>1. UNCHANGED firmware \/ WriteVersion
    BY DEF OtaNext, TickStep, DeployStep, CreateJob, PublishOtaCommand, MarkSent,
           MarkFailed, CountOpen, CountFailed, FinalizeJob, ReadJob, RollbackJob,
           RequestFails, SetPower, RunOtaTick, MoveRow, FinishJobIfDone,
           EndOtaTick, RowFails, TickFails, Restart, otaVars
  <2>2. firmware' \in [Target -> Job \cup {None}]
    BY <2>0, <2>1 DEF WriteVersion
  <2>3. UNCHANGED simOnline \/ \E t \in Simulated : simOnline' \in {simOnline \ {t}, simOnline \cup {t}}
    BY DEF OtaNext, TickStep, DeployStep, CreateJob, PublishOtaCommand, MarkSent,
           MarkFailed, CountOpen, CountFailed, FinalizeJob, ReadJob, RollbackJob,
           RequestFails, SetPower, RunOtaTick, MoveRow, WriteVersion, FinishJobIfDone,
           EndOtaTick, RowFails, TickFails, Restart, otaVars
  <2>4. UNCHANGED rolling \/ rolling' = {} \/ \E j \in Job : rolling' \in {rolling \ {j}, rolling \cup {j}}
    BY DEF OtaNext, TickStep, DeployStep, CreateJob, PublishOtaCommand, MarkSent,
           MarkFailed, CountOpen, CountFailed, FinalizeJob, ReadJob, RollbackJob,
           RequestFails, SetPower, RunOtaTick, MoveRow, WriteVersion, FinishJobIfDone,
           EndOtaTick, RowFails, TickFails, Restart, otaVars
  <2>5. UNCHANGED faults \/ (faults < MaxFaults /\ faults' = faults + 1)
    BY FaultsMove
  <2> QED
    BY <2>0, <2>2, <2>3, <2>4, <2>5
<1> QED
  BY <1>1, <1>2, <1>3, <1>4 DEF OtaTypeOK, TickTyped

LEMMA OtaInvInit == OtaInit => OtaInv
<1> SUFFICES ASSUME OtaInit PROVE OtaInv
  OBVIOUS
<1>1. \A j \in Job : OpenRows(j) = {}
  BY DEF OtaInit, OpenRows, Open
<1> QED
  BY <1>1, OtaTypeInit DEF OtaInit, OtaInv, NotBegun, Closing, RolledBackTogether,
     OverHasNoOpenRow, VerdictIsTrue, Lingering, NoDeploy

LEMMA NotBegunStep == OtaInv /\ [OtaNext]_otaVars => NotBegun'
<1> SUFFICES ASSUME OtaInv, [OtaNext]_otaVars, NEW j \in Job
             PROVE  /\ jobStatus'[j] = "none" <=> deploy'[j].pc = "idle"
                    /\ jobStatus'[j] = "none" =>
                         \A t \in Target : history'[j][t].status = "absent"
                    /\ j \in rolling' => jobStatus'[j] # "none"
  BY DEF NotBegun
<1>1. OtaTypeOK /\ NotBegun /\ Closing
  BY DEF OtaInv
<1>2. JobMove(j) /\ CallMove(j)
  BY <1>1, JobsMove, CallsMove
<1>3. jobStatus'[j] = "none" => jobStatus[j] = "none"
  BY <1>1, <1>2 DEF JobMove, Closing
<1>4. jobStatus'[j] = "none" <=> deploy'[j].pc = "idle"
  BY <1>1, <1>2 DEF JobMove, CallMove, NotBegun, Closing
<1>5. ASSUME jobStatus'[j] = "none", NEW t \in Target
      PROVE  history'[j][t].status = "absent"
  BY <1>1, <1>3, <1>5, RowsMove DEF RowStep, NotBegun, Open
<1>6. j \in rolling' => jobStatus'[j] # "none"
  <2>1. ASSUME j \in rolling' \ rolling PROVE jobStatus[j] # "none"
    BY <2>1 DEF OtaNext, TickStep, DeployStep, CreateJob, PublishOtaCommand, MarkSent,
           MarkFailed, CountOpen, CountFailed, FinalizeJob, ReadJob, RollbackJob,
           RequestFails, SetPower, RunOtaTick, MoveRow, WriteVersion, FinishJobIfDone,
           EndOtaTick, RowFails, TickFails, Restart, otaVars
  <2> QED
    BY <1>1, <1>3, <2>1 DEF NotBegun
<1> QED
  BY <1>4, <1>5, <1>6

\* No row of a job opens again, nor changes its status when none is open.
LEMMA NothingOpens ==
  ASSUME OtaInv, [OtaNext]_otaVars, NEW j \in Job, deploy[j].pc # "idle"
  PROVE  /\ OpenRows(j)' \subseteq OpenRows(j)
         /\ OpenRows(j) = {} => \A t \in Target : history'[j][t] = history[j][t]
<1>1. OtaTypeOK
  BY DEF OtaInv
<1>2. ASSUME NEW t \in Target
      PROVE  /\ history'[j][t].status \in Open => history[j][t].status \in Open
             /\ history[j][t].status \in Open \/ history'[j][t] = history[j][t]
  BY <1>1, RowsMove DEF RowStep
<1> QED
  BY <1>2 DEF OpenRows

LEMMA ClosingStep == OtaInv /\ [OtaNext]_otaVars => Closing'
<1> SUFFICES ASSUME OtaInv, [OtaNext]_otaVars, NEW j \in Job
             PROVE  /\ deploy'[j].pc \in {"count", "close"} => OpenRows(j)' = {}
                    /\ deploy'[j].pc = "close" =>
                         deploy'[j].verdict =
                           IF RowsIn(j, "failed")' # {} THEN "failed_partial" ELSE "completed"
  BY DEF Closing
<1>1. OtaTypeOK /\ Closing /\ CallMove(j)
  BY CallsMove DEF OtaInv
<1>2. CASE deploy'[j] = deploy[j] /\ deploy[j].pc \in {"count", "close"}
  <2>1. OpenRows(j) = {}
    BY <1>1, <1>2 DEF Closing
  <2>2. OpenRows(j)' = {} /\ \A t \in Target : history'[j][t] = history[j][t]
    BY <1>2, <2>1, NothingOpens
  <2>3. RowsIn(j, "failed")' = RowsIn(j, "failed")
    BY <2>2 DEF RowsIn
  <2> QED
    BY <1>1, <1>2, <2>2, <2>3 DEF Closing
<1>3. CASE deploy'[j] # deploy[j] /\ deploy'[j].pc \in {"count", "close"}
  <2>1. UNCHANGED history
    BY <1>1, <1>3 DEF CallMove
  <2>2. OpenRows(j)' = OpenRows(j) /\ RowsIn(j, "failed")' = RowsIn(j, "failed")
    BY <2>1 DEF OpenRows, RowsIn
  <2> QED
    BY <1>1, <1>3, <2>2 DEF CallMove, Closing
<1> QED
  BY <1>2, <1>3

LEMMA RolledBackTogetherStep == OtaInv /\ [OtaNext]_otaVars => RolledBackTogether'
<1> SUFFICES ASSUME OtaInv, [OtaNext]_otaVars, NEW j \in Job, NEW t \in Target,
                    history'[j][t].status = "rolled_back"
             PROVE  jobStatus'[j] = "rolled_back"
  BY DEF RolledBackTogether
<1>1. OtaTypeOK /\ JobMove(j) /\ RowStep(j, t)
  BY JobsMove, RowsMove DEF OtaInv
<1>2. history[j][t].status = "rolled_back" \/ jobStatus'[j] = "rolled_back"
  BY <1>1 DEF RowStep
<1>3. jobStatus[j] = "rolled_back" => jobStatus'[j] = "rolled_back"
  BY <1>1 DEF JobMove, OtaInv, NotBegun
<1> QED
  BY <1>2, <1>3 DEF OtaInv, RolledBackTogether

LEMMA OverHasNoOpenRowStep == OtaInv /\ [OtaNext]_otaVars => OverHasNoOpenRow'
<1> SUFFICES ASSUME OtaInv, [OtaNext]_otaVars, NEW j \in Job, jobStatus'[j] # "running"
             PROVE  OpenRows(j)' = {}
  BY DEF OverHasNoOpenRow
<1>1. OtaTypeOK /\ NotBegun /\ Closing /\ OverHasNoOpenRow /\ JobMove(j) /\ CallMove(j)
  BY JobsMove, CallsMove DEF OtaInv
<1>2. CASE jobStatus'[j] = jobStatus[j]
  <2>1. OpenRows(j) = {}
    BY <1>1, <1>2 DEF OverHasNoOpenRow
  <2>2. CASE deploy[j].pc # "idle"
    BY <2>1, <2>2, NothingOpens
  <2>3. CASE deploy[j].pc = "idle"
    <3>1. jobStatus'[j] = "none" /\ NotBegun'
      BY <1>1, <1>2, <2>3, NotBegunStep DEF NotBegun
    <3> QED
      BY <3>1 DEF NotBegun, OpenRows, Open
  <2> QED
    BY <2>2, <2>3
<1>3. CASE jobStatus'[j] = "rolled_back" /\ \A t \in Target : history'[j][t].status \notin Open
  BY <1>3 DEF OpenRows
<1>4. CASE deploy[j].pc = "close" /\ UNCHANGED history
  BY <1>1, <1>4 DEF Closing, OpenRows
<1>5. CASE UNCHANGED history /\ AllApplied(j)
  BY <1>5 DEF AllApplied, OpenRows, Open
<1> QED
  BY <1>1, <1>2, <1>3, <1>4, <1>5 DEF JobMove

\* What has ended stays as it ended, for one step.
LEMMA OutcomeStep ==
  ASSUME OtaInv, [OtaNext]_otaVars, NEW j \in Job
  PROVE  /\ jobStatus[j] = "rolled_back" => jobStatus'[j] = "rolled_back"
         /\ \A t \in Target :
              history[j][t].status \in {"applied", "failed", "rolled_back"}
                => history'[j][t] = history[j][t]
<1>1. OtaTypeOK /\ NotBegun /\ JobMove(j)
  BY JobsMove DEF OtaInv
<1>2. ASSUME NEW t \in Target, history[j][t].status \in {"applied", "failed", "rolled_back"}
      PROVE  history'[j][t] = history[j][t]
  BY <1>1, <1>2, RowsMove DEF RowStep, NotBegun, Open
<1> QED
  BY <1>1, <1>2 DEF JobMove, NotBegun

LEMMA VerdictIsTrueStep == OtaInv /\ [OtaNext]_otaVars => VerdictIsTrue'
<1> SUFFICES ASSUME OtaInv, [OtaNext]_otaVars, NEW j \in Job
             PROVE  /\ jobStatus'[j] = "completed" =>
                         \A t \in Target : history'[j][t].status \in {"absent", "applied"}
                    /\ jobStatus'[j] = "failed_partial" => RowsIn(j, "failed")' # {}
  BY DEF VerdictIsTrue
<1>1. /\ OtaTypeOK /\ NotBegun /\ Closing /\ VerdictIsTrue /\ OverHasNoOpenRow
      /\ RolledBackTogether /\ JobMove(j)
  BY JobsMove DEF OtaInv
<1>2. CASE jobStatus'[j] = jobStatus[j] /\ jobStatus[j] \in {"completed", "failed_partial"}
  <2>1. OpenRows(j) = {} /\ deploy[j].pc # "idle"
    BY <1>1, <1>2 DEF OverHasNoOpenRow, NotBegun
  <2>2. \A t \in Target : history'[j][t] = history[j][t]
    BY <2>1, NothingOpens
  <2> QED
    BY <1>1, <1>2, <2>2 DEF VerdictIsTrue, RowsIn
<1>3. CASE /\ deploy[j].pc = "close" /\ UNCHANGED history
           /\ jobStatus[j] = "running" /\ jobStatus'[j] = deploy[j].verdict
  <2>1. OpenRows(j) = {}
    BY <1>1, <1>3 DEF Closing
  <2>2. \A t \in Target : history[j][t].status \in {"absent", "applied", "failed"}
    <3>1. ASSUME NEW t \in Target
          PROVE  history[j][t].status \in RowStatus \ {"pending", "downloading", "rolled_back"}
      BY <1>1, <1>3, <2>1 DEF OtaTypeOK, OpenRows, Open, RolledBackTogether
    <3> QED
      BY <3>1 DEF RowStatus
  <2>3. CASE RowsIn(j, "failed") = {}
    BY <1>1, <1>3, <2>2, <2>3 DEF Closing, RowsIn
  <2>4. CASE RowsIn(j, "failed") # {}
    BY <1>1, <1>3, <2>4 DEF Closing, RowsIn
  <2> QED
    BY <2>3, <2>4
<1>4. CASE UNCHANGED history /\ AllApplied(j) /\ jobStatus'[j] = "completed"
  BY <1>4 DEF AllApplied
<1> QED
  BY <1>1, <1>2, <1>3, <1>4 DEF JobMove

LEMMA LingeringStep == OtaInv /\ [OtaNext]_otaVars => Lingering'
<1> SUFFICES ASSUME OtaInv, [OtaNext]_otaVars, NEW j \in Job,
                    jobStatus'[j] = "running", OpenRows(j)' = {}, deploy'[j].pc = "done",
                    faults' = 0
             PROVE  /\ RowsIn(j, "applied")' # {}
                    /\ RowsIn(j, "failed")' # {} \/ Noticed(j)'
  BY DEF Lingering, Noticed
<1>1. /\ OtaTypeOK /\ NotBegun /\ Closing /\ RolledBackTogether /\ Lingering
      /\ JobMove(j) /\ CallMove(j)
  BY JobsMove, CallsMove DEF OtaInv
<1>2. faults = 0 /\ faults' # faults + 1
  <2>1. faults \in Nat
    BY <1>1, OtaAssumption DEF OtaTypeOK
  <2> QED
    BY <2>1, FaultsMove
<1>3. jobStatus[j] = "running"
  BY <1>1 DEF JobMove
<1>4. deploy[j].pc = "done"
  <2>1. CASE deploy[j].pc = "close"
    BY <1>1, <1>2, <1>3, <2>1 DEF CallMove, Closing, Finalized
  <2>2. CASE deploy[j].pc = "open" /\ OpenRows(j) # {} /\ UNCHANGED history
    BY <2>2 DEF OpenRows
  <2> QED
    BY <1>1, <1>2, <2>1, <2>2 DEF CallMove
<1>5. CASE OpenRows(j) = {}
  <2>1. \A t \in Target : history'[j][t] = history[j][t]
    BY <1>4, <1>5, NothingOpens
  <2>2. RowsIn(j, "applied") # {} /\ (RowsIn(j, "failed") # {} \/ Noticed(j))
    BY <1>1, <1>2, <1>3, <1>4, <1>5 DEF Lingering, Noticed
  <2>3. RowsIn(j, "applied")' # {} /\ (RowsIn(j, "failed") # {} => RowsIn(j, "failed")' # {})
    BY <2>1, <2>2 DEF RowsIn
  <2>4. ASSUME Noticed(j), ~Noticed(j)' PROVE RowsIn(j, "failed") # {}
    <3>1. ~AllApplied(j)
      BY <1>2, <1>3, <2>4, TickMoves, <1>1
    <3>2. PICK t \in Target : history[j][t].status \notin {"absent", "applied"}
      BY <3>1 DEF AllApplied
    <3>3. history[j][t].status \in RowStatus \ {"pending", "downloading", "rolled_back"}
      BY <1>1, <1>3, <1>5 DEF OtaTypeOK, OpenRows, Open, RolledBackTogether
    <3> QED
      BY <3>2, <3>3 DEF RowStatus, RowsIn
  <2> QED
    BY <2>2, <2>3, <2>4
<1>6. CASE OpenRows(j) # {}
  <2>1. PICK t \in Target : history[j][t].status \in Open /\ history'[j][t].status \notin Open
    BY <1>6 DEF OpenRows
  <2>2. RowStep(j, t)
    BY <1>1, RowsMove
  <2>3. history'[j][t].status = "applied" /\ tick'.apply = <<j, t>>
    BY <1>4, <2>1, <2>2 DEF RowStep, Open
  <2>4. <<j, t>> # None
    BY <2>3, OtaAssumption
  <2> QED
    BY <2>1, <2>3, <2>4 DEF RowsIn, Noticed
<1> QED
  BY <1>5, <1>6

LEMMA OtaInvStep == OtaInv /\ [OtaNext]_otaVars => OtaInv'
  BY OtaTypeStep, NotBegunStep, ClosingStep, RolledBackTogetherStep, OverHasNoOpenRowStep,
     VerdictIsTrueStep, LingeringStep DEF OtaInv

\* The invariant holds in every state of the specification.
LEMMA OtaInvariance == OtaSpec => []OtaInv
  BY OtaInvInit, OtaInvStep, PTL DEF OtaSpec

\* The status of a job tells what became of its rows.
THEOREM JobsTellRows == OtaSpec => []JobTellsRows
<1>1. OtaInv => JobTellsRows
  <2>1. ASSUME OtaInv, NEW j \in Job, jobStatus[j] = "running", OpenRows(j) = {},
               deploy[j].pc = "done", ~tick.running, faults = 0
        PROVE  RowsIn(j, "failed") # {} /\ RowsIn(j, "applied") # {}
    <3>1. tick = TickOver
      BY <2>1 DEF OtaInv, OtaTypeOK
    <3> QED
      BY <2>1, <3>1 DEF OtaInv, Lingering, TickOver
  <2> QED
    BY <2>1 DEF OtaInv, JobTellsRows, OnlyMixedJobsLinger
<1> QED
  BY <1>1, OtaInvariance, PTL

\* A job that was rolled back, and a row that was applied, failed or rolled
\* back, stays as it is.
THEOREM OutcomesAreFinal == OtaSpec => OutcomeIsFinal
<1>1. OtaInv /\ [OtaNext]_otaVars =>
        [\A j \in Job :
           /\ jobStatus[j] = "rolled_back" => jobStatus'[j] = "rolled_back"
           /\ \A t \in Target :
                history[j][t].status \in {"applied", "failed", "rolled_back"}
                  => history'[j][t] = history[j][t]]_otaVars
  BY OutcomeStep
<1> QED
  BY <1>1, OtaInvariance, PTL DEF OtaSpec, OutcomeIsFinal

-----------------------------------------------------------------------------
(***************************************************************************)
(* OperatorAccess: the inductive invariant.  A self-service grant trusts,  *)
(* when it inserts, what it has read two statements before (Trusted); that *)
(* stays true because whoever could change it waits for the row of the     *)
(* operator (the last conjuncts of OperatorTypeOK).  A write trusts what   *)
(* its request has read (WriteWasPermitted).                               *)
(***************************************************************************)
Deleted(o) == account[o].status = "deleted"

\* What a request is about, by where it is.
RequestFits(c) ==
  LET r == request[c] IN
  /\ r.pc \in {"cookie", "token", "home", "check", "apply", "lock", "active", "count",
               "insert", "give"} => r.op \in Operator /\ r.home \in House
  /\ r.pc \in {"cookie", "home"} => r.kind \in {"self", "write", "edit"}
  /\ r.pc = "check" => r.kind = "write"
  /\ r.pc = "token" => r.kind = "legacy"
  /\ r.pc = "apply" => r.kind \in {"write", "edit", "legacy"}
  /\ r.pc \in {"lock", "active", "count", "insert"} => r.kind = "self"
  /\ r.pc = "revoke" => r.grant \in 1..MaxGrant

\* Rows that were never made are not there, and nobody revoked them.
Unmade == \A i \in 1..MaxGrant : i > made => grants[i] = Nothing /\ revoked[i] = 0

Trusted ==
  \A c \in Caller, o \in Operator, h \in House :
    request[c].op = o /\ request[c].home = h /\ ~Deleted(o) =>
      /\ request[c].pc \in {"count", "insert"} => OpenGrants(o, h) = {}
      /\ request[c].pc = "insert" => Cardinality(SelfServiceOf(o)) < DailyLimit

Revocations ==
  \A i \in 1..MaxGrant :
    /\ revoked[i] <= 1
    /\ IsRow(i) /\ ~grants[i].revoked => revoked[i] = 0

Sessions ==
  \A o \in Operator :
    /\ cookie[o].version <= account[o].version
    /\ cookie[o].since \subseteq {"reset"} \/ cookie[o].version < account[o].version

OperatorInv ==
  /\ OperatorTypeOK /\ (\A c \in Caller : RequestFits(c)) /\ Unmade /\ Trusted
  /\ Revocations /\ Sessions /\ SelfServiceLimit /\ WriteWasPermitted

\* Types of the variables but the locks: everything of OperatorTypeOK that does
\* not relate two of them.
OperatorVarsOK ==
  /\ account \in [Operator -> [status : {"active", "locked", "deleted"},
                               version : 0..(MaxLogins + 1)]]
  /\ cookie \in [Operator -> [version : 0..(MaxLogins + 1), since : SUBSET Incident]]
  /\ logins \in [Operator -> 0..MaxLogins]
  /\ claimed \subseteq House
  /\ grants \in [1..MaxGrant -> GrantRow \cup {Nothing}] /\ made \in 0..MaxGrant
  /\ userLock \in [Operator -> Caller \cup {Nothing}]
  /\ request \in [Caller -> RequestRecord]
  /\ revoked \in [1..MaxGrant -> Nat] /\ could \subseteq Caller

\* A self-service grant under way has locked its operator, and nobody else has.
LocksFit ==
  /\ \A c \in Caller : request[c].pc \in {"active", "count", "insert"} =>
       userLock[request[c].op] = c \/ Deleted(request[c].op)
  /\ \A o \in Operator, c \in Caller : userLock[o] = c =>
       request[c].op = o /\ request[c].pc \in {"active", "count", "insert"}

LEMMA OperatorTypeParts == OperatorTypeOK <=> OperatorVarsOK /\ LocksFit
  BY DEF OperatorTypeOK, OperatorVarsOK, LocksFit, Deleted

\* Nothing of what the actions on the rows of requests leave alone.
OnlyRequests == UNCHANGED <<account, cookie, logins, claimed, grants, made, userLock, revoked>>

\* How the request of one caller moves on.
Advances(c) ==
  LET r == request[c]
      To(pc) == request'[c] = [r EXCEPT !.pc = pc] IN
  \/ r.pc = "cookie" /\ To("home") /\ CookieHolds(r.op) /\ OnlyRequests
  \/ r.pc = "token" /\ To("apply") /\ OnlyRequests
  \/ r.pc = "home" /\ r.kind = "self" /\ To("lock") /\ OnlyRequests
  \/ r.pc = "home" /\ r.kind \in {"write", "edit"} /\ r.home \notin claimed /\ To("apply")
     /\ OnlyRequests
  \/ r.pc = "home" /\ r.kind = "write" /\ To("check") /\ OnlyRequests
  \/ r.pc = "check" /\ OpenGrants(r.op, r.home) # {} /\ To("apply") /\ OnlyRequests
  \/ r.pc = "lock" /\ To("active")
  \/ r.pc = "active" /\ OpenGrants(r.op, r.home) = {} /\ To("count") /\ OnlyRequests
  \/ r.pc = "count" /\ BelowLimit(r.op) /\ To("insert") /\ OnlyRequests

Asks(c) ==
  /\ request[c].pc = "idle" /\ OnlyRequests
  /\ \/ \E o \in Operator, h \in House, kind \in {"self", "write", "edit"} :
          request'[c] = NewRequest(kind, o, h, 0, "cookie")
     \/ \E o \in Operator, h \in House : request'[c] = NewRequest("legacy", o, h, 0, "token")
     \/ \E o \in Operator, h \in House : request'[c] = NewRequest("admin", o, h, 0, "give")
     \/ \E i \in 1..MaxGrant :
          request'[c] = NewRequest("revoke", Nothing, Nothing, i, "revoke")

LEMMA AsksAnew ==
  ASSUME NEW c \in Caller, request'[c] = NoRequest \/ Asks(c)
  PROVE  request'[c].pc \in {"idle", "cookie", "token", "give", "revoke"}
<1>1. \E kind, o, h, i, pc : /\ pc \in {"idle", "cookie", "token", "give", "revoke"}
                             /\ request'[c] = NewRequest(kind, o, h, i, pc)
  <2>1. CASE request'[c] = NoRequest
    BY <2>1 DEF NoRequest
  <2>2. CASE Asks(c)
    BY <2>2 DEF Asks
  <2> QED BY <2>1, <2>2
<1> QED BY <1>1 DEF NewRequest

LEMMA Goes ==
  ASSUME NEW kind \in {"self", "write", "edit"}, NEW free \in BOOLEAN
  PROVE  GoesTo(kind, free) = IF kind = "self" THEN "lock"
                              ELSE IF free THEN "apply"
                              ELSE IF kind = "write" THEN "check" ELSE "refused"
<1>1. GoesTo("self", free) = "lock"
  BY Zenon DEF GoesTo
<1>2. free => GoesTo("write", free) = "apply" /\ GoesTo("edit", free) = "apply"
  BY Zenon DEF GoesTo
<1>3. ~free => GoesTo("write", free) = "check" /\ GoesTo("edit", free) = "refused"
  BY Zenon DEF GoesTo
<1> QED
  BY <1>1, <1>2, <1>3

LEMMA RequestsMove ==
  ASSUME OperatorVarsOK, \A c \in Caller : RequestFits(c), OperatorStep, NEW c \in Caller
  PROVE  request'[c] = request[c] \/ request'[c] = NoRequest \/ Asks(c) \/ Advances(c)
<1>1. ASSUME NEW d \in Caller, CallerStep(d)
      PROVE  request'[c] = request[c] \/ request'[c] = NoRequest \/ Advances(c)
  <2>1. CASE Authenticate(d) \/ AuthenticateLegacy(d) \/ Apply(d)
    BY <2>1 DEF Authenticate, AuthenticateLegacy, Apply, Move, Answer, Advances,
       OnlyRequests, OperatorVarsOK
  <2>2. CASE ReadHome(d)
    <3>1. request[d].kind \in {"self", "write", "edit"}
      BY <2>2 DEF ReadHome, RequestFits
    <3> DEFINE next == GoesTo(request[d].kind, request[d].home \notin claimed)
    <3>2. next = IF request[d].kind = "self" THEN "lock"
                 ELSE IF request[d].home \notin claimed THEN "apply"
                 ELSE IF request[d].kind = "write" THEN "check" ELSE "refused"
      BY <3>1, Goes
    <3>3. IF next = "refused" THEN Answer(d) ELSE Move(d, next)
      BY <2>2 DEF ReadHome
    <3> HIDE DEF next
    <3> QED
      BY <2>2, <3>1, <3>2, <3>3
         DEF ReadHome, Move, Answer, Advances, OnlyRequests, OperatorVarsOK
  <2>3. CASE CheckGrant(d)
    BY <2>3 DEF CheckGrant, Move, Answer, Advances, OnlyRequests, OperatorVarsOK
  <2>4. CASE LockOperator(d) \/ FindActive(d) \/ CountSelfService(d)
    BY <2>4 DEF LockOperator, FindActive, CountSelfService, Move, Answer,
                Advances, OnlyRequests, OperatorVarsOK
  <2>5. CASE InsertSelfService(d) \/ InsertAdminGrant(d) \/ MarkRevoked(d)
    BY <2>5 DEF InsertSelfService, InsertAdminGrant, MarkRevoked, Answer, OperatorVarsOK
  <2> QED BY <1>1, <2>1, <2>2, <2>3, <2>4, <2>5 DEF CallerStep
<1>2. ASSUME NEW d \in Caller, (\E o \in Operator, h \in House :
                                OperatorAsks(d, o, h) \/ AdminAsks(d, o, h))
                             \/ (\E i \in 1..MaxGrant : AskRevoke(d, i))
      PROVE request'[c] = request[c] \/ Asks(c)
  <2>1. ASSUME NEW o \in Operator, NEW h \in House, OperatorAsks(d, o, h)
        PROVE  request'[c] = request[c] \/ Asks(c)
    BY <2>1 DEF OperatorAsks, Asks, OnlyRequests, OperatorVarsOK
  <2>2. ASSUME NEW o \in Operator, NEW h \in House, AdminAsks(d, o, h)
        PROVE  request'[c] = request[c] \/ Asks(c)
    BY <2>2 DEF AdminAsks, Asks, OnlyRequests, OperatorVarsOK
  <2>3. ASSUME NEW i \in 1..MaxGrant, AskRevoke(d, i)
        PROVE  request'[c] = request[c] \/ Asks(c)
    BY <2>3 DEF AskRevoke, Asks, OnlyRequests, OperatorVarsOK
  <2> QED BY <1>2, <2>1, <2>2, <2>3
<1>3. ASSUME \/ \E i \in 1..MaxGrant : Expire(i) \/ LeaveWindow(i)
             \/ \E h \in House : Claim(h)
             \/ \E o \in Operator : \/ RemoveStaff(o) \/ LoginOperator(o)
                                    \/ LogoutOperator(o) \/ ResetPassword(o)
                                    \/ \E patch \in {"active", "locked", "password"} :
                                         PatchStaff(o, patch)
      PROVE  request'[c] = request[c]
  BY <1>3 DEF Expire, LeaveWindow, Claim, RemoveStaff, LoginOperator, LogoutOperator,
     ResetPassword, PatchStaff
<1> QED
  BY <1>1, <1>2, <1>3 DEF OperatorStep

\* What becomes of a row when one of its flags moves on.
FlagMoved(g, n) ==
  /\ n \in GrantRow /\ n.op = g.op /\ n.home = g.home /\ n.self = g.self
  /\ g.revoked => n.revoked
  /\ g.expired => n.expired
  /\ n.recent => g.recent

\* A row of the table leaves it, or has a flag moved on.
GrantFades(i) ==
  \/ grants'[i] = grants[i]
  \/ grants'[i] = Nothing
  \/ IsRow(i) /\ FlagMoved(grants[i], grants'[i])

\* A row is made by a request that is answered with it.
GrantMadeBy(c) ==
  LET r == request[c] IN
  /\ r.pc \in {"insert", "give"} /\ made < MaxGrant /\ ~Deleted(r.op)
  /\ r.pc = "give" => Unlocked(r.op)
  /\ made' = made + 1
  /\ grants' = [grants EXCEPT ![made + 1] = NewGrant(r.op, r.home, r.pc = "insert")]
  /\ Answer(c) /\ UNCHANGED <<account, revoked>>

LEMMA FlagsMoveOn ==
  ASSUME NEW g \in GrantRow, NEW n,
         \/ n = [g EXCEPT !.revoked = TRUE] \/ n = [g EXCEPT !.expired = TRUE]
         \/ n = [g EXCEPT !.recent = FALSE]
  PROVE  FlagMoved(g, n)
<1>1. CASE n = [g EXCEPT !.revoked = TRUE]
  BY <1>1 DEF GrantRow, FlagMoved
<1>2. CASE n = [g EXCEPT !.expired = TRUE]
  BY <1>2 DEF GrantRow, FlagMoved
<1>3. CASE n = [g EXCEPT !.recent = FALSE]
  BY <1>3 DEF GrantRow, FlagMoved
<1> QED BY <1>1, <1>2, <1>3

LEMMA GrantsMove ==
  ASSUME OperatorVarsOK, OperatorStep
  PROVE  \/ made' = made /\ \A i \in 1..MaxGrant : GrantFades(i)
         \/ \E c \in Caller : GrantMadeBy(c)
<1>1. UNCHANGED <<grants, made>> => made' = made /\ \A i \in 1..MaxGrant : GrantFades(i)
  BY DEF GrantFades
<1>2. ASSUME NEW c \in Caller, InsertSelfService(c) \/ InsertAdminGrant(c)
      PROVE  UNCHANGED <<grants, made>> \/ GrantMadeBy(c)
  BY <1>2 DEF InsertSelfService, InsertAdminGrant, GrantMadeBy, Deleted, Referenced
<1>3. ASSUME NEW c \in Caller, MarkRevoked(c), NEW i \in 1..MaxGrant
      PROVE  made' = made /\ GrantFades(i)
  <2> DEFINE k == request[c].grant
  <2>1. CASE StillGranted(k)
    <3>1. grants'[i] = IF i = k THEN [grants[i] EXCEPT !.revoked = TRUE] ELSE grants[i]
      BY <1>3, <2>1 DEF MarkRevoked, OperatorVarsOK
    <3>2. i = k => grants[i] \in GrantRow
      BY <2>1 DEF StillGranted, IsRow, OperatorVarsOK
    <3>3. i = k => FlagMoved(grants[i], grants'[i])
      BY <3>1, <3>2, FlagsMoveOn
    <3>4. made' = made
      BY <1>3 DEF MarkRevoked
    <3> QED
      BY <2>1, <3>1, <3>3, <3>4 DEF StillGranted, IsRow, GrantFades
  <2>2. CASE ~StillGranted(k)
    BY <1>3, <2>2, <1>1 DEF MarkRevoked
  <2> QED BY <2>1, <2>2
<1>4. ASSUME NEW j \in 1..MaxGrant, Expire(j) \/ LeaveWindow(j), NEW i \in 1..MaxGrant
      PROVE  made' = made /\ GrantFades(i)
  <2>1. made' = made /\ IsRow(j)
    BY <1>4 DEF Expire, LeaveWindow, IsOpen
  <2>2. \/ grants'[i] = grants[i]
        \/ i = j /\ grants'[i] = [grants[i] EXCEPT !.expired = TRUE]
        \/ i = j /\ grants'[i] = [grants[i] EXCEPT !.recent = FALSE]
    BY <1>4 DEF Expire, LeaveWindow, OperatorVarsOK
  <2>3. i = j => grants[i] \in GrantRow
    BY <2>1 DEF IsRow, OperatorVarsOK
  <2>4. grants'[i] = grants[i] \/ (i = j /\ FlagMoved(grants[i], grants'[i]))
    BY <2>2, <2>3, FlagsMoveOn
  <2> QED
    BY <2>1, <2>4 DEF GrantFades
<1>5. ASSUME NEW o \in Operator, RemoveStaff(o), NEW i \in 1..MaxGrant
      PROVE  made' = made /\ GrantFades(i)
  BY <1>5 DEF RemoveStaff, GrantFades
<1>6. ASSUME NEW c \in Caller, CallerStep(c), ~InsertSelfService(c), ~InsertAdminGrant(c),
             ~MarkRevoked(c)
      PROVE  UNCHANGED <<grants, made>>
  BY <1>6 DEF CallerStep, Authenticate, AuthenticateLegacy, ReadHome, CheckGrant, Apply,
     LockOperator, FindActive, CountSelfService
<1>7. ASSUME NEW c \in Caller, NEW o \in Operator, NEW h \in House,
             OperatorAsks(c, o, h) \/ AdminAsks(c, o, h)
      PROVE  UNCHANGED <<grants, made>>
  BY <1>7 DEF OperatorAsks, AdminAsks
<1>8. ASSUME NEW c \in Caller, NEW i \in 1..MaxGrant, AskRevoke(c, i)
      PROVE  UNCHANGED <<grants, made>>
  BY <1>8 DEF AskRevoke
<1>9. ASSUME \/ \E h \in House : Claim(h)
             \/ \E o \in Operator : \/ LoginOperator(o) \/ LogoutOperator(o) \/ ResetPassword(o)
                                    \/ \E patch \in {"active", "locked", "password"} :
                                         PatchStaff(o, patch)
      PROVE  UNCHANGED <<grants, made>>
  BY <1>9 DEF Claim, LoginOperator, LogoutOperator, ResetPassword, PatchStaff
<1>10. ASSUME NEW c \in Caller, CallerStep(c)
       PROVE  \/ made' = made /\ \A i \in 1..MaxGrant : GrantFades(i)
              \/ GrantMadeBy(c)
  <2>1. CASE InsertSelfService(c) \/ InsertAdminGrant(c)
    BY <1>1, <1>2, <2>1
  <2>2. CASE MarkRevoked(c)
    <3>1. made' = made
      BY <2>2 DEF MarkRevoked
    <3> QED BY <1>3, <2>2, <3>1
  <2> QED
    BY <1>1, <1>6, <1>10, <2>1, <2>2
<1>11. ASSUME NEW c \in Caller,
              \/ \E o \in Operator, h \in House : OperatorAsks(c, o, h) \/ AdminAsks(c, o, h)
              \/ \E i \in 1..MaxGrant : AskRevoke(c, i)
       PROVE  UNCHANGED <<grants, made>>
  BY <1>7, <1>8, <1>11
<1>12. CASE \E j \in 1..MaxGrant : Expire(j) \/ LeaveWindow(j)
  <2>1. made' = made
    BY <1>12 DEF Expire, LeaveWindow
  <2> QED BY <1>4, <1>12, <2>1
<1>13. CASE \E o \in Operator : RemoveStaff(o)
  <2>1. made' = made
    BY <1>13 DEF RemoveStaff
  <2> QED BY <1>5, <1>13, <2>1
<1>14. CASE UNCHANGED <<grants, made>>
  BY <1>1, <1>14
<1> QED
  BY <1>9, <1>10, <1>11, <1>12, <1>13, <1>14 DEF OperatorStep

\* Requests that are past lockOperatorRow.
Locking == {"active", "count", "insert"}

KeepsLocks ==
  /\ UNCHANGED userLock
  /\ \A c \in Caller : request'[c].pc \in Locking \/ request[c].pc \in Locking =>
       /\ request'[c].pc \in Locking /\ request[c].pc \in Locking
       /\ request'[c].op = request[c].op
  /\ \A o \in Operator : Deleted(o) => Deleted(o)'

TakesLock(c) ==
  /\ request[c].pc = "lock" /\ Move(c, "active") /\ UNCHANGED account
  /\ IF Deleted(request[c].op) THEN UNCHANGED userLock ELSE LockedBy(c, request[c].op)

GivesLock(c) ==
  request[c].pc \in Locking /\ Answer(c) /\ Released(c) /\ UNCHANGED account

LEMMA Moved ==
  ASSUME OperatorVarsOK, NEW d \in Caller, NEW pc, Move(d, pc), NEW c \in Caller
  PROVE  /\ request'[c].pc = IF c = d THEN pc ELSE request[c].pc
         /\ request'[c].kind = request[c].kind /\ request'[c].op = request[c].op
         /\ request'[c].home = request[c].home /\ request'[c].grant = request[c].grant
         /\ c # d => request'[c] = request[c]
<1>1. request[c] \in RequestRecord
  BY DEF OperatorVarsOK
<1>2. request'[c] = IF c = d THEN [request[c] EXCEPT !.pc = pc] ELSE request[c]
  BY DEF Move, OperatorVarsOK
<1> QED
  BY <1>1, <1>2 DEF RequestRecord

LEMMA Answered ==
  ASSUME OperatorVarsOK, NEW d \in Caller, Answer(d), NEW c \in Caller
  PROVE  /\ request'[c] = IF c = d THEN NoRequest ELSE request[c]
         /\ c = d => request'[c].pc = "idle"
  BY DEF Answer, NoRequest, NewRequest, OperatorVarsOK

LEMMA LocksMove ==
  ASSUME OperatorVarsOK, \A c \in Caller : RequestFits(c), OperatorStep
  PROVE  KeepsLocks \/ \E c \in Caller : TakesLock(c) \/ GivesLock(c)
<1>1. ASSUME NEW d \in Caller, CallerStep(d)
      PROVE  KeepsLocks \/ TakesLock(d) \/ GivesLock(d)
  <2>1. CASE LockOperator(d)
    BY <2>1 DEF LockOperator, TakesLock, Deleted
  <2>2. CASE UNCHANGED userLock /\ ~LockOperator(d)
    <3>1. UNCHANGED account
      BY <1>1, <2>2 DEF CallerStep, Authenticate, AuthenticateLegacy, ReadHome, CheckGrant,
         Apply, FindActive, CountSelfService, InsertSelfService, InsertAdminGrant, MarkRevoked
    <3>2. CASE FindActive(d) \/ CountSelfService(d) \/ InsertSelfService(d)
      <4>1. request[d].pc \in Locking
        BY <3>2 DEF FindActive, CountSelfService, InsertSelfService, Locking
      <4>2. GivesLock(d) \/ Move(d, "count") \/ Move(d, "insert")
        BY <3>1, <3>2, <4>1 DEF FindActive, CountSelfService, InsertSelfService, GivesLock
      <4> QED
        BY <2>2, <3>1, <4>1, <4>2, Moved DEF KeepsLocks, Locking, Deleted
    <3>3. CASE Authenticate(d) \/ AuthenticateLegacy(d) \/ CheckGrant(d) \/ Apply(d)
      <4>1. request[d].pc \notin Locking
        BY <3>3 DEF Authenticate, AuthenticateLegacy, CheckGrant, Apply, Locking
      <4>2. Answer(d) \/ Move(d, "home") \/ Move(d, "apply")
        BY <3>3 DEF Authenticate, AuthenticateLegacy, CheckGrant, Apply
      <4> QED
        BY <2>2, <3>1, <4>1, <4>2, Moved, Answered DEF KeepsLocks, Locking, Deleted
    <3>4. CASE ReadHome(d)
      <4>1. request[d].kind \in {"self", "write", "edit"}
        BY <3>4 DEF ReadHome, RequestFits
      <4> DEFINE next == GoesTo(request[d].kind, request[d].home \notin claimed)
      <4>2. next \in {"lock", "apply", "check", "refused"}
        BY <4>1, Goes
      <4>3. request[d].pc = "home" /\ IF next = "refused" THEN Answer(d) ELSE Move(d, next)
        BY <3>4 DEF ReadHome
      <4> HIDE DEF next
      <4> QED
        BY <2>2, <3>1, <4>2, <4>3, Moved, Answered DEF KeepsLocks, Locking, Deleted
    <3>5. CASE InsertAdminGrant(d) \/ MarkRevoked(d)
      <4>1. request[d].pc \notin Locking /\ Answer(d)
        BY <3>5 DEF InsertAdminGrant, MarkRevoked, Locking
      <4> QED
        BY <2>2, <3>1, <4>1, Answered DEF KeepsLocks, Locking, Deleted
    <3> QED BY <1>1, <2>2, <3>2, <3>3, <3>4, <3>5 DEF CallerStep
  <2>3. CASE userLock' # userLock /\ ~LockOperator(d)
    <3>1. FindActive(d) \/ CountSelfService(d) \/ InsertSelfService(d)
      BY <1>1, <2>3 DEF CallerStep, Authenticate, AuthenticateLegacy, ReadHome, CheckGrant, Apply,
         InsertAdminGrant, MarkRevoked
    <3> QED
      BY <2>3, <3>1 DEF FindActive, CountSelfService, InsertSelfService, GivesLock, Locking
  <2> QED BY <2>1, <2>2, <2>3
<1>2. ASSUME NEW d \in Caller, NEW o \in Operator, NEW h \in House,
             OperatorAsks(d, o, h) \/ AdminAsks(d, o, h)
      PROVE  KeepsLocks
  <2>1. /\ request[d].pc = "idle" /\ UNCHANGED <<userLock, account>>
        /\ \E kind, pc : pc \in {"cookie", "token", "give"} /\
             request' = [request EXCEPT ![d] = NewRequest(kind, o, h, 0, pc)]
    BY <1>2 DEF OperatorAsks, AdminAsks
  <2> QED
    BY <2>1 DEF NewRequest, KeepsLocks, Locking, Deleted, OperatorVarsOK
<1>3. ASSUME NEW d \in Caller, NEW i \in 1..MaxGrant, AskRevoke(d, i)
      PROVE  KeepsLocks
  BY <1>3 DEF AskRevoke, NewRequest, KeepsLocks, Locking, Deleted, OperatorVarsOK
<1>4. ASSUME \/ \E i \in 1..MaxGrant : Expire(i) \/ LeaveWindow(i)
             \/ \E h \in House : Claim(h)
             \/ \E o \in Operator : LoginOperator(o) \/ ResetPassword(o)
      PROVE  KeepsLocks
  <2>1. UNCHANGED <<userLock, request, account>>
    BY <1>4 DEF Expire, LeaveWindow, Claim, LoginOperator, ResetPassword
  <2> QED BY <2>1 DEF KeepsLocks, Deleted
<1>5. ASSUME NEW o \in Operator, RemoveStaff(o)
      PROVE  KeepsLocks
  BY <1>5 DEF RemoveStaff, KeepsLocks, Deleted, OperatorVarsOK
<1>6. ASSUME NEW o \in Operator, NEW patch \in {"active", "locked", "password"},
             PatchStaff(o, patch)
      PROVE  KeepsLocks
  <2>1. UNCHANGED <<userLock, request>> /\ ~Deleted(o)
    BY <1>6 DEF PatchStaff, Deleted
  <2>2. \A p \in Operator \ {o} : account'[p] = account[p]
    BY <1>6 DEF PatchStaff, OperatorVarsOK
  <2> QED BY <2>1, <2>2 DEF KeepsLocks, Deleted
<1>7. ASSUME NEW o \in Operator, LogoutOperator(o)
      PROVE  KeepsLocks
  <2>1. UNCHANGED <<userLock, request>>
    BY <1>7 DEF LogoutOperator
  <2>2. \A p \in Operator : Deleted(p) => Deleted(p)'
    BY <1>7 DEF LogoutOperator, Deleted, OperatorVarsOK
  <2> QED BY <2>1, <2>2 DEF KeepsLocks
<1> QED
  BY <1>1, <1>2, <1>3, <1>4, <1>5, <1>6, <1>7 DEF OperatorStep

LEMMA LocksFitStep ==
  ASSUME OperatorVarsOK, \A c \in Caller : RequestFits(c), LocksFit, OperatorStep
  PROVE  LocksFit'
<1>1. CASE KeepsLocks
  BY <1>1 DEF KeepsLocks, LocksFit, Locking, RequestFits
<1>2. ASSUME NEW d \in Caller, TakesLock(d) PROVE LocksFit'
  <2> DEFINE p == request[d].op
  <2>1. /\ request[d].pc = "lock" /\ p \in Operator /\ UNCHANGED account
        /\ \A c \in Caller : /\ request'[c].pc = IF c = d THEN "active" ELSE request[c].pc
                             /\ request'[c].op = request[c].op
    BY <1>2, Moved DEF TakesLock, RequestFits
  <2>2. \A o \in Operator : userLock'[o] = IF o = p /\ ~Deleted(p) THEN d ELSE userLock[o]
    BY <1>2, <2>1 DEF TakesLock, LockedBy, OperatorVarsOK
  <2>3. Deleted(p) \/ \A c \in Caller : userLock[p] # c
    BY <1>2, OperatorAssumption DEF TakesLock, LockedBy, Unlocked
  <2>4. \A c \in Caller : request[c].pc \in {"active", "count", "insert"} =>
                            request[c].op \in Operator
    BY DEF RequestFits
  <2> QED
    BY <2>1, <2>2, <2>3, <2>4 DEF LocksFit, Deleted
<1>3. ASSUME NEW d \in Caller, GivesLock(d) PROVE LocksFit'
  <2>1. \A c \in Caller : /\ request'[c] = IF c = d THEN NoRequest ELSE request[c]
                          /\ c = d => request'[c].pc = "idle"
    BY <1>3, Answered DEF GivesLock
  <2>2. \A o \in Operator : userLock'[o] = IF userLock[o] = d THEN Nothing ELSE userLock[o]
    BY <1>3 DEF GivesLock, Released
  <2>3. \A c \in Caller : request[c].pc \in {"active", "count", "insert"} =>
                            request[c].op \in Operator
    BY DEF RequestFits
  <2>4. UNCHANGED account /\ Nothing \notin Caller
    BY <1>3, OperatorAssumption DEF GivesLock
  <2> QED
    BY <2>1, <2>2, <2>3, <2>4 DEF LocksFit, Deleted
<1> QED
  BY <1>1, <1>2, <1>3, LocksMove

\* The cookie and the account of an operator move together.
AccountMoves(o) ==
  \/ account'[o] = account[o] /\ cookie'[o] = cookie[o]
  \/ /\ account'[o].version = account[o].version + 1
     /\ cookie'[o].version = cookie[o].version
  \/ account'[o].version = account[o].version /\ cookie'[o] = cookie[o]
  \/ /\ account'[o] = account[o] /\ cookie'[o].version = cookie[o].version
     /\ cookie'[o].since = cookie[o].since \cup {"reset"}
  \/ account'[o] = account[o] /\ cookie'[o] = [version |-> account[o].version, since |-> {}]

LEMMA HistoryGoesOn ==
  ASSUME OperatorVarsOK, NEW p \in Operator, NEW what \in Incident, cookie' = After(p, what)
  PROVE  /\ cookie' \in [Operator -> [version : 0..(MaxLogins + 1), since : SUBSET Incident]]
         /\ \A o \in Operator :
              IF o = p THEN /\ cookie'[o].version = cookie[o].version
                            /\ cookie'[o].since = cookie[o].since \cup {what}
                       ELSE cookie'[o] = cookie[o]
<1> DEFINE K == [version : 0..(MaxLogins + 1), since : SUBSET Incident]
           new == [cookie[p] EXCEPT !.since = cookie[p].since \cup {what}]
<1>1. cookie \in [Operator -> K] /\ cookie[p] \in K
  BY DEF OperatorVarsOK
<1>2. new \in K /\ new.version = cookie[p].version /\ new.since = cookie[p].since \cup {what}
  BY <1>1
<1>3. cookie' = [cookie EXCEPT ![p] = new]
  BY <1>1 DEF After
<1> HIDE DEF new, K
<1> QED
  <2>1. cookie' \in [Operator -> K]
    BY <1>1, <1>2, <1>3
  <2> QED BY <1>1, <1>2, <1>3, <2>1 DEF K

LEMMA AccountsMove ==
  ASSUME OperatorVarsOK, OperatorStep, NEW o \in Operator
  PROVE  AccountMoves(o)
<1>0. /\ account \in [Operator -> [status : {"active", "locked", "deleted"},
                                   version : 0..(MaxLogins + 1)]]
      /\ cookie \in [Operator -> [version : 0..(MaxLogins + 1), since : SUBSET Incident]]
  BY DEF OperatorVarsOK
<1>1. ASSUME NEW p \in Operator, LoginOperator(p)
      PROVE  AccountMoves(o)
  BY <1>0, <1>1 DEF LoginOperator, AccountMoves
<1>2. ASSUME NEW p \in Operator, RemoveStaff(p)
      PROVE  AccountMoves(o)
  BY <1>0, <1>2 DEF RemoveStaff, AccountMoves
<1>3. ASSUME NEW p \in Operator, NEW patch \in {"active", "locked", "password"},
             PatchStaff(p, patch)
      PROVE  AccountMoves(o)
  <2>1. account'[o].version = IF o = p /\ Bumps(patch) THEN account[o].version + 1
                              ELSE account[o].version
    BY <1>0, <1>3 DEF PatchStaff
  <2>2. p # o => account'[o] = account[o]
    BY <1>0, <1>3 DEF PatchStaff
  <2>3. patch = "active" \/ Bumps(patch)
    BY DEF Bumps
  <2>4. IF patch # "active" /\ o = p THEN cookie'[o].version = cookie[o].version
                                    ELSE cookie'[o] = cookie[o]
    BY <1>0, <1>3, HistoryGoesOn DEF PatchStaff, Incident
  <2>7. patch = "active" => ~Bumps(patch)
    BY DEF Bumps
  <2> QED
    BY <2>1, <2>2, <2>3, <2>4, <2>7 DEF AccountMoves
<1>4. ASSUME NEW d \in Caller, CallerStep(d)
      PROVE  UNCHANGED <<account, cookie>>
  BY <1>4 DEF CallerStep, Authenticate, AuthenticateLegacy, ReadHome, CheckGrant, Apply,
     LockOperator, FindActive, CountSelfService, InsertSelfService, InsertAdminGrant, MarkRevoked
<1>5. ASSUME NEW d \in Caller,
             \/ \E p \in Operator, h \in House : OperatorAsks(d, p, h) \/ AdminAsks(d, p, h)
             \/ \E i \in 1..MaxGrant : AskRevoke(d, i)
      PROVE  UNCHANGED <<account, cookie>>
  BY <1>5 DEF OperatorAsks, AdminAsks, AskRevoke
<1>6. ASSUME \/ \E i \in 1..MaxGrant : Expire(i) \/ LeaveWindow(i)
             \/ \E h \in House : Claim(h)
      PROVE  UNCHANGED <<account, cookie>>
  BY <1>6 DEF Expire, LeaveWindow, Claim
<1>7. UNCHANGED <<account, cookie>> => AccountMoves(o)
  BY DEF AccountMoves
<1>8. ASSUME NEW p \in Operator, LogoutOperator(p)
      PROVE  AccountMoves(o)
  <2>1. IF o = p THEN account'[o].version = account[o].version + 1
                 ELSE account'[o] = account[o]
    BY <1>0, <1>8 DEF LogoutOperator
  <2>2. IF o = p THEN cookie'[o].version = cookie[o].version ELSE cookie'[o] = cookie[o]
    BY <1>8, HistoryGoesOn DEF LogoutOperator, Incident
  <2> QED BY <2>1, <2>2 DEF AccountMoves
<1>9. ASSUME NEW p \in Operator, ResetPassword(p)
      PROVE  AccountMoves(o)
  <2>1. account'[o] = account[o]
    BY <1>9 DEF ResetPassword
  <2>2. IF o = p THEN /\ cookie'[o].version = cookie[o].version
                      /\ cookie'[o].since = cookie[o].since \cup {"reset"}
                 ELSE cookie'[o] = cookie[o]
    BY <1>9, HistoryGoesOn DEF ResetPassword, Incident
  <2> QED BY <2>1, <2>2 DEF AccountMoves
<1> QED
  BY <1>1, <1>2, <1>3, <1>4, <1>5, <1>6, <1>7, <1>8, <1>9 DEF OperatorStep

LEMMA SessionsStep ==
  ASSUME OperatorVarsOK, Sessions, OperatorStep
  PROVE  Sessions'
<1> SUFFICES ASSUME NEW o \in Operator
             PROVE  /\ cookie'[o].version <= account'[o].version
                    /\ \/ cookie'[o].since \subseteq {"reset"}
                       \/ cookie'[o].version < account'[o].version
  BY DEF Sessions
<1>1. account[o].version \in Nat /\ cookie[o].version \in Nat
  BY OperatorAssumption DEF OperatorVarsOK
<1> QED
  <2>1. AccountMoves(o)
    BY AccountsMove
  <2>2. /\ cookie[o].version <= account[o].version
        /\ cookie[o].since \subseteq {"reset"} \/ cookie[o].version < account[o].version
    BY DEF Sessions
  <2>3. CASE account'[o] = account[o] /\ cookie'[o] = [version |-> account[o].version, since |-> {}]
    BY <1>1, <2>3
  <2>4. CASE cookie'[o] = cookie[o] /\ account'[o].version = account[o].version
    BY <2>2, <2>4
  <2>5. CASE /\ account'[o].version = account[o].version + 1
             /\ cookie'[o].version = cookie[o].version
    BY <1>1, <2>2, <2>5
  <2>6. CASE /\ account'[o] = account[o] /\ cookie'[o].version = cookie[o].version
             /\ cookie'[o].since = cookie[o].since \cup {"reset"}
    BY <2>2, <2>6
  <2> QED
    BY <2>1, <2>3, <2>4, <2>5, <2>6 DEF AccountMoves

LEMMA RequestsFitStep ==
  ASSUME OperatorVarsOK, \A c \in Caller : RequestFits(c), OperatorStep, NEW c \in Caller
  PROVE  request'[c] \in RequestRecord /\ RequestFits(c)'
<1>1. request[c] \in RequestRecord /\ RequestFits(c)
  BY DEF OperatorVarsOK
<1>2. NoRequest \in RequestRecord /\ NoRequest.pc = "idle"
  BY OperatorAssumption DEF NoRequest, NewRequest, RequestRecord
<1>3. CASE request'[c] = request[c]
  BY <1>1, <1>3 DEF RequestFits
<1>4. CASE request'[c] = NoRequest
  BY <1>2, <1>4 DEF RequestFits
<1>5. CASE Asks(c)
  <2>1. ASSUME NEW o \in Operator, NEW h \in House, NEW kind \in {"self", "write", "edit"},
               request'[c] = NewRequest(kind, o, h, 0, "cookie")
        PROVE  request'[c] \in RequestRecord /\ RequestFits(c)'
    BY <2>1, OperatorAssumption DEF NewRequest, RequestRecord, RequestFits
  <2>2. ASSUME NEW o \in Operator, NEW h \in House,
               request'[c] = NewRequest("admin", o, h, 0, "give")
        PROVE  request'[c] \in RequestRecord /\ RequestFits(c)'
    BY <2>2, OperatorAssumption DEF NewRequest, RequestRecord, RequestFits
  <2>3. ASSUME NEW i \in 1..MaxGrant,
               request'[c] = NewRequest("revoke", Nothing, Nothing, i, "revoke")
        PROVE  request'[c] \in RequestRecord /\ RequestFits(c)'
    BY <2>3, OperatorAssumption DEF NewRequest, RequestRecord, RequestFits
  <2>4. ASSUME NEW o \in Operator, NEW h \in House,
               request'[c] = NewRequest("legacy", o, h, 0, "token")
        PROVE  request'[c] \in RequestRecord /\ RequestFits(c)'
    BY <2>4, OperatorAssumption DEF NewRequest, RequestRecord, RequestFits
  <2> QED
    BY <1>5, <2>1, <2>2, <2>3, <2>4 DEF Asks
<1>6. CASE Advances(c)
  <2> DEFINE r == request[c]
             q == request'[c]
  <2>1. ASSUME NEW pc \in {"home", "lock", "apply", "check", "active", "count", "insert"},
               q = [r EXCEPT !.pc = pc]
        PROVE  /\ q \in RequestRecord /\ q.pc = pc
               /\ q.kind = r.kind /\ q.op = r.op /\ q.home = r.home /\ q.grant = r.grant
    BY <1>1, <2>1 DEF RequestRecord
  <2>2. /\ q \in RequestRecord
        /\ q.kind = r.kind /\ q.op = r.op /\ q.home = r.home /\ q.grant = r.grant
        /\ \/ r.pc = "cookie" /\ q.pc = "home"
           \/ r.pc = "token" /\ q.pc = "apply"
           \/ r.pc = "home" /\ r.kind = "self" /\ q.pc = "lock"
           \/ r.pc = "home" /\ r.kind \in {"write", "edit"} /\ q.pc = "apply"
           \/ r.pc = "home" /\ r.kind = "write" /\ q.pc = "check"
           \/ r.pc = "check" /\ q.pc = "apply"
           \/ r.pc = "lock" /\ q.pc = "active"
           \/ r.pc = "active" /\ q.pc = "count"
           \/ r.pc = "count" /\ q.pc = "insert"
    BY <1>6, <2>1 DEF Advances
  <2> QED
    BY <1>1, <2>2 DEF RequestFits
<1> QED
  BY <1>3, <1>4, <1>5, <1>6, RequestsMove

LEMMA GrantsShape ==
  ASSUME OperatorVarsOK, OperatorStep
  PROVE  grants' = [i \in 1..MaxGrant |-> grants'[i]]
<1> DEFINE Q == grants' = [i \in 1..MaxGrant |-> grants'[i]]
<1>0. grants = [i \in 1..MaxGrant |-> grants[i]]
  BY DEF OperatorVarsOK
<1>1. ASSUME NEW i \in 1..MaxGrant, NEW v, grants' = [grants EXCEPT ![i] = v]
      PROVE  Q
  BY <1>0, <1>1
<1>2. UNCHANGED grants => Q
  BY <1>0
<1>3. ASSUME NEW c \in Caller, GrantMadeBy(c)
      PROVE  Q
  BY <1>0, <1>3, OperatorAssumption DEF GrantMadeBy, OperatorVarsOK
<1>4. ASSUME NEW c \in Caller, MarkRevoked(c)
      PROVE  Q
  BY <1>0, <1>2, <1>4 DEF MarkRevoked
<1>5. ASSUME NEW i \in 1..MaxGrant, Expire(i) \/ LeaveWindow(i)
      PROVE  Q
  BY <1>0, <1>5 DEF Expire, LeaveWindow
<1>6. ASSUME NEW o \in Operator, RemoveStaff(o)
      PROVE  Q
  BY <1>6 DEF RemoveStaff
<1>7. ASSUME NEW c \in Caller, InsertSelfService(c) \/ InsertAdminGrant(c)
      PROVE  Q
  <2>1. UNCHANGED grants \/ GrantMadeBy(c)
    BY <1>7 DEF InsertSelfService, InsertAdminGrant, GrantMadeBy, Deleted, Referenced
  <2> QED BY <1>2, <1>3, <2>1
<1>8. ASSUME NEW c \in Caller, CallerStep(c)
      PROVE  Q
  <2>1. \/ InsertSelfService(c) \/ InsertAdminGrant(c) \/ MarkRevoked(c) \/ UNCHANGED grants
    BY <1>8 DEF CallerStep, Authenticate, AuthenticateLegacy, ReadHome, CheckGrant, Apply,
       LockOperator, FindActive, CountSelfService
  <2> QED BY <1>2, <1>4, <1>7, <2>1
<1>9. ASSUME NEW c \in Caller,
             \/ \E p \in Operator, h \in House : OperatorAsks(c, p, h) \/ AdminAsks(c, p, h)
             \/ \E i \in 1..MaxGrant : AskRevoke(c, i)
      PROVE  Q
  BY <1>2, <1>9 DEF OperatorAsks, AdminAsks, AskRevoke
<1>10. ASSUME \/ \E h \in House : Claim(h)
              \/ \E o \in Operator : \/ LoginOperator(o) \/ LogoutOperator(o) \/ ResetPassword(o)
                                     \/ \E patch \in {"active", "locked", "password"} :
                                          PatchStaff(o, patch)
       PROVE  Q
  <2>1. UNCHANGED grants
    BY <1>10 DEF Claim, LoginOperator, LogoutOperator, ResetPassword, PatchStaff
  <2> QED BY <1>2, <2>1
<1> HIDE DEF Q
<1>11. Q
  BY <1>5, <1>6, <1>8, <1>9, <1>10 DEF OperatorStep
<1> QED BY <1>11 DEF Q

LEMMA RequestShape ==
  ASSUME OperatorVarsOK, OperatorStep
  PROVE  DOMAIN request' = Caller /\ request' = [c \in Caller |-> request'[c]]
<1> DEFINE Q == request' = [c \in Caller |-> request'[c]]
<1>1. ASSUME NEW d \in Caller, NEW v, request' = [request EXCEPT ![d] = v]
      PROVE  Q
  BY <1>1 DEF OperatorVarsOK
<1>2. ASSUME UNCHANGED request PROVE Q
  BY <1>2 DEF OperatorVarsOK
<1>3. ASSUME NEW d \in Caller, CallerStep(d)
      PROVE  Q
  BY <1>1, <1>2, <1>3 DEF CallerStep, Authenticate, AuthenticateLegacy, ReadHome, CheckGrant,
     Apply, LockOperator, FindActive, CountSelfService, InsertSelfService, InsertAdminGrant, MarkRevoked, Move, Answer
<1>4. ASSUME NEW d \in Caller,
             \/ \E p \in Operator, h \in House : OperatorAsks(d, p, h) \/ AdminAsks(d, p, h)
             \/ \E i \in 1..MaxGrant : AskRevoke(d, i)
      PROVE  Q
  BY <1>1, <1>4 DEF OperatorAsks, AdminAsks, AskRevoke
<1>5. ASSUME \/ \E i \in 1..MaxGrant : Expire(i) \/ LeaveWindow(i)
             \/ \E h \in House : Claim(h)
             \/ \E o \in Operator : \/ RemoveStaff(o) \/ LoginOperator(o)
                                    \/ LogoutOperator(o) \/ ResetPassword(o)
                                    \/ \E patch \in {"active", "locked", "password"} :
                                         PatchStaff(o, patch)
      PROVE  Q
  <2>1. UNCHANGED request
    BY <1>5 DEF Expire, LeaveWindow, Claim, RemoveStaff, LoginOperator, LogoutOperator,
     ResetPassword, PatchStaff
  <2> QED BY <1>2, <2>1
<1>6. Q
  BY <1>3, <1>4, <1>5 DEF OperatorStep
<1> QED BY <1>6

LEMMA GrantsTypeStep ==
  ASSUME OperatorVarsOK, \A c \in Caller : RequestFits(c), OperatorStep
  PROVE  grants' \in [1..MaxGrant -> GrantRow \cup {Nothing}] /\ made' \in 0..MaxGrant
<1>1. grants \in [1..MaxGrant -> GrantRow \cup {Nothing}] /\ made \in 0..MaxGrant
  BY DEF OperatorVarsOK
<1>2. ASSUME NEW c \in Caller, GrantMadeBy(c)
      PROVE  grants' \in [1..MaxGrant -> GrantRow \cup {Nothing}] /\ made' \in 0..MaxGrant
  <2>1. request[c].op \in Operator /\ request[c].home \in House
    BY <1>2 DEF GrantMadeBy, RequestFits
  <2>2. NewGrant(request[c].op, request[c].home, request[c].pc = "insert") \in GrantRow
    BY <2>1 DEF NewGrant, GrantRow
  <2> QED
    BY <1>1, <1>2, <2>2, OperatorAssumption DEF GrantMadeBy
<1>3. ASSUME made' = made, \A i \in 1..MaxGrant : GrantFades(i)
      PROVE  grants' \in [1..MaxGrant -> GrantRow \cup {Nothing}] /\ made' \in 0..MaxGrant
  <2>1. \A i \in 1..MaxGrant : grants'[i] \in GrantRow \cup {Nothing}
    BY <1>1, <1>3 DEF GrantFades, FlagMoved
  <2>2. grants' = [i \in 1..MaxGrant |-> grants'[i]]
    BY GrantsShape
  <2> QED
    BY <1>1, <1>3, <2>1, <2>2
<1> QED
  BY <1>2, <1>3, GrantsMove

LEMMA LockTypeStep ==
  ASSUME OperatorVarsOK, \A c \in Caller : RequestFits(c), OperatorStep
  PROVE  userLock' \in [Operator -> Caller \cup {Nothing}]
<1>1. ASSUME NEW c \in Caller, TakesLock(c) PROVE userLock' \in [Operator -> Caller \cup {Nothing}]
  BY <1>1 DEF TakesLock, LockedBy, OperatorVarsOK
<1>2. ASSUME NEW c \in Caller, GivesLock(c) PROVE userLock' \in [Operator -> Caller \cup {Nothing}]
  BY <1>2 DEF GivesLock, Released, OperatorVarsOK
<1>3. CASE KeepsLocks
  BY <1>3 DEF KeepsLocks, OperatorVarsOK
<1> QED
  BY <1>1, <1>2, <1>3, LocksMove

LEMMA AccountTypeStep ==
  ASSUME OperatorVarsOK, OperatorStep
  PROVE  /\ account' \in [Operator -> [status : {"active", "locked", "deleted"},
                                       version : 0..(MaxLogins + 1)]]
         /\ cookie' \in [Operator -> [version : 0..(MaxLogins + 1), since : SUBSET Incident]]
         /\ logins' \in [Operator -> 0..MaxLogins]
         /\ claimed' \subseteq House
<1> DEFINE A == [status : {"active", "locked", "deleted"}, version : 0..(MaxLogins + 1)]
           K == [version : 0..(MaxLogins + 1), since : SUBSET Incident]
           P == /\ account' \in [Operator -> A] /\ cookie' \in [Operator -> K]
                /\ logins' \in [Operator -> 0..MaxLogins] /\ claimed' \subseteq House
<1>0. /\ account \in [Operator -> A] /\ cookie \in [Operator -> K]
      /\ logins \in [Operator -> 0..MaxLogins] /\ claimed \subseteq House
      /\ MaxLogins \in Nat
  BY OperatorAssumption DEF OperatorVarsOK
<1>1. UNCHANGED <<account, cookie, logins, claimed>> => P
  BY <1>0
<1>2. ASSUME NEW o \in Operator, RemoveStaff(o) PROVE P
  <2>1. [account[o] EXCEPT !.status = "deleted"] \in A
    BY <1>0
  <2>2. account' \in [Operator -> A]
    BY <1>0, <1>2, <2>1 DEF RemoveStaff
  <2> QED BY <1>0, <1>2, <2>2 DEF RemoveStaff
<1>3. ASSUME NEW o \in Operator, LoginOperator(o) PROVE P
  <2>1. [version |-> account[o].version, since |-> {}] \in K
    BY <1>0
  <2>2. cookie' \in [Operator -> K]
    BY <1>0, <1>3, <2>1 DEF LoginOperator
  <2>3. logins' \in [Operator -> 0..MaxLogins]
    BY <1>0, <1>3 DEF LoginOperator
  <2> QED BY <1>0, <1>3, <2>2, <2>3 DEF LoginOperator
<1>4. ASSUME NEW o \in Operator, NEW patch \in {"active", "locked", "password"},
             PatchStaff(o, patch)
      PROVE  P
  <2>1. account'[o] = [account[o] EXCEPT
                         !.status = IF patch = "password" THEN account[o].status ELSE patch,
                         !.version = IF Bumps(patch) THEN account[o].version + 1
                                     ELSE account[o].version]
    BY <1>0, <1>4 DEF PatchStaff
  <2>2. (IF patch = "password" THEN account[o].status ELSE patch)
           \in {"active", "locked", "deleted"}
    BY <1>0
  <2>3. (IF Bumps(patch) THEN account[o].version + 1 ELSE account[o].version)
           \in 0..(MaxLogins + 1)
    <3>1. account[o].version \in 0..(MaxLogins + 1)
      BY <1>0
    <3>2. Bumps(patch) => account[o].version < MaxLogins + 1
      BY <1>4 DEF PatchStaff
    <3> QED BY <1>0, <3>1, <3>2
  <2>4. account[o] \in A
    BY <1>0
  <2>5. account'[o] \in A
    BY <2>1, <2>2, <2>3, <2>4
  <2>6. account' = [account EXCEPT ![o] = account'[o]]
    BY <1>0, <1>4, <2>1 DEF PatchStaff
  <2>7. account' \in [Operator -> A]
    BY <1>0, <2>5, <2>6
  <2>8. cookie' = cookie \/ cookie' = After(o, patch)
    BY <1>4 DEF PatchStaff
  <2>9. cookie' \in [Operator -> K]
    <3>1. patch \in Incident \/ cookie' = cookie
      BY <1>4 DEF PatchStaff, Incident
    <3> QED BY <1>0, <2>8, <3>1, HistoryGoesOn
  <2> QED BY <1>0, <1>4, <2>7, <2>9 DEF PatchStaff
<1>5. ASSUME NEW h \in House, Claim(h) PROVE P
  BY <1>0, <1>5 DEF Claim
<1>6. ASSUME NEW d \in Caller, CallerStep(d)
      PROVE  UNCHANGED <<account, cookie, logins, claimed>>
  BY <1>6 DEF CallerStep, Authenticate, AuthenticateLegacy, ReadHome, CheckGrant, Apply,
     LockOperator, FindActive, CountSelfService, InsertSelfService, InsertAdminGrant, MarkRevoked
<1>7. ASSUME NEW d \in Caller,
             \/ \E p \in Operator, h \in House : OperatorAsks(d, p, h) \/ AdminAsks(d, p, h)
             \/ \E i \in 1..MaxGrant : AskRevoke(d, i)
      PROVE  UNCHANGED <<account, cookie, logins, claimed>>
  BY <1>7 DEF OperatorAsks, AdminAsks, AskRevoke
<1>8. ASSUME \E i \in 1..MaxGrant : Expire(i) \/ LeaveWindow(i)
      PROVE  UNCHANGED <<account, cookie, logins, claimed>>
  BY <1>8 DEF Expire, LeaveWindow
<1>9. ASSUME NEW o \in Operator, LogoutOperator(o) PROVE P
  <2>1. cookie' \in [Operator -> K]
    BY <1>9, HistoryGoesOn DEF LogoutOperator, Incident
  <2>2. [account[o] EXCEPT !.version = account[o].version + 1] \in A
    BY <1>0, <1>9 DEF LogoutOperator
  <2>3. account' \in [Operator -> A]
    BY <1>0, <1>9, <2>2 DEF LogoutOperator
  <2> QED BY <1>0, <1>9, <2>1, <2>3 DEF LogoutOperator
<1>10. ASSUME NEW o \in Operator, ResetPassword(o) PROVE P
  <2>1. cookie' \in [Operator -> K]
    BY <1>10, HistoryGoesOn DEF ResetPassword, Incident
  <2> QED BY <1>0, <1>10, <2>1 DEF ResetPassword
<1> HIDE DEF P
<1>11. P
  BY <1>1, <1>2, <1>3, <1>4, <1>5, <1>6, <1>7, <1>8, <1>9, <1>10 DEF OperatorStep
<1> QED BY <1>11 DEF P

\* What becomes of the revocations that were answered.
RevocationMoves(k) ==
  /\ StillGranted(k) /\ made' = made
  /\ revoked' = [revoked EXCEPT ![k] = @ + 1]
  /\ grants' = [grants EXCEPT ![k].revoked = TRUE]

LEMMA RevocationsMove ==
  ASSUME OperatorVarsOK, \A c \in Caller : RequestFits(c), OperatorStep
  PROVE  UNCHANGED revoked \/ \E k \in 1..MaxGrant : RevocationMoves(k)
<1>1. ASSUME NEW c \in Caller, MarkRevoked(c)
      PROVE  UNCHANGED revoked \/ \E k \in 1..MaxGrant : RevocationMoves(k)
  <2>1. request[c].grant \in 1..MaxGrant
    BY <1>1 DEF MarkRevoked, RequestFits
  <2>2. UNCHANGED revoked \/ RevocationMoves(request[c].grant)
    BY <1>1 DEF MarkRevoked, RevocationMoves
  <2> QED BY <2>1, <2>2
<1>2. ASSUME NEW d \in Caller, CallerStep(d), ~MarkRevoked(d)
      PROVE  UNCHANGED revoked
  BY <1>2 DEF CallerStep, Authenticate, AuthenticateLegacy, ReadHome, CheckGrant, Apply,
     LockOperator, FindActive, CountSelfService, InsertSelfService, InsertAdminGrant
<1>3. ASSUME NEW d \in Caller,
             \/ \E p \in Operator, h \in House : OperatorAsks(d, p, h) \/ AdminAsks(d, p, h)
             \/ \E i \in 1..MaxGrant : AskRevoke(d, i)
      PROVE  UNCHANGED revoked
  BY <1>3 DEF OperatorAsks, AdminAsks, AskRevoke
<1>4. ASSUME \/ \E i \in 1..MaxGrant : Expire(i) \/ LeaveWindow(i)
             \/ \E h \in House : Claim(h)
             \/ \E o \in Operator : \/ RemoveStaff(o) \/ LoginOperator(o)
                                    \/ LogoutOperator(o) \/ ResetPassword(o)
                                    \/ \E patch \in {"active", "locked", "password"} :
                                         PatchStaff(o, patch)
      PROVE  UNCHANGED revoked
  BY <1>4 DEF Expire, LeaveWindow, Claim, RemoveStaff, LoginOperator, LogoutOperator,
     ResetPassword, PatchStaff
<1> QED
  BY <1>1, <1>2, <1>3, <1>4 DEF OperatorStep

LEMMA OperatorVarsStep ==
  ASSUME OperatorVarsOK, \A c \in Caller : RequestFits(c), OperatorStep, Remembered
  PROVE  OperatorVarsOK' /\ \A c \in Caller : RequestFits(c)'
<1>1. revoked' \in [1..MaxGrant -> Nat]
  BY RevocationsMove DEF RevocationMoves, OperatorVarsOK
<1>2. \A c \in Caller : request'[c] \in RequestRecord /\ RequestFits(c)'
  BY RequestsFitStep
<1>3. request' \in [Caller -> RequestRecord]
  BY <1>2, RequestShape
<1>4. could' \subseteq Caller
  BY DEF Remembered
<1> QED
  BY <1>1, <1>2, <1>3, <1>4, AccountTypeStep, GrantsTypeStep, LockTypeStep DEF OperatorVarsOK

LEMMA RevocationsStep ==
  ASSUME OperatorVarsOK, \A c \in Caller : RequestFits(c), Unmade, Revocations, OperatorStep
  PROVE  Unmade' /\ Revocations'
<1> SUFFICES ASSUME NEW i \in 1..MaxGrant
             PROVE  /\ i > made' => grants'[i] = Nothing /\ revoked'[i] = 0
                    /\ revoked'[i] <= 1
                    /\ grants'[i] # Nothing /\ ~grants'[i].revoked => revoked'[i] = 0
  BY DEF Unmade, Revocations, IsRow
<1>1. /\ grants \in [1..MaxGrant -> GrantRow \cup {Nothing}] /\ made \in 0..MaxGrant
      /\ revoked \in [1..MaxGrant -> Nat] /\ MaxGrant \in Nat
      /\ i > made => grants[i] = Nothing /\ revoked[i] = 0
      /\ revoked[i] <= 1
      /\ grants[i] # Nothing /\ ~grants[i].revoked => revoked[i] = 0
  BY OperatorAssumption DEF OperatorVarsOK, Unmade, Revocations, IsRow
<1>2. CASE UNCHANGED revoked /\ made' = made /\ \A j \in 1..MaxGrant : GrantFades(j)
  BY <1>1, <1>2 DEF GrantFades, FlagMoved, IsRow
<1>3. ASSUME NEW c \in Caller, GrantMadeBy(c)
      PROVE  /\ i > made' => grants'[i] = Nothing /\ revoked'[i] = 0
             /\ revoked'[i] <= 1
             /\ grants'[i] # Nothing /\ ~grants'[i].revoked => revoked'[i] = 0
  <2>1. revoked' = revoked /\ made' = made + 1
    BY <1>3 DEF GrantMadeBy
  <2>2. i # made + 1 => grants'[i] = grants[i]
    BY <1>1, <1>3 DEF GrantMadeBy
  <2> QED
    BY <1>1, <2>1, <2>2
<1>4. ASSUME NEW k \in 1..MaxGrant, RevocationMoves(k)
      PROVE  /\ i > made' => grants'[i] = Nothing /\ revoked'[i] = 0
             /\ revoked'[i] <= 1
             /\ grants'[i] # Nothing /\ ~grants'[i].revoked => revoked'[i] = 0
  <2>1. CASE i # k
    <3>1. grants'[i] = grants[i] /\ revoked'[i] = revoked[i] /\ made' = made
      BY <1>1, <1>4, <2>1 DEF RevocationMoves
    <3> QED BY <1>1, <3>1
  <2>2. CASE i = k
    <3>1. /\ grants[i] # Nothing /\ ~grants[i].revoked /\ made' = made
          /\ revoked'[i] = revoked[i] + 1
          /\ grants'[i] = [grants[i] EXCEPT !.revoked = TRUE]
      BY <1>1, <1>4, <2>2 DEF RevocationMoves, StillGranted, IsRow
    <3>2. grants[i] \in GrantRow
      BY <1>1, <3>1
    <3>3. grants'[i].revoked
      BY <3>1, <3>2 DEF GrantRow
    <3> QED BY <1>1, <3>1, <3>3
  <2> QED BY <2>1, <2>2
<1> QED
  BY <1>2, <1>3, <1>4, GrantsMove, RevocationsMove

\* Grants that fade permit less, and are counted no more than before.
LEMMA GrantSetsShrink ==
  ASSUME \A i \in 1..MaxGrant : GrantFades(i), NEW o, NEW h
  PROVE  OpenGrants(o, h)' \subseteq OpenGrants(o, h) /\ SelfServiceOf(o)' \subseteq SelfServiceOf(o)
<1>1. ASSUME NEW i \in 1..MaxGrant, IsOpen(i)', grants'[i].op = o, grants'[i].home = h
      PROVE  IsOpen(i) /\ grants[i].op = o /\ grants[i].home = h
  BY <1>1 DEF GrantFades, FlagMoved, IsOpen, IsRow, GrantRow
<1>2. ASSUME NEW i \in 1..MaxGrant, IsRow(i)', grants'[i].op = o, grants'[i].self,
             grants'[i].recent
      PROVE  IsRow(i) /\ grants[i].op = o /\ grants[i].self /\ grants[i].recent
  BY <1>2 DEF GrantFades, FlagMoved, IsRow
<1> QED
  BY <1>1, <1>2 DEF OpenGrants, SelfServiceOf

\* A new grant is one for its operator only, and counted only if it is its own.
LEMMA GrantSetsGrow ==
  ASSUME OperatorVarsOK, NEW c \in Caller, GrantMadeBy(c), NEW o, NEW h
  PROVE  /\ o # request[c].op => OpenGrants(o, h)' \subseteq OpenGrants(o, h)
         /\ SelfServiceOf(o)' \subseteq SelfServiceOf(o) \cup {made + 1}
         /\ o # request[c].op \/ request[c].pc = "give" =>
              SelfServiceOf(o)' \subseteq SelfServiceOf(o)
<1>1. /\ grants \in [1..MaxGrant -> GrantRow \cup {Nothing}] /\ made + 1 \in 1..MaxGrant
      /\ grants' = [grants EXCEPT ![made + 1] =
                      NewGrant(request[c].op, request[c].home, request[c].pc = "insert")]
  BY OperatorAssumption DEF OperatorVarsOK, GrantMadeBy
<1>2. ASSUME NEW i \in 1..MaxGrant, i # made + 1
      PROVE  grants'[i] = grants[i]
  BY <1>1, <1>2
<1>3. /\ grants'[made + 1].op = request[c].op
      /\ request[c].pc = "give" => ~grants'[made + 1].self
  BY <1>1 DEF NewGrant
<1> QED
  BY <1>1, <1>2, <1>3 DEF OpenGrants, SelfServiceOf, IsOpen, IsRow

LEMMA CountedFinitely ==
  ASSUME NEW o
  PROVE  IsFiniteSet(SelfServiceOf(o)) /\ Cardinality(SelfServiceOf(o)) \in Nat
<1>1. SelfServiceOf(o) \subseteq 1..MaxGrant /\ IsFiniteSet(1..MaxGrant)
  BY FS_Interval, OperatorAssumption DEF SelfServiceOf
<1> QED
  BY <1>1, FS_Subset, FS_CardinalityType

LEMMA SelfServiceLimitStep ==
  ASSUME OperatorVarsOK, \A c \in Caller : RequestFits(c), Trusted, SelfServiceLimit,
         OperatorStep
  PROVE  SelfServiceLimit'
<1> SUFFICES ASSUME NEW o \in Operator PROVE Cardinality(SelfServiceOf(o)') <= DailyLimit
  BY DEF SelfServiceLimit
<1> DEFINE S == SelfServiceOf(o)
<1>1. IsFiniteSet(S) /\ Cardinality(S) \in Nat /\ Cardinality(S) <= DailyLimit /\ DailyLimit \in Nat
  BY CountedFinitely, OperatorAssumption DEF SelfServiceLimit
<1>2. ASSUME S' \subseteq S PROVE Cardinality(S') <= DailyLimit
  <2>1. Cardinality(S') <= Cardinality(S) /\ Cardinality(S') \in Nat
    BY <1>1, <1>2, FS_Subset, FS_CardinalityType
  <2> QED BY <1>1, <2>1
<1>3. CASE \A i \in 1..MaxGrant : GrantFades(i)
  BY <1>2, <1>3, GrantSetsShrink
<1>4. ASSUME NEW c \in Caller, GrantMadeBy(c) PROVE Cardinality(S') <= DailyLimit
  <2>1. CASE o # request[c].op \/ request[c].pc = "give"
    BY <1>2, <1>4, <2>1, GrantSetsGrow
  <2>2. CASE o = request[c].op /\ request[c].pc = "insert"
    <3>1. Cardinality(S) < DailyLimit
      BY <1>4, <2>2 DEF Trusted, GrantMadeBy, RequestFits
    <3> DEFINE T == S \cup {made + 1}
    <3>2. S' \subseteq T
      BY <1>4, GrantSetsGrow
    <3>3. IsFiniteSet(T) /\ Cardinality(T) <= Cardinality(S) + 1 /\ Cardinality(T) \in Nat
      <4>1. /\ IsFiniteSet(T)
            /\ Cardinality(T) = IF made + 1 \in S THEN Cardinality(S) ELSE Cardinality(S) + 1
        BY <1>1, FS_AddElement
      <4> QED BY <1>1, <4>1
    <3> HIDE DEF S, T
    <3>4. Cardinality(S') <= Cardinality(T) /\ Cardinality(S') \in Nat
      BY <3>2, <3>3, FS_Subset, FS_CardinalityType
    <3> QED BY <1>1, <3>1, <3>3, <3>4
  <2> QED BY <1>4, <2>1, <2>2 DEF GrantMadeBy
<1> QED
  BY <1>3, <1>4, GrantsMove

LEMMA DeletedStays ==
  ASSUME OperatorVarsOK, \A c \in Caller : RequestFits(c), OperatorStep, NEW o \in Operator,
         Deleted(o)
  PROVE  Deleted(o)'
  BY LocksMove DEF KeepsLocks, TakesLock, GivesLock, Deleted

LEMMA TrustedStep ==
  ASSUME OperatorVarsOK, \A c \in Caller : RequestFits(c), LocksFit, Trusted, OperatorStep
  PROVE  Trusted'
<1> SUFFICES ASSUME NEW c \in Caller, NEW o \in Operator, NEW h \in House,
                    request'[c].op = o, request'[c].home = h,
                    request'[c].pc \in {"count", "insert"}, ~Deleted(o)'
             PROVE  /\ OpenGrants(o, h)' = {}
                    /\ request'[c].pc = "insert" => Cardinality(SelfServiceOf(o)') < DailyLimit
  BY DEF Trusted
<1>1. ~Deleted(o)
  BY DeletedStays
<1>2. CASE Advances(c)
  <2>1. request[c] \in RequestRecord
    BY DEF OperatorVarsOK
  <2>2. /\ request[c].op = o /\ request[c].home = h
        /\ \/ request'[c].pc = "count" /\ OpenGrants(o, h) = {} /\ OnlyRequests
           \/ request'[c].pc = "insert" /\ request[c].pc = "count" /\ BelowLimit(o) /\ OnlyRequests
    BY <1>2, <2>1 DEF Advances, RequestRecord
  <2>3. OpenGrants(o, h)' = OpenGrants(o, h) /\ SelfServiceOf(o)' = SelfServiceOf(o)
    BY <2>2 DEF OnlyRequests, OpenGrants, SelfServiceOf, IsOpen, IsRow
  <2> QED
    BY <1>1, <2>2, <2>3 DEF Trusted, BelowLimit
<1>3. CASE request'[c] = request[c]
  <2>1. /\ request[c].op = o /\ request[c].home = h /\ request[c].pc \in {"count", "insert"}
        /\ OpenGrants(o, h) = {}
        /\ request[c].pc = "insert" => Cardinality(SelfServiceOf(o)) < DailyLimit
        /\ userLock[o] = c
    BY <1>1, <1>3 DEF Trusted, LocksFit
  <2>2. OpenGrants(o, h)' \subseteq OpenGrants(o, h) /\ SelfServiceOf(o)' \subseteq SelfServiceOf(o)
    <3>1. CASE \A i \in 1..MaxGrant : GrantFades(i)
      BY <3>1, GrantSetsShrink
    <3>2. ASSUME NEW d \in Caller, GrantMadeBy(d) PROVE o # request[d].op
      <4>1. SUFFICES ASSUME o = request[d].op PROVE FALSE
        OBVIOUS
      <4>2. request[d].pc = "insert"
        BY <2>1, <3>2, <4>1, OperatorAssumption DEF GrantMadeBy, Unlocked
      <4>3. c = d
        BY <1>1, <2>1, <4>1, <4>2 DEF LocksFit
      <4>4. request'[c].pc = "idle"
        BY <3>2, <4>3, Answered DEF GrantMadeBy
      <4> QED BY <4>4
    <3> QED
      BY <3>1, <3>2, GrantsMove, GrantSetsGrow
  <2>3. Cardinality(SelfServiceOf(o)') <= Cardinality(SelfServiceOf(o))
    BY <2>2, CountedFinitely, FS_Subset
  <2>4. Cardinality(SelfServiceOf(o)') \in Nat
    BY <2>2, CountedFinitely, FS_Subset, FS_CardinalityType
  <2> QED
    <3>1. request'[c].pc = request[c].pc /\ OpenGrants(o, h)' = {}
      BY <1>3, <2>1, <2>2
    <3>2. /\ Cardinality(SelfServiceOf(o)) \in Nat /\ DailyLimit \in Nat
      BY CountedFinitely, OperatorAssumption
    <3>3. request[c].pc = "insert" => Cardinality(SelfServiceOf(o)') < DailyLimit
      BY <2>1, <2>3, <2>4, <3>2
    <3> QED BY <3>1, <3>3
<1>4. CASE request'[c] = NoRequest \/ Asks(c)
  <2>1. request'[c].pc \notin {"count", "insert"}
    BY <1>4, AsksAnew
  <2> QED BY <2>1
<1> QED
  BY <1>2, <1>3, <1>4, RequestsMove

LEMMA WriteWasPermittedStep ==
  ASSUME OperatorVarsOK, \A c \in Caller : RequestFits(c), WriteWasPermitted, OperatorStep,
         Remembered
  PROVE  WriteWasPermitted'
<1> SUFFICES ASSUME NEW c \in Caller, request'[c].pc = "apply", request'[c].kind # "legacy"
             PROVE  c \in could \/ Permitted(c)'
  BY DEF WriteWasPermitted, Remembered
<1>1. CASE Advances(c)
  <2>1. request[c] \in RequestRecord /\ RequestFits(c)
    BY DEF OperatorVarsOK
  <2>2. /\ request'[c].op = request[c].op /\ request'[c].home = request[c].home
        /\ request'[c].kind = request[c].kind /\ OnlyRequests
        /\ \/ request[c].kind \in {"write", "edit"} /\ request[c].home \notin claimed
           \/ request[c].pc = "check" /\ OpenGrants(request[c].op, request[c].home) # {}
    BY <1>1, <2>1 DEF Advances, RequestRecord, RequestFits
  <2>3. CASE request[c].kind \in {"write", "edit"} /\ request[c].home \notin claimed
    BY <2>2, <2>3 DEF OnlyRequests, Permitted, MayNow
  <2>4. CASE request[c].pc = "check" /\ OpenGrants(request[c].op, request[c].home) # {}
    <3>1. request'[c].kind = "write"
      BY <2>1, <2>2, <2>4 DEF RequestFits
    <3>2. OpenGrants(request[c].op, request[c].home)' # {}
      BY <2>2, <2>4 DEF OnlyRequests, OpenGrants, IsOpen, IsRow
    <3> QED BY <3>1, <3>2 DEF Permitted, MayNow
  <2> QED BY <2>2, <2>3, <2>4
<1>2. CASE request'[c] = request[c]
  BY <1>2 DEF WriteWasPermitted
<1>3. CASE request'[c] = NoRequest \/ Asks(c)
  BY <1>3, AsksAnew
<1> QED
  BY <1>1, <1>2, <1>3, RequestsMove

LEMMA OperatorInvInit == OperatorInit => OperatorInv
<1> SUFFICES ASSUME OperatorInit PROVE OperatorInv
  OBVIOUS
<1> USE OperatorAssumption
<1>1. NoRequest \in RequestRecord /\ NoRequest.pc = "idle"
  BY DEF NoRequest, NewRequest, RequestRecord
<1>2. OperatorVarsOK
  BY <1>1 DEF OperatorInit, OperatorVarsOK
<1>3. \A c \in Caller : request[c].pc = "idle"
  BY <1>1 DEF OperatorInit
<1>4. LocksFit
  BY <1>3 DEF OperatorInit, LocksFit
<1>5. (\A c \in Caller : RequestFits(c)) /\ WriteWasPermitted /\ Trusted
  BY <1>3 DEF RequestFits, WriteWasPermitted, Trusted
<1>6. Unmade /\ Revocations
  BY DEF OperatorInit, Unmade, Revocations, IsRow
<1>7. Sessions
  BY DEF OperatorInit, Sessions
<1>8. SelfServiceLimit
  <2>1. \A o \in Operator : SelfServiceOf(o) = {}
    BY DEF OperatorInit, SelfServiceOf, IsRow
  <2> QED BY <2>1, FS_EmptySet DEF SelfServiceLimit
<1> QED
  BY <1>2, <1>4, <1>5, <1>6, <1>7, <1>8, OperatorTypeParts DEF OperatorInv

LEMMA OperatorInvStep == OperatorInv /\ [OperatorNext]_operatorVars => OperatorInv'
<1> SUFFICES ASSUME OperatorInv, [OperatorNext]_operatorVars PROVE OperatorInv'
  OBVIOUS
<1>1. OperatorVarsOK /\ LocksFit
  BY OperatorTypeParts DEF OperatorInv
<1>2. CASE OperatorNext
  <2>1. OperatorStep /\ Remembered
    BY <1>2 DEF OperatorNext
  <2>2. OperatorVarsOK' /\ LocksFit' /\ \A c \in Caller : RequestFits(c)'
    BY <1>1, <2>1, OperatorVarsStep, LocksFitStep DEF OperatorInv
  <2>3. OperatorTypeOK'
    BY <2>2, OperatorTypeParts, PTL
  <2>4. Unmade' /\ Revocations' /\ Sessions'
    BY <1>1, <2>1, RevocationsStep, SessionsStep DEF OperatorInv
  <2>5. Trusted' /\ SelfServiceLimit' /\ WriteWasPermitted'
    BY <1>1, <2>1, TrustedStep, SelfServiceLimitStep, WriteWasPermittedStep DEF OperatorInv
  <2> QED
    BY <2>2, <2>3, <2>4, <2>5 DEF OperatorInv
<1>3. CASE UNCHANGED operatorVars
  <2> USE <1>3 DEF operatorVars
  <2>1. OperatorTypeOK'
    BY DEF OperatorInv, OperatorTypeOK
  <2>2. \A c \in Caller : RequestFits(c)'
    BY DEF OperatorInv, RequestFits
  <2>3. Unmade' /\ Revocations' /\ Sessions' /\ WriteWasPermitted'
    BY DEF OperatorInv, Unmade, Revocations, Sessions, WriteWasPermitted, IsRow
  <2>4. \A o \in Operator : Deleted(o)' = Deleted(o) /\ SelfServiceOf(o)' = SelfServiceOf(o)
    BY DEF Deleted, SelfServiceOf, IsRow
  <2>5. \A o \in Operator, h \in House : OpenGrants(o, h)' = OpenGrants(o, h)
    BY DEF OpenGrants, IsOpen, IsRow
  <2>6. Trusted' /\ SelfServiceLimit'
    BY <2>4, <2>5 DEF OperatorInv, Trusted, SelfServiceLimit
  <2> QED
    BY <2>1, <2>2, <2>3, <2>6 DEF OperatorInv
<1> QED
  BY <1>2, <1>3

\* The invariant holds in every state of the specification.
LEMMA OperatorInvariance == OperatorSpec => []OperatorInv
  BY OperatorInvInit, OperatorInvStep, PTL DEF OperatorSpec

\* An operator never has more grants of its own making than a day allows, of
\* several revocations one succeeds, and what a request of the console writes
\* was permitted while it was under way.  The legacy route, which asks for no
\* grant, is excepted by name.
THEOREM GrantsAlwaysHold == OperatorSpec => []GrantsHold
<1>1. OperatorInv => GrantsHold
  BY DEF OperatorInv, GrantsHold, Revocations, RevokedOnce
<1> QED
  BY <1>1, OperatorInvariance, PTL

LEMMA NoSecondGrantStep ==
  ASSUME OperatorInv, OperatorNext, NEW i \in 1..MaxGrant, grants[i] = Nothing,
         grants'[i] # Nothing
  PROVE  ~grants'[i].self \/ OpenGrants(grants'[i].op, grants'[i].home) = {}
<1>1. OperatorVarsOK /\ OperatorStep
  BY OperatorTypeParts DEF OperatorInv, OperatorNext
<1>2. ~GrantFades(i)
  BY DEF GrantFades, IsRow
<1>3. PICK c \in Caller : GrantMadeBy(c)
  BY <1>1, <1>2, GrantsMove
<1> DEFINE new == NewGrant(request[c].op, request[c].home, request[c].pc = "insert")
<1>4. /\ grants \in [1..MaxGrant -> GrantRow \cup {Nothing}]
      /\ grants' = [grants EXCEPT ![made + 1] = new]
  BY <1>1, <1>3 DEF OperatorVarsOK, GrantMadeBy
<1> HIDE DEF new
<1>5. grants'[i] = new
  BY <1>4
<1>6. /\ new.op = request[c].op /\ new.home = request[c].home
      /\ request[c].pc = "give" => ~new.self
  BY DEF NewGrant, new
<1>7. ~Deleted(request[c].op) /\ request[c].op \in Operator /\ request[c].home \in House
  BY <1>3 DEF GrantMadeBy, OperatorInv, RequestFits
<1>8. request[c].pc \in {"insert", "give"}
  BY <1>3 DEF GrantMadeBy
<1> QED
  BY <1>5, <1>6, <1>7, <1>8 DEF OperatorInv, Trusted

LEMMA OldCookieStep ==
  ASSUME OperatorInv, OperatorNext, NEW c \in Caller, request[c].pc = "cookie",
         request'[c].pc = "home"
  PROVE  cookie[request[c].op].since \subseteq {"reset"}
<1>1. OperatorVarsOK /\ OperatorStep /\ request[c] \in RequestRecord /\ request[c].op \in Operator
  BY OperatorTypeParts DEF OperatorInv, OperatorNext, OperatorVarsOK, RequestFits
<1>2. request'[c] # request[c]
  OBVIOUS
<1>3. ~(request'[c] = NoRequest \/ Asks(c))
  <2>1. SUFFICES ASSUME request'[c] = NoRequest \/ Asks(c) PROVE FALSE
    OBVIOUS
  <2>2. request'[c].pc \in {"idle", "cookie", "token", "give", "revoke"}
    BY <2>1, AsksAnew
  <2> QED BY <2>2
<1>4. Advances(c)
  BY <1>1, <1>2, <1>3, RequestsMove DEF OperatorInv
<1>5. CookieHolds(request[c].op)
  BY <1>1, <1>4 DEF Advances, RequestRecord
<1>6. /\ account[request[c].op].version \in Nat
      /\ cookie[request[c].op].version = account[request[c].op].version
  BY <1>1, <1>5, OperatorAssumption DEF CookieHolds, OperatorVarsOK
<1> QED
  BY <1>1, <1>6 DEF OperatorInv, Sessions

\* No request opens a home that is open to its operator, and the console accepts
\* no cookie from before a lock, a new password of the team page or a logout.  One
\* from before a legacy PATCH of the password it does accept.
THEOREM RightsMoveForward == OperatorSpec => RightsMove
<1>1. OperatorInv /\ [OperatorNext]_operatorVars =>
        [\A i \in 1..MaxGrant : grants[i] = Nothing /\ grants'[i] # Nothing =>
           \/ ~grants'[i].self
           \/ OpenGrants(grants'[i].op, grants'[i].home) = {}]_operatorVars
  BY NoSecondGrantStep
<1>2. OperatorInv /\ [OperatorNext]_operatorVars =>
        [\A c \in Caller : request[c].pc = "cookie" /\ request'[c].pc = "home" =>
           cookie[request[c].op].since \subseteq {"reset"}]_operatorVars
  BY OldCookieStep
<1>3. OperatorSpec => NoSecondGrant
  BY <1>1, OperatorInvariance, PTL DEF OperatorSpec, NoSecondGrant
<1>4. OperatorSpec => OldCookieFails
  BY <1>2, OperatorInvariance, PTL DEF OperatorSpec, OldCookieFails
<1> QED
  BY <1>3, <1>4 DEF RightsMove

-----------------------------------------------------------------------------
(***************************************************************************)
(* DeviceIngest.  The types say what a message knows by where its handler  *)
(* is (HandlersFit); CountedOut is inductive by itself then.               *)
(***************************************************************************)
IngestSpec == IngestInit /\ [][IngestNext]_ingestVars

HandlerFits(m) ==
  LET h == handler[m] IN
  /\ h.pc # "idle" => h.gateway \in GatewayDevice /\ h.sensor \in SensorDevice
  /\ h.pc \in {"count", "read", "block"} => h.device \in Device

IngestInv == IngestTypeOK /\ \A m \in Message : HandlerFits(m)

HandlersOK == handler \in [Message -> HandlerRecord] /\ \A m \in Message : HandlerFits(m)

\* What a device keeps when its row is gone.
GoneIsEmpty ==
  \A d \in Device : status[d] = "gone" =>
    failCount[d] = 0 /\ age[d] = Window /\ \A r \in readings : d \notin {r[1], r[2]}

RowsOK ==
  /\ status \in [Device -> DeviceStatus]
  /\ failCount \in [Device -> 0..MaxCount]
  /\ age \in [Device -> 0..Window]
  /\ provisioned \subseteq Device /\ readings \subseteq SensorDevice \X GatewayDevice
  /\ deleting \in [Device -> {0, 1}]
  /\ shown \in [Device -> BOOLEAN]

LEMMA IngestParts == IngestInv <=> HandlersOK /\ RowsOK /\ GoneIsEmpty
  BY DEF IngestInv, IngestTypeOK, HandlersOK, RowsOK, GoneIsEmpty

LEMMA Going ==
  ASSUME HandlersOK, NEW m \in Message,
         NEW pc \in {"check", "read", "block", "store", "hook", "gateway", "seen"},
         handler[m].pc # "idle",
         pc \in {"read", "block"} => handler[m].pc \in {"count", "read", "block"},
         Goto(m, pc)
  PROVE  /\ HandlersOK'
         /\ \A n \in Message \ {m} : handler'[n] = handler[n]
         /\ handler'[m].pc = pc /\ handler'[m].device = handler[m].device
<1>1. handler[m] \in HandlerRecord /\ HandlerFits(m)
  BY DEF HandlersOK
<1>2. handler' = [handler EXCEPT ![m] = [handler[m] EXCEPT !.pc = pc]]
  BY DEF Goto
<1>3. handler'[m] = [handler[m] EXCEPT !.pc = pc] /\ \A n \in Message \ {m} : handler'[n] = handler[n]
  BY <1>2 DEF HandlersOK
<1>4. /\ handler'[m] \in HandlerRecord
      /\ handler'[m].pc = pc /\ handler'[m].device = handler[m].device
      /\ handler'[m].gateway = handler[m].gateway /\ handler'[m].sensor = handler[m].sensor
  BY <1>1, <1>3 DEF HandlerRecord
<1>5. handler' \in [Message -> HandlerRecord]
  BY <1>2, <1>3, <1>4 DEF HandlersOK
<1>6. \A n \in Message : HandlerFits(n)'
  BY <1>1, <1>3, <1>4 DEF HandlersOK, HandlerFits
<1> QED
  BY <1>3, <1>4, <1>5, <1>6 DEF HandlersOK

LEMMA Dropping ==
  ASSUME HandlersOK, NEW m \in Message, Drop(m)
  PROVE  /\ HandlersOK'
         /\ \A n \in Message : handler'[n] = IF n = m THEN Idle ELSE handler[n]
<1>1. Idle \in HandlerRecord /\ Idle.pc = "idle"
  BY DEF Idle, HandlerRecord
<1>2. \A n \in Message : handler'[n] = IF n = m THEN Idle ELSE handler[n]
  BY DEF Drop, HandlersOK
<1>3. handler' \in [Message -> HandlerRecord]
  BY <1>1 DEF Drop, HandlersOK
<1>4. \A n \in Message : HandlerFits(n)'
  BY <1>1, <1>2 DEF HandlersOK, HandlerFits
<1> QED
  BY <1>2, <1>3, <1>4 DEF HandlersOK

LEMMA Arriving ==
  ASSUME HandlersOK, NEW m \in Message, VerifyGateway(m)
  PROVE  /\ HandlersOK'
         /\ \A n \in Message \ {m} : handler'[n] = handler[n]
         /\ handler'[m].pc \in {"sensor", "count"}
<1>1. PICK g \in GatewayDevice, s \in SensorDevice, good \in BOOLEAN :
        handler' = [handler EXCEPT ![m] = NewMessage(g, s, good)]
  BY DEF VerifyGateway
<1>2. /\ NewMessage(g, s, good) \in HandlerRecord
      /\ NewMessage(g, s, good).pc \in {"sensor", "count"}
      /\ NewMessage(g, s, good).gateway \in GatewayDevice
      /\ NewMessage(g, s, good).sensor \in SensorDevice
      /\ NewMessage(g, s, good).pc = "count" => NewMessage(g, s, good).device \in Device
  BY DEF NewMessage, HandlerRecord, Device
<1>3. \A n \in Message : handler'[n] = IF n = m THEN NewMessage(g, s, good) ELSE handler[n]
  BY <1>1 DEF HandlersOK
<1>4. handler' \in [Message -> HandlerRecord]
  BY <1>1, <1>2 DEF HandlersOK
<1>5. \A n \in Message : HandlerFits(n)'
  BY <1>2, <1>3 DEF HandlersOK, HandlerFits
<1> QED
  BY <1>2, <1>3, <1>4, <1>5 DEF HandlersOK

LEMMA HandlersStep ==
  ASSUME HandlersOK, RowsOK, NEW m \in Message, VerifyGateway(m) \/ HandlerStep(m)
  PROVE  HandlersOK' /\ \A n \in Message \ {m} : handler'[n] = handler[n]
<1> DEFINE P == HandlersOK' /\ \A n \in Message \ {m} : handler'[n] = handler[n]
<1>0. /\ handler[m] \in HandlerRecord /\ HandlerFits(m)
      /\ handler \in [Message -> HandlerRecord] /\ \A n \in Message : HandlerFits(n)
  BY DEF HandlersOK
<1>1. Drop(m) => P
  BY Dropping
<1>2. ASSUME NEW pc \in {"check", "read", "block", "store", "hook", "gateway", "seen"},
             handler[m].pc # "idle",
             pc \in {"read", "block"} => handler[m].pc \in {"count", "read", "block"},
             Goto(m, pc)
      PROVE  P
  BY <1>2, Going
<1>3. ASSUME NEW v \in HandlerRecord, handler' = [handler EXCEPT ![m] = v],
             v.gateway \in GatewayDevice, v.sensor \in SensorDevice,
             v.pc \in {"count", "read", "block"} => v.device \in Device
      PROVE  P
  <2>1. \A n \in Message : handler'[n] = IF n = m THEN v ELSE handler[n]
    BY <1>0, <1>3
  <2>2. handler' \in [Message -> HandlerRecord]
    BY <1>0, <1>3
  <2>3. \A n \in Message : HandlerFits(n)'
    BY <1>0, <1>3, <2>1 DEF HandlerFits
  <2> QED BY <2>1, <2>2, <2>3 DEF HandlersOK
<1> SUFFICES P
  OBVIOUS
<1> HIDE DEF P
<1>4. CASE VerifyGateway(m)
  BY <1>4, Arriving DEF P
<1>5. CASE VerifySensor(m)
  <2>1. handler[m].pc = "sensor" /\ handler[m].sensor \in SensorDevice /\ handler[m].gateway \in GatewayDevice
    BY <1>0, <1>5 DEF VerifySensor, HandlerFits
  <2> DEFINE v == [handler[m] EXCEPT !.pc = "count", !.device = handler[m].sensor]
  <2>2. Drop(m) \/ Goto(m, "check") \/ handler' = [handler EXCEPT ![m] = v]
    BY <1>0, <1>5 DEF VerifySensor, Verify
  <2>3. /\ v \in HandlerRecord /\ v.gateway = handler[m].gateway /\ v.sensor = handler[m].sensor
        /\ v.device \in Device
    BY <1>0, <2>1 DEF HandlerRecord, Device
  <2> HIDE DEF v
  <2> QED BY <1>1, <1>2, <1>3, <2>1, <2>2, <2>3
<1>6. CASE FailStep(m)
  BY <1>1, <1>2, <1>6 DEF FailStep, IncrementFailCount, ReadFailCount, BlockDevice
<1>7. CASE CheckStatus(m) \/ StoreReading(m)
  BY <1>1, <1>2, <1>7 DEF CheckStatus, StoreReading
<1>8. CASE TelemetryIngested(m)
  <2>1. handler[m].pc = "hook" /\ handler[m].sensor \in SensorDevice /\ handler[m].gateway \in GatewayDevice
    BY <1>0, <1>8 DEF TelemetryIngested, HandlerFits
  <2> DEFINE g == handler[m].gateway
             s == handler[m].sensor
             w == IF Exists(s) THEN {d \in {g, s} : Exists(d) /\ ~IsOnline(d)} ELSE {}
             v == [handler[m] EXCEPT !.pc = "emit", !.wake = w]
  <2>2. handler' = [handler EXCEPT ![m] = v]
    BY <1>0, <1>8 DEF TelemetryIngested
  <2>3. w \in SUBSET Device
    BY <2>1 DEF Device
  <2> HIDE DEF w
  <2>4. v \in HandlerRecord /\ v.gateway = g /\ v.sensor = s /\ v.pc = "emit"
    BY <1>0, <2>3 DEF HandlerRecord
  <2> HIDE DEF v
  <2> QED BY <1>3, <2>1, <2>2, <2>4
<1>9. CASE EmitCameOnline(m)
  <2>1. handler[m].pc = "emit" /\ handler[m].sensor \in SensorDevice /\ handler[m].gateway \in GatewayDevice
    BY <1>0, <1>9 DEF EmitCameOnline, HandlerFits
  <2> DEFINE v == [handler[m] EXCEPT !.pc = "gateway", !.wake = {}]
  <2>2. handler' = [handler EXCEPT ![m] = v]
    BY <1>0, <1>9 DEF EmitCameOnline
  <2>4. /\ v \in HandlerRecord /\ v.gateway = handler[m].gateway /\ v.sensor = handler[m].sensor
        /\ v.pc = "gateway"
    BY <1>0 DEF HandlerRecord
  <2> HIDE DEF v
  <2> QED BY <1>3, <2>1, <2>2, <2>4
<1>10. CASE SeeGateway(m) \/ SeeSensor(m)
  BY <1>1, <1>2, <1>10 DEF SeeGateway, SeeSensor
<1> QED
  BY <1>4, <1>5, <1>6, <1>7, <1>8, <1>9, <1>10 DEF HandlerStep

LEMMA RowsStep ==
  ASSUME HandlersOK, RowsOK, GoneIsEmpty, NEW m \in Message, HandlerStep(m)
  PROVE  RowsOK' /\ GoneIsEmpty'
<1>0. /\ handler[m] \in HandlerRecord /\ HandlerFits(m)
      /\ MaxCount \in Nat /\ Window \in Nat
  BY IngestAssumption DEF HandlersOK
<1>1. CASE VerifySensor(m) \/ ReadFailCount(m) \/ CheckStatus(m)
  BY <1>1 DEF VerifySensor, ReadFailCount, CheckStatus, RowsOK, GoneIsEmpty
<1>2. CASE IncrementFailCount(m)
  <2>1. \A d \in Device : /\ failCount'[d] = failCount[d] \/ failCount'[d] = failCount[d] + 1
                          /\ failCount'[d] \in 0..MaxCount
                          /\ status[d] = "gone" => failCount'[d] = failCount[d]
    BY <1>0, <1>2 DEF IncrementFailCount, RowsOK, Exists
  <2>2. failCount' = [d \in Device |-> failCount'[d]]
    BY <1>2 DEF IncrementFailCount, RowsOK
  <2>3. failCount' \in [Device -> 0..MaxCount]
    BY <2>1, <2>2
  <2> QED
    BY <1>2, <2>1, <2>3 DEF IncrementFailCount, RowsOK, GoneIsEmpty
<1>3. CASE BlockDevice(m)
  BY <1>0, <1>3 DEF BlockDevice, RowsOK, GoneIsEmpty, Exists, DeviceStatus
<1>4. CASE StoreReading(m)
  BY <1>0, <1>4 DEF StoreReading, RowsOK, GoneIsEmpty, Exists, HandlerFits
<1>5. CASE TelemetryIngested(m)
  BY <1>0, <1>5 DEF TelemetryIngested, RowsOK, GoneIsEmpty, HandlerFits, Device
<1>6. CASE EmitCameOnline(m)
  BY <1>0, <1>6 DEF EmitCameOnline, RowsOK, GoneIsEmpty
<1>7. ASSUME NEW d \in Device, Seen(d), UNCHANGED <<provisioned, readings, deleting, shown>>
      PROVE  RowsOK' /\ GoneIsEmpty'
  BY <1>0, <1>7 DEF Seen, SeenStatus, RowsOK, GoneIsEmpty, Exists
<1>8. CASE SeeGateway(m) \/ SeeSensor(m)
  BY <1>0, <1>7, <1>8 DEF SeeGateway, SeeSensor, HandlerFits, Device
<1> QED
  BY <1>1, <1>2, <1>3, <1>4, <1>5, <1>6, <1>8 DEF HandlerStep, FailStep

LEMMA AdministratorKeeps ==
  ASSUME RowsOK, GoneIsEmpty, NEW d \in Device, StaffStep(d)
  PROVE  RowsOK' /\ GoneIsEmpty'
<1>0. MaxCount \in Nat /\ Window \in Nat
  BY IngestAssumption
<1>1. ASSUME NEW new \in {"inactive", "active", "blocked"}, SetStatus(d, new)
      PROVE  RowsOK' /\ GoneIsEmpty'
  BY <1>0, <1>1 DEF SetStatus, RowsOK, GoneIsEmpty, Exists, DeviceStatus
<1>2. CASE DeleteReadings(d)
  BY <1>0, <1>2 DEF DeleteReadings, RowsOK, GoneIsEmpty
<1>3. CASE DeleteDevice(d)
  BY <1>0, <1>3 DEF DeleteDevice, RowsOK, GoneIsEmpty, Cascade, DeviceStatus
<1>4. CASE DeleteFails(d)
  BY <1>0, <1>4 DEF DeleteFails, RowsOK, GoneIsEmpty
<1> QED
  BY <1>1, <1>2, <1>3, <1>4 DEF StaffStep

LEMMA IngestNextKeeps == IngestInv /\ IngestNext => IngestInv'
<1> SUFFICES ASSUME IngestInv, IngestNext PROVE IngestInv'
  OBVIOUS
<1>1. HandlersOK /\ RowsOK /\ GoneIsEmpty
  BY IngestParts
<1>2. ASSUME NEW m \in Message, VerifyGateway(m) \/ HandlerStep(m)
      PROVE  HandlersOK' /\ RowsOK' /\ GoneIsEmpty'
  <2>1. CASE VerifyGateway(m)
    <3>1. RowsOK' /\ GoneIsEmpty'
      BY <1>1, <2>1 DEF VerifyGateway, RowsOK, GoneIsEmpty
    <3> QED BY <1>1, <2>1, <3>1, HandlersStep
  <2>2. CASE HandlerStep(m)
    BY <1>1, <2>2, HandlersStep, RowsStep
  <2> QED BY <1>2, <2>1, <2>2
<1>3. ASSUME NEW d \in Device, StaffStep(d)
      PROVE  HandlersOK' /\ RowsOK' /\ GoneIsEmpty'
  <2>1. UNCHANGED handler
    BY <1>3 DEF StaffStep, SetStatus, DeleteReadings, DeleteDevice, DeleteFails
  <2>2. HandlersOK'
    BY <1>1, <2>1 DEF HandlersOK, HandlerFits
  <2> QED BY <1>1, <1>3, <2>2, AdministratorKeeps
<1>4. HandlersOK' /\ RowsOK' /\ GoneIsEmpty'
  BY <1>2, <1>3 DEF IngestNext
<1> QED BY <1>4, IngestParts, PTL

LEMMA IngestUnchanged == IngestInv /\ UNCHANGED ingestVars => IngestInv'
  BY DEF IngestInv, IngestTypeOK, HandlerFits, ingestVars

LEMMA IngestInvInit == IngestInit => IngestInv
<1> SUFFICES ASSUME IngestInit PROVE IngestInv
  OBVIOUS
<1> USE IngestAssumption
<1>1. Idle \in HandlerRecord /\ Idle.pc = "idle"
  BY DEF Idle, HandlerRecord
<1>2. HandlersOK
  BY <1>1 DEF IngestInit, HandlersOK, HandlerFits
<1>3. \A d \in Device : IsOnline(d) \in BOOLEAN
  BY DEF IsOnline
<1>4. RowsOK
  BY <1>3 DEF IngestInit, RowsOK, DeviceStatus
<1>5. GoneIsEmpty
  BY DEF IngestInit, GoneIsEmpty
<1> QED BY <1>2, <1>4, <1>5, IngestParts

\* A message that is about to act on the counter of a device.
Acting(m, d) == handler[m].pc \in {"read", "block"} /\ handler[m].device = d

LEMMA CountedOutStep ==
  ASSUME IngestInv, CountedOut, IngestNext
  PROVE  CountedOut'
<1> SUFFICES ASSUME NEW d \in Device, failCount'[d] >= BlockThreshold,
                    \A m \in Message : ~Acting(m, d)'
             PROVE  status'[d] # "active"
  BY DEF CountedOut, Acting
<1>0. /\ HandlersOK /\ RowsOK /\ GoneIsEmpty
      /\ BlockThreshold \in Nat \ {0} /\ MaxCount \in Nat
  BY IngestParts, IngestAssumption
<1>1. (\A m \in Message : ~Acting(m, d)) /\ failCount[d] >= BlockThreshold => status[d] # "active"
  BY DEF CountedOut, Acting
<1>2. ASSUME NEW m \in Message, VerifyGateway(m) \/ HandlerStep(m)
      PROVE  status'[d] # "active"
  <2>1. \A n \in Message \ {m} : handler'[n] = handler[n]
    BY <1>0, <1>2, HandlersStep
  <2>2. ~Acting(m, d) => \A n \in Message : ~Acting(n, d)
    BY <2>1 DEF Acting
  <2>3. handler[m] \in HandlerRecord /\ HandlerFits(m)
    BY <1>0 DEF HandlersOK
  <2>4. CASE \/ VerifyGateway(m) \/ VerifySensor(m) \/ CheckStatus(m) \/ StoreReading(m)
             \/ TelemetryIngested(m) \/ EmitCameOnline(m)
    <3>1. UNCHANGED <<status, failCount>> /\ ~Acting(m, d)
      BY <2>4 DEF VerifyGateway, VerifySensor, CheckStatus, StoreReading, TelemetryIngested,
         EmitCameOnline, Acting
    <3> QED BY <1>1, <2>2, <3>1
  <2>5. CASE IncrementFailCount(m)
    <3>1. handler'[m].pc = "read" /\ handler'[m].device = handler[m].device
      BY <1>0, <2>5, Going DEF IncrementFailCount
    <3>2. handler[m].device # d
      BY <3>1 DEF Acting
    <3>3. failCount'[d] = failCount[d] /\ status' = status /\ ~Acting(m, d)
      BY <1>0, <2>5, <3>2 DEF IncrementFailCount, RowsOK, Acting
    <3> QED BY <1>1, <2>2, <3>3
  <2>6. CASE ReadFailCount(m)
    <3>1. UNCHANGED <<status, failCount>> /\ handler[m].pc = "read"
      BY <2>6 DEF ReadFailCount
    <3>2. CASE handler[m].device # d
      BY <1>1, <2>2, <3>1, <3>2 DEF Acting
    <3>3. CASE handler[m].device = d
      <4>1. ~Goto(m, "block")
        BY <1>0, <3>1, <3>3, Going DEF Acting
      <4>2. ~(Exists(d) /\ ReachesThreshold(failCount[d]))
        BY <2>6, <3>3, <4>1 DEF ReadFailCount
      <4>3. status[d] = "gone" => failCount[d] = 0
        BY <1>0 DEF GoneIsEmpty
      <4>4. FALSE
        BY <1>0, <3>1, <4>2, <4>3 DEF Exists, ReachesThreshold, RowsOK
      <4> QED BY <4>4
    <3> QED BY <3>2, <3>3
  <2>7. CASE BlockDevice(m)
    <3>1. /\ UNCHANGED failCount /\ handler[m].pc = "block"
          /\ status'[d] = IF handler[m].device = d /\ Exists(d) THEN "blocked" ELSE status[d]
      BY <1>0, <2>7 DEF BlockDevice, RowsOK
    <3>2. CASE handler[m].device # d
      BY <1>1, <2>2, <3>1, <3>2 DEF Acting
    <3>3. CASE handler[m].device = d
      BY <3>1, <3>3 DEF Exists
    <3> QED BY <3>2, <3>3
  <2>8. ASSUME NEW e \in Device, Seen(e), ~Acting(m, d)
        PROVE  status'[d] # "active"
    <3>1. failCount'[d] = failCount[d] \/ failCount'[d] = 0
      BY <1>0, <2>8 DEF Seen, RowsOK
    <3>2. status'[d] = status[d]
      BY <1>0, <2>8 DEF Seen, SeenStatus, RowsOK
    <3> QED BY <1>0, <1>1, <2>2, <2>8, <3>1, <3>2
  <2>9. CASE SeeGateway(m) \/ SeeSensor(m)
    <3>1. /\ handler[m].pc \in {"gateway", "seen"}
          /\ Seen(handler[m].gateway) \/ Seen(handler[m].sensor)
      BY <2>9 DEF SeeGateway, SeeSensor
    <3>2. handler[m].gateway \in Device /\ handler[m].sensor \in Device /\ ~Acting(m, d)
      BY <2>3, <3>1 DEF HandlerFits, Device, Acting
    <3> QED BY <2>8, <3>1, <3>2
  <2> QED
    BY <1>2, <2>4, <2>5, <2>6, <2>7, <2>9 DEF HandlerStep, FailStep
<1>3. ASSUME NEW e \in Device, StaffStep(e)
      PROVE  status'[d] # "active"
  <2>1. UNCHANGED handler
    BY <1>3 DEF StaffStep, SetStatus, DeleteReadings, DeleteDevice, DeleteFails
  <2>2. \A m \in Message : ~Acting(m, d)
    BY <2>1 DEF Acting
  <2>3. ASSUME NEW new \in {"inactive", "active", "blocked"}, SetStatus(e, new)
        PROVE  status'[d] # "active"
    BY <1>0, <1>1, <2>2, <2>3 DEF SetStatus, RowsOK
  <2>4. CASE DeleteReadings(e) \/ DeleteFails(e)
    BY <1>1, <2>2, <2>4 DEF DeleteReadings, DeleteFails
  <2>5. CASE DeleteDevice(e)
    BY <1>0, <1>1, <2>2, <2>5 DEF DeleteDevice, RowsOK
  <2> QED BY <1>3, <2>3, <2>4, <2>5 DEF StaffStep
<1> QED
  BY <1>2, <1>3 DEF IngestNext

LEMMA BlockHoldsStep ==
  ASSUME IngestInv, IngestNext, NEW d \in Device, status[d] = "blocked",
         \E m \in Message : handler'[m] # handler[m]
  PROVE  status'[d] = "blocked"
<1>1. PICK m \in Message : VerifyGateway(m) \/ HandlerStep(m)
  <2>1. ASSUME NEW e \in Device, StaffStep(e) PROVE FALSE
    BY <2>1 DEF StaffStep, SetStatus, DeleteReadings, DeleteDevice, DeleteFails
  <2> QED BY <2>1 DEF IngestNext
<1>2. RowsOK
  BY IngestParts
<1> QED
  BY <1>1, <1>2 DEF HandlerStep, FailStep, VerifyGateway, VerifySensor, IncrementFailCount,
     ReadFailCount, BlockDevice, CheckStatus, StoreReading, TelemetryIngested, EmitCameOnline,
     SeeGateway, SeeSensor, Seen, SeenStatus, RowsOK, Exists

\* A device that has failed too often is not active once the messages that
\* counted are done, and no message ends a block.
THEOREM BlockingStaysExact == IngestSpec => BlockingIsExact
<1>1. IngestInit => CountedOut
  BY IngestAssumption DEF IngestInit, CountedOut
<1>2. IngestInv /\ CountedOut /\ [IngestNext]_ingestVars => IngestInv' /\ CountedOut'
  <2>1. CountedOut /\ UNCHANGED ingestVars => CountedOut'
    BY DEF CountedOut, ingestVars
  <2> QED BY <2>1, IngestNextKeeps, IngestUnchanged, CountedOutStep
<1>3. IngestSpec => [](IngestInv /\ CountedOut)
  BY <1>1, <1>2, IngestInvInit, PTL DEF IngestSpec
<1>4. IngestInv /\ [IngestNext]_ingestVars =>
        [\A d \in Device :
           status[d] = "blocked" /\ (\E m \in Message : handler'[m] # handler[m])
             => status'[d] = "blocked"]_ingestVars
  BY BlockHoldsStep
<1>5. IngestSpec => BlockHolds
  BY <1>3, <1>4, PTL DEF IngestSpec, BlockHolds
<1> QED
  BY <1>3, <1>5, PTL DEF BlockingIsExact

-----------------------------------------------------------------------------
(***************************************************************************)
(* DeviceMonitor.  A tick announces from rows it has read before, and from *)
(* the state it noted before that: TickFits says what has been announced   *)
(* so far, AuditFits what the log may say of a device meanwhile.           *)
(***************************************************************************)
MonitorSpec == IngestInit /\ MonitorInit /\ [][MonitorNext]_allMonitorVars

MonitorVarsOK ==
  /\ previous \in [Device -> {"unknown", "on", "off"}]
  /\ running \in BOOLEAN
  /\ ticks \in [Tick -> TickRecord]
  /\ skips \in 0..MaxSkips /\ failures \in 0..MaxFailures
  /\ audit \in [Device -> {"unknown", "on", "off"}]
  /\ lost \subseteq Device

OneTick ==
  /\ \A k \in Tick : ticks[k].pc # "idle" => running
  /\ \A j, k \in Tick : ticks[j].pc # "idle" /\ ticks[k].pc # "idle" => j = k

\* While it announces, a tick knows one row of a device, and members were told
\* of an active device that went offline, or its gateway went with it.
TickFits(k) ==
  LET t == ticks[k] IN
  /\ t.pc \in {"idle", "select"} => t.todo = {}
  /\ t.pc = "announce" =>
       /\ t.todo \subseteq {r.device : r \in t.rows}
       /\ \A r, q \in t.rows : r.device = q.device => r = q
       /\ \A r \in t.rows : r.active /\ r.device \notin t.todo \cup t.current =>
            r.device \in t.told \/ Follows(k, r.device)

\* As long as no tick has failed: the log says of a device what the monitor
\* noted last, and the opposite while its change is still to be announced.
AuditFits ==
  failures = 0 =>
    /\ \A d \in Device : Exists(d) /\ previous[d] = "unknown" => audit[d] = "unknown"
    /\ \A d \in Device :
         Exists(d) /\ previous[d] # "unknown" /\ (\A k \in Tick : d \notin ticks[k].todo)
           => audit[d] \in {"unknown", previous[d]}
    /\ \A k \in Tick : \A d \in ticks[k].todo :
         /\ audit[d] \in {"unknown", OnOff(d \notin ticks[k].current)}
         /\ Exists(d) => previous[d] = OnOff(d \in ticks[k].current)

MonitorInv ==
  IngestInv /\ MonitorVarsOK /\ OneTick /\ (\A k \in Tick : TickFits(k)) /\ AuditFits

LEMMA MonitorTypes == MonitorInv => MonitorTypeOK
  BY DEF MonitorInv, MonitorTypeOK, MonitorVarsOK, OneTick, TickFits

\* A tick becomes v and the others stay as they are.
LEMMA TickBecomes ==
  ASSUME MonitorVarsOK, NEW k \in Tick, NEW v \in TickRecord,
         ticks' = [ticks EXCEPT ![k] = v]
  PROVE  /\ ticks' \in [Tick -> TickRecord]
         /\ ticks'[k] = v /\ \A j \in Tick \ {k} : ticks'[j] = ticks[j]
  BY DEF MonitorVarsOK

LEMMA NoTickType == NoTick \in TickRecord /\ NoTick.pc = "idle" /\ NoTick.todo = {}
  BY DEF NoTick, TickRecord

LEMMA SelectType ==
  ASSUME NEW t \in TickRecord
  PROVE  /\ [t EXCEPT !.pc = "select"] \in TickRecord
         /\ [t EXCEPT !.pc = "select"].pc = "select"
         /\ [t EXCEPT !.pc = "select"].todo = t.todo
  BY DEF TickRecord

LEMMA FirstTicksFit ==
  ASSUME ticks' = FirstTicks, running' = TRUE
  PROVE  ticks' \in [Tick -> TickRecord] /\ OneTick' /\ \A k \in Tick : TickFits(k)'
<1>1. /\ [NoTick EXCEPT !.pc = "select"] \in TickRecord
      /\ [NoTick EXCEPT !.pc = "select"].pc = "select"
      /\ [NoTick EXCEPT !.pc = "select"].todo = {}
  BY NoTickType, SelectType
<1> DEFINE first == CHOOSE j \in Tick : TRUE
           sel == [NoTick EXCEPT !.pc = "select"]
<1>2. FirstTicks = [k \in Tick |-> IF k = first THEN sel ELSE NoTick]
  BY DEF FirstTicks
<1> HIDE DEF first, sel
<1>3. \A k \in Tick : ticks'[k] = IF k = first THEN sel ELSE NoTick
  BY <1>2
<1>4. sel \in TickRecord /\ sel.pc = "select" /\ sel.todo = {}
  BY <1>1 DEF sel
<1>5. ticks' \in [Tick -> TickRecord]
  BY <1>2, <1>4, NoTickType
<1>6. OneTick'
  BY <1>3, <1>4, NoTickType DEF OneTick
<1>7. \A k \in Tick : TickFits(k)'
  BY <1>3, <1>4, NoTickType DEF TickFits
<1> QED BY <1>5, <1>6, <1>7

\* What an action of a tick that is running does to the ticks.
TickGoes(k, v) ==
  /\ ticks' = [ticks EXCEPT ![k] = v]
  /\ running' = (v.pc # "idle")

LEMMA TickGoesFits ==
  ASSUME MonitorVarsOK, OneTick, \A j \in Tick : TickFits(j), NEW k \in Tick,
         ticks[k].pc # "idle", NEW v \in TickRecord, TickGoes(k, v), TickFits(k)'
  PROVE  /\ ticks' \in [Tick -> TickRecord] /\ OneTick' /\ \A j \in Tick : TickFits(j)'
         /\ running' \in BOOLEAN
<1>1. /\ ticks' \in [Tick -> TickRecord]
      /\ ticks'[k] = v /\ \A j \in Tick \ {k} : ticks'[j] = ticks[j] /\ ticks[j].pc = "idle"
  BY TickBecomes DEF TickGoes, OneTick
<1>2. OneTick' /\ running' \in BOOLEAN
  BY <1>1 DEF OneTick, TickGoes
<1>3. ASSUME NEW j \in Tick \ {k} PROVE TickFits(j)'
  BY <1>1 DEF TickFits
<1> QED BY <1>1, <1>2, <1>3


\* No action that readings and administrators cause brings a device back.
LEMMA GoneStays ==
  ASSUME IngestInv, IngestNext, NEW d \in Device, status[d] = "gone"
  PROVE  status'[d] = "gone"
<1>1. RowsOK
  BY IngestParts
<1>2. ASSUME NEW m \in Message, VerifyGateway(m) \/ HandlerStep(m)
      PROVE  status'[d] = "gone"
  BY <1>1, <1>2 DEF HandlerStep, FailStep, VerifyGateway, VerifySensor, IncrementFailCount,
     ReadFailCount, BlockDevice, CheckStatus, StoreReading, TelemetryIngested, EmitCameOnline,
     SeeGateway, SeeSensor, Seen, SeenStatus, RowsOK, Exists
<1>3. ASSUME NEW e \in Device, StaffStep(e)
      PROVE  status'[d] = "gone"
  BY <1>1, <1>3 DEF StaffStep, SetStatus, DeleteReadings, DeleteDevice, DeleteFails,
     RowsOK, Exists
<1> QED BY <1>2, <1>3 DEF IngestNext

\* What the readings do while the monitor stands still.
LEMMA IngestStepKeepsMonitor ==
  ASSUME MonitorInv, IngestNext, UNCHANGED monitorVars
  PROVE  MonitorInv'
<1>1. IngestInv'
  BY IngestNextKeeps DEF MonitorInv
<1>2. MonitorVarsOK' /\ OneTick'
  BY DEF MonitorInv, MonitorVarsOK, OneTick, monitorVars
<1>3. \A k \in Tick : TickFits(k)'
  BY DEF MonitorInv, TickFits, Follows, GatewayOfSensor, monitorVars
<1>4. \A d \in Device : Exists(d)' => Exists(d)
  BY GoneStays DEF Exists, MonitorInv
<1>5. MonitorVarsOK
  BY DEF MonitorInv
<1>6. AuditFits'
  <2>1. AuditFits /\ UNCHANGED monitorVars
    BY DEF MonitorInv
  <2>2. \A k \in Tick : ticks[k].todo \subseteq Device
    BY <1>5 DEF MonitorVarsOK, TickRecord
  <2> QED BY <1>4, <2>1, <2>2 DEF AuditFits, monitorVars
<1> QED BY <1>1, <1>2, <1>3, <1>6 DEF MonitorInv

\* Time, a heartbeat and an announcement change of the readings only when a
\* device was last seen, who is provisioned, and what was shown.
LEMMA IngestPartsKept ==
  ASSUME IngestInv, UNCHANGED <<status, failCount, readings, handler, deleting>>,
         age' \in [Device -> 0..Window],
         \A d \in Device : status[d] = "gone" => age'[d] = Window,
         provisioned' \subseteq Device, shown' \in [Device -> BOOLEAN]
  PROVE  IngestInv'
  BY DEF IngestInv, IngestTypeOK, HandlerFits

LEMMA TimerFiresKeeps ==
  ASSUME MonitorInv, TimerFires
  PROVE  MonitorInv'
<1>0. /\ IngestInv /\ MonitorVarsOK /\ OneTick /\ (\A k \in Tick : TickFits(k)) /\ AuditFits
      /\ Window \in Nat \ {0} /\ MaxSkips \in Nat
  BY IngestAssumption, MonitorAssumption DEF MonitorInv
<1>1. IngestInv'
  <2>1. /\ age \in [Device -> 0..Window] /\ shown \in [Device -> BOOLEAN]
        /\ provisioned \subseteq Device
        /\ \A d \in Device : status[d] = "gone" => age[d] = Window
    BY <1>0 DEF IngestInv, IngestTypeOK
  <2>2. age' \in [Device -> 0..Window]
    BY <1>0, <2>1 DEF TimerFires
  <2>3. \A d \in Device : status[d] = "gone" => age'[d] = Window
    BY <1>0, <2>1 DEF TimerFires
  <2> QED BY <1>0, <2>1, <2>2, <2>3, IngestPartsKept DEF TimerFires
<1>2. CASE UNCHANGED <<running, ticks>> /\ skips < MaxSkips /\ skips' = skips + 1
  <2>1. MonitorVarsOK'
    BY <1>0, <1>2 DEF MonitorVarsOK, TimerFires
  <2>2. OneTick' /\ (\A k \in Tick : TickFits(k)')
    BY <1>0, <1>2 DEF OneTick, TickFits, Follows, GatewayOfSensor
  <2>3. AuditFits'
    BY <1>0, <1>2 DEF AuditFits, TimerFires, Exists
  <2> QED BY <1>1, <2>1, <2>2, <2>3 DEF MonitorInv
<1>3. ASSUME NEW k \in Tick, ticks[k].pc = "idle", MayStart(k), running' = TRUE,
             ticks' = [ticks EXCEPT ![k].pc = "select"], UNCHANGED skips
      PROVE  MonitorInv'
  <2>0. ticks[k] \in TickRecord /\ ticks[k].todo = {}
    BY <1>0, <1>3 DEF MonitorVarsOK, TickFits
  <2> DEFINE v == [ticks[k] EXCEPT !.pc = "select"]
  <2>1. v \in TickRecord /\ v.pc = "select" /\ v.todo = {}
    BY <2>0, SelectType
  <2>2. ticks' = [ticks EXCEPT ![k] = v]
    BY <1>0, <1>3 DEF MonitorVarsOK
  <2> HIDE DEF v
  <2>3. /\ ticks' \in [Tick -> TickRecord]
        /\ ticks'[k] = v /\ \A j \in Tick \ {k} : ticks'[j] = ticks[j]
    BY <1>0, <2>1, <2>2, TickBecomes
  <2>4. \A j \in Tick : ticks[j].pc = "idle"
    BY <1>0, <1>3 DEF MayStart, OneTick, MonitorVarsOK
  <2>5. MonitorVarsOK'
    BY <1>0, <1>3, <2>3 DEF MonitorVarsOK, TimerFires
  <2>6. OneTick'
    BY <1>3, <2>1, <2>3, <2>4 DEF OneTick
  <2>7. \A j \in Tick : TickFits(j)'
    BY <1>0, <2>1, <2>3, <2>4 DEF TickFits
  <2>8. \A j \in Tick : ticks'[j].todo = ticks[j].todo /\ ticks[j].todo = {}
    BY <1>0, <2>0, <2>1, <2>3, <2>4 DEF TickFits
  <2>9. AuditFits'
    BY <1>0, <2>8 DEF AuditFits, TimerFires, Exists
  <2> QED BY <1>1, <2>5, <2>6, <2>7, <2>9 DEF MonitorInv
<1> QED BY <1>2, <1>3 DEF TimerFires

LEMMA HeartbeatKeeps ==
  ASSUME MonitorInv, RunSimulatedHeartbeat
  PROVE  MonitorInv'
<1>0. IngestInv /\ Window \in Nat \ {0}
  BY IngestAssumption DEF MonitorInv
<1>1. IngestInv'
  <2>1. /\ age \in [Device -> 0..Window] /\ shown \in [Device -> BOOLEAN]
        /\ provisioned \subseteq Device
        /\ \A d \in Device : status[d] = "gone" => age[d] = Window
    BY <1>0 DEF IngestInv, IngestTypeOK
  <2>2. PICK alive \in SUBSET Present :
          /\ age' = [d \in Device |-> IF d \in alive THEN 0 ELSE age[d]]
          /\ provisioned' = provisioned \cup alive
    BY DEF RunSimulatedHeartbeat
  <2>3. age' \in [Device -> 0..Window] /\ provisioned' \subseteq Device
    BY <1>0, <2>1, <2>2 DEF Present
  <2>4. \A d \in Device : status[d] = "gone" => age'[d] = Window
    BY <2>1, <2>2 DEF Present, Exists
  <2> QED BY <1>0, <2>1, <2>3, <2>4, IngestPartsKept DEF RunSimulatedHeartbeat
<1>2. UNCHANGED monitorVars /\ UNCHANGED status
  BY DEF RunSimulatedHeartbeat
<1>3. MonitorVarsOK' /\ OneTick' /\ \A k \in Tick : TickFits(k)'
  BY <1>2 DEF MonitorInv, MonitorVarsOK, OneTick, TickFits, Follows, GatewayOfSensor,
     monitorVars
<1>4. AuditFits'
  BY <1>2 DEF MonitorInv, AuditFits, Exists, monitorVars
<1> QED BY <1>1, <1>3, <1>4 DEF MonitorInv

LEMMA RestartKeeps ==
  ASSUME MonitorInv, RestartBackend
  PROVE  MonitorInv'
<1>0. IngestInv /\ MonitorVarsOK /\ MaxFailures \in Nat /\ MaxSkips \in Nat
  BY MonitorAssumption DEF MonitorInv
<1>1. IngestInv'
  <2>1. Idle \in HandlerRecord /\ Idle.pc = "idle"
    BY DEF Idle, HandlerRecord
  <2>2. \A d \in Device : IsOnline(d) \in BOOLEAN
    BY DEF IsOnline
  <2>3. /\ handler' \in [Message -> HandlerRecord] /\ \A m \in Message : HandlerFits(m)'
        /\ deleting' \in [Device -> {0, 1}] /\ shown' \in [Device -> BOOLEAN]
    BY <2>1, <2>2 DEF RestartBackend, HandlerFits
  <2> QED BY <1>0, <2>3 DEF IngestInv, IngestTypeOK, RestartBackend
<1>2. ticks' \in [Tick -> TickRecord] /\ OneTick' /\ \A k \in Tick : TickFits(k)'
  BY FirstTicksFit DEF RestartBackend
<1>3. MonitorVarsOK' /\ failures' # 0
  BY <1>0, <1>2 DEF MonitorVarsOK, RestartBackend
<1>4. AuditFits'
  BY <1>3 DEF AuditFits
<1> QED BY <1>1, <1>2, <1>3, <1>4 DEF MonitorInv


\* The SELECT of a tick.
LEMMA SelectSeenKeeps ==
  ASSUME MonitorInv, NEW k \in Tick, SelectSeen(k)
  PROVE  MonitorInv'
<1> DEFINE changed == {d \in Present : previous[d] \notin {"unknown", OnOff(IsOnline(d))}}
           now == {d \in Present : IsOnline(d)}
           v == [ticks[k] EXCEPT !.pc = "rows", !.current = now, !.todo = changed]
<1>0. /\ IngestInv /\ MonitorVarsOK /\ OneTick /\ (\A j \in Tick : TickFits(j)) /\ AuditFits
      /\ MaxSkips \in Nat
  BY MonitorAssumption DEF MonitorInv
<1>1. /\ ticks[k] \in TickRecord /\ ticks[k].pc = "select"
      /\ \A j \in Tick : ticks[j].todo = {}
  BY <1>0 DEF MonitorVarsOK, TickFits, OneTick, SelectSeen
<1>2. changed \subseteq Device /\ now \subseteq Device
  BY DEF Present
<1>3. \A d \in changed : /\ Exists(d) /\ previous[d] # "unknown"
                         /\ previous[d] = OnOff(d \notin now) /\ Noted(d) = OnOff(d \in now)
  BY <1>0 DEF MonitorVarsOK, Present, Noted, OnOff
<1>4. \A d \in Device \ changed : Exists(d) =>
        /\ previous[d] \in {"unknown", Noted(d)} /\ Noted(d) # "unknown"
  BY DEF Present, Noted, OnOff
<1>5. \A d \in Device : Noted(d) \in {"unknown", "on", "off"}
  BY DEF Noted, OnOff
<1>6. \E w \in TickRecord : /\ TickGoes(k, w) /\ w.pc \in {"idle", "rows"} /\ w.todo = changed
                            /\ IF changed = {} THEN w.pc = "idle" ELSE w.pc = "rows" /\ w.current = now
  <2>1. CASE changed = {}
    BY <2>1, NoTickType DEF SelectSeen, EndTick, TickGoes
  <2>2. CASE changed # {}
    <3>1. v \in TickRecord /\ v.pc = "rows" /\ v.todo = changed /\ v.current = now
      BY <1>1, <1>2 DEF TickRecord
    <3>2. TickGoes(k, v)
      BY <1>0, <1>1, <2>2, <3>1 DEF SelectSeen, TickGoes, OneTick
    <3> HIDE DEF v, changed, now
    <3> QED BY <2>2, <3>1, <3>2
  <2> QED BY <2>1, <2>2
<1> HIDE DEF v, changed, now
<1>7. PICK w \in TickRecord : /\ TickGoes(k, w) /\ w.pc \in {"idle", "rows"} /\ w.todo = changed
                              /\ IF changed = {} THEN w.pc = "idle" ELSE w.pc = "rows" /\ w.current = now
  BY <1>6
<1>8. ticks'[k] = w /\ \A j \in Tick \ {k} : ticks'[j] = ticks[j]
  BY <1>0, <1>7, TickBecomes DEF TickGoes
<1>9. TickFits(k)'
  BY <1>7, <1>8 DEF TickFits
<1>10. /\ ticks' \in [Tick -> TickRecord] /\ OneTick' /\ \A j \in Tick : TickFits(j)'
       /\ running' \in BOOLEAN
  BY <1>0, <1>1, <1>7, <1>9, TickGoesFits
<1>11. \A d \in Device : previous'[d] = Noted(d)
  BY DEF SelectSeen
<1>12. MonitorVarsOK'
  BY <1>0, <1>5, <1>10 DEF MonitorVarsOK, SelectSeen
<1>13. IngestInv'
  BY <1>0, IngestUnchanged DEF SelectSeen
<1>14. \A j \in Tick : \A d \in ticks'[j].todo :
         j = k /\ d \in changed /\ ticks'[j].current = now
  BY <1>1, <1>7, <1>8
<1>15. UNCHANGED <<audit, failures, status>>
  BY DEF SelectSeen, ingestVars
<1>16. ASSUME failures = 0 PROVE AuditFits'
  <2>1. \A d \in Device : Exists(d) /\ previous'[d] = "unknown" => audit[d] = "unknown"
    BY <1>3, <1>4, <1>11 DEF OnOff
  <2>2. \A d \in Device : Exists(d) /\ d \notin changed => audit[d] \in {"unknown", previous'[d]}
    BY <1>0, <1>1, <1>4, <1>11, <1>16 DEF AuditFits
  <2>3. \A d \in changed : audit[d] \in {"unknown", OnOff(d \notin now)}
                           /\ previous'[d] = OnOff(d \in now)
    BY <1>0, <1>1, <1>2, <1>3, <1>11, <1>16 DEF AuditFits
  <2>4. \A d \in changed : \E j \in Tick : d \in ticks'[j].todo
    BY <1>7, <1>8
  <2> QED BY <1>2, <1>14, <1>15, <2>1, <2>2, <2>3, <2>4 DEF AuditFits, Exists
<1>17. AuditFits'
  BY <1>15, <1>16 DEF AuditFits
<1> QED BY <1>10, <1>12, <1>13, <1>17 DEF MonitorInv

\* The second read of a tick.
LEMMA ReadChangedKeeps ==
  ASSUME MonitorInv, NEW k \in Tick, ReadChanged(k)
  PROVE  MonitorInv'
<1> DEFINE found == ticks[k].todo \cap Present
           row(d) == [device |-> d, online |-> IsOnline(d), active |-> status[d] = "active"]
           v == [ticks[k] EXCEPT !.pc = "announce", !.todo = found,
                                 !.rows = {row(d) : d \in found}]
<1>0. IngestInv /\ MonitorVarsOK /\ OneTick /\ (\A j \in Tick : TickFits(j)) /\ AuditFits
  BY DEF MonitorInv
<1>1. /\ ticks[k] \in TickRecord /\ ticks[k].pc = "rows" /\ running
      /\ \A j \in Tick \ {k} : ticks[j].pc = "idle"
  BY <1>0 DEF MonitorVarsOK, OneTick, ReadChanged
<1>2. found \subseteq Device /\ \A d \in Device : IsOnline(d) \in BOOLEAN
  BY DEF Present, IsOnline
<1>3. /\ v.pc = "announce" /\ v.todo = found /\ v.current = ticks[k].current
      /\ v.rows = {row(d) : d \in found}
  BY <1>1 DEF TickRecord
<1>4. v.rows \subseteq [device : Device, online : BOOLEAN, active : BOOLEAN]
  <2>1. \A d \in found : row(d) \in [device : Device, online : BOOLEAN, active : BOOLEAN]
    BY <1>2
  <2> HIDE DEF row
  <2> QED BY <1>3, <2>1
<1>5. v \in TickRecord
  BY <1>1, <1>2, <1>4 DEF TickRecord
<1>6. TickGoes(k, v)
  BY <1>0, <1>1, <1>3 DEF ReadChanged, TickGoes, MonitorVarsOK
<1>7. /\ v.todo \subseteq {r.device : r \in v.rows}
      /\ \A r, q \in v.rows : r.device = q.device => r = q
      /\ \A r \in v.rows : r.device \in v.todo
  <2>1. \A d : row(d).device = d
    OBVIOUS
  <2> HIDE DEF row, found
  <2> QED BY <1>3, <2>1
<1> HIDE DEF v, found, row
<1>8. ticks'[k] = v /\ \A j \in Tick \ {k} : ticks'[j] = ticks[j]
  BY <1>0, <1>5, <1>6, TickBecomes DEF TickGoes
<1>9. TickFits(k)'
  BY <1>3, <1>7, <1>8 DEF TickFits
<1>10. /\ ticks' \in [Tick -> TickRecord] /\ OneTick' /\ \A j \in Tick : TickFits(j)'
       /\ running' \in BOOLEAN
  BY <1>0, <1>1, <1>5, <1>6, <1>9, TickGoesFits
<1>11. MonitorVarsOK' /\ IngestInv'
  BY <1>0, <1>10, IngestUnchanged DEF MonitorVarsOK, ReadChanged
<1>12. AuditFits'
  <2>1. UNCHANGED <<previous, audit, failures, status>>
    BY DEF ReadChanged, ingestVars
  <2>2. \A j \in Tick : ticks'[j].todo \subseteq ticks[j].todo /\ ticks'[j].current = ticks[j].current
    BY <1>3, <1>8 DEF found
  <2>3. \A j \in Tick, d \in Device : Exists(d) /\ d \in ticks[j].todo => d \in ticks'[j].todo
    BY <1>3, <1>8 DEF found, Present
  <2> QED BY <1>0, <2>1, <2>2, <2>3 DEF AuditFits, Exists
<1> QED BY <1>10, <1>11, <1>12 DEF MonitorInv


\* What the announcement of a row changes.
LEMMA Announcing ==
  ASSUME MonitorInv, NEW k \in Tick, AnnounceTransition(k)
  PROVE  \E r \in ticks[k].rows, w \in TickRecord :
           /\ r.device \in ticks[k].todo /\ r.device \in Device /\ r.online \in BOOLEAN
           /\ TickGoes(k, w) /\ w.pc = "announce"
           /\ w.todo = ticks[k].todo \ {r.device}
           /\ w.rows = ticks[k].rows /\ w.current = ticks[k].current
           /\ w.told = IF r.active /\ ~Follows(k, r.device)
                       THEN ticks[k].told \cup {r.device} ELSE ticks[k].told
           /\ shown' = [shown EXCEPT ![r.device] = r.online]
           /\ audit' = [audit EXCEPT ![r.device] = OnOff(r.device \in ticks[k].current)]
           /\ lost' = lost \ {r.device}
<1>0. MonitorVarsOK /\ ticks[k] \in TickRecord /\ running /\ ticks[k].pc = "announce"
  BY DEF MonitorInv, MonitorVarsOK, OneTick, AnnounceTransition
<1>1. PICK r \in ticks[k].rows :
        /\ r.device \in ticks[k].todo
        /\ shown' = [shown EXCEPT ![r.device] = r.online]
        /\ audit' = [audit EXCEPT ![r.device] = OnOff(r.device \in ticks[k].current)]
        /\ lost' = lost \ {r.device}
        /\ ticks' = [ticks EXCEPT
             ![k].todo = @ \ {r.device},
             ![k].told = IF r.active /\ ~Follows(k, r.device)
                         THEN @ \cup {r.device} ELSE @]
        /\ UNCHANGED running
  BY DEF AnnounceTransition
<1>2. r.device \in Device /\ r.online \in BOOLEAN
  BY <1>0 DEF TickRecord
<1> DEFINE told == IF r.active /\ ~Follows(k, r.device)
                   THEN ticks[k].told \cup {r.device} ELSE ticks[k].told
           w == [ticks[k] EXCEPT !.todo = @ \ {r.device}, !.told = told]
<1>3. ticks' = [ticks EXCEPT ![k] = w]
  BY <1>0, <1>1 DEF MonitorVarsOK, TickRecord
<1>4. told \subseteq Device
  BY <1>0, <1>2 DEF TickRecord
<1> HIDE DEF told
<1>5. w \in TickRecord /\ w.pc = "announce" /\ w.todo = ticks[k].todo \ {r.device}
      /\ w.rows = ticks[k].rows /\ w.current = ticks[k].current /\ w.told = told
  BY <1>0, <1>4 DEF TickRecord
<1> HIDE DEF w
<1>6. TickGoes(k, w)
  BY <1>0, <1>1, <1>3, <1>5 DEF TickGoes
<1> QED BY <1>1, <1>2, <1>5, <1>6 DEF told

LEMMA AnnounceKeeps ==
  ASSUME MonitorInv, NEW k \in Tick, AnnounceTransition(k)
  PROVE  MonitorInv'
<1>0. /\ IngestInv /\ MonitorVarsOK /\ OneTick /\ (\A j \in Tick : TickFits(j)) /\ AuditFits
      /\ ticks[k].pc = "announce"
      /\ \A j \in Tick \ {k} : ticks[j].pc = "idle" /\ ticks[j].todo = {}
  BY DEF MonitorInv, OneTick, TickFits, AnnounceTransition
<1>1. PICK r \in ticks[k].rows, w \in TickRecord :
           /\ r.device \in ticks[k].todo /\ r.device \in Device /\ r.online \in BOOLEAN
           /\ TickGoes(k, w) /\ w.pc = "announce"
           /\ w.todo = ticks[k].todo \ {r.device}
           /\ w.rows = ticks[k].rows /\ w.current = ticks[k].current
           /\ w.told = IF r.active /\ ~Follows(k, r.device)
                       THEN ticks[k].told \cup {r.device} ELSE ticks[k].told
           /\ shown' = [shown EXCEPT ![r.device] = r.online]
           /\ audit' = [audit EXCEPT ![r.device] = OnOff(r.device \in ticks[k].current)]
           /\ lost' = lost \ {r.device}
  BY Announcing
<1>2. ticks'[k] = w /\ \A j \in Tick \ {k} : ticks'[j] = ticks[j]
  BY <1>0, <1>1, TickBecomes DEF TickGoes
<1>3. \A d \in Device : Follows(k, d)' <=> Follows(k, d)
  BY <1>1, <1>2 DEF Follows, GatewayOfSensor
<1>4. TickFits(k)'
  <2>1. /\ ticks[k].todo \subseteq {q.device : q \in ticks[k].rows}
        /\ \A p, q \in ticks[k].rows : p.device = q.device => p = q
        /\ \A q \in ticks[k].rows : q.active /\ q.device \notin ticks[k].todo \cup ticks[k].current =>
             q.device \in ticks[k].told \/ Follows(k, q.device)
    BY <1>0 DEF TickFits
  <2>2. ticks[k].rows \subseteq [device : Device, online : BOOLEAN, active : BOOLEAN]
    BY <1>0 DEF MonitorVarsOK, TickRecord
  <2>3. w.todo \subseteq {q.device : q \in w.rows} /\ \A p, q \in w.rows : p.device = q.device => p = q
    BY <1>1, <2>1
  <2>4. ASSUME NEW q \in w.rows, q.active, q.device \notin w.todo \cup w.current
        PROVE  q.device \in w.told \/ Follows(k, q.device)'
    <3>1. q \in ticks[k].rows /\ q.device \in Device /\ ticks[k].told \subseteq w.told
      BY <1>1, <2>2, <2>4
    <3>2. CASE q.device = r.device
      BY <1>1, <1>3, <2>1, <2>4, <3>1, <3>2
    <3>3. CASE q.device # r.device
      <4>1. q.device \notin ticks[k].todo \cup ticks[k].current
        BY <1>1, <2>4, <3>3
      <4> QED BY <1>3, <2>1, <2>4, <3>1, <4>1
    <3> QED BY <3>2, <3>3
  <2> QED BY <1>1, <1>2, <2>3, <2>4 DEF TickFits
<1>5. /\ ticks' \in [Tick -> TickRecord] /\ OneTick' /\ \A j \in Tick : TickFits(j)'
      /\ running' \in BOOLEAN
  BY <1>0, <1>1, <1>4, TickGoesFits
<1>6. /\ UNCHANGED <<status, failCount, readings, handler, deleting, age, provisioned>>
      /\ UNCHANGED <<previous, skips, failures>>
  BY DEF AnnounceTransition
<1>7. IngestInv'
  <2>1. /\ age \in [Device -> 0..Window] /\ shown \in [Device -> BOOLEAN]
        /\ provisioned \subseteq Device
        /\ \A d \in Device : status[d] = "gone" => age[d] = Window
    BY <1>0 DEF IngestInv, IngestTypeOK
  <2>2. shown' \in [Device -> BOOLEAN]
    BY <1>1, <2>1
  <2> QED BY <1>0, <1>6, <2>1, <2>2, IngestPartsKept
<1>8. MonitorVarsOK'
  BY <1>0, <1>1, <1>5, <1>6 DEF MonitorVarsOK, OnOff
<1>9. AuditFits'
  <2> SUFFICES ASSUME failures = 0 PROVE AuditFits'
    BY <1>6 DEF AuditFits
  <2>1. \A d \in Device : audit'[d] = IF d = r.device THEN OnOff(d \in ticks[k].current)
                                      ELSE audit[d]
    BY <1>0, <1>1 DEF MonitorVarsOK
  <2>2. \A j \in Tick : \A d \in ticks'[j].todo :
          j = k /\ d \in ticks[k].todo /\ d # r.device /\ d \in Device
    BY <1>0, <1>1, <1>2 DEF MonitorVarsOK, TickRecord
  <2>3. Exists(r.device) => previous[r.device] = OnOff(r.device \in ticks[k].current)
    BY <1>1 , <1>0 DEF AuditFits
  <2>4. \A d \in Device : Exists(d) /\ previous[d] = "unknown" => audit'[d] = "unknown"
    BY <1>0, <2>1, <2>3 DEF AuditFits, OnOff
  <2>5. \A d \in Device \ {r.device} :
          (\A j \in Tick : d \notin ticks'[j].todo) => \A j \in Tick : d \notin ticks[j].todo
    BY <1>0, <1>1, <1>2
  <2>6. \A d \in Device :
          Exists(d) /\ previous[d] # "unknown" /\ (\A j \in Tick : d \notin ticks'[j].todo)
            => audit'[d] \in {"unknown", previous[d]}
    BY <1>0, <2>1, <2>3, <2>5 DEF AuditFits
  <2>7. \A j \in Tick : \A d \in ticks'[j].todo :
          /\ audit'[d] \in {"unknown", OnOff(d \notin ticks'[j].current)}
          /\ Exists(d) => previous[d] = OnOff(d \in ticks'[j].current)
    BY <1>0, <1>1, <1>2, <2>1, <2>2 DEF AuditFits
  <2> QED BY <1>6, <2>4, <2>6, <2>7 DEF AuditFits, Exists
<1> QED BY <1>5, <1>7, <1>8, <1>9 DEF MonitorInv

\* A tick ends, because it is done or because a query failed.
LEMMA EndTickKeeps ==
  ASSUME MonitorInv, NEW k \in Tick, FinishTick(k) \/ MonitorFails(k)
  PROVE  MonitorInv'
<1>0. /\ IngestInv /\ MonitorVarsOK /\ OneTick /\ (\A j \in Tick : TickFits(j)) /\ AuditFits
      /\ ticks[k].pc # "idle" /\ MaxSkips \in Nat /\ MaxFailures \in Nat
  BY MonitorAssumption DEF MonitorInv, FinishTick, MonitorFails
<1>1. TickGoes(k, NoTick)
  BY NoTickType DEF TickGoes, FinishTick, MonitorFails, EndTick
<1>2. ticks'[k] = NoTick /\ \A j \in Tick \ {k} : ticks'[j] = ticks[j]
  BY <1>0, <1>1, TickBecomes, NoTickType DEF TickGoes
<1>3. TickFits(k)'
  BY <1>2, NoTickType DEF TickFits
<1>4. /\ ticks' \in [Tick -> TickRecord] /\ OneTick' /\ \A j \in Tick : TickFits(j)'
      /\ running' \in BOOLEAN
  BY <1>0, <1>1, <1>3, NoTickType, TickGoesFits
<1>5. IngestInv'
  BY <1>0, IngestUnchanged DEF FinishTick, MonitorFails
<1>6. CASE FinishTick(k)
  <2>1. UNCHANGED <<status, previous, skips, failures, audit, lost>> /\ ticks[k].todo = {}
    BY <1>6 DEF FinishTick, ingestVars
  <2>2. \A j \in Tick : ticks'[j].todo = ticks[j].todo
                        /\ (ticks[j].todo # {} => ticks'[j].current = ticks[j].current)
    BY <1>2, <2>1, NoTickType
  <2>3. AuditFits'
    BY <1>0, <2>1, <2>2 DEF AuditFits, Exists
  <2>4. MonitorVarsOK'
    BY <1>0, <1>4, <2>1 DEF MonitorVarsOK
  <2> QED BY <1>4, <1>5, <2>3, <2>4 DEF MonitorInv
<1>7. CASE MonitorFails(k)
  <2>1. ticks[k].todo \subseteq Device
    BY <1>0 DEF MonitorVarsOK, TickRecord
  <2>2. MonitorVarsOK' /\ failures' # 0
    BY <1>0, <1>4, <1>7, <2>1 DEF MonitorVarsOK, MonitorFails
  <2>3. AuditFits'
    BY <2>2 DEF AuditFits
  <2> QED BY <1>4, <1>5, <2>2, <2>3 DEF MonitorInv
<1> QED BY <1>6, <1>7


LEMMA MonitorInvInit == IngestInit /\ MonitorInit => MonitorInv
<1> SUFFICES ASSUME IngestInit, MonitorInit PROVE MonitorInv
  OBVIOUS
<1>0. MaxSkips \in Nat /\ MaxFailures \in Nat
  BY MonitorAssumption
<1>1. IngestInv
  BY IngestInvInit
<1> DEFINE first == CHOOSE j \in Tick : TRUE
           sel == [NoTick EXCEPT !.pc = "select"]
<1>2. ticks = [k \in Tick |-> IF k = first THEN sel ELSE NoTick]
  BY DEF MonitorInit, FirstTicks
<1>3. sel \in TickRecord /\ sel.pc = "select" /\ sel.todo = {}
  BY NoTickType, SelectType
<1> HIDE DEF first, sel
<1>4. \A k \in Tick : ticks[k] = IF k = first THEN sel ELSE NoTick
  BY <1>2
<1>5. MonitorVarsOK
  BY <1>0, <1>2, <1>3, NoTickType DEF MonitorVarsOK, MonitorInit
<1>6. OneTick
  BY <1>3, <1>4, NoTickType DEF OneTick, MonitorInit
<1>7. \A k \in Tick : TickFits(k)
  BY <1>3, <1>4, NoTickType DEF TickFits
<1>8. \A k \in Tick : ticks[k].todo = {}
  BY <1>3, <1>4, NoTickType
<1>9. AuditFits
  BY <1>8 DEF AuditFits, MonitorInit
<1> QED BY <1>1, <1>5, <1>6, <1>7, <1>9 DEF MonitorInv

LEMMA MonitorStep == MonitorInv /\ [MonitorNext]_allMonitorVars => MonitorInv'
<1>1. MonitorInv /\ MonitorNext => MonitorInv'
  BY TimerFiresKeeps, RestartKeeps, HeartbeatKeeps, SelectSeenKeeps, ReadChangedKeeps,
     AnnounceKeeps, EndTickKeeps, IngestStepKeepsMonitor DEF MonitorNext, TickStepOf
<1>2. MonitorInv /\ UNCHANGED allMonitorVars => MonitorInv'
  <2> SUFFICES ASSUME MonitorInv, UNCHANGED allMonitorVars PROVE MonitorInv'
    OBVIOUS
  <2>1. IngestInv' /\ UNCHANGED monitorVars /\ UNCHANGED status
    BY IngestUnchanged DEF MonitorInv, allMonitorVars, ingestVars
  <2>2. MonitorVarsOK' /\ OneTick' /\ \A k \in Tick : TickFits(k)'
    BY <2>1 DEF MonitorInv, MonitorVarsOK, OneTick, TickFits, Follows, GatewayOfSensor,
       monitorVars
  <2>3. AuditFits'
    BY <2>1 DEF MonitorInv, AuditFits, Exists, monitorVars
  <2> QED BY <2>1, <2>2, <2>3 DEF MonitorInv
<1> QED BY <1>1, <1>2

LEMMA MonitorInvariance == MonitorSpec => []MonitorInv
  BY MonitorInvInit, MonitorStep, PTL DEF MonitorSpec

LEMMA InvTellsOutage == MonitorInv => OutageIsTold
<1> SUFFICES ASSUME MonitorInv, NEW k \in Tick, ticks[k].pc = "announce", ticks[k].todo = {},
                    NEW r \in ticks[k].rows, r.active, r.device \notin ticks[k].current
             PROVE  \/ r.device \in ticks[k].told
                    \/ \E q \in ticks[k].rows :
                         /\ q.device \in GatewayOfSensor(r.device) \ ticks[k].current
                         /\ q.device \in ticks[k].told \/ ~q.active
  BY DEF OutageIsTold
<1>1. \A p \in ticks[k].rows : p.active /\ p.device \notin ticks[k].current =>
         p.device \in ticks[k].told \/ Follows(k, p.device)
  BY DEF MonitorInv, TickFits
<1>2. CASE Follows(k, r.device)
  <2>1. PICK q \in ticks[k].rows :
          q.device \in GatewayOfSensor(r.device) /\ q.device \notin ticks[k].current
    BY <1>2 DEF Follows
  <2>2. ~Follows(k, q.device)
    BY <2>1, IngestAssumption DEF Follows, GatewayOfSensor
  <2> QED BY <1>1, <2>1, <2>2
<1> QED BY <1>1, <1>2

\* When a tick is over, the members have been told of every active device that
\* went offline, or of its gateway in its place.
THEOREM OutagesAreTold == MonitorSpec => []OutageIsTold
  BY MonitorInvariance, InvTellsOutage, PTL

\* What LogAlternates says of a step.
Alternates ==
  \A d \in Device, k \in Tick :
    ticks[k].pc = "announce" /\ d \in ticks[k].todo \ ticks'[k].todo /\ failures' = 0
      => audit'[d] # audit[d]

LEMMA MonitorStepAlternates == MonitorInv /\ MonitorNext => Alternates
<1> SUFFICES ASSUME MonitorInv, MonitorNext, NEW d \in Device, NEW k \in Tick,
                    ticks[k].pc = "announce", d \in ticks[k].todo, d \notin ticks'[k].todo,
                    failures' = 0
             PROVE  audit'[d] # audit[d]
  BY DEF Alternates
<1>0. /\ MonitorVarsOK /\ OneTick /\ AuditFits /\ MaxFailures \in Nat
      /\ \A j \in Tick \ {k} : ticks[j].pc = "idle"
  BY MonitorAssumption DEF MonitorInv, OneTick
<1>1. PICK j \in Tick : AnnounceTransition(j)
  <2>1. CASE TimerFires
    <3>1. ticks'[k] = ticks[k]
      BY <1>0, <2>1 DEF TimerFires, MayStart, OneTick, MonitorVarsOK
    <3> QED BY <3>1
  <2>2. CASE RestartBackend
    BY <1>0, <2>2 DEF RestartBackend, MonitorVarsOK
  <2>3. CASE RunSimulatedHeartbeat \/ (IngestNext /\ UNCHANGED monitorVars)
    BY <2>3 DEF RunSimulatedHeartbeat, monitorVars
  <2>4. ASSUME NEW j \in Tick, TickStepOf(j) \/ MonitorFails(j)
        PROVE  AnnounceTransition(j)
    <3>1. ticks[j].pc # "idle"
      BY <2>4 DEF TickStepOf, SelectSeen, ReadChanged, AnnounceTransition, FinishTick,
         MonitorFails
    <3>2. j = k
      BY <1>0, <3>1
    <3> QED BY <2>4, <3>2 DEF TickStepOf, SelectSeen, ReadChanged, FinishTick, MonitorFails
  <2> QED BY <2>1, <2>2, <2>3, <2>4 DEF MonitorNext
<1>2. j = k
  BY <1>0, <1>1 DEF AnnounceTransition
<1>3. PICK r \in ticks[k].rows, w \in TickRecord :
        /\ TickGoes(k, w) /\ w.todo = ticks[k].todo \ {r.device} /\ r.device \in Device
        /\ audit' = [audit EXCEPT ![r.device] = OnOff(r.device \in ticks[k].current)]
  BY <1>1, <1>2, Announcing
<1>4. ticks'[k] = w
  BY <1>0, <1>3, TickBecomes DEF TickGoes
<1>5. audit'[d] = OnOff(d \in ticks[k].current)
  BY <1>0, <1>3, <1>4 DEF MonitorVarsOK
<1>6. failures = 0
  BY <1>1 DEF AnnounceTransition
<1>7. audit[d] \in {"unknown", OnOff(d \notin ticks[k].current)}
  BY <1>0, <1>6 DEF AuditFits
<1> QED BY <1>5, <1>7 DEF OnOff

\* The log of a device never says twice in a row that it went offline, or came
\* online, as long as no tick has failed.
THEOREM LogEntriesAlternate == MonitorSpec => LogAlternates
<1>1. MonitorInv /\ [MonitorNext]_allMonitorVars => [Alternates]_allMonitorVars
  BY MonitorStepAlternates
<1>2. MonitorSpec => [][Alternates]_allMonitorVars
  BY <1>1, MonitorInvariance, PTL DEF MonitorSpec
<1> QED BY <1>2 DEF LogAlternates, Alternates


-----------------------------------------------------------------------------
(***************************************************************************)
(* MCFleet.  In every scene one component moves and the others stand       *)
(* still, so what holds of each holds of all of them.                      *)
(***************************************************************************)
FleetInv == OtaInv /\ MonitorInv /\ OperatorInv

LEMMA FleetStep == FleetInv /\ [FleetNext]_fleetVars => FleetInv'
<1> SUFFICES ASSUME FleetInv, [FleetNext]_fleetVars PROVE FleetInv'
  OBVIOUS
<1>1. [OtaNext]_otaVars
  BY DEF FleetNext, OtaScene, IngestScene, MonitorScene, GrantsScene, RequestsScene, fleetVars
<1>2. [MonitorNext]_allMonitorVars
  BY DEF FleetNext, OtaScene, IngestScene, MonitorScene, GrantsScene, RequestsScene, fleetVars,
     MonitorNext
<1>3. [OperatorNext]_operatorVars
  BY DEF FleetNext, OtaScene, IngestScene, MonitorScene, GrantsScene, RequestsScene, fleetVars
<1> QED
  BY <1>1, <1>2, <1>3, OtaInvStep, MonitorStep, OperatorInvStep DEF FleetInv

LEMMA FleetInvariance == FleetSpec => []FleetInv
<1>1. FleetInit => FleetInv
  BY OtaInvInit, MonitorInvInit, OperatorInvInit DEF FleetInit, FleetInv
<1> QED BY <1>1, FleetStep, PTL DEF FleetSpec

\* The states of all components of the console's side keep their types.
THEOREM FleetTypesHold == FleetSpec => []FleetTypeOK
<1>1. FleetInv => FleetTypeOK
  BY MonitorTypes DEF FleetInv, FleetTypeOK, OtaInv, OperatorInv, MonitorInv, IngestInv
<1> QED BY <1>1, FleetInvariance, PTL
=============================================================================
