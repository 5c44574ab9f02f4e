--------------------------- MODULE AutomationEngine ---------------------------
(***************************************************************************)
(* The automation engine of one home: sensor rules, which fire when their  *)
(* condition becomes true, and schedule rules, which fire in their minute. *)
(* Every telemetry event has a handler of its own, and one tick at a time  *)
(* looks at the schedules; both read the rules once and work on that copy, *)
(* while other handlers, customers and the admin write the rows.           *)
(*                                                                         *)
(* The clock counts half minutes, the period of the tick.                  *)
(***************************************************************************)
EXTENDS Integers

CONSTANTS
  SensorRule, ScheduleRule,
  Threshold,       \* conditions a sensor rule may wait for
  Event,           \* handlers of telemetry events
  Tick,            \* the schedule tick
  Patch,           \* customers' requests to change or delete a rule
  MaxClock,        \* bound: half minutes
  MaxDisturbances  \* bound: edits, failing statements, restarts

Cooldown == 2       \* 60 seconds
Never == -Cooldown  \* a NULL timestamp is before every bound it is compared to
Minute(t) == t \div 2
MinuteStart(t) == 2 * Minute(t)

Rule == SensorRule \cup ScheduleRule
Job == Event \cup {Tick}
TimeOfDay == 0..Minute(MaxClock)
Conditions == Threshold \cup TimeOfDay
Condition(r) == IF r \in SensorRule THEN Threshold ELSE TimeOfDay
Modes == {"on", "off", "deleted"}
States == {"null", "true", "false"}  \* last_condition_state
Asks == {"rename", "move", "enable", "disable", "delete"}

ASSUME ConstantsAssumption ==
  /\ SensorRule \cap ScheduleRule = {}
  /\ Tick \notin Event
  /\ MaxClock \in Nat /\ MaxDisturbances \in Nat

VARIABLES
  clock,
  active,    \* the home is active
  row,       \* automation_rules
  copy,      \* the rules a job has read and has still to look at
  cur,       \* the rule a job executes
  tick,      \* where the tick is; it runs iff scheduleRunning
  at,        \* when it started
  patch,     \* a customer's request between its SELECT and its UPDATE
  disturbances,
  fired,     \* history: the minutes a schedule rule was started in
  rearmed,   \* history: a reading or an edit lets the rule fire again
  done,      \* history: minutes that a tick has worked off
  oneByOne,  \* history: no two handlers of events ran at a time
  lastEvent  \* history: the last event, as long as it is alone and undisturbed

Row == [mode : Modes, cond : Conditions, state : States, last : Never..MaxClock]

jobVars == <<copy, cur, tick, at>>
ruleHistory == <<fired, rearmed>>
vars == <<clock, active, row, jobVars, patch, disturbances, ruleHistory, done,
          oneByOne, lastEvent>>

NoRules == [r \in {} |-> {}]
NoPatch == [ask |-> "none"]
Idle(j) == DOMAIN copy[j] = {} /\ cur[j] = {}

Init ==
  /\ clock = 0
  /\ active = TRUE
  /\ row \in [Rule -> [mode : Modes, cond : Conditions, state : {"null"},
                       last : {Never}]]
  /\ \A r \in Rule : row[r].cond \in Condition(r)
  /\ copy = [j \in Job |-> NoRules]
  /\ cur = [j \in Job |-> {}]
  /\ tick = "idle" /\ at = 0
  /\ patch = [p \in Patch |-> NoPatch]
  /\ disturbances = 0
  /\ fired = [r \in ScheduleRule |-> {}]
  /\ rearmed = [r \in SensorRule |-> TRUE]
  /\ done = {}
  /\ oneByOne = TRUE
  /\ lastEvent = {}

Disturb ==
  /\ disturbances < MaxDisturbances
  /\ disturbances' = disturbances + 1
  /\ lastEvent' = {}

\* The rules a SELECT finds: enabled ones of an active home.
Enabled(rules) == {r \in rules : active /\ row[r].mode = "on"}

\* The loop of job j is over rule r.
PassOver(j, r) ==
  copy' = [copy EXCEPT ![j] = [q \in DOMAIN @ \ {r} |-> @[q]]]

-----------------------------------------------------------------------------
(***************************************************************************)
(* Sensor rules                                                            *)
(***************************************************************************)

\* The bus delivers a reading of the rules' room, which meets the thresholds in
\* m; the handler reads the rules.
HandleTelemetry(e) ==
  /\ Idle(e)
  /\ \E m \in SUBSET Threshold :
       /\ copy' = [copy EXCEPT ![e] =
            [r \in Enabled(SensorRule) |->
               [meets |-> row[r].cond \in m, state |-> row[r].state]]]
       /\ oneByOne' = (oneByOne /\ \A f \in Event : Idle(f))
       /\ lastEvent' = IF oneByOne' /\ disturbances = 0
                         THEN {[meets |-> m, at |-> clock]} ELSE {}
  /\ UNCHANGED <<clock, active, row, cur, tick, at, patch, disturbances,
                 ruleHistory, done>>

\* Faulty variant: the edge is not armed again.
MutConditionFails(e, r) ==
  /\ cur[e] = {} /\ r \in DOMAIN copy[e]
  /\ ~ copy[e][r].meets
  /\ rearmed' = [rearmed EXCEPT ![r] = TRUE]
  /\ PassOver(e, r)
  /\ UNCHANGED <<clock, active, row, cur, tick, at, patch, disturbances,
                 fired, done, oneByOne, lastEvent>>

\* The reading does not meet the condition: arm the edge, unless the copy says
\* that it is armed already.
ConditionFails(e, r) ==
  /\ cur[e] = {} /\ r \in DOMAIN copy[e]
  /\ ~ copy[e][r].meets
  /\ row' = IF copy[e][r].state # "false" /\ row[r].mode # "deleted"
              THEN [row EXCEPT ![r] = [@ EXCEPT !.state = "false"]] ELSE row
  /\ rearmed' = [rearmed EXCEPT ![r] = TRUE]
  /\ PassOver(e, r)
  /\ UNCHANGED <<clock, active, cur, tick, at, patch, disturbances, fired,
                 done, oneByOne, lastEvent>>

\* Faulty variant: the state is taken from the copy.
MutMayClaim(e, r) ==
  /\ row[r].mode = "on" /\ copy[e][r].state # "true"
  /\ row[r].last <= clock - Cooldown

\* The WHERE of the UPDATE that claims the right to run.
MayClaim(e, r) ==
  /\ row[r].mode = "on" /\ row[r].state # "true"
  /\ row[r].last <= clock - Cooldown

ClaimEdge(e, r) ==
  /\ cur[e] = {} /\ r \in DOMAIN copy[e]
  /\ copy[e][r].meets
  /\ \/ /\ MayClaim(e, r)
        /\ row' = [row EXCEPT ![r] =
                     [@ EXCEPT !.state = "true", !.last = clock]]
        /\ rearmed' = [rearmed EXCEPT ![r] = FALSE]
        /\ cur' = [cur EXCEPT ![e] = {r}]
     \/ /\ ~ MayClaim(e, r)
        /\ UNCHANGED <<row, rearmed, cur>>
  /\ PassOver(e, r)
  /\ UNCHANGED <<clock, active, tick, at, patch, disturbances, fired, done,
                 oneByOne, lastEvent>>

-----------------------------------------------------------------------------
(***************************************************************************)
(* Schedule rules                                                          *)
(***************************************************************************)

\* Half a minute passes; the timer starts a tick unless one is running.
Advance ==
  /\ clock < MaxClock
  /\ clock' = clock + 1
  /\ \/ /\ tick = "idle"
        /\ tick' = "loading" /\ at' = clock + 1
     \/ /\ tick # "idle"
        /\ UNCHANGED <<tick, at>>
  /\ UNCHANGED <<active, row, copy, cur, patch, disturbances, ruleHistory,
                 done, oneByOne, lastEvent>>

LoadSchedules ==
  /\ tick = "loading"
  /\ tick' = "loop"
  /\ copy' = [copy EXCEPT ![Tick] =
       [r \in Enabled(ScheduleRule) |-> [cond |-> row[r].cond]]]
  /\ UNCHANGED <<clock, active, row, cur, at, patch, disturbances,
                 ruleHistory, done, oneByOne, lastEvent>>

\* Faulty variant: any tick after the last run may run the rule.
MutRanBefore(r) == row[r].last < at

\* last_triggered_at lies before the minute of the tick.
RanBefore(r) == row[r].last < MinuteStart(at)

\* Faulty variant: compares with the clock when the rule's turn comes.
MutIsDue(r) == copy[Tick][r].cond = Minute(clock)

IsDue(r) == copy[Tick][r].cond = Minute(at)

ClaimMinute(r) ==
  /\ cur[Tick] = {} /\ r \in DOMAIN copy[Tick]
  /\ \/ /\ IsDue(r) /\ row[r].mode = "on" /\ RanBefore(r)
        /\ row' = [row EXCEPT ![r] = [@ EXCEPT !.last = clock]]
        /\ fired' = [fired EXCEPT ![r] = @ \cup {Minute(at)}]
        /\ cur' = [cur EXCEPT ![Tick] = {r}]
     \/ /\ ~ (IsDue(r) /\ row[r].mode = "on" /\ RanBefore(r))
        /\ UNCHANGED <<row, fired, cur>>
  /\ PassOver(Tick, r)
  /\ UNCHANGED <<clock, active, tick, at, patch, disturbances, rearmed, done,
                 oneByOne, lastEvent>>

\* Faulty variant: the last rule is started and not awaited.
MutEndTick ==
  /\ tick = "loop" /\ DOMAIN copy[Tick] = {}
  /\ tick' = "idle"
  /\ done' = done \cup {Minute(at)}
  /\ UNCHANGED <<clock, active, row, copy, cur, at, patch, disturbances,
                 ruleHistory, oneByOne, lastEvent>>

\* All rules are looked at; the tick lowers scheduleRunning.
EndTick ==
  /\ tick = "loop" /\ Idle(Tick)
  /\ tick' = "idle"
  /\ done' = done \cup {Minute(at)}
  /\ UNCHANGED <<clock, active, row, copy, cur, at, patch, disturbances,
                 ruleHistory, oneByOne, lastEvent>>

\* executeRule: the command is sent or not needed, succeeds or fails; an error
\* is caught, and the loop goes on.
ExecuteRule(j) ==
  /\ cur[j] # {}
  /\ cur' = [cur EXCEPT ![j] = {}]
  /\ UNCHANGED <<clock, active, row, copy, tick, at, patch, disturbances,
                 ruleHistory, done, oneByOne, lastEvent>>

-----------------------------------------------------------------------------
(***************************************************************************)
(* Customers and the admin change rules                                    *)
(***************************************************************************)

\* patchAutomation and deleteAutomation read the row; the home must be active.
\* A request to move the rule names its new condition c.
BeginPatch(p, r, ask, c) ==
  /\ patch[p] = NoPatch
  /\ active /\ row[r].mode # "deleted"
  /\ Disturb
  /\ patch' = [patch EXCEPT ![p] =
       [ask |-> ask, rule |-> r, mode |-> row[r].mode,
        cond |-> IF ask = "move" THEN c ELSE row[r].cond]]
  /\ UNCHANGED <<clock, active, row, jobVars, ruleHistory, done, oneByOne>>

\* The row's is_enabled, or its end, after request p.
ModeAfter(p) ==
  CASE patch[p].ask = "enable"  -> "on"
    [] patch[p].ask = "disable" -> "off"
    [] patch[p].ask = "delete"  -> "deleted"
    [] OTHER -> patch[p].mode

\* Faulty variant: the time of the last run is forgotten with the state.
MutWritten(p, r) ==
  [mode |-> ModeAfter(p),
   cond |-> patch[p].cond,
   state |-> "null",
   last |-> Never]

\* What updateRule writes: what was asked for, the rest as it was read.
Written(p, r) ==
  [mode |-> ModeAfter(p),
   cond |-> patch[p].cond,
   state |-> "null",
   last |-> row[r].last]

\* An edit makes a NULL of the state of a sensor rule, which may fire again.
Rearm(r) ==
  rearmed' = [q \in SensorRule |-> rearmed[q] \/ q = r]

FinishPatch(p) ==
  /\ patch[p] # NoPatch
  /\ LET r == patch[p].rule IN
       \/ /\ row[r].mode # "deleted"
          /\ row' = [row EXCEPT ![r] = Written(p, r)]
          /\ Rearm(r)
       \/ /\ row[r].mode = "deleted"
          /\ UNCHANGED <<row, rearmed>>
  /\ patch' = [patch EXCEPT ![p] = NoPatch]
  /\ UNCHANGED <<clock, active, jobVars, disturbances, fired, done, oneByOne,
                 lastEvent>>

\* setRuleEnabled, by an admin.
SetRuleEnabled(r) ==
  /\ row[r].mode # "deleted"
  /\ Disturb
  /\ \E m \in {"on", "off"} :
       row' = [row EXCEPT ![r] = [@ EXCEPT !.mode = m, !.state = "null"]]
  /\ Rearm(r)
  /\ UNCHANGED <<clock, active, jobVars, patch, fired, done, oneByOne>>

\* The home is suspended or taken into service again.
SetHome ==
  /\ Disturb
  /\ active' = ~ active
  /\ UNCHANGED <<clock, row, jobVars, patch, ruleHistory, done, oneByOne>>

-----------------------------------------------------------------------------
(***************************************************************************)
(* Faults                                                                  *)
(***************************************************************************)

\* The UPDATE of a rule fails: its turn is over.
RuleError(j) ==
  /\ Disturb
  /\ cur[j] = {}
  /\ \E r \in DOMAIN copy[j] : PassOver(j, r)
  /\ UNCHANGED <<clock, active, row, cur, tick, at, patch, ruleHistory, done,
                 oneByOne>>

\* The SELECT of the tick fails: it ends. (That of an event changes nothing.)
TickError ==
  /\ Disturb
  /\ tick = "loading"
  /\ tick' = "idle"
  /\ UNCHANGED <<clock, active, row, copy, cur, at, patch, ruleHistory, done,
                 oneByOne>>

\* The backend stops and starts again: handlers and requests are gone.
Restart ==
  /\ Disturb
  /\ copy' = [j \in Job |-> NoRules]
  /\ cur' = [j \in Job |-> {}]
  /\ tick' = "idle"
  /\ patch' = [p \in Patch |-> NoPatch]
  /\ UNCHANGED <<clock, active, row, at, ruleHistory, done, oneByOne>>

EventStep(e) ==
  \/ HandleTelemetry(e)
  \/ \E r \in SensorRule : ConditionFails(e, r) \/ ClaimEdge(e, r)

TickStep ==
  \/ Advance
  \/ LoadSchedules
  \/ \E r \in ScheduleRule : ClaimMinute(r)
  \/ EndTick

PeopleStep ==
  \/ \E p \in Patch : FinishPatch(p)
  \/ \E p \in Patch, r \in Rule : \E ask \in Asks, c \in Condition(r) :
       BeginPatch(p, r, ask, c)
  \/ \E r \in Rule : SetRuleEnabled(r)
  \/ SetHome

Next ==
  \/ \E e \in Event : EventStep(e)
  \/ TickStep
  \/ \E j \in Job : ExecuteRule(j) \/ RuleError(j)
  \/ PeopleStep
  \/ TickError
  \/ Restart

Spec == Init /\ [][Next]_vars

-----------------------------------------------------------------------------
(***************************************************************************)
(* Properties                                                              *)
(***************************************************************************)

RowsOK ==
  /\ row \in [Rule -> Row]
  /\ \A r \in Rule : row[r].cond \in Condition(r) /\ row[r].last <= clock

JobsOK ==
  /\ DOMAIN copy = Job /\ cur \in [Job -> SUBSET Rule]
  /\ \A e \in Event : \A r \in DOMAIN copy[e] :
       r \in SensorRule /\ copy[e][r] \in [meets : BOOLEAN, state : States]
  /\ \A r \in DOMAIN copy[Tick] :
       r \in ScheduleRule /\ copy[Tick][r].cond \in TimeOfDay
  /\ \A j \in Job : cur[j] \cap DOMAIN copy[j] = {}
  /\ tick \in {"idle", "loading", "loop"}
  /\ tick # "loop" => Idle(Tick)

RequestsOK ==
  /\ DOMAIN patch = Patch
  /\ \A p \in Patch : patch[p] # NoPatch =>
       /\ patch[p] \in
            [ask : Asks, rule : Rule, mode : Modes, cond : Conditions]
       /\ patch[p].cond \in Condition(patch[p].rule)

HistoryOK ==
  /\ fired \in [ScheduleRule -> SUBSET TimeOfDay]
  /\ rearmed \in [SensorRule -> BOOLEAN]
  /\ done \subseteq TimeOfDay
  /\ oneByOne \in BOOLEAN
  /\ lastEvent \subseteq [meets : SUBSET Threshold, at : 0..clock]

\* Rows, copies and requests have their types; a tick that is not in its loop
\* works on no rule.
TypeOK ==
  /\ clock \in 0..MaxClock /\ at \in 0..clock
  /\ active \in BOOLEAN
  /\ disturbances \in 0..MaxDisturbances
  /\ RowsOK /\ JobsOK /\ RequestsOK /\ HistoryOK

\* A schedule rule runs at most once for a minute, whatever ticks, edits and
\* restarts fall into that minute (runScheduleTick).
OncePerMinute ==
  [][\A r \in ScheduleRule :
       cur'[Tick] = {r} /\ cur[Tick] = {} => Minute(at) \notin fired[r]]_vars

\* A sensor rule runs again only 60 seconds later, and only after a reading was
\* found not to meet its condition, or an edit (evaluateSensorRule).
FiresOnEdges ==
  [][\A r \in SensorRule, e \in Event :
       cur'[e] = {r} /\ cur[e] = {} =>
         rearmed[r] /\ row[r].last + Cooldown <= clock]_vars

\* While events come one at a time and nobody edits, the state of a sensor rule
\* follows the last reading: false when it did not meet the condition, true when
\* it did, but for the cooldown.
EdgeTracked ==
  \A v \in lastEvent : (\A e \in Event : Idle(e)) =>
    \A r \in Enabled(SensorRule) :
      IF row[r].cond \in v.meets
        THEN row[r].state = "true" \/ v.at < row[r].last + Cooldown
        ELSE row[r].state = "false"

\* Left alone, a rule has run in its minute once a tick of that minute is over.
DueFires ==
  disturbances = 0 =>
    \A r \in Enabled(ScheduleRule) :
      row[r].cond \in done => row[r].cond \in fired[r]

\* No rule runs when it may not: not twice in a minute, and not before it was
\* armed again and cooled down (automationEngine.ts:177-251).
RunsOnlyWhenDue == OncePerMinute /\ FiresOnEdges

\* Left alone, every rule keeps up: a schedule rule has run in its minute, a
\* sensor rule knows its last reading (automationEngine.ts:155-260).
RulesKeepUp == EdgeTracked /\ DueFires
=============================================================================
