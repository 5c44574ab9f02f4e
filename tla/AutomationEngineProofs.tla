------------------------ MODULE AutomationEngineProofs ------------------------
(***************************************************************************)
(* The theorems of AutomationEngine, of HabitPattern and HabitSuggestion,  *)
(* and of their scenes together.  IInv is the inductive invariant of the   *)
(* engine: beside the types, what a row, a copy and the histories know of  *)
(* each other.                                                             *)
(***************************************************************************)
EXTENDS MCAutomationEngine, TLAPS

\* The last run of a rule is not before a minute that it was started in.
FiredBefore ==
  \A r \in ScheduleRule : \A m \in fired[r] : m <= Minute(row[r].last)

\* Unless the rule may fire, the state says that its condition was met.
ArmedUnlessTrue ==
  \A r \in SensorRule : rearmed[r] \/ row[r].state = "true"

\* Before the first disturbance nobody asks for a change.
Untouched ==
  disturbances = 0 => active /\ \A p \in Patch : patch[p] = NoPatch

\* What a rule that is left alone and the tick know of each other.
Handled(r) ==
  /\ row[r].last # Never => row[r].cond \in fired[r]
  /\ r \in DOMAIN copy[Tick] => copy[Tick][r].cond = row[r].cond
  /\ tick = "loop" /\ row[r].mode = "on" /\ row[r].cond = Minute(at) =>
       r \in DOMAIN copy[Tick] \/ row[r].cond \in fired[r]
  /\ row[r].mode = "on" /\ row[r].cond \in done => row[r].cond \in fired[r]

AllHandled == disturbances = 0 => \A r \in ScheduleRule : Handled(r)

\* While the last event is known, only its handler is at work, and what it has
\* read is what the rows say.
Alone ==
  lastEvent # {} =>
    /\ disturbances = 0
    /\ \A e, f \in Event : Idle(e) \/ Idle(f) \/ e = f

Fresh ==
  \A v \in lastEvent, e \in Event : \A r \in DOMAIN copy[e] :
    /\ copy[e][r].meets = (row[r].cond \in v.meets)
    /\ copy[e][r].state = row[r].state

\* The state of rule r follows event v.
Settled(r, v) ==
  /\ row[r].cond \in v.meets =>
       row[r].state = "true" \/ v.at < row[r].last + Cooldown
  /\ row[r].cond \notin v.meets => row[r].state = "false"

Tracked ==
  \A v \in lastEvent : \A r \in Enabled(SensorRule) :
    Settled(r, v) \/ \E e \in Event : r \in DOMAIN copy[e]

IInv ==
  /\ TypeOK
  /\ FiredBefore /\ ArmedUnlessTrue
  /\ Untouched /\ AllHandled
  /\ Alone /\ Fresh /\ Tracked

-----------------------------------------------------------------------------
(***************************************************************************)
(* Type correctness.                                                       *)
(***************************************************************************)
LEMMA TypeInit == Init => TypeOK
  BY ConstantsAssumption
  DEF Init, TypeOK, RowsOK, JobsOK, RequestsOK, HistoryOK, Row, Rule, Job,
    Modes, States, Asks, Condition, Conditions,
      TimeOfDay, Minute, Never, Cooldown, Idle, NoRules, NoPatch

LEMMA RowWritten ==
  ASSUME RowsOK, NEW r \in Rule, NEW x \in Row, x.cond \in Condition(r),
         x.last <= clock, clock' = clock, row' = [row EXCEPT ![r] = x]
  PROVE  RowsOK'
<1>1. row' \in [Rule -> Row]
  BY DEF RowsOK
<1>2. ASSUME NEW q \in Rule
      PROVE  row'[q].cond \in Condition(q) /\ row'[q].last <= clock'
  BY <1>2 DEF RowsOK
<1> QED
  BY <1>1, <1>2 DEF RowsOK, Condition

LEMMA RowsKept ==
  ASSUME RowsOK, clock \in Int, clock' \in {clock, clock + 1}, row' = row
  PROVE  RowsOK'
<1>1. \A r \in Rule : row[r].last \in Int
  BY ConstantsAssumption DEF RowsOK, Row, Never, Cooldown
<1> QED
  BY <1>1 DEF RowsOK, Condition

LEMMA RowsStep == TypeOK /\ [Next]_vars => RowsOK'
<1> SUFFICES ASSUME RowsOK, RequestsOK, clock \in 0..MaxClock, [Next]_vars
             PROVE  RowsOK'
  BY DEF TypeOK
<1>0. clock \in Int /\ clock \in Never..MaxClock
  BY ConstantsAssumption DEF Never, Cooldown
<1> USE <1>0
<1>1. ASSUME NEW e \in Event, HandleTelemetry(e)
      PROVE  RowsOK'
  BY <1>1, RowsKept DEF HandleTelemetry, jobVars
<1>2. ASSUME NEW e \in Event, NEW r \in SensorRule, ConditionFails(e, r)
      PROVE  RowsOK'
  <2> DEFINE x == [row[r] EXCEPT !.state = "false"]
  <2>1. /\ r \in Rule /\ row[r] \in Row /\ row[r].cond \in Condition(r)
        /\ row[r].last <= clock
    BY <1>2 DEF RowsOK, Rule
  <2>2. x \in Row /\ x.cond \in Condition(r) /\ x.last <= clock
    BY <1>0, <2>1 DEF Row, States
  <2>3. CASE row' = [row EXCEPT ![r] = x]
    <3>1. clock' = clock
      BY <1>2 DEF ConditionFails
    <3> HIDE DEF x
    <3> QED
      BY <2>1, <2>2, <2>3, <3>1, RowWritten
  <2>4. CASE row' = row
    BY <1>2, <2>4, RowsKept DEF ConditionFails
  <2> QED
    BY <1>2, <2>3, <2>4 DEF ConditionFails
<1>3. ASSUME NEW e \in Event, NEW r \in SensorRule, ClaimEdge(e, r)
      PROVE  RowsOK'
  <2> DEFINE x == [row[r] EXCEPT !.state = "true", !.last = clock]
  <2>1. /\ r \in Rule /\ row[r] \in Row /\ row[r].cond \in Condition(r)
        /\ row[r].last <= clock
    BY <1>3 DEF RowsOK, Rule
  <2>2. x \in Row /\ x.cond \in Condition(r) /\ x.last <= clock
    <3>1. ASSUME NEW y \in Row
          PROVE  LET z == [y EXCEPT !.state = "true", !.last = clock]
                 IN  z \in Row /\ z.cond = y.cond /\ z.last = clock
      BY <1>0 DEF Row, States
    <3>2. x \in Row /\ x.cond = row[r].cond /\ x.last = clock
      BY <2>1, <3>1
    <3> HIDE DEF x
    <3> QED
      BY <1>0, <2>1, <3>2
  <2>3. CASE row' = [row EXCEPT ![r] = x]
    <3>1. clock' = clock
      BY <1>3 DEF ClaimEdge
    <3> HIDE DEF x
    <3> QED
      BY <2>1, <2>2, <2>3, <3>1, RowWritten
  <2>4. CASE row' = row
    BY <1>3, <2>4, RowsKept DEF ClaimEdge
  <2> QED
    BY <1>3, <2>3, <2>4 DEF ClaimEdge
<1>4. CASE Advance
  BY <1>4, RowsKept DEF Advance, jobVars
<1>5. CASE LoadSchedules
  BY <1>5, RowsKept DEF LoadSchedules, jobVars
<1>6. ASSUME NEW r \in ScheduleRule, ClaimMinute(r)
      PROVE  RowsOK'
  <2> DEFINE x == [row[r] EXCEPT !.last = clock]
  <2>1. /\ r \in Rule /\ row[r] \in Row /\ row[r].cond \in Condition(r)
        /\ row[r].last <= clock
    BY <1>6 DEF RowsOK, Rule
  <2>2. x \in Row /\ x.cond \in Condition(r) /\ x.last <= clock
    BY <1>0, <2>1 DEF Row, States
  <2>3. CASE row' = [row EXCEPT ![r] = x]
    <3>1. clock' = clock
      BY <1>6 DEF ClaimMinute
    <3> HIDE DEF x
    <3> QED
      BY <2>1, <2>2, <2>3, <3>1, RowWritten
  <2>4. CASE row' = row
    BY <1>6, <2>4, RowsKept DEF ClaimMinute
  <2> QED
    BY <1>6, <2>3, <2>4 DEF ClaimMinute
<1>7. CASE EndTick
  BY <1>7, RowsKept DEF EndTick, jobVars
<1>8. ASSUME NEW j \in Job, ExecuteRule(j)
      PROVE  RowsOK'
  BY <1>8, RowsKept DEF ExecuteRule, jobVars
<1>9. ASSUME NEW j \in Job, RuleError(j)
      PROVE  RowsOK'
  BY <1>9, RowsKept DEF RuleError, jobVars
<1>10. ASSUME NEW p \in Patch, FinishPatch(p)
      PROVE  RowsOK'
  <2> DEFINE r == patch[p].rule
  <2> DEFINE x == Written(p, r)
  <2>1. /\ r \in Rule /\ row[r] \in Row /\ row[r].cond \in Condition(r)
        /\ row[r].last <= clock
    BY <1>10 DEF RowsOK, Rule, FinishPatch, RequestsOK
  <2>2. x \in Row /\ x.cond \in Condition(r) /\ x.last <= clock
    <3>1. /\ patch[p].cond \in Conditions /\ patch[p].cond \in Condition(r)
          /\ patch[p].mode \in Modes
      BY <1>10 DEF FinishPatch, RequestsOK
    <3>2. ModeAfter(p) \in Modes
      BY <3>1 DEF ModeAfter, Modes
    <3>3. row[r].last \in Never..MaxClock
      BY <2>1 DEF Row
    <3> QED
      BY <2>1, <3>1, <3>2, <3>3 DEF Written, Row, States
  <2>3. CASE row' = [row EXCEPT ![r] = x]
    <3>1. clock' = clock
      BY <1>10 DEF FinishPatch
    <3> HIDE DEF x
    <3> QED
      BY <2>1, <2>2, <2>3, <3>1, RowWritten
  <2>4. CASE row' = row
    BY <1>10, <2>4, RowsKept DEF FinishPatch
  <2> QED
    BY <1>10, <2>3, <2>4 DEF FinishPatch
<1>11. ASSUME NEW p \in Patch, NEW r \in Rule, NEW ask \in Asks,
             NEW c \in Condition(r), BeginPatch(p, r, ask, c)
      PROVE  RowsOK'
  BY <1>11, RowsKept DEF BeginPatch, jobVars
<1>12. ASSUME NEW r \in Rule, SetRuleEnabled(r)
      PROVE  RowsOK'
  <2>0. PICK m \in {"on", "off"} :
          row' = [row EXCEPT ![r] = [@ EXCEPT !.mode = m, !.state = "null"]]
    BY <1>12 DEF SetRuleEnabled
  <2> DEFINE x == [row[r] EXCEPT !.mode = m, !.state = "null"]
  <2>1. /\ r \in Rule /\ row[r] \in Row /\ row[r].cond \in Condition(r)
        /\ row[r].last <= clock
    BY <1>12 DEF RowsOK, Rule
  <2>2. x \in Row /\ x.cond \in Condition(r) /\ x.last <= clock
    BY <1>0, <2>1 DEF Row, States, Modes
  <2>3. CASE row' = [row EXCEPT ![r] = x]
    <3>1. clock' = clock
      BY <1>12 DEF SetRuleEnabled
    <3> HIDE DEF x
    <3> QED
      BY <2>1, <2>2, <2>3, <3>1, RowWritten
  <2> QED
    BY <2>0, <2>3
<1>13. CASE SetHome
  BY <1>13, RowsKept DEF SetHome, jobVars
<1>14. CASE TickError
  BY <1>14, RowsKept DEF TickError, jobVars
<1>15. CASE Restart
  BY <1>15, RowsKept DEF Restart, jobVars
<1>16. CASE UNCHANGED vars
  BY <1>16, RowsKept DEF vars, jobVars
<1> QED
  BY <1>1, <1>2, <1>3, <1>4, <1>5, <1>6, <1>7, <1>8, <1>9, <1>10, <1>11,
    <1>12, <1>13, <1>14, <1>15, <1>16
  DEF Next, EventStep, TickStep, PeopleStep

LEMMA TypeStep == TypeOK /\ [Next]_vars => TypeOK'
<1> SUFFICES ASSUME TypeOK, [Next]_vars PROVE TypeOK'
  OBVIOUS
<1>0. RowsOK'
  BY RowsStep
<1> USE ConstantsAssumption
        DEF TypeOK, RowsOK, JobsOK, RequestsOK, HistoryOK, Row, Rule, Job,
          Modes, States, Asks, Condition, Conditions,
            TimeOfDay, Minute, Never, Cooldown, Idle, NoRules, NoPatch
<1>1. ASSUME NEW e \in Event, HandleTelemetry(e)
      PROVE  TypeOK'
  BY <1>1 DEF HandleTelemetry, jobVars, ruleHistory, Enabled
<1>2. ASSUME NEW e \in Event, NEW r \in SensorRule, ConditionFails(e, r)
      PROVE  TypeOK'
  <2>2. JobsOK'
    BY <1>2 DEF ConditionFails, PassOver, jobVars, ruleHistory
  <2>3. RequestsOK'
    BY <1>2 DEF ConditionFails, PassOver, jobVars, ruleHistory
  <2>4. HistoryOK'
    BY <1>2 DEF ConditionFails, jobVars, ruleHistory
  <2> HIDE DEF RowsOK, JobsOK, RequestsOK, HistoryOK
  <2> QED
    BY <1>0, <1>2, <2>2, <2>3, <2>4 DEF ConditionFails, PassOver, jobVars
<1>3. ASSUME NEW e \in Event, NEW r \in SensorRule, ClaimEdge(e, r)
      PROVE  TypeOK'
  <2>2. JobsOK'
    BY <1>3 DEF ClaimEdge, PassOver, jobVars, ruleHistory
  <2>3. RequestsOK'
    BY <1>3 DEF ClaimEdge, PassOver, jobVars, ruleHistory
  <2>4. HistoryOK'
    BY <1>3 DEF ClaimEdge, jobVars, ruleHistory
  <2> HIDE DEF RowsOK, JobsOK, RequestsOK, HistoryOK
  <2> QED
    BY <1>0, <1>3, <2>2, <2>3, <2>4 DEF ClaimEdge, PassOver, jobVars
<1>4. CASE Advance
  BY <1>4 DEF Advance, jobVars, ruleHistory
<1>5. CASE LoadSchedules
  BY <1>5 DEF LoadSchedules, jobVars, ruleHistory, Enabled
<1>6. ASSUME NEW r \in ScheduleRule, ClaimMinute(r)
      PROVE  TypeOK'
  <2>2. JobsOK'
    BY <1>6 DEF ClaimMinute, PassOver, jobVars, ruleHistory
  <2>3. RequestsOK'
    BY <1>6 DEF ClaimMinute, PassOver, jobVars, ruleHistory
  <2>4. HistoryOK'
    <3>1. Minute(at) \in TimeOfDay
      OBVIOUS
    <3> HIDE DEF Minute, TimeOfDay
    <3> QED
      BY <1>6, <3>1 DEF ClaimMinute
  <2> HIDE DEF RowsOK, JobsOK, RequestsOK, HistoryOK
  <2> QED
    BY <1>0, <1>6, <2>2, <2>3, <2>4 DEF ClaimMinute, PassOver, jobVars
<1>7. CASE EndTick
  BY <1>7 DEF EndTick, jobVars, ruleHistory
<1>8. ASSUME NEW j \in Job, ExecuteRule(j)
      PROVE  TypeOK'
  BY <1>8 DEF ExecuteRule, jobVars, ruleHistory
<1>9. ASSUME NEW j \in Job, RuleError(j)
      PROVE  TypeOK'
  BY <1>9 DEF RuleError, PassOver, Disturb, jobVars, ruleHistory
<1>10. ASSUME NEW p \in Patch, FinishPatch(p)
      PROVE  TypeOK'
  <2>2. JobsOK'
    BY <1>10 DEF FinishPatch, jobVars, ruleHistory
  <2>3. RequestsOK'
    BY <1>10 DEF FinishPatch, jobVars, ruleHistory
  <2>4. HistoryOK'
    <3>1. rearmed' \in [SensorRule -> BOOLEAN]
      <4>1. CASE Rearm(patch[p].rule)
        BY <4>1 DEF Rearm
      <4>2. CASE rearmed' = rearmed
        BY <4>2
      <4> QED
        BY <1>10, <4>1, <4>2 DEF FinishPatch
    <3> QED
      BY <1>10, <3>1 DEF FinishPatch, Disturb
  <2> HIDE DEF RowsOK, JobsOK, RequestsOK, HistoryOK
  <2> QED
    BY <1>0, <1>10, <2>2, <2>3, <2>4 DEF FinishPatch, jobVars
<1>11. ASSUME NEW p \in Patch, NEW r \in Rule, NEW ask \in Asks,
             NEW c \in Condition(r), BeginPatch(p, r, ask, c)
      PROVE  TypeOK'
  BY <1>11 DEF BeginPatch, Disturb, jobVars, ruleHistory
<1>12. ASSUME NEW r \in Rule, SetRuleEnabled(r)
      PROVE  TypeOK'
  <2>2. JobsOK'
    BY <1>12 DEF SetRuleEnabled, Disturb, jobVars, ruleHistory
  <2>3. RequestsOK'
    BY <1>12 DEF SetRuleEnabled, Disturb, jobVars, ruleHistory
  <2>4. HistoryOK'
    <3>1. rearmed' \in [SensorRule -> BOOLEAN]
      BY <1>12 DEF SetRuleEnabled, Rearm
    <3> QED
      BY <1>12, <3>1 DEF SetRuleEnabled, Disturb
  <2> HIDE DEF RowsOK, JobsOK, RequestsOK, HistoryOK
  <2> QED
    BY <1>0, <1>12, <2>2, <2>3, <2>4 DEF SetRuleEnabled, Disturb, jobVars
<1>13. CASE SetHome
  BY <1>13 DEF SetHome, Disturb, jobVars, ruleHistory
<1>14. CASE TickError
  BY <1>14 DEF TickError, Disturb, jobVars, ruleHistory
<1>15. CASE Restart
  BY <1>15 DEF Restart, Disturb, jobVars, ruleHistory
<1>16. CASE UNCHANGED vars
  BY <1>16 DEF vars, jobVars, ruleHistory
<1> HIDE DEF TypeOK, RowsOK, JobsOK, RequestsOK, HistoryOK, Row, Rule, Job,
             Modes, States, Asks, Condition, Conditions, TimeOfDay, Idle
<1> QED
  BY <1>1, <1>2, <1>3, <1>4, <1>5, <1>6, <1>7, <1>8, <1>9, <1>10, <1>11,
    <1>12, <1>13, <1>14, <1>15, <1>16
  DEF Next, EventStep, TickStep, PeopleStep

\* Rows, copies, requests and histories have their types, for any number of
\* rules, events and requests.
THEOREM TypeCorrect == Spec => []TypeOK
  BY TypeInit, TypeStep, PTL DEF Spec

-----------------------------------------------------------------------------
(***************************************************************************)
(* A rule runs once in its minute, and on edges only.                      *)
(***************************************************************************)
LEMMA FiredStep == TypeOK /\ FiredBefore /\ [Next]_vars => FiredBefore'
<1> SUFFICES ASSUME TypeOK, FiredBefore, [Next]_vars,
                    NEW q \in ScheduleRule, NEW m \in fired'[q]
             PROVE  m <= Minute(row'[q].last)
  BY DEF FiredBefore
<1> USE ConstantsAssumption
        DEF TypeOK, RowsOK, JobsOK, RequestsOK, HistoryOK, Row, Rule, Job,
          TimeOfDay, Minute, Never, Cooldown,
            FiredBefore, NoPatch
<1>1. ASSUME NEW e \in Event, HandleTelemetry(e)
      PROVE  m <= Minute(row'[q].last)
  BY <1>1 DEF HandleTelemetry, jobVars, ruleHistory
<1>2. ASSUME NEW e \in Event, NEW r \in SensorRule, ConditionFails(e, r)
      PROVE  m <= Minute(row'[q].last)
  BY <1>2 DEF ConditionFails, PassOver, jobVars, ruleHistory
<1>3. ASSUME NEW e \in Event, NEW r \in SensorRule, ClaimEdge(e, r)
      PROVE  m <= Minute(row'[q].last)
  BY <1>3 DEF ClaimEdge, PassOver, jobVars, ruleHistory
<1>4. CASE Advance
  BY <1>4 DEF Advance, jobVars, ruleHistory
<1>5. CASE LoadSchedules
  BY <1>5 DEF LoadSchedules, jobVars, ruleHistory
<1>6. ASSUME NEW r \in ScheduleRule, ClaimMinute(r)
      PROVE  m <= Minute(row'[q].last)
  BY SMTT(30), <1>6
  DEF ClaimMinute, PassOver, jobVars, ruleHistory, IsDue, RanBefore, MinuteStart
<1>7. CASE EndTick
  BY <1>7 DEF EndTick, jobVars, ruleHistory
<1>8. ASSUME NEW j \in Job, ExecuteRule(j)
      PROVE  m <= Minute(row'[q].last)
  BY <1>8 DEF ExecuteRule, jobVars, ruleHistory
<1>9. ASSUME NEW j \in Job, RuleError(j)
      PROVE  m <= Minute(row'[q].last)
  BY <1>9 DEF RuleError, PassOver, Disturb, jobVars, ruleHistory
<1>10. ASSUME NEW p \in Patch, FinishPatch(p)
      PROVE  m <= Minute(row'[q].last)
  BY <1>10 DEF FinishPatch, Written, ModeAfter, Rearm, jobVars, ruleHistory
<1>11. ASSUME NEW p \in Patch, NEW r \in Rule, NEW ask \in Asks,
             NEW c \in Condition(r), BeginPatch(p, r, ask, c)
      PROVE  m <= Minute(row'[q].last)
  BY <1>11 DEF BeginPatch, Disturb, jobVars, ruleHistory
<1>12. ASSUME NEW r \in Rule, SetRuleEnabled(r)
      PROVE  m <= Minute(row'[q].last)
  BY <1>12 DEF SetRuleEnabled, Disturb, Rearm, jobVars, ruleHistory
<1>13. CASE SetHome
  BY <1>13 DEF SetHome, Disturb, jobVars, ruleHistory
<1>14. CASE TickError
  BY <1>14 DEF TickError, Disturb, jobVars, ruleHistory
<1>15. CASE Restart
  BY <1>15 DEF Restart, Disturb, jobVars, ruleHistory
<1>16. CASE UNCHANGED vars
  BY <1>16 DEF vars, jobVars, ruleHistory
<1> QED
  BY <1>1, <1>2, <1>3, <1>4, <1>5, <1>6, <1>7, <1>8, <1>9, <1>10, <1>11,
    <1>12, <1>13, <1>14, <1>15, <1>16
  DEF Next, EventStep, TickStep, PeopleStep

LEMMA ArmedStep == TypeOK /\ ArmedUnlessTrue /\ [Next]_vars => ArmedUnlessTrue'
<1> SUFFICES ASSUME row \in [Rule -> Row], RequestsOK,
                    rearmed \in [SensorRule -> BOOLEAN],
                    ArmedUnlessTrue, [Next]_vars, NEW q \in SensorRule
             PROVE  rearmed'[q] \/ row'[q].state = "true"
  BY DEF ArmedUnlessTrue, TypeOK, RowsOK, HistoryOK
<1> USE ConstantsAssumption DEF Rule, RequestsOK, ArmedUnlessTrue
<1>1. ASSUME NEW e \in Event, HandleTelemetry(e)
      PROVE  rearmed'[q] \/ row'[q].state = "true"
  BY <1>1 DEF HandleTelemetry, jobVars, ruleHistory
<1>2. ASSUME NEW e \in Event, NEW r \in SensorRule, ConditionFails(e, r)
      PROVE  rearmed'[q] \/ row'[q].state = "true"
  BY <1>2 DEF ConditionFails, PassOver, jobVars, ruleHistory
<1>3. ASSUME NEW e \in Event, NEW r \in SensorRule, ClaimEdge(e, r)
      PROVE  rearmed'[q] \/ row'[q].state = "true"
  <2>1. CASE q = r /\ MayClaim(e, r)
    <3>1. row' = [row EXCEPT ![r] =
                    [@ EXCEPT !.state = "true", !.last = clock]]
      BY <1>3, <2>1 DEF ClaimEdge
    <3>2. row'[r] = [row[r] EXCEPT !.state = "true", !.last = clock]
      BY <3>1
    <3>3. row[r] \in Row
      OBVIOUS
    <3> QED
      BY <2>1, <3>2, <3>3 DEF Row
  <2>2. CASE ~ (q = r /\ MayClaim(e, r))
    <3>1. row'[q] = row[q] /\ rearmed'[q] = rearmed[q]
      BY <1>3, <2>2 DEF ClaimEdge
    <3> QED
      BY <3>1
  <2> QED
    BY <2>1, <2>2
<1>4. CASE Advance
  BY <1>4 DEF Advance, jobVars, ruleHistory
<1>5. CASE LoadSchedules
  BY <1>5 DEF LoadSchedules, jobVars, ruleHistory
<1>6. ASSUME NEW r \in ScheduleRule, ClaimMinute(r)
      PROVE  rearmed'[q] \/ row'[q].state = "true"
  BY <1>6 DEF ClaimMinute, PassOver, jobVars, ruleHistory
<1>7. CASE EndTick
  BY <1>7 DEF EndTick, jobVars, ruleHistory
<1>8. ASSUME NEW j \in Job, ExecuteRule(j)
      PROVE  rearmed'[q] \/ row'[q].state = "true"
  BY <1>8 DEF ExecuteRule, jobVars, ruleHistory
<1>9. ASSUME NEW j \in Job, RuleError(j)
      PROVE  rearmed'[q] \/ row'[q].state = "true"
  BY <1>9 DEF RuleError, PassOver, Disturb, jobVars, ruleHistory
<1>10. ASSUME NEW p \in Patch, FinishPatch(p)
      PROVE  rearmed'[q] \/ row'[q].state = "true"
  BY <1>10 DEF FinishPatch, Written, ModeAfter, Rearm, jobVars, ruleHistory
<1>11. ASSUME NEW p \in Patch, NEW r \in Rule, NEW ask \in Asks,
             NEW c \in Condition(r), BeginPatch(p, r, ask, c)
      PROVE  rearmed'[q] \/ row'[q].state = "true"
  BY <1>11 DEF BeginPatch, Disturb, jobVars, ruleHistory
<1>12. ASSUME NEW r \in Rule, SetRuleEnabled(r)
      PROVE  rearmed'[q] \/ row'[q].state = "true"
  BY <1>12 DEF SetRuleEnabled, Disturb, Rearm, jobVars, ruleHistory
<1>13. CASE SetHome
  BY <1>13 DEF SetHome, Disturb, jobVars, ruleHistory
<1>14. CASE TickError
  BY <1>14 DEF TickError, Disturb, jobVars, ruleHistory
<1>15. CASE Restart
  BY <1>15 DEF Restart, Disturb, jobVars, ruleHistory
<1>16. CASE UNCHANGED vars
  BY <1>16 DEF vars, jobVars, ruleHistory
<1> QED
  BY <1>1, <1>2, <1>3, <1>4, <1>5, <1>6, <1>7, <1>8, <1>9, <1>10, <1>11,
    <1>12, <1>13, <1>14, <1>15, <1>16
  DEF Next, EventStep, TickStep, PeopleStep

-----------------------------------------------------------------------------
(***************************************************************************)
(* Left alone, rules run when they are due.                                *)
(***************************************************************************)
LEMMA UntouchedStep == TypeOK /\ Untouched /\ [Next]_vars => Untouched'
<1> SUFFICES ASSUME TypeOK, Untouched, [Next]_vars PROVE Untouched'
  OBVIOUS
<1> USE DEF TypeOK, RequestsOK, Untouched
<1>1. ASSUME NEW e \in Event, HandleTelemetry(e)
      PROVE  Untouched'
  BY <1>1 DEF HandleTelemetry, jobVars, ruleHistory
<1>2. ASSUME NEW e \in Event, NEW r \in SensorRule, ConditionFails(e, r)
      PROVE  Untouched'
  BY <1>2 DEF ConditionFails, PassOver, jobVars, ruleHistory
<1>3. ASSUME NEW e \in Event, NEW r \in SensorRule, ClaimEdge(e, r)
      PROVE  Untouched'
  BY <1>3 DEF ClaimEdge, PassOver, jobVars, ruleHistory
<1>4. CASE Advance
  BY <1>4 DEF Advance, jobVars, ruleHistory
<1>5. CASE LoadSchedules
  BY <1>5 DEF LoadSchedules, jobVars, ruleHistory
<1>6. ASSUME NEW r \in ScheduleRule, ClaimMinute(r)
      PROVE  Untouched'
  BY <1>6 DEF ClaimMinute, PassOver, jobVars, ruleHistory
<1>7. CASE EndTick
  BY <1>7 DEF EndTick, jobVars, ruleHistory
<1>8. ASSUME NEW j \in Job, ExecuteRule(j)
      PROVE  Untouched'
  BY <1>8 DEF ExecuteRule, jobVars, ruleHistory
<1>9. ASSUME NEW j \in Job, RuleError(j)
      PROVE  Untouched'
  BY <1>9 DEF RuleError, PassOver, Disturb, jobVars, ruleHistory
<1>10. ASSUME NEW p \in Patch, FinishPatch(p)
      PROVE  Untouched'
  BY <1>10 DEF FinishPatch, Written, ModeAfter, Rearm, jobVars, ruleHistory
<1>11. ASSUME NEW p \in Patch, NEW r \in Rule, NEW ask \in Asks,
             NEW c \in Condition(r), BeginPatch(p, r, ask, c)
      PROVE  Untouched'
  BY <1>11 DEF BeginPatch, Disturb, jobVars, ruleHistory
<1>12. ASSUME NEW r \in Rule, SetRuleEnabled(r)
      PROVE  Untouched'
  BY <1>12 DEF SetRuleEnabled, Disturb, Rearm, jobVars, ruleHistory
<1>13. CASE SetHome
  BY <1>13 DEF SetHome, Disturb, jobVars, ruleHistory
<1>14. CASE TickError
  BY <1>14 DEF TickError, Disturb, jobVars, ruleHistory
<1>15. CASE Restart
  BY <1>15 DEF Restart, Disturb, jobVars, ruleHistory
<1>16. CASE UNCHANGED vars
  BY <1>16 DEF vars, jobVars, ruleHistory
<1> QED
  BY <1>1, <1>2, <1>3, <1>4, <1>5, <1>6, <1>7, <1>8, <1>9, <1>10, <1>11,
    <1>12, <1>13, <1>14, <1>15, <1>16
  DEF Next, EventStep, TickStep, PeopleStep

LEMMA HandledStep ==
  TypeOK /\ Untouched /\ AllHandled /\ [Next]_vars => AllHandled'
<1> SUFFICES ASSUME TypeOK, Untouched, AllHandled, [Next]_vars,
                    disturbances' = 0, NEW q \in ScheduleRule
             PROVE  Handled(q)'
  BY DEF AllHandled
<1> USE ConstantsAssumption
        DEF TypeOK, RowsOK, JobsOK, RequestsOK, HistoryOK, Row, Rule, Job,
          Condition, TimeOfDay, Minute, Never,
            Cooldown, Idle, Untouched, AllHandled, Handled
<1>1. ASSUME NEW e \in Event, HandleTelemetry(e)
      PROVE  Handled(q)'
  BY <1>1 DEF HandleTelemetry, jobVars, ruleHistory
<1>2. ASSUME NEW e \in Event, NEW r \in SensorRule, ConditionFails(e, r)
      PROVE  Handled(q)'
  BY <1>2 DEF ConditionFails, PassOver, jobVars, ruleHistory
<1>3. ASSUME NEW e \in Event, NEW r \in SensorRule, ClaimEdge(e, r)
      PROVE  Handled(q)'
  BY <1>3 DEF ClaimEdge, PassOver, jobVars, ruleHistory
<1>4. CASE Advance
  BY <1>4 DEF Advance, jobVars, ruleHistory
<1>5. CASE LoadSchedules
  BY <1>5 DEF LoadSchedules, jobVars, ruleHistory, Enabled
<1>6. ASSUME NEW r \in ScheduleRule, ClaimMinute(r)
      PROVE  Handled(q)'
  BY <1>6 DEF ClaimMinute, PassOver, jobVars, ruleHistory, IsDue, RanBefore,
    MinuteStart
<1>7. CASE EndTick
  BY <1>7 DEF EndTick, jobVars, ruleHistory
<1>8. ASSUME NEW j \in Job, ExecuteRule(j)
      PROVE  Handled(q)'
  BY <1>8 DEF ExecuteRule, jobVars, ruleHistory
<1>9. ASSUME NEW j \in Job, RuleError(j)
      PROVE  Handled(q)'
  BY <1>9 DEF RuleError, PassOver, Disturb, jobVars, ruleHistory
<1>10. ASSUME NEW p \in Patch, FinishPatch(p)
      PROVE  Handled(q)'
  BY <1>10 DEF FinishPatch, Written, ModeAfter, Rearm, jobVars, ruleHistory
<1>11. ASSUME NEW p \in Patch, NEW r \in Rule, NEW ask \in Asks,
             NEW c \in Condition(r), BeginPatch(p, r, ask, c)
      PROVE  Handled(q)'
  BY <1>11 DEF BeginPatch, Disturb, jobVars, ruleHistory
<1>12. ASSUME NEW r \in Rule, SetRuleEnabled(r)
      PROVE  Handled(q)'
  BY <1>12 DEF SetRuleEnabled, Disturb, Rearm, jobVars, ruleHistory
<1>13. CASE SetHome
  BY <1>13 DEF SetHome, Disturb, jobVars, ruleHistory
<1>14. CASE TickError
  BY <1>14 DEF TickError, Disturb, jobVars, ruleHistory
<1>15. CASE Restart
  BY <1>15 DEF Restart, Disturb, jobVars, ruleHistory
<1>16. CASE UNCHANGED vars
  BY <1>16 DEF vars, jobVars, ruleHistory
<1> QED
  BY <1>1, <1>2, <1>3, <1>4, <1>5, <1>6, <1>7, <1>8, <1>9, <1>10, <1>11,
    <1>12, <1>13, <1>14, <1>15, <1>16
  DEF Next, EventStep, TickStep, PeopleStep

-----------------------------------------------------------------------------
(***************************************************************************)
(* Alone, the state of a rule follows the last reading.                    *)
(***************************************************************************)
LEMMA AloneStep == TypeOK /\ Alone /\ [Next]_vars => Alone'
<1> SUFFICES ASSUME TypeOK, Alone, [Next]_vars, lastEvent' # {}
             PROVE  /\ disturbances' = 0
                    /\ \A e, f \in Event : Idle(e)' \/ Idle(f)' \/ e = f
  BY DEF Alone
<1> DEFINE Goal == /\ disturbances' = 0
                   /\ \A e, f \in Event : Idle(e)' \/ Idle(f)' \/ e = f
<1> USE ConstantsAssumption DEF TypeOK, JobsOK, Job, Idle, Alone
<1>1. ASSUME NEW e \in Event, HandleTelemetry(e)
      PROVE  Goal
  BY <1>1 DEF HandleTelemetry, jobVars, ruleHistory
<1>2. ASSUME NEW e \in Event, NEW r \in SensorRule, ConditionFails(e, r)
      PROVE  Goal
  BY <1>2 DEF ConditionFails, PassOver, jobVars, ruleHistory
<1>3. ASSUME NEW e \in Event, NEW r \in SensorRule, ClaimEdge(e, r)
      PROVE  Goal
  BY <1>3 DEF ClaimEdge, PassOver, jobVars, ruleHistory
<1>4. CASE Advance
  BY <1>4 DEF Advance, jobVars, ruleHistory
<1>5. CASE LoadSchedules
  BY <1>5 DEF LoadSchedules, jobVars, ruleHistory
<1>6. ASSUME NEW r \in ScheduleRule, ClaimMinute(r)
      PROVE  Goal
  BY <1>6 DEF ClaimMinute, PassOver, jobVars, ruleHistory
<1>7. CASE EndTick
  BY <1>7 DEF EndTick, jobVars, ruleHistory
<1>8. ASSUME NEW j \in Job, ExecuteRule(j)
      PROVE  Goal
  BY <1>8 DEF ExecuteRule, jobVars, ruleHistory
<1>9. ASSUME NEW j \in Job, RuleError(j)
      PROVE  Goal
  BY <1>9 DEF RuleError, PassOver, Disturb, jobVars, ruleHistory
<1>10. ASSUME NEW p \in Patch, FinishPatch(p)
      PROVE  Goal
  BY <1>10 DEF FinishPatch, Written, ModeAfter, Rearm, jobVars, ruleHistory
<1>11. ASSUME NEW p \in Patch, NEW r \in Rule, NEW ask \in Asks,
             NEW c \in Condition(r), BeginPatch(p, r, ask, c)
      PROVE  Goal
  BY <1>11 DEF BeginPatch, Disturb, jobVars, ruleHistory
<1>12. ASSUME NEW r \in Rule, SetRuleEnabled(r)
      PROVE  Goal
  BY <1>12 DEF SetRuleEnabled, Disturb, Rearm, jobVars, ruleHistory
<1>13. CASE SetHome
  BY <1>13 DEF SetHome, Disturb, jobVars, ruleHistory
<1>14. CASE TickError
  BY <1>14 DEF TickError, Disturb, jobVars, ruleHistory
<1>15. CASE Restart
  BY <1>15 DEF Restart, Disturb, jobVars, ruleHistory
<1>16. CASE UNCHANGED vars
  BY <1>16 DEF vars, jobVars, ruleHistory
<1> QED
  BY <1>1, <1>2, <1>3, <1>4, <1>5, <1>6, <1>7, <1>8, <1>9, <1>10, <1>11,
    <1>12, <1>13, <1>14, <1>15, <1>16
  DEF Next, EventStep, TickStep, PeopleStep

LEMMA FreshStep ==
  TypeOK /\ Untouched /\ Alone /\ Fresh /\ [Next]_vars => Fresh'
<1> SUFFICES ASSUME TypeOK, Untouched, Alone, Fresh, [Next]_vars,
                    NEW v \in lastEvent', NEW b \in Event,
                    NEW q \in DOMAIN copy'[b]
             PROVE  /\ copy'[b][q].meets = (row'[q].cond \in v.meets)
                    /\ copy'[b][q].state = row'[q].state
  BY DEF Fresh
<1> DEFINE Goal == /\ copy'[b][q].meets = (row'[q].cond \in v.meets)
                   /\ copy'[b][q].state = row'[q].state
<1> USE ConstantsAssumption
        DEF TypeOK, RowsOK, JobsOK, RequestsOK, HistoryOK, Row, Rule, Job,
          Idle, Untouched, Alone, Fresh
<1>1. ASSUME NEW e \in Event, HandleTelemetry(e)
      PROVE  Goal
  <2>1. PICK m \in SUBSET Threshold :
          /\ copy' = [copy EXCEPT ![e] =
               [r \in Enabled(SensorRule) |->
                  [meets |-> row[r].cond \in m, state |-> row[r].state]]]
          /\ lastEvent' = IF oneByOne' /\ disturbances = 0
                            THEN {[meets |-> m, at |-> clock]} ELSE {}
    BY <1>1 DEF HandleTelemetry
  <2>2. v.meets = m /\ \A f \in Event : Idle(f)
    <3>1. oneByOne' /\ v = [meets |-> m, at |-> clock]
      BY <2>1
    <3> HIDE DEF Idle
    <3>2. \A f \in Event : Idle(f)
      BY <1>1, <3>1 DEF HandleTelemetry
    <3> QED
      BY <3>1, <3>2
  <2>3. b = e
    BY <2>1, <2>2
  <2>4. copy'[b][q] = [meets |-> row[q].cond \in m, state |-> row[q].state]
    BY <2>1, <2>3
  <2>5. row' = row
    BY <1>1 DEF HandleTelemetry
  <2>6. copy'[b][q].meets = (row[q].cond \in m)
    BY <2>4
  <2>7. (row'[q].cond \in v.meets) = (row[q].cond \in m)
    BY <2>2, <2>5
  <2>8. copy'[b][q].state = row'[q].state
    BY <2>4, <2>5
  <2> QED
    BY <2>6, <2>7, <2>8
<1>2. ASSUME NEW e \in Event, NEW r \in SensorRule, ConditionFails(e, r)
      PROVE  Goal
  BY <1>2 DEF ConditionFails, PassOver, jobVars, ruleHistory
<1>3. ASSUME NEW e \in Event, NEW r \in SensorRule, ClaimEdge(e, r)
      PROVE  Goal
  BY <1>3 DEF ClaimEdge, PassOver, jobVars, ruleHistory
<1>4. CASE Advance
  BY <1>4 DEF Advance, jobVars, ruleHistory
<1>5. CASE LoadSchedules
  BY <1>5 DEF LoadSchedules, jobVars, ruleHistory
<1>6. ASSUME NEW r \in ScheduleRule, ClaimMinute(r)
      PROVE  Goal
  BY <1>6 DEF ClaimMinute, PassOver, jobVars, ruleHistory
<1>7. CASE EndTick
  BY <1>7 DEF EndTick, jobVars, ruleHistory
<1>8. ASSUME NEW j \in Job, ExecuteRule(j)
      PROVE  Goal
  BY <1>8 DEF ExecuteRule, jobVars, ruleHistory
<1>9. ASSUME NEW j \in Job, RuleError(j)
      PROVE  Goal
  BY <1>9 DEF RuleError, PassOver, Disturb, jobVars, ruleHistory
<1>10. ASSUME NEW p \in Patch, FinishPatch(p)
      PROVE  Goal
  BY <1>10 DEF FinishPatch, Written, ModeAfter, Rearm, jobVars, ruleHistory
<1>11. ASSUME NEW p \in Patch, NEW r \in Rule, NEW ask \in Asks,
             NEW c \in Condition(r), BeginPatch(p, r, ask, c)
      PROVE  Goal
  BY <1>11 DEF BeginPatch, Disturb, jobVars, ruleHistory
<1>12. ASSUME NEW r \in Rule, SetRuleEnabled(r)
      PROVE  Goal
  BY <1>12 DEF SetRuleEnabled, Disturb, Rearm, jobVars, ruleHistory
<1>13. CASE SetHome
  BY <1>13 DEF SetHome, Disturb, jobVars, ruleHistory
<1>14. CASE TickError
  BY <1>14 DEF TickError, Disturb, jobVars, ruleHistory
<1>15. CASE Restart
  BY <1>15 DEF Restart, Disturb, jobVars, ruleHistory
<1>16. CASE UNCHANGED vars
  BY <1>16 DEF vars, jobVars, ruleHistory
<1> QED
  BY <1>1, <1>2, <1>3, <1>4, <1>5, <1>6, <1>7, <1>8, <1>9, <1>10, <1>11,
    <1>12, <1>13, <1>14, <1>15, <1>16
  DEF Next, EventStep, TickStep, PeopleStep

LEMMA TrackedStep ==
  TypeOK /\ Untouched /\ Alone /\ Fresh /\ Tracked /\ [Next]_vars => Tracked'
<1> SUFFICES ASSUME TypeOK, Untouched, Alone, Fresh, Tracked, [Next]_vars,
                    NEW v \in lastEvent', NEW q \in SensorRule,
                    active', row'[q].mode = "on"
             PROVE  Settled(q, v)' \/ \E e \in Event : q \in DOMAIN copy'[e]
  BY DEF Tracked, Enabled
<1> DEFINE Goal == Settled(q, v)' \/ \E e \in Event : q \in DOMAIN copy'[e]
<1> USE ConstantsAssumption
        DEF TypeOK, RowsOK, JobsOK, RequestsOK, HistoryOK, Row, Rule, Job,
          Never, Cooldown, Idle, Untouched, Alone,
            Fresh, Tracked, Settled, Enabled
<1>1. ASSUME NEW e \in Event, HandleTelemetry(e)
      PROVE  Goal
  <2>1. CASE ~ active \/ row[q].mode # "on"
    BY <1>1, <2>1 DEF HandleTelemetry
  <2>2. CASE active /\ row[q].mode = "on"
    <3>1. q \in DOMAIN copy'[e]
      BY <1>1, <2>2 DEF HandleTelemetry
    <3> QED
      BY <3>1
  <2> QED
    BY <2>1, <2>2
<1>2. ASSUME NEW e \in Event, NEW r \in SensorRule, ConditionFails(e, r)
      PROVE  Goal
  BY <1>2 DEF ConditionFails, PassOver, jobVars, ruleHistory
<1>3. ASSUME NEW e \in Event, NEW r \in SensorRule, ClaimEdge(e, r)
      PROVE  Goal
  <2>1. CASE q # r
    BY <1>3, <2>1 DEF ClaimEdge, PassOver
  <2>2. CASE q = r /\ MayClaim(e, r)
    <3>1. row'[r] = [row[r] EXCEPT !.state = "true", !.last = clock]
      BY <1>3, <2>2 DEF ClaimEdge
    <3>2. row[r] \in Row /\ row[r].cond \in v.meets
      BY <1>3, <2>2 DEF ClaimEdge
    <3> QED
      BY <2>2, <3>1, <3>2
  <2>3. CASE q = r /\ ~ MayClaim(e, r)
    <3>1. row' = row /\ lastEvent' = lastEvent /\ clock' = clock
      BY <1>3, <2>3 DEF ClaimEdge
    <3>2. row[r].state = "true" \/ clock < row[r].last + Cooldown
      BY <2>3, <3>1 DEF MayClaim
    <3>3. row[r].cond \in v.meets /\ v.at <= clock
      BY <1>3, <2>3, <3>1 DEF ClaimEdge
    <3> QED
      BY <2>3, <3>1, <3>2, <3>3
  <2> QED
    BY <2>1, <2>2, <2>3
<1>4. CASE Advance
  BY <1>4 DEF Advance, jobVars, ruleHistory
<1>5. CASE LoadSchedules
  BY <1>5 DEF LoadSchedules, jobVars, ruleHistory
<1>6. ASSUME NEW r \in ScheduleRule, ClaimMinute(r)
      PROVE  Goal
  BY <1>6 DEF ClaimMinute, PassOver, jobVars, ruleHistory
<1>7. CASE EndTick
  BY <1>7 DEF EndTick, jobVars, ruleHistory
<1>8. ASSUME NEW j \in Job, ExecuteRule(j)
      PROVE  Goal
  BY <1>8 DEF ExecuteRule, jobVars, ruleHistory
<1>9. ASSUME NEW j \in Job, RuleError(j)
      PROVE  Goal
  BY <1>9 DEF RuleError, PassOver, Disturb, jobVars, ruleHistory
<1>10. ASSUME NEW p \in Patch, FinishPatch(p)
      PROVE  Goal
  BY <1>10 DEF FinishPatch, Written, ModeAfter, Rearm, jobVars, ruleHistory
<1>11. ASSUME NEW p \in Patch, NEW r \in Rule, NEW ask \in Asks,
             NEW c \in Condition(r), BeginPatch(p, r, ask, c)
      PROVE  Goal
  BY <1>11 DEF BeginPatch, Disturb, jobVars, ruleHistory
<1>12. ASSUME NEW r \in Rule, SetRuleEnabled(r)
      PROVE  Goal
  BY <1>12 DEF SetRuleEnabled, Disturb, Rearm, jobVars, ruleHistory
<1>13. CASE SetHome
  BY <1>13 DEF SetHome, Disturb, jobVars, ruleHistory
<1>14. CASE TickError
  BY <1>14 DEF TickError, Disturb, jobVars, ruleHistory
<1>15. CASE Restart
  BY <1>15 DEF Restart, Disturb, jobVars, ruleHistory
<1>16. CASE UNCHANGED vars
  BY <1>16 DEF vars, jobVars, ruleHistory
<1> QED
  BY <1>1, <1>2, <1>3, <1>4, <1>5, <1>6, <1>7, <1>8, <1>9, <1>10, <1>11,
    <1>12, <1>13, <1>14, <1>15, <1>16
  DEF Next, EventStep, TickStep, PeopleStep

-----------------------------------------------------------------------------
(***************************************************************************)
(* The theorems.                                                           *)
(***************************************************************************)
LEMMA InvInit == Init => IInv
<1> SUFFICES ASSUME Init PROVE IInv
  OBVIOUS
<1>1. TypeOK
  BY TypeInit
<1> QED
  BY <1>1, ConstantsAssumption
  DEF Init, IInv, FiredBefore, ArmedUnlessTrue, Untouched, AllHandled, Handled,
      Alone, Fresh, Tracked, Job, Rule, NoRules, Idle

LEMMA InvStep == IInv /\ [Next]_vars => IInv'
  BY TypeStep, FiredStep, ArmedStep, UntouchedStep, HandledStep, AloneStep,
     FreshStep, TrackedStep
  DEF IInv

LEMMA Invariance == Spec => []IInv
  BY InvInit, InvStep, PTL DEF Spec

\* A schedule rule runs at most once for a minute: its last run is not before
\* any minute it ran in, and a tick runs it only if that is before the tick's.
THEOREM RunsOncePerMinute == Spec => OncePerMinute
<1>1. IInv /\ [Next]_vars =>
        [\A r \in ScheduleRule :
           cur'[Tick] = {r} /\ cur[Tick] = {} =>
             Minute(at) \notin fired[r]]_vars
  <2> SUFFICES ASSUME IInv, [Next]_vars, NEW q \in ScheduleRule,
                      cur'[Tick] = {q}, cur[Tick] = {}
               PROVE  Minute(at) \notin fired[q]
    OBVIOUS
  <2> USE ConstantsAssumption
          DEF IInv, TypeOK, RowsOK, JobsOK, RequestsOK, HistoryOK, Row, Rule,
            Job, TimeOfDay, Minute, Never, Cooldown,
              FiredBefore
  <2>1. ASSUME NEW e \in Event, HandleTelemetry(e)
        PROVE  Minute(at) \notin fired[q]
    BY <2>1 DEF HandleTelemetry, jobVars, ruleHistory
  <2>2. ASSUME NEW e \in Event, NEW r \in SensorRule, ConditionFails(e, r)
        PROVE  Minute(at) \notin fired[q]
    BY <2>2 DEF ConditionFails, PassOver, jobVars, ruleHistory
  <2>3. ASSUME NEW e \in Event, NEW r \in SensorRule, ClaimEdge(e, r)
        PROVE  Minute(at) \notin fired[q]
    BY <2>3 DEF ClaimEdge, PassOver, jobVars, ruleHistory
  <2>4. CASE Advance
    BY <2>4 DEF Advance, jobVars, ruleHistory
  <2>5. CASE LoadSchedules
    BY <2>5 DEF LoadSchedules, jobVars, ruleHistory
  <2>6. ASSUME NEW r \in ScheduleRule, ClaimMinute(r)
        PROVE  Minute(at) \notin fired[q]
    <3>1. row[q].last < MinuteStart(at)
      <4>1. cur'[Tick] # cur[Tick]
        OBVIOUS
      <4>2. RanBefore(r) /\ cur'[Tick] = {r}
        BY <2>6, <4>1 DEF ClaimMinute
      <4>3. r = q
        BY <4>2
      <4> QED
        BY <4>2, <4>3 DEF RanBefore
    <3>2. \A m \in fired[q] : m <= Minute(row[q].last)
      OBVIOUS
    <3> QED
      BY <3>1, <3>2 DEF MinuteStart
  <2>7. CASE EndTick
    BY <2>7 DEF EndTick, jobVars, ruleHistory
  <2>8. ASSUME NEW j \in Job, ExecuteRule(j)
        PROVE  Minute(at) \notin fired[q]
    BY <2>8 DEF ExecuteRule, jobVars, ruleHistory
  <2>9. ASSUME NEW j \in Job, RuleError(j)
        PROVE  Minute(at) \notin fired[q]
    BY <2>9 DEF RuleError, PassOver, Disturb, jobVars, ruleHistory
  <2>10. ASSUME NEW p \in Patch, FinishPatch(p)
        PROVE  Minute(at) \notin fired[q]
    BY <2>10 DEF FinishPatch, Written, ModeAfter, Rearm, jobVars, ruleHistory
  <2>11. ASSUME NEW p \in Patch, NEW r \in Rule, NEW ask \in Asks,
               NEW c \in Condition(r), BeginPatch(p, r, ask, c)
        PROVE  Minute(at) \notin fired[q]
    BY <2>11 DEF BeginPatch, Disturb, jobVars, ruleHistory
  <2>12. ASSUME NEW r \in Rule, SetRuleEnabled(r)
        PROVE  Minute(at) \notin fired[q]
    BY <2>12 DEF SetRuleEnabled, Disturb, Rearm, jobVars, ruleHistory
  <2>13. CASE SetHome
    BY <2>13 DEF SetHome, Disturb, jobVars, ruleHistory
  <2>14. CASE TickError
    BY <2>14 DEF TickError, Disturb, jobVars, ruleHistory
  <2>15. CASE Restart
    BY <2>15 DEF Restart, Disturb, jobVars, ruleHistory
  <2>16. CASE UNCHANGED vars
    BY <2>16 DEF vars, jobVars, ruleHistory
  <2> QED
    BY <2>1, <2>2, <2>3, <2>4, <2>5, <2>6, <2>7, <2>8, <2>9, <2>10, <2>11,
      <2>12, <2>13, <2>14, <2>15, <2>16
    DEF Next, EventStep, TickStep, PeopleStep
<1> QED
  BY <1>1, Invariance, PTL DEF Spec, OncePerMinute

\* A sensor rule runs only when it was armed again, and 60 seconds after its
\* last run.
THEOREM RunsOnEdges == Spec => FiresOnEdges
<1>1. IInv /\ [Next]_vars =>
        [\A r \in SensorRule, e \in Event :
           cur'[e] = {r} /\ cur[e] = {} =>
             rearmed[r] /\ row[r].last + Cooldown <= clock]_vars
  <2> SUFFICES ASSUME IInv, [Next]_vars, NEW q \in SensorRule, NEW b \in Event,
                      cur'[b] = {q}, cur[b] = {}
               PROVE  rearmed[q] /\ row[q].last + Cooldown <= clock
    OBVIOUS
  <2> DEFINE Goal == rearmed[q] /\ row[q].last + Cooldown <= clock
  <2> USE ConstantsAssumption
          DEF IInv, TypeOK, RowsOK, JobsOK, RequestsOK, HistoryOK, Row, Rule,
            Job, Never, Cooldown, ArmedUnlessTrue
  <2>1. ASSUME NEW e \in Event, HandleTelemetry(e)
        PROVE  Goal
    BY <2>1 DEF HandleTelemetry, jobVars, ruleHistory
  <2>2. ASSUME NEW e \in Event, NEW r \in SensorRule, ConditionFails(e, r)
        PROVE  Goal
    BY <2>2 DEF ConditionFails, PassOver, jobVars, ruleHistory
  <2>3. ASSUME NEW e \in Event, NEW r \in SensorRule, ClaimEdge(e, r)
        PROVE  Goal
    <3>1. cur'[b] # cur[b]
      OBVIOUS
    <3>2. b = e /\ cur'[e] = {r} /\ MayClaim(e, r)
      BY <2>3, <3>1 DEF ClaimEdge
    <3>3. q = r
      BY <3>2
    <3> QED
      BY <3>2, <3>3 DEF MayClaim
  <2>4. CASE Advance
    BY <2>4 DEF Advance, jobVars, ruleHistory
  <2>5. CASE LoadSchedules
    BY <2>5 DEF LoadSchedules, jobVars, ruleHistory
  <2>6. ASSUME NEW r \in ScheduleRule, ClaimMinute(r)
        PROVE  Goal
    BY <2>6 DEF ClaimMinute, PassOver, jobVars, ruleHistory
  <2>7. CASE EndTick
    BY <2>7 DEF EndTick, jobVars, ruleHistory
  <2>8. ASSUME NEW j \in Job, ExecuteRule(j)
        PROVE  Goal
    BY <2>8 DEF ExecuteRule, jobVars, ruleHistory
  <2>9. ASSUME NEW j \in Job, RuleError(j)
        PROVE  Goal
    BY <2>9 DEF RuleError, PassOver, Disturb, jobVars, ruleHistory
  <2>10. ASSUME NEW p \in Patch, FinishPatch(p)
        PROVE  Goal
    BY <2>10 DEF FinishPatch, Written, ModeAfter, Rearm, jobVars, ruleHistory
  <2>11. ASSUME NEW p \in Patch, NEW r \in Rule, NEW ask \in Asks,
               NEW c \in Condition(r), BeginPatch(p, r, ask, c)
        PROVE  Goal
    BY <2>11 DEF BeginPatch, Disturb, jobVars, ruleHistory
  <2>12. ASSUME NEW r \in Rule, SetRuleEnabled(r)
        PROVE  Goal
    BY <2>12 DEF SetRuleEnabled, Disturb, Rearm, jobVars, ruleHistory
  <2>13. CASE SetHome
    BY <2>13 DEF SetHome, Disturb, jobVars, ruleHistory
  <2>14. CASE TickError
    BY <2>14 DEF TickError, Disturb, jobVars, ruleHistory
  <2>15. CASE Restart
    BY <2>15 DEF Restart, Disturb, jobVars, ruleHistory
  <2>16. CASE UNCHANGED vars
    BY <2>16 DEF vars, jobVars, ruleHistory
  <2> QED
    BY <2>1, <2>2, <2>3, <2>4, <2>5, <2>6, <2>7, <2>8, <2>9, <2>10, <2>11,
      <2>12, <2>13, <2>14, <2>15, <2>16
    DEF Next, EventStep, TickStep, PeopleStep
<1> QED
  BY <1>1, Invariance, PTL DEF Spec, FiresOnEdges

\* Left alone, a rule has run in its minute once a tick of that minute is over.
THEOREM DueRulesFire == Spec => []DueFires
<1>1. IInv => DueFires
  BY DEF IInv, AllHandled, Handled, DueFires, Enabled
<1> QED
  BY <1>1, Invariance, PTL

\* While readings come one at a time and nothing is changed, the state of a
\* rule follows the last one.
THEOREM EdgesAreTracked == Spec => []EdgeTracked
<1>1. IInv => EdgeTracked
  BY DEF IInv, Tracked, Settled, EdgeTracked, Idle
<1> QED
  BY <1>1, Invariance, PTL

\* No rule ever runs when it may not, for any number of rules, ticks, events,
\* edits and restarts.
THEOREM NeverRunsEarly == Spec => RunsOnlyWhenDue
  BY RunsOncePerMinute, RunsOnEdges DEF RunsOnlyWhenDue

\* Left alone, every rule keeps up with its minutes and readings.
THEOREM AllRulesKeepUp == Spec => []RulesKeepUp
<1>1. IInv => RulesKeepUp
  BY DEF IInv, AllHandled, Handled, DueFires, Enabled, Tracked, Settled,
    EdgeTracked, Idle, RulesKeepUp
<1> QED
  BY <1>1, Invariance, PTL


-----------------------------------------------------------------------------
(***************************************************************************)
(* HabitSuggestion.  What a run has seen stays true until it inserts: it   *)
(* is alone, and neither an answer nor a day that passes brings an old     *)
(* suggestion back.                                                        *)
(***************************************************************************)
RunRecord ==
  [pc : {"idle", "recent", "load"}]
    \cup [pc : {"loop"}, todo : SUBSET Candidate]
    \cup [pc : {"rules"}, todo : SUBSET Candidate, candidate : Candidate]
    \cup [pc : {"insert"}, candidate : Candidate]

ReplyRecord == {NoReply} \cup [kind : {"accept", "dismiss"}, offer : Offer]

\* A run that has begun is the one in flight.
OneRun == \A r \in Run : runs[r].pc # "idle" => inFlight = r

\* A suggestion that does not stand in the way of candidate c.
Spares(q, c) ==
  offers[q].habit = c[1] /\ Near(offers[q].minute, c[2])
    => offers[q].status = "rejected" /\ offers[q].answered > RejectedDays

SeenByRun ==
  \A r \in Run, q \in Offered :
    /\ runs[r].pc \in {"load", "loop", "rules", "insert"} => offers[q].presented > 0
    /\ runs[r].pc \in {"rules", "insert"} => Spares(q, runs[r].candidate)

\* A reply is about a row that was once made.
RepliesFit == \A p \in Reply : replies[p] # NoReply => offers[replies[p].offer] # Absent

NothingMadeYet == \A o \in Offer : offers[o] = Absent => made[o] = 0

SuggestionInv ==
  /\ SuggestionTypeOK
  /\ runs \in [Run -> RunRecord] /\ replies \in [Reply -> ReplyRecord]
  /\ made \in [Offer -> Nat]
  /\ OneRun /\ SeenByRun /\ RepliesFit /\ NothingMadeYet /\ AnsweredOnce

LEMMA SuggestionInvInit == SuggestionInit => SuggestionInv
<1> SUFFICES ASSUME SuggestionInit PROVE SuggestionInv
  OBVIOUS
<1>1. NoRun \in RunRecord /\ NoRun.pc = "idle" /\ NoReply \in ReplyRecord
  BY DEF NoRun, RunRecord, ReplyRecord
<1>2. Offered = {}
  BY DEF SuggestionInit, Offered
<1>3. SuggestionTypeOK
  BY DEF SuggestionInit, SuggestionTypeOK
<1> QED
  BY <1>1, <1>2, <1>3 DEF SuggestionInit, SuggestionInv, OneRun, SeenByRun, RepliesFit,
     NothingMadeYet, AnsweredOnce

\* What a run does to the runs and to the flag they share.
RunGoes(r, v) ==
  /\ runs' = [runs EXCEPT ![r] = v]
  /\ inFlight' = IF v.pc = "idle" THEN Absent ELSE r

LEMMA RunGoesAlone ==
  ASSUME runs \in [Run -> RunRecord], OneRun, NEW r \in Run, NEW v \in RunRecord, RunGoes(r, v),
         inFlight \in {Absent, r}
  PROVE  /\ runs' \in [Run -> RunRecord] /\ OneRun' /\ inFlight' \in Run \cup {Absent}
         /\ runs'[r] = v
         /\ \A q \in Run \ {r} : runs'[q] = runs[q] /\ runs'[q].pc = "idle"
<1>1. \A q \in Run \ {r} : runs[q].pc = "idle"
  BY SuggestionAssumption DEF OneRun
<1>2. runs'[r] = v /\ \A q \in Run \ {r} : runs'[q] = runs[q]
  BY DEF RunGoes
<1> QED BY <1>1, <1>2 DEF OneRun, RunGoes

LEMMA NoRunType == NoRun \in RunRecord /\ NoRun.pc = "idle"
  BY DEF NoRun, RunRecord


\* A step of a run that leaves the rows alone.
LEMMA RunOnly ==
  ASSUME SuggestionInv, NEW r \in Run, NEW v \in RunRecord, RunGoes(r, v),
         inFlight \in {Absent, r},
         UNCHANGED <<log, relays, offers, schedules, replies, made>>,
         \A q \in Offered :
           /\ v.pc \in {"load", "loop", "rules", "insert"} => offers[q].presented > 0
           /\ v.pc \in {"rules", "insert"} => Spares(q, v.candidate)
  PROVE  SuggestionInv'
<1>1. /\ runs' \in [Run -> RunRecord] /\ OneRun' /\ inFlight' \in Run \cup {Absent}
      /\ runs'[r] = v
      /\ \A q \in Run \ {r} : runs'[q] = runs[q] /\ runs'[q].pc = "idle"
  BY RunGoesAlone DEF SuggestionInv
<1>2. Offered' = Offered
  BY DEF Offered
<1>3. SeenByRun'
  BY <1>1, <1>2 DEF SeenByRun, Spares
<1>4. SuggestionTypeOK'
  BY <1>1 DEF SuggestionInv, SuggestionTypeOK
<1>5. RepliesFit' /\ NothingMadeYet' /\ AnsweredOnce'
  BY <1>2 DEF SuggestionInv, RepliesFit, NothingMadeYet, AnsweredOnce
<1> QED BY <1>1, <1>3, <1>4, <1>5 DEF SuggestionInv

LEMMA InFlightIsMine ==
  ASSUME OneRun, NEW r \in Run, runs[r].pc # "idle"
  PROVE  inFlight = r
  BY DEF OneRun

LEMMA LookingKeeps ==
  ASSUME SuggestionInv, NEW r \in Run,
         StartRun(r) \/ CheckRecent(r) \/ LoadEvents(r) \/ CheckSuggestions(r)
           \/ CheckRules(r) \/ RunFails(r)
  PROVE  SuggestionInv'
<1>0. /\ runs[r] \in RunRecord /\ OneRun /\ SeenByRun
      /\ \A q \in Offered : offers[q] \in OfferRow
  BY DEF SuggestionInv, SuggestionTypeOK, Offered
<1>1. CASE StartRun(r)
  <2>1. [pc |-> "recent"] \in RunRecord
    BY DEF RunRecord
  <2>2. RunGoes(r, [pc |-> "recent"]) /\ inFlight = Absent
    BY <1>1 DEF StartRun, RunGoes, MayRun
  <2> QED BY <1>1, <2>1, <2>2, RunOnly DEF StartRun
<1>2. CASE runs[r].pc # "idle" /\ EndRun(r)
            /\ UNCHANGED <<log, relays, offers, schedules, replies, made>>
  <2>1. RunGoes(r, NoRun) /\ inFlight = r
    BY <1>0, <1>2, InFlightIsMine, NoRunType DEF EndRun, RunGoes
  <2> QED BY <1>2, <2>1, NoRunType, RunOnly
<1>3. CASE RunFails(r)
  <2>1. runs[r].pc # "idle"
    BY <1>0, <1>3 DEF RunFails, RunRecord, NoRun
  <2> QED BY <1>2, <1>3, <2>1 DEF RunFails
<1>4. CASE CheckRecent(r)
  <2>1. CASE HasRecent
    BY <1>2, <1>4, <2>1 DEF CheckRecent
  <2>2. CASE ~HasRecent
    <3>1. [pc |-> "load"] \in RunRecord
      BY DEF RunRecord
    <3>2. RunGoes(r, [pc |-> "load"]) /\ inFlight = r
      BY <1>0, <1>4, <2>2, InFlightIsMine DEF CheckRecent, RunGoes
    <3>3. \A q \in Offered : offers[q].presented > 0
      BY <1>0, <2>2 DEF HasRecent, OfferRow
    <3> QED BY <1>4, <3>1, <3>2, <3>3, RunOnly DEF CheckRecent
  <2> QED BY <2>1, <2>2
<1>5. CASE LoadEvents(r)
  <2>1. PICK found \in SUBSET Candidate : runs' = [runs EXCEPT ![r] = [pc |-> "loop", todo |-> found]]
    BY <1>5 DEF LoadEvents
  <2>2. [pc |-> "loop", todo |-> found] \in RunRecord
    BY DEF RunRecord
  <2>3. RunGoes(r, [pc |-> "loop", todo |-> found]) /\ inFlight = r
    BY <1>0, <1>5, <2>1, InFlightIsMine DEF LoadEvents, RunGoes
  <2>4. \A q \in Offered : offers[q].presented > 0
    BY <1>0, <1>5 DEF SeenByRun, LoadEvents
  <2> QED BY <1>5, <2>2, <2>3, <2>4, RunOnly DEF LoadEvents
<1>6. CASE CheckSuggestions(r)
  <2>0. /\ runs[r].pc = "loop" /\ runs[r].todo \subseteq Candidate /\ inFlight = r
        /\ \A q \in Offered : offers[q].presented > 0
        /\ UNCHANGED <<log, relays, offers, schedules, replies, made>>
    BY <1>0, <1>6, InFlightIsMine DEF SeenByRun, CheckSuggestions, RunRecord
  <2>1. CASE EndRun(r)
    BY <1>2, <2>0, <2>1
  <2>2. ASSUME NEW c \in runs[r].todo, UNCHANGED inFlight,
               runs' = [runs EXCEPT ![r] =
                 IF IsSuggestedAlready(c) THEN [pc |-> "loop", todo |-> @.todo \ {c}]
                 ELSE [pc |-> "rules", todo |-> @.todo \ {c}, candidate |-> c]]
        PROVE  SuggestionInv'
    <3> DEFINE on == [pc |-> "loop", todo |-> runs[r].todo \ {c}]
               rules == [pc |-> "rules", todo |-> runs[r].todo \ {c}, candidate |-> c]
    <3>1. on \in RunRecord /\ rules \in RunRecord
      BY <2>0 DEF RunRecord
    <3>2. CASE IsSuggestedAlready(c)
      <4>1. RunGoes(r, on)
        BY <2>0, <2>2, <3>2, <1>0 DEF RunGoes, SuggestionInv
      <4> QED BY <2>0, <3>1, <4>1, RunOnly
    <3>3. CASE ~IsSuggestedAlready(c)
      <4>1. RunGoes(r, rules)
        BY <2>0, <2>2, <3>3, <1>0 DEF RunGoes, SuggestionInv
      <4>2. \A q \in Offered : Spares(q, c)
        BY <1>0, <3>3, SuggestionAssumption
        DEF IsSuggestedAlready, Suppresses, Spares, OfferRow
      <4> QED BY <2>0, <3>1, <4>1, <4>2, RunOnly
    <3> QED BY <3>2, <3>3
  <2> QED BY <1>6, <2>1, <2>2 DEF CheckSuggestions
<1>7. CASE CheckRules(r)
  <2> DEFINE c == runs[r].candidate
             on == [pc |-> "loop", todo |-> runs[r].todo]
             insert == [pc |-> "insert", candidate |-> c]
  <2>0. /\ runs[r].pc = "rules" /\ runs[r].todo \subseteq Candidate /\ inFlight = r
        /\ c \in Candidate
        /\ \A q \in Offered : offers[q].presented > 0 /\ Spares(q, c)
        /\ UNCHANGED <<log, relays, offers, schedules, replies, made>>
    BY <1>0, <1>7, InFlightIsMine DEF SeenByRun, CheckRules, RunRecord
  <2>1. on \in RunRecord /\ insert \in RunRecord
    BY <2>0 DEF RunRecord
  <2>2. RunGoes(r, on) \/ RunGoes(r, insert)
    BY <1>7, <2>0 DEF CheckRules, RunGoes, SuggestionInv
  <2> QED BY <2>0, <2>1, <2>2, RunOnly
<1> QED BY <1>1, <1>3, <1>4, <1>5, <1>6, <1>7


\* A step that leaves runs and replies alone, or ends them, keeps the rest when
\* no suggestion that is offered afterwards says less than before.
LEMMA OffersKept ==
  ASSUME SuggestionInv,
         offers' \in [Offer -> OfferRow \cup {Absent, Deleted}],
         schedules' \subseteq Candidate, relays' \subseteq Habit, UNCHANGED log,
         inFlight' \in Run \cup {Absent},
         runs' \in [Run -> RunRecord], OneRun',
         \A r \in Run : runs'[r] = runs[r] \/ runs'[r].pc = "idle",
         replies' \in [Reply -> ReplyRecord],
         \A p \in Reply : replies'[p] # NoReply => offers'[replies'[p].offer] # Absent,
         made' \in [Offer -> Nat],
         \A o \in Offer : offers'[o] = Absent => offers[o] = Absent /\ made'[o] = made[o],
         \A o \in Offered' :
           /\ (\E r \in Run : runs'[r].pc # "idle") =>
                /\ o \in Offered /\ offers[o].presented > 0 => offers'[o].presented > 0
                /\ o \in Offered
                /\ offers'[o].habit = offers[o].habit /\ offers'[o].minute = offers[o].minute
                /\ offers[o].status = "rejected" => offers'[o].status = "rejected"
                /\ offers[o].status = "rejected" /\ offers[o].answered > RejectedDays =>
                     offers'[o].answered > RejectedDays
           /\ offers'[o].feedback = IF offers'[o].status = "pending" THEN 0 ELSE 1
           /\ made'[o] = IF offers'[o].status = "confirmed" THEN 1 ELSE 0
  PROVE  SuggestionInv'
<1>1. SeenByRun'
  BY DEF SuggestionInv, SeenByRun, Spares
<1>2. SuggestionTypeOK'
  BY DEF SuggestionInv, SuggestionTypeOK
<1>3. RepliesFit' /\ NothingMadeYet' /\ AnsweredOnce'
  BY DEF SuggestionInv, RepliesFit, NothingMadeYet, AnsweredOnce
<1> QED BY <1>1, <1>2, <1>3 DEF SuggestionInv

LEMMA CreateKeeps ==
  ASSUME SuggestionInv, NEW r \in Run, CreateSuggestion(r)
  PROVE  SuggestionInv'
<1> DEFINE c == runs[r].candidate
           new == [habit |-> c[1], minute |-> c[2], status |-> "pending",
                   presented |-> 0, answered |-> 0, feedback |-> 0]
<1>0. /\ SuggestionTypeOK /\ OneRun /\ AnsweredOnce /\ NothingMadeYet /\ RepliesFit
      /\ runs \in [Run -> RunRecord] /\ made \in [Offer -> Nat]
      /\ replies \in [Reply -> ReplyRecord]
      /\ runs[r].pc = "insert" /\ EndRun(r) /\ UNCHANGED <<log, relays, schedules, replies, made>>
  BY DEF SuggestionInv, CreateSuggestion
<1>1. c \in Candidate /\ inFlight = r
  BY <1>0, InFlightIsMine DEF RunRecord
<1>2. new \in OfferRow
  BY <1>1, SuggestionAssumption DEF OfferRow, Candidate
<1>3. RunGoes(r, NoRun)
  BY <1>0, NoRunType DEF EndRun, RunGoes
<1>4. /\ runs' \in [Run -> RunRecord] /\ OneRun' /\ inFlight' \in Run \cup {Absent}
      /\ runs'[r] = NoRun
      /\ \A q \in Run \ {r} : runs'[q] = runs[q] /\ runs'[q].pc = "idle"
  BY <1>0, <1>1, <1>3, NoRunType, RunGoesAlone
<1>5. \A q \in Run : runs'[q].pc = "idle"
  BY <1>4, NoRunType
<1>6. CASE UNCHANGED offers
  BY <1>0, <1>4, <1>5, <1>6, OffersKept
     DEF SuggestionTypeOK, RepliesFit, AnsweredOnce, Offered
<1>7. ASSUME NEW o \in Offer, offers[o] = Absent, offers' = [offers EXCEPT ![o] = new]
      PROVE  SuggestionInv'
  <2>1. /\ new.status = "pending" /\ new.feedback = 0 /\ new # Absent
    BY <1>2, SuggestionAssumption
  <2> HIDE DEF new, c
  <2>2. /\ offers' \in [Offer -> OfferRow \cup {Absent, Deleted}]
        /\ \A q \in Offer : offers'[q] = IF q = o THEN new ELSE offers[q]
    BY <1>0, <1>2, <1>7 DEF SuggestionTypeOK
  <2>3. \A q \in Offer : offers'[q] = Absent => offers[q] = Absent
    BY <2>1, <2>2
  <2>4. \A q \in Offered' :
           /\ offers'[q].feedback = IF offers'[q].status = "pending" THEN 0 ELSE 1
           /\ made'[q] = IF offers'[q].status = "confirmed" THEN 1 ELSE 0
    BY <1>0, <1>7, <2>1, <2>2 DEF AnsweredOnce, NothingMadeYet, Offered
  <2>5. \A p \in Reply : replies'[p] # NoReply => offers'[replies'[p].offer] # Absent
    BY <1>0, <2>3 DEF RepliesFit, ReplyRecord
  <2> QED BY <1>0, <1>4, <1>5, <2>2, <2>3, <2>4, <2>5, OffersKept DEF SuggestionTypeOK
<1> QED BY <1>6, <1>7 DEF CreateSuggestion

LEMMA AnswerKeeps ==
  ASSUME SuggestionInv, NEW p \in Reply, AcceptSuggestion(p) \/ DismissSuggestion(p)
  PROVE  SuggestionInv'
<1> DEFINE o == replies[p].offer
<1>0. /\ SuggestionTypeOK /\ OneRun /\ AnsweredOnce /\ NothingMadeYet /\ RepliesFit
      /\ runs \in [Run -> RunRecord] /\ made \in [Offer -> Nat]
      /\ replies \in [Reply -> ReplyRecord]
      /\ IsOpen(o) /\ UNCHANGED <<log, relays, inFlight, runs>>
      /\ replies' = [replies EXCEPT ![p] = NoReply]
      /\ replies[p].kind # "none"
  BY DEF SuggestionInv, AcceptSuggestion, DismissSuggestion
<1>1. o \in Offer /\ offers[o] # Absent /\ offers[o] # Deleted /\ offers[o].status = "pending"
  BY <1>0 DEF ReplyRecord, NoReply, RepliesFit, IsOpen, Deleted
<1>2. o \in Offered /\ offers[o] \in OfferRow /\ offers[o].feedback = 0 /\ made[o] = 0
  BY <1>0, <1>1 DEF Offered, SuggestionTypeOK, AnsweredOnce
<1>3. \A q \in Reply : replies'[q] = IF q = p THEN NoReply ELSE replies[q]
  BY <1>0
<1>4. replies' \in [Reply -> ReplyRecord]
  BY <1>0 DEF ReplyRecord
<1> HIDE DEF o
<1>5. ASSUME NEW st \in {"confirmed", "rejected"}, Answered(o, st),
             made' = [q \in Offer |-> IF q = o /\ st = "confirmed" THEN made[q] + 1 ELSE made[q]],
             schedules' \subseteq Candidate
      PROVE  SuggestionInv'
  <2> DEFINE v == [habit |-> offers[o].habit, minute |-> offers[o].minute, status |-> st,
                   presented |-> offers[o].presented, answered |-> 0,
                   feedback |-> offers[o].feedback + 1]
  <2>1. /\ v \in OfferRow /\ v.status = st /\ v.feedback = 1
        /\ v.habit = offers[o].habit /\ v.minute = offers[o].minute
        /\ v.presented = offers[o].presented
    BY <1>2, SuggestionAssumption DEF OfferRow
  <2>2. offers' = [offers EXCEPT ![o] = v]
    BY <1>5, <1>0 DEF Answered, SuggestionTypeOK
  <2>3. v # Absent /\ v # Deleted
    BY <2>1, SuggestionAssumption DEF Deleted
  <2> HIDE DEF v
  <2>4. /\ offers' \in [Offer -> OfferRow \cup {Absent, Deleted}]
        /\ \A q \in Offer : offers'[q] = IF q = o THEN v ELSE offers[q]
    BY <1>0, <1>1, <2>1, <2>2 DEF SuggestionTypeOK
  <2>5. made' \in [Offer -> Nat] /\ \A q \in Offer \ {o} : made'[q] = made[q]
    BY <1>0, <1>5
  <2>6. made'[o] = IF st = "confirmed" THEN 1 ELSE 0
    BY <1>0, <1>1, <1>2, <1>5
  <2>7. \A q \in Offer : offers'[q] = Absent => offers[q] = Absent /\ made'[q] = made[q]
    BY <2>3, <2>4, <2>5
  <2>8. Offered' = Offered
    BY <1>2, <2>3, <2>4 DEF Offered
  <2>9. \A q \in Reply : replies'[q] # NoReply => offers'[replies'[q].offer] # Absent
    BY <1>0, <1>3, <2>7 DEF RepliesFit, ReplyRecord
  <2>10. \A q \in Offered' :
           /\ offers[q].presented > 0 => offers'[q].presented > 0
           /\ offers'[q].habit = offers[q].habit /\ offers'[q].minute = offers[q].minute
           /\ offers[q].status = "rejected" => offers'[q] = offers[q]
           /\ offers'[q].feedback = IF offers'[q].status = "pending" THEN 0 ELSE 1
           /\ made'[q] = IF offers'[q].status = "confirmed" THEN 1 ELSE 0
    BY <1>0, <1>1, <2>1, <2>4, <2>5, <2>6, <2>8 DEF AnsweredOnce, Offered
  <2>11. OneRun'
    BY <1>0 DEF OneRun
  <2> QED BY <1>0, <1>4, <1>5, <2>4, <2>5, <2>7, <2>8, <2>9, <2>10, <2>11, OffersKept
          DEF SuggestionTypeOK
<1>6. CASE AcceptSuggestion(p)
  <2>1. /\ Answered(o, "confirmed")
        /\ made' = [q \in Offer |-> IF q = o THEN made[q] + 1 ELSE made[q]]
        /\ schedules' = schedules \cup {<<offers[o].habit, offers[o].minute>>}
    BY <1>0, <1>6 DEF AcceptSuggestion, o
  <2>2. schedules' \subseteq Candidate
    BY <1>0, <1>2, <2>1 DEF SuggestionTypeOK, OfferRow, Candidate
  <2> QED BY <1>5, <2>1, <2>2
<1>7. CASE DismissSuggestion(p)
  <2>1. /\ Answered(o, "rejected") /\ made' = [q \in Offer |-> made[q]]
        /\ schedules' \subseteq Candidate
    BY <1>0, <1>7 DEF DismissSuggestion, SuggestionTypeOK, o
  <2> QED BY <1>5, <2>1
<1> QED BY <1>6, <1>7


LEMMA PeopleKeep ==
  ASSUME SuggestionInv,
         \/ \E p \in Reply, kind \in {"accept", "dismiss"}, o \in Offer : LoadForResponse(p, kind, o)
         \/ \E p \in Reply : RefuseReply(p)
         \/ \E c \in Candidate : ChangeRules(c)
         \/ RestartJob
  PROVE  SuggestionInv'
<1>0. /\ SuggestionTypeOK /\ OneRun /\ AnsweredOnce /\ NothingMadeYet /\ RepliesFit
      /\ runs \in [Run -> RunRecord] /\ made \in [Offer -> Nat]
      /\ replies \in [Reply -> ReplyRecord]
      /\ UNCHANGED <<log, relays, offers, made>>
  BY DEF SuggestionInv, LoadForResponse, RefuseReply, ChangeRules, RestartJob
<1>1. /\ schedules' \subseteq Candidate
      /\ \/ UNCHANGED <<inFlight, runs>>
         \/ inFlight' = Absent /\ runs' = [r \in Run |-> NoRun]
  <2>1. CASE \E c \in Candidate : ChangeRules(c)
    BY <1>0, <2>1 DEF SuggestionTypeOK, ChangeRules
  <2>2. CASE RestartJob
    BY <1>0, <2>2 DEF SuggestionTypeOK, RestartJob
  <2>3. CASE \/ \E p \in Reply, kind \in {"accept", "dismiss"}, o \in Offer :
                  LoadForResponse(p, kind, o)
             \/ \E p \in Reply : RefuseReply(p)
    BY <1>0, <2>3 DEF SuggestionTypeOK, LoadForResponse, RefuseReply
  <2> QED BY <2>1, <2>2, <2>3
<1>2. /\ replies' \in [Reply -> ReplyRecord]
      /\ \A p \in Reply : replies'[p] # NoReply => offers[replies'[p].offer] # Absent
  <2>1. ASSUME NEW p \in Reply, NEW kind \in {"accept", "dismiss"}, NEW o \in Offer,
               LoadForResponse(p, kind, o)
        PROVE  <1>2!1 /\ <1>2!2
    <3>1. [kind |-> kind, offer |-> o] \in ReplyRecord /\ offers[o] # Absent
      BY <2>1 DEF ReplyRecord, LoadForResponse, Offered
    <3> QED BY <1>0, <2>1, <3>1 DEF LoadForResponse, RepliesFit
  <2>2. NoReply \in ReplyRecord
    BY DEF ReplyRecord
  <2>3. CASE \E p \in Reply : RefuseReply(p)
    BY <1>0, <2>2, <2>3 DEF RefuseReply, RepliesFit
  <2>4. CASE RestartJob
    BY <1>0, <2>2, <2>4 DEF RestartJob
  <2>5. CASE \E c \in Candidate : ChangeRules(c)
    BY <1>0, <2>5 DEF ChangeRules, RepliesFit
  <2> QED BY <2>1, <2>3, <2>4, <2>5
<1>3. /\ runs' \in [Run -> RunRecord] /\ OneRun' /\ inFlight' \in Run \cup {Absent}
      /\ \A r \in Run : runs'[r] = runs[r] \/ runs'[r].pc = "idle"
  BY <1>0, <1>1, NoRunType DEF OneRun, SuggestionTypeOK
<1>4. Offered' = Offered
  BY <1>0 DEF Offered
<1> QED
  BY <1>0, <1>1, <1>2, <1>3, <1>4, OffersKept DEF SuggestionTypeOK, AnsweredOnce, Offered

LEMMA DeleteRelayKeeps ==
  ASSUME SuggestionInv, NEW h \in Habit, DeleteRelay(h)
  PROVE  SuggestionInv'
<1>0. /\ SuggestionTypeOK /\ OneRun /\ AnsweredOnce /\ NothingMadeYet /\ RepliesFit
      /\ runs \in [Run -> RunRecord] /\ made \in [Offer -> Nat]
      /\ replies \in [Reply -> ReplyRecord]
      /\ UNCHANGED <<log, inFlight, runs, replies, made>>
  BY DEF SuggestionInv, DeleteRelay
<1>1. \A o \in Offer : offers'[o] = IF o \in Offered /\ offers[o].habit = h THEN Deleted
                                    ELSE offers[o]
  BY DEF DeleteRelay
<1>2. /\ offers' \in [Offer -> OfferRow \cup {Absent, Deleted}]
      /\ schedules' \subseteq Candidate /\ relays' \subseteq Habit
  BY <1>0 DEF DeleteRelay, SuggestionTypeOK
<1>3. \A o \in Offer : offers'[o] = Absent => offers[o] = Absent
  BY <1>1, SuggestionAssumption
<1>4. \A o \in Offered' : o \in Offered /\ offers'[o] = offers[o]
  BY <1>1 DEF Offered
<1>5. \A p \in Reply : replies'[p] # NoReply => offers'[replies'[p].offer] # Absent
  BY <1>0, <1>3 DEF RepliesFit, ReplyRecord
<1>6. OneRun' /\ inFlight' \in Run \cup {Absent}
  BY <1>0 DEF OneRun, SuggestionTypeOK
<1> QED BY <1>0, <1>2, <1>3, <1>4, <1>5, <1>6, OffersKept DEF AnsweredOnce

\* Two numbers of a row are replaced.
AgedRow(old, p, a) == [old EXCEPT !.presented = p, !.answered = a]

LEMMA RowReplaced ==
  ASSUME NEW old \in OfferRow, NEW p \in 0..1, NEW a \in 0..RejectedDays + 1
  PROVE  LET v == AgedRow(old, p, a) IN
         /\ v \in OfferRow /\ v.habit = old.habit /\ v.minute = old.minute
         /\ v.status = old.status /\ v.feedback = old.feedback
         /\ v.presented = p /\ v.answered = a
<1> DEFINE w == [old EXCEPT !.presented = p]
           v == [w EXCEPT !.answered = a]
<1>1. /\ w \in OfferRow /\ w.habit = old.habit /\ w.minute = old.minute
      /\ w.status = old.status /\ w.feedback = old.feedback /\ w.presented = p
  BY DEF OfferRow
<1>2. AgedRow(old, p, a) = v
  BY Zenon DEF AgedRow
<1> HIDE DEF w
<1>3. /\ v \in OfferRow /\ v.habit = w.habit /\ v.minute = w.minute
      /\ v.status = w.status /\ v.feedback = w.feedback
      /\ v.presented = w.presented /\ v.answered = a
  BY <1>1 DEF OfferRow
<1> HIDE DEF v
<1> QED BY <1>1, <1>2, <1>3

\* A day older, a row keeps all that is not a number of days.
LEMMA OlderRow ==
  ASSUME NEW o \in Offered, offers[o] \in OfferRow
  PROVE  LET v == [offers[o] EXCEPT !.presented = Older(@, 1),
                     !.answered = IF offers[o].status = "rejected"
                                    THEN Older(@, RejectedDays + 1) ELSE 0] IN
         /\ v \in OfferRow
         /\ v.habit = offers[o].habit /\ v.minute = offers[o].minute
         /\ v.status = offers[o].status /\ v.feedback = offers[o].feedback
         /\ v.presented = 1
         /\ v.status = "rejected" /\ offers[o].answered > RejectedDays =>
              v.answered > RejectedDays
<1> DEFINE answered == IF offers[o].status = "rejected"
                       THEN Older(offers[o].answered, RejectedDays + 1) ELSE 0
           presented == Older(offers[o].presented, 1)
<1>1. presented = 1 /\ presented \in 0..1
  BY DEF OfferRow, Older
<1>2. /\ answered \in 0..RejectedDays + 1
      /\ offers[o].status = "rejected" /\ offers[o].answered > RejectedDays =>
           answered > RejectedDays
  BY SuggestionAssumption DEF OfferRow, Older
<1> DEFINE v == AgedRow(offers[o], presented, answered)
<1> HIDE DEF answered, presented
<1>3. /\ v \in OfferRow
      /\ v.habit = offers[o].habit /\ v.minute = offers[o].minute
      /\ v.status = offers[o].status /\ v.feedback = offers[o].feedback
      /\ v.presented = presented /\ v.answered = answered
  BY <1>1, <1>2, RowReplaced
<1> HIDE DEF v
<1>4. /\ v \in OfferRow
      /\ v.habit = offers[o].habit /\ v.minute = offers[o].minute
      /\ v.status = offers[o].status /\ v.feedback = offers[o].feedback
      /\ v.presented = 1
      /\ v.status = "rejected" /\ offers[o].answered > RejectedDays =>
           v.answered > RejectedDays
  BY <1>1, <1>2, <1>3
<1> QED BY <1>4 DEF AgedRow, v, answered, presented

LEMMA DayKeeps ==
  ASSUME SuggestionInv, DayPasses
  PROVE  SuggestionInv'
<1>0. /\ SuggestionTypeOK /\ OneRun /\ AnsweredOnce /\ NothingMadeYet /\ RepliesFit
      /\ runs \in [Run -> RunRecord] /\ made \in [Offer -> Nat]
      /\ replies \in [Reply -> ReplyRecord]
      /\ UNCHANGED <<log, relays, schedules, inFlight, runs, replies, made>>
  BY DEF SuggestionInv, DayPasses
<1> DEFINE v(o) == [offers[o] EXCEPT !.presented = Older(@, 1),
                      !.answered = IF offers[o].status = "rejected"
                                     THEN Older(@, RejectedDays + 1) ELSE 0]
<1>1. \A o \in Offer : offers'[o] = IF o \notin Offered THEN offers[o] ELSE v(o)
  BY DEF DayPasses
<1>2. \A o \in Offered :
        /\ v(o) \in OfferRow
        /\ v(o).habit = offers[o].habit /\ v(o).minute = offers[o].minute
        /\ v(o).status = offers[o].status /\ v(o).feedback = offers[o].feedback
        /\ v(o).presented = 1
        /\ v(o).status = "rejected" /\ offers[o].answered > RejectedDays =>
             v(o).answered > RejectedDays
  BY <1>0, OlderRow DEF SuggestionTypeOK, Offered
<1>3. offers' = [o \in Offer |-> IF o \notin Offered THEN offers[o] ELSE v(o)]
  BY DEF DayPasses
<1> HIDE DEF v
<1>4. offers' \in [Offer -> OfferRow \cup {Absent, Deleted}]
  BY <1>0, <1>2, <1>3 DEF SuggestionTypeOK
<1>5. \A o \in Offered : v(o) # Absent /\ v(o) # Deleted
  BY <1>0, <1>2, SuggestionAssumption DEF Deleted, SuggestionTypeOK, OfferRow
<1>6. \A o \in Offer : (offers'[o] = Absent <=> offers[o] = Absent) /\ (o \in Offered' <=> o \in Offered)
  BY <1>1, <1>5 DEF Offered
<1>7. \A o \in Offered' : o \in Offered /\ offers'[o] = v(o)
  BY <1>1, <1>6 DEF Offered
<1>8. \A p \in Reply : replies'[p] # NoReply => offers'[replies'[p].offer] # Absent
  BY <1>0, <1>6 DEF RepliesFit, ReplyRecord
<1>9. OneRun' /\ inFlight' \in Run \cup {Absent} /\ schedules' \subseteq Candidate /\ relays' \subseteq Habit
  BY <1>0 DEF OneRun, SuggestionTypeOK
<1>10. \A o \in Offered' :
           /\ offers'[o].presented > 0
           /\ offers'[o].habit = offers[o].habit /\ offers'[o].minute = offers[o].minute
           /\ offers[o].status = "rejected" => offers'[o].status = "rejected"
           /\ offers[o].status = "rejected" /\ offers[o].answered > RejectedDays =>
                offers'[o].answered > RejectedDays
           /\ offers'[o].feedback = IF offers'[o].status = "pending" THEN 0 ELSE 1
           /\ made'[o] = IF offers'[o].status = "confirmed" THEN 1 ELSE 0
  BY <1>0, <1>2, <1>7 DEF AnsweredOnce
<1> QED BY <1>0, <1>4, <1>6, <1>7, <1>8, <1>9, <1>10, OffersKept

LEMMA SuggestionStep == SuggestionInv /\ [SuggestionNext]_suggestionVars => SuggestionInv'
<1>1. SuggestionInv /\ SuggestionNext => SuggestionInv'
  BY LookingKeeps, CreateKeeps, AnswerKeeps, PeopleKeep, DeleteRelayKeeps, DayKeeps
  DEF SuggestionNext, RunStep, ReplyStep
<1>2. SuggestionInv /\ UNCHANGED suggestionVars => SuggestionInv'
  BY DEF SuggestionInv, SuggestionTypeOK, OneRun, SeenByRun, Spares, RepliesFit, NothingMadeYet,
     AnsweredOnce, Offered, suggestionVars
<1> QED BY <1>1, <1>2


LEMMA SuggestionInvariance == SuggestionSpec => []SuggestionInv
  BY SuggestionInvInit, SuggestionStep, PTL DEF SuggestionSpec

\* A suggestion has one answer, and makes a rule exactly when that is yes.
THEOREM SuggestionsAnsweredOnce == SuggestionSpec => []AnsweredOnce
<1>1. SuggestionInv => AnsweredOnce
  BY DEF SuggestionInv
<1> QED BY <1>1, SuggestionInvariance, PTL

\* What NobodyIsPestered says of a step.
AsksNobodyTwice ==
  \A o \in Offer : offers[o] = Absent /\ offers'[o] # Absent =>
    \A q \in Offered :
      /\ offers[q].presented > 0
      /\ offers[q].habit = offers'[o].habit /\ Near(offers[q].minute, offers'[o].minute)
           => offers[q].status = "rejected" /\ offers[q].answered > RejectedDays

LEMMA SuggestionStepAsks == SuggestionInv /\ SuggestionNext => AsksNobodyTwice
<1> SUFFICES ASSUME SuggestionInv, SuggestionNext, NEW o \in Offer, offers[o] = Absent,
                    offers'[o] # Absent, NEW q \in Offered
             PROVE  /\ offers[q].presented > 0
                    /\ offers[q].habit = offers'[o].habit
                         /\ Near(offers[q].minute, offers'[o].minute)
                         => offers[q].status = "rejected" /\ offers[q].answered > RejectedDays
  BY DEF AsksNobodyTwice
<1>0. /\ offers \in [Offer -> OfferRow \cup {Absent, Deleted}] /\ SeenByRun
      /\ replies \in [Reply -> ReplyRecord] /\ RepliesFit
  BY DEF SuggestionInv, SuggestionTypeOK
<1>1. PICK r \in Run : CreateSuggestion(r)
  <2>1. ASSUME NEW r \in Run, RunStep(r) PROVE CreateSuggestion(r)
    BY <2>1 DEF RunStep, StartRun, CheckRecent, LoadEvents, CheckSuggestions, CheckRules,
       RunFails
  <2>2. ASSUME NEW p \in Reply, AcceptSuggestion(p) \/ DismissSuggestion(p) PROVE FALSE
    <3>1. /\ replies[p] # NoReply
          /\ \E v : offers' = [offers EXCEPT ![replies[p].offer] = v]
      BY <2>2 DEF AcceptSuggestion, DismissSuggestion, Answered, NoReply
    <3> QED BY <1>0, <3>1 DEF RepliesFit
  <2>3. ASSUME NEW p \in Reply, ReplyStep(p) PROVE FALSE
    BY <2>2, <2>3 DEF ReplyStep, LoadForResponse, RefuseReply
  <2>4. CASE DayPasses \/ RestartJob \/ \E c \in Candidate : ChangeRules(c)
    BY <2>4 DEF DayPasses, RestartJob, ChangeRules, Offered
  <2>5. CASE \E h \in Habit : DeleteRelay(h)
    BY <2>5 DEF DeleteRelay, Offered
  <2> QED BY <2>1, <2>3, <2>4, <2>5 DEF SuggestionNext
<1> DEFINE c == runs[r].candidate
           new == [habit |-> c[1], minute |-> c[2], status |-> "pending",
                   presented |-> 0, answered |-> 0, feedback |-> 0]
<1>2. PICK k \in Offer : offers[k] = Absent /\ offers' = [offers EXCEPT ![k] = new]
  BY <1>1 DEF CreateSuggestion
<1>3. offers'[o].habit = c[1] /\ offers'[o].minute = c[2]
  BY <1>0, <1>2
<1>4. runs[r].pc = "insert"
  BY <1>1 DEF CreateSuggestion
<1> QED BY <1>0, <1>3, <1>4 DEF SeenByRun, Spares

\* Nobody is asked twice: a new suggestion is the home's first of the day, and
\* one like it was made before only to be rejected long ago.
THEOREM SuggestionsPesterNobody == SuggestionSpec => NobodyIsPestered
<1>1. SuggestionInv /\ [SuggestionNext]_suggestionVars => [AsksNobodyTwice]_suggestionVars
  BY SuggestionStepAsks
<1>2. SuggestionSpec => [][AsksNobodyTwice]_suggestionVars
  BY <1>1, SuggestionInvariance, PTL DEF SuggestionSpec
<1> QED BY <1>2 DEF NobodyIsPestered, AsksNobodyTwice

-----------------------------------------------------------------------------
(***************************************************************************)
(* The circle of the day (HabitPattern).                                   *)
(***************************************************************************)
\* Quotient and remainder,
LEMMA DivMod ==
  ASSUME NEW x \in Int, NEW d \in Nat \ {0}
  PROVE  x \div d \in Int /\ x % d \in 0..d - 1 /\ x = d * (x \div d) + (x % d)
OBVIOUS

LEMMA SmallProduct ==
  ASSUME NEW d \in Nat \ {0}, NEW z \in Int, -d < d * z, d * z < d
  PROVE  z = 0
OBVIOUS

\* and that no other numbers are.
LEMMA DivUnique ==
  ASSUME NEW x \in Int, NEW d \in Nat \ {0}, NEW q \in Int, NEW r \in 0..d - 1,
         x = d * q + r
  PROVE  x % d = r /\ x \div d = q
<1>1. x \div d \in Int /\ x % d \in 0..d - 1 /\ x = d * (x \div d) + (x % d)
  BY DivMod
<1>2. d * (q - (x \div d)) = (x % d) - r
  BY <1>1
<1>3. q - (x \div d) = 0
  BY <1>1, <1>2, SmallProduct
<1>4. QED
  BY <1>1, <1>3

\* The clock turned by k minutes, and a log turned with it.
Turned(a, k) == (a + k) % Day
TurnedEvent(e, k) == [e EXCEPT !.minute = (@ + k) % Day]
TurnedLog(es, k) == {TurnedEvent(e, k) : e \in es}

\* Within one turn to either side the remainder is the minute meant.
LEMMA OneTurn ==
  ASSUME NEW x \in Int
  PROVE  /\ x \in 0..Day - 1 => x % Day = x
         /\ x \in Day..2 * Day - 1 => x % Day = x - Day
         /\ x \in -Day..-1 => x % Day = x + Day
<1>. Day \in Nat \ {0}
  BY PatternAssumption
<1>1. ASSUME x \in 0..Day - 1
      PROVE  x % Day = x
  BY <1>1, DivUnique, x = Day * 0 + x
<1>2. ASSUME x \in Day..2 * Day - 1
      PROVE  x % Day = x - Day
  <2>1. x = Day * 1 + (x - Day) /\ x - Day \in 0..Day - 1
    BY <1>2
  <2>2. QED
    BY <2>1, DivUnique
<1>3. ASSUME x \in -Day..-1
      PROVE  x % Day = x + Day
  <2>1. x = Day * (-1) + (x + Day) /\ x + Day \in 0..Day - 1
    BY <1>3
  <2>2. QED
    BY <2>1, DivUnique
<1>4. QED
  BY <1>1, <1>2, <1>3

LEMMA TurnedMinute ==
  ASSUME NEW a \in MinuteOfDay, NEW k \in MinuteOfDay
  PROVE  /\ Turned(a, k) \in MinuteOfDay
         /\ Turned(a, k) = a + k \/ Turned(a, k) = a + k - Day
<1>. Day \in Nat \ {0} /\ a \in 0..Day - 1 /\ k \in 0..Day - 1
  BY PatternAssumption DEF MinuteOfDay
<1>1. CASE a + k \in 0..Day - 1
  BY <1>1, OneTurn DEF Turned, MinuteOfDay
<1>2. CASE a + k \in Day..2 * Day - 1
  BY <1>2, OneTurn DEF Turned, MinuteOfDay
<1>3. QED
  BY <1>1, <1>2

\* Turning the clock changes no distance.
LEMMA SameDistance ==
  ASSUME NEW a \in MinuteOfDay, NEW b \in MinuteOfDay, NEW k \in MinuteOfDay
  PROVE  (Turned(a, k) - Turned(b, k)) % Day = (a - b) % Day
<1>. Day \in Nat \ {0} /\ a \in 0..Day - 1 /\ b \in 0..Day - 1
  BY PatternAssumption DEF MinuteOfDay
<1>. DEFINE x == Turned(a, k)
            y == Turned(b, k)
<1>1. /\ x \in 0..Day - 1 /\ (x = a + k \/ x = a + k - Day)
      /\ y \in 0..Day - 1 /\ (y = b + k \/ y = b + k - Day)
  BY TurnedMinute DEF MinuteOfDay
<1>2. k \in Int
  BY DEF MinuteOfDay
<1>. HIDE DEF x, y
<1>3. x - y \in Int /\ a - b \in Int /\ x - y \in {a - b, a - b + Day, a - b - Day}
  BY <1>1, <1>2
<1>4. CASE a - b \in 0..Day - 1
  <2>1. x - y \in {a - b, a - b - Day}
    BY <1>1, <1>3, <1>4
  <2>2. (a - b) % Day = a - b
    BY <1>3, <1>4, OneTurn
  <2>3. ASSUME x - y = a - b - Day
        PROVE  (x - y) % Day = a - b
    <3>1. x - y \in -Day..-1
      BY <1>1, <1>3, <1>4, <2>3
    <3>2. QED
      BY <1>3, <2>3, <3>1, OneTurn
  <2>4. QED
    BY <2>1, <2>2, <2>3 DEF x, y
<1>5. CASE a - b \in -Day..-1
  <2>1. x - y \in {a - b, a - b + Day}
    BY <1>1, <1>3, <1>5
  <2>2. (a - b) % Day = a - b + Day
    BY <1>3, <1>5, OneTurn
  <2>3. ASSUME x - y = a - b + Day
        PROVE  (x - y) % Day = a - b + Day
    <3>1. x - y \in 0..Day - 1
      BY <1>1, <1>3, <1>5, <2>3
    <3>2. QED
      BY <1>3, <2>3, <3>1, OneTurn
  <2>4. QED
    BY <2>1, <2>2, <2>3 DEF x, y
<1>6. QED
  BY <1>4, <1>5

LEMMA SameDiff ==
  ASSUME NEW a \in MinuteOfDay, NEW b \in MinuteOfDay, NEW k \in MinuteOfDay
  PROVE  /\ CircularDiff(Turned(a, k), Turned(b, k)) = CircularDiff(a, b)
         /\ SignedDiff(Turned(a, k), Turned(b, k)) = SignedDiff(a, b)
         /\ Near(Turned(a, k), Turned(b, k)) <=> Near(a, b)
<1>1. (Turned(a, k) - Turned(b, k)) % Day = (a - b) % Day
  BY SameDistance
<1>2. CircularDiff(Turned(a, k), Turned(b, k)) = CircularDiff(a, b)
  BY <1>1 DEF CircularDiff
<1>3. SignedDiff(Turned(a, k), Turned(b, k)) = SignedDiff(a, b)
  BY <1>1 DEF SignedDiff
<1>4. QED
  BY <1>2, <1>3 DEF Near

\* So it changes no set of dates, no event that is kept and no assignment.
LEMMA SameDates ==
  ASSUME NEW es, es \subseteq [date : Nat, minute : MinuteOfDay],
         NEW a \in MinuteOfDay, NEW k \in MinuteOfDay
  PROVE  DatesNear(TurnedLog(es, k), Turned(a, k)) = DatesNear(es, a)
<1>1. \A e \in es : /\ TurnedEvent(e, k).date = e.date
                    /\ TurnedEvent(e, k).minute = Turned(e.minute, k)
                    /\ e.minute \in MinuteOfDay
  BY DEF TurnedEvent, Turned
<1>2. \A e \in es : Near(TurnedEvent(e, k).minute, Turned(a, k)) <=> Near(e.minute, a)
  BY <1>1, SameDiff
<1>3. \A x : x \in DatesNear(TurnedLog(es, k), Turned(a, k)) <=> x \in DatesNear(es, a)
  BY <1>1, <1>2 DEF DatesNear, TurnedLog
<1>4. QED
  BY <1>3

LEMMA SameKept ==
  ASSUME NEW es, es \subseteq [date : Nat, minute : MinuteOfDay],
         NEW a \in MinuteOfDay, NEW k \in MinuteOfDay, NEW d, NEW e \in es
  PROVE  TurnedEvent(e, k) \in Kept(TurnedLog(es, k), Turned(a, k), d) <=> e \in Kept(es, a, d)
<1>1. \A f \in es : /\ TurnedEvent(f, k).date = f.date
                    /\ TurnedEvent(f, k).minute = Turned(f.minute, k)
                    /\ f.minute \in MinuteOfDay
  BY DEF TurnedEvent, Turned
<1>2. \A f \in es : CircularDiff(TurnedEvent(f, k).minute, Turned(a, k)) = CircularDiff(f.minute, a)
  BY <1>1, SameDiff
<1>3. QED
  BY <1>1, <1>2 DEF Kept, TurnedLog

LEMMA SameDeltas ==
  ASSUME NEW es, es \subseteq [date : Nat, minute : MinuteOfDay],
         NEW a \in MinuteOfDay, NEW k \in MinuteOfDay
  PROVE  Deltas(TurnedLog(es, k), Turned(a, k)) = Deltas(es, a)
<1>1. DatesNear(TurnedLog(es, k), Turned(a, k)) = DatesNear(es, a)
  BY SameDates
<1>2. \A e \in es : SignedDiff(TurnedEvent(e, k).minute, Turned(a, k)) = SignedDiff(e.minute, a)
  <2>1. \A e \in es : /\ TurnedEvent(e, k).minute = Turned(e.minute, k)
                      /\ e.minute \in MinuteOfDay
    BY DEF TurnedEvent, Turned
  <2>2. QED
    BY <2>1, SameDiff
<1>3. \A d, v :
        (\E e \in Kept(TurnedLog(es, k), Turned(a, k), d) : v = SignedDiff(e.minute, Turned(a, k)))
          <=> \E e \in Kept(es, a, d) : v = SignedDiff(e.minute, a)
  <2>. TAKE d, v
  <2>1. \A e : e \in Kept(TurnedLog(es, k), Turned(a, k), d) => \E f \in es : e = TurnedEvent(f, k)
    BY DEF Kept, TurnedLog
  <2>2. \A e \in Kept(es, a, d) : e \in es
    BY DEF Kept
  <2>3. \A f \in es : TurnedEvent(f, k) \in Kept(TurnedLog(es, k), Turned(a, k), d)
                        <=> f \in Kept(es, a, d)
    BY SameKept
  <2>4. QED
    BY <1>2, <2>1, <2>2, <2>3
<1>4. \A delta : delta \in Deltas(TurnedLog(es, k), Turned(a, k)) <=> delta \in Deltas(es, a)
  <2>1. ASSUME NEW delta \in [DatesNear(es, a) -> -Radius..Radius], NEW x
        PROVE  (\E e \in Kept(TurnedLog(es, k), Turned(a, k), x) :
                  delta[x] = SignedDiff(e.minute, Turned(a, k)))
                 <=> \E e \in Kept(es, a, x) : delta[x] = SignedDiff(e.minute, a)
    <3>1. PICK w : w = delta[x]
      OBVIOUS
    <3>2. (\E e \in Kept(TurnedLog(es, k), Turned(a, k), x) : w = SignedDiff(e.minute, Turned(a, k)))
            <=> \E e \in Kept(es, a, x) : w = SignedDiff(e.minute, a)
      BY <1>3
    <3>3. QED
      BY <3>1, <3>2
  <2>2. QED
    BY <1>1, <2>1 DEF Deltas
<1>5. QED
  BY <1>4

LEMMA SameMedian ==
  ASSUME NEW es, es \subseteq [date : Nat, minute : MinuteOfDay],
         NEW a \in MinuteOfDay, NEW k \in MinuteOfDay
  PROVE  TwiceMedian(TurnedLog(es, k), Turned(a, k)) = TwiceMedian(es, a)
BY SameDeltas DEF TwiceMedian

LEMMA MedianWithinRadius ==
  ASSUME NEW es, NEW a
  PROVE  TwiceMedian(es, a) \subseteq -(2 * Radius)..2 * Radius
<1>1. Radius \in Nat
  BY PatternAssumption
<1>2. ASSUME NEW delta \in Deltas(es, a), NEW k, NEW v \in AtPlace(delta, k)
      PROVE  v \in -Radius..Radius
  <2>1. PICK d \in DOMAIN delta : v = delta[d]
    BY DEF AtPlace
  <2>2. delta \in [DatesNear(es, a) -> -Radius..Radius]
    BY DEF Deltas
  <2>3. QED
    BY <1>1, <2>1, <2>2
<1>3. ASSUME NEW t \in TwiceMedian(es, a)
      PROVE  t \in -(2 * Radius)..2 * Radius
  <2>1. PICK delta \in Deltas(es, a) :
          \E low \in AtPlace(delta, (Cardinality(DOMAIN delta) + 1) \div 2),
             high \in AtPlace(delta, (Cardinality(DOMAIN delta) \div 2) + 1) : t = low + high
    BY DEF TwiceMedian
  <2>2. PICK low \in -Radius..Radius, high \in -Radius..Radius : t = low + high
    BY <1>2, <2>1
  <2>3. QED
    BY <1>1, <2>2
<1>4. QED
  BY <1>3

LEMMA BestTurns ==
  ASSUME NEW es, es \subseteq [date : Nat, minute : MinuteOfDay], NEW k \in MinuteOfDay
  PROVE  BestAnchors(TurnedLog(es, k)) = {Turned(a, k) : a \in BestAnchors(es)}
<1>. DEFINE ts == TurnedLog(es, k)
<1>1. \A e \in es : TurnedEvent(e, k).minute = Turned(e.minute, k) /\ e.minute \in MinuteOfDay
  BY DEF TurnedEvent, Turned
<1>2. \A a \in MinuteOfDay : DatesNear(ts, Turned(a, k)) = DatesNear(es, a)
  BY SameDates
<1>3. \A f : f \in ts <=> \E e \in es : f = TurnedEvent(e, k)
  BY DEF TurnedLog
<1>. HIDE DEF ts
<1>4. ASSUME NEW e \in es
      PROVE  Turned(e.minute, k) \in BestAnchors(ts) <=> e.minute \in BestAnchors(es)
  <2>1. Turned(e.minute, k) \in {f.minute : f \in ts}
    BY <1>1, <1>3
  <2>2. (\A f \in ts : Cardinality(DatesNear(ts, f.minute))
                         <= Cardinality(DatesNear(ts, Turned(e.minute, k))))
          <=> \A f \in es : Cardinality(DatesNear(es, f.minute))
                              <= Cardinality(DatesNear(es, e.minute))
    BY <1>1, <1>2, <1>3
  <2>3. QED
    BY <2>1, <2>2 DEF BestAnchors
<1>5. \A b \in BestAnchors(ts) : \E e \in es : b = Turned(e.minute, k)
  BY <1>1, <1>3 DEF BestAnchors
<1>6. \A a \in BestAnchors(es) : \E e \in es : a = e.minute
  BY DEF BestAnchors
<1>7. \A b : b \in BestAnchors(ts) <=> \E a \in BestAnchors(es) : b = Turned(a, k)
  BY <1>4, <1>5, <1>6
<1>8. QED
  BY <1>7 DEF ts

\* A turn by whole steps turns what is rounded.
LEMMA WholeSteps ==
  ASSUME NEW x \in Int, NEW d \in Nat \ {0}, NEW i \in Int
  PROVE  (x + d * i) \div d = (x \div d) + i /\ (x + d * i) % d = x % d
<1>1. x \div d \in Int /\ x % d \in 0..d - 1 /\ x = d * (x \div d) + (x % d)
  BY DivMod
<1>2. PICK q \in Int, r \in 0..d - 1 : q = x \div d /\ r = x % d /\ x = d * q + r
  BY <1>1
<1>3. PICK y \in Int : y = x + d * i
  OBVIOUS
<1>4. y = d * (q + i) + r /\ q + i \in Int
  BY <1>2, <1>3
<1>5. y % d = r /\ y \div d = q + i
  BY <1>4, DivUnique
<1>6. QED
  BY <1>2, <1>3, <1>5

LEMMA TurnOnce ==
  ASSUME NEW x \in Int, NEW k \in Int
  PROVE  (x + k) % Day = ((x % Day) + k) % Day /\ (x + k - Day) % Day = ((x % Day) + k) % Day
<1>. Day \in Nat \ {0}
  BY PatternAssumption
<1>. DEFINE q == x \div Day
            r == x % Day
<1>1. q \in Int /\ r \in Int /\ x = Day * q + r
  BY DivMod
<1>. HIDE DEF q, r
<1>2. x + k = (r + k) + Day * q /\ x + k - Day = (r + k) + Day * (q - 1)
  BY <1>1
<1>3. PICK m \in Int, o \in Int : m = r + k /\ o = q - 1
  BY <1>1
<1>4. (m + Day * q) % Day = m % Day /\ (m + Day * o) % Day = m % Day
  BY <1>1, WholeSteps
<1>5. ((r + k) + Day * q) % Day = (r + k) % Day
  BY <1>3, <1>4
<1>6. ((r + k) + Day * (q - 1)) % Day = (r + k) % Day
  BY <1>3, <1>4
<1>7. QED
  BY <1>2, <1>5, <1>6 DEF r

LEMMA RoundedTurns ==
  ASSUME NEW a \in MinuteOfDay, NEW k \in MinuteOfDay, k % Step = 0, NEW t \in Int
  PROVE  Rounded(Turned(a, k), t) = Turned(Rounded(a, t), k)
<1>. Day \in Nat \ {0} /\ Step \in Nat \ {0} /\ a \in Int /\ k \in Int
  BY PatternAssumption DEF MinuteOfDay
<1>. DEFINE x == 2 * a + t + Step
            n == x \div (2 * Step)
<1>1. x \in Int /\ 2 * Step \in Nat \ {0}
  OBVIOUS
<1>2. n \in Int
  BY <1>1, DivMod
<1>3. PICK i \in Int : k = Step * i
  <2>1. k = Step * (k \div Step) + (k % Step) /\ k \div Step \in Int
    BY DivMod
  <2>2. QED
    BY <2>1
<1>4. PICK c \in Int : Day = Step * c
  <2>1. Day = Step * (Day \div Step) + 0 /\ Day \div Step \in Int
    BY DivMod, PatternAssumption
  <2>2. QED
    BY <2>1
<1>5. Turned(Rounded(a, t), k) = (((n * Step) % Day) + k) % Day
  BY DEF Rounded, Turned
<1>6. CASE Turned(a, k) = a + k
  <2>1. 2 * (a + k) + t + Step = x + (2 * Step) * i
    BY <1>3
  <2>2. (2 * (a + k) + t + Step) \div (2 * Step) = n + i
    <3>. HIDE DEF x
    <3>1. (x + (2 * Step) * i) \div (2 * Step) = (x \div (2 * Step)) + i
      BY <1>1, WholeSteps
    <3>2. QED
      BY <2>1, <3>1
  <2>3. (n + i) * Step = n * Step + k /\ n * Step \in Int
    <3>. HIDE DEF n
    <3>1. n \in Int /\ Step \in Int
      BY <1>2
    <3>2. QED
      BY <1>3, <3>1
  <2>4. Rounded(a + k, t) = (n * Step + k) % Day
    BY <2>2, <2>3 DEF Rounded
  <2>. HIDE DEF n
  <2>5. QED
    BY <1>5, <1>6, <2>3, <2>4, TurnOnce
<1>7. CASE Turned(a, k) = a + k - Day
  <2>1. 2 * (a + k - Day) + t + Step = x + (2 * Step) * (i - c)
    BY <1>3, <1>4
  <2>2. (2 * (a + k - Day) + t + Step) \div (2 * Step) = n + (i - c)
    <3>. HIDE DEF x
    <3>1. PICK j \in Int : j = i - c
      OBVIOUS
    <3>2. (x + (2 * Step) * j) \div (2 * Step) = (x \div (2 * Step)) + j
      BY <1>1, WholeSteps
    <3>3. QED
      BY <2>1, <3>1, <3>2
  <2>3. (n + (i - c)) * Step = n * Step + k - Day /\ n * Step \in Int
    <3>. HIDE DEF n
    <3>1. n \in Int /\ Step \in Int
      BY <1>2
    <3>2. QED
      BY <1>3, <1>4, <3>1
  <2>4. Rounded(a + k - Day, t) = (n * Step + k - Day) % Day
    BY <2>2, <2>3 DEF Rounded
  <2>. HIDE DEF n
  <2>5. QED
    BY <1>5, <1>7, <2>3, <2>4, TurnOnce
<1>8. QED
  BY <1>6, <1>7, TurnedMinute

\* What is found in the log turned by whole steps is what is found, turned.
LEMMA PatternTurnsWith ==
  ASSUME NEW es, es \subseteq [date : Nat, minute : MinuteOfDay],
         NEW k \in MinuteOfDay, k % Step = 0
  PROVE  FindPattern(TurnedLog(es, k))
           = {[p EXCEPT !.minute = (@ + k) % Day] : p \in FindPattern(es)}
<1>. DEFINE ts == TurnedLog(es, k)
            Found(a, t) == [minute |-> Rounded(a, t), daysMatched |-> Cardinality(DatesNear(es, a))]
<1>1. \A a \in BestAnchors(es) : a \in MinuteOfDay
  BY DEF BestAnchors
<1>2. \A a \in MinuteOfDay : /\ DatesNear(ts, Turned(a, k)) = DatesNear(es, a)
                             /\ TwiceMedian(ts, Turned(a, k)) = TwiceMedian(es, a)
  BY SameDates, SameMedian
<1>3. BestAnchors(ts) = {Turned(a, k) : a \in BestAnchors(es)}
  BY BestTurns
<1>4. \A p : p \in FindPattern(es) <=>
        \E a \in BestAnchors(es) :
          Cardinality(DatesNear(es, a)) >= MinDays /\ \E t \in TwiceMedian(es, a) : p = Found(a, t)
  BY DEF FindPattern
<1>5. \A p : p \in FindPattern(ts) <=>
        \E b \in BestAnchors(ts) :
          /\ Cardinality(DatesNear(ts, b)) >= MinDays
          /\ \E t \in TwiceMedian(ts, b) :
               p = [minute |-> Rounded(b, t), daysMatched |-> Cardinality(DatesNear(ts, b))]
  BY DEF FindPattern
<1>. HIDE DEF ts
<1>6. ASSUME NEW a \in BestAnchors(es), NEW t \in TwiceMedian(es, a)
      PROVE  [minute |-> Rounded(Turned(a, k), t),
              daysMatched |-> Cardinality(DatesNear(ts, Turned(a, k)))]
               = [Found(a, t) EXCEPT !.minute = (@ + k) % Day]
  <2>1. t \in Int /\ a \in MinuteOfDay
    BY <1>1, MedianWithinRadius, PatternAssumption
  <2>2. Rounded(Turned(a, k), t) = (Rounded(a, t) + k) % Day
    BY <2>1, RoundedTurns DEF Turned
  <2>3. DatesNear(ts, Turned(a, k)) = DatesNear(es, a)
    BY <1>2, <2>1
  <2>4. QED
    BY <2>2, <2>3
<1>7. \A p : p \in FindPattern(ts) <=>
        \E a \in BestAnchors(es) :
          /\ Cardinality(DatesNear(es, a)) >= MinDays
          /\ \E t \in TwiceMedian(es, a) :
               p = [minute |-> Rounded(Turned(a, k), t),
                    daysMatched |-> Cardinality(DatesNear(ts, Turned(a, k)))]
  BY <1>1, <1>2, <1>3, <1>5
<1>. HIDE DEF Found
<1>8. ASSUME NEW p \in FindPattern(ts)
      PROVE  \E q \in FindPattern(es) : p = [q EXCEPT !.minute = (@ + k) % Day]
  <2>1. PICK a, t :
          /\ a \in BestAnchors(es)
          /\ t \in TwiceMedian(es, a)
          /\ Cardinality(DatesNear(es, a)) >= MinDays
          /\ p = [minute |-> Rounded(Turned(a, k), t),
                  daysMatched |-> Cardinality(DatesNear(ts, Turned(a, k)))]
    BY <1>7
  <2>2. Found(a, t) \in FindPattern(es)
    BY <1>4, <2>1
  <2>3. p = [Found(a, t) EXCEPT !.minute = (@ + k) % Day]
    BY <1>6, <2>1
  <2>4. QED
    BY <2>2, <2>3
<1>9. ASSUME NEW q \in FindPattern(es)
      PROVE  [q EXCEPT !.minute = (@ + k) % Day] \in FindPattern(ts)
  <2>1. PICK a, t :
          /\ a \in BestAnchors(es) /\ t \in TwiceMedian(es, a)
          /\ Cardinality(DatesNear(es, a)) >= MinDays /\ q = Found(a, t)
    BY <1>4
  <2>2. [q EXCEPT !.minute = (@ + k) % Day]
          = [minute |-> Rounded(Turned(a, k), t),
             daysMatched |-> Cardinality(DatesNear(ts, Turned(a, k)))]
    BY <1>6, <2>1
  <2>3. QED
    BY <1>7, <2>1, <2>2
<1>10. FindPattern(ts) = {[q EXCEPT !.minute = (@ + k) % Day] : q \in FindPattern(es)}
  BY <1>8, <1>9
<1>11. QED
  BY <1>10 DEF ts

\* The way round the circle is not longer than the way straight on.
LEMMA MultipleOf ==
  ASSUME NEW d \in Nat \ {0}, NEW z \in Int
  PROVE  d * z \in Int /\ (z >= 0 => d * z >= 0) /\ (z < 0 => d * z <= -d)
OBVIOUS

LEMMA NotFarther ==
  ASSUME NEW a \in MinuteOfDay, NEW y \in Int
  PROVE  CircularDiff((a + y) % Day, a) <= IF y >= 0 THEN y ELSE -y
<1>. Day \in Nat \ {0} /\ a \in Int
  BY PatternAssumption DEF MinuteOfDay
<1>. DEFINE q == y \div Day
            raw == y % Day
<1>1. q \in Int /\ raw \in 0..Day - 1 /\ y = Day * q + raw
  BY DivMod
<1>2. (((a + y) % Day) - a) % Day = raw
  <2>1. PICK x \in Int, k \in Int : x = a + y /\ k = -a
    OBVIOUS
  <2>2. (x + k) % Day = ((x % Day) + k) % Day
    BY TurnOnce
  <2>3. x + k = y /\ (x % Day) + k = ((a + y) % Day) - a
    <3>1. x % Day \in Int
      BY DivMod
    <3>2. QED
      BY <2>1, <3>1
  <2>4. QED
    BY <2>2, <2>3
<1>3. CircularDiff((a + y) % Day, a) = IF 2 * raw > Day THEN Day - raw ELSE raw
  BY <1>2 DEF CircularDiff
<1>. HIDE DEF q, raw
<1>4. PICK turns \in Int : /\ turns = Day * q /\ (q >= 0 => turns >= 0)
                           /\ (q < 0 => turns <= -Day)
  BY <1>1, MultipleOf
<1>5. y = turns + raw
  BY <1>1, <1>4
<1>6. QED
  BY <1>1, <1>3, <1>4, <1>5

\* What is rounded is a multiple of the step on the clock, and near its anchor.
LEMMA RoundedNear ==
  ASSUME NEW a \in MinuteOfDay, NEW t \in -(2 * Radius)..2 * Radius
  PROVE  /\ Rounded(a, t) \in MinuteOfDay /\ Rounded(a, t) % Step = 0
         /\ 2 * CircularDiff(Rounded(a, t), a) <= 2 * Radius + Step
<1>. /\ Day \in Nat \ {0} /\ Step \in Nat \ {0} /\ Radius \in Nat
     /\ a \in Int /\ t \in Int
  BY PatternAssumption DEF MinuteOfDay
<1>. DEFINE x == 2 * a + t + Step
            n == x \div (2 * Step)
            up == n * Step
<1>1. x \in Int /\ 2 * Step \in Nat \ {0}
  OBVIOUS
<1>2. n \in Int /\ (2 * Step) * n <= x /\ x < (2 * Step) * n + 2 * Step
  <2>. HIDE DEF x
  <2>1. n \in Int /\ x % (2 * Step) \in 0..2 * Step - 1
    BY <1>1, DivMod
  <2>2. x = (2 * Step) * n + (x % (2 * Step))
    BY <1>1, DivMod
  <2>. HIDE DEF n
  <2>3. QED
    BY <2>1, <2>2
<1>3. Rounded(a, t) = up % Day
  BY DEF Rounded
<1>. HIDE DEF n
<1>4. up \in Int /\ (2 * Step) * n = 2 * up
  BY <1>2
<1>. HIDE DEF up
<1>5. 2 * up <= 2 * a + t + Step /\ 2 * a + t - Step < 2 * up
  BY <1>2, <1>4
<1>6. Rounded(a, t) \in MinuteOfDay
  BY <1>3, <1>4, DivMod DEF MinuteOfDay
<1>7. Rounded(a, t) % Step = 0
  <2>1. PICK c \in Int : Day = Step * c
    <3>1. Day = Step * (Day \div Step) + 0 /\ Day \div Step \in Int
      BY DivMod, PatternAssumption
    <3>2. QED
      BY <3>1
  <2>2. PICK q \in Int : up = Day * q + (up % Day)
    <3>1. up = Day * (up \div Day) + (up % Day) /\ up \div Day \in Int
      BY <1>4, DivMod
    <3>2. QED
      BY <3>1
  <2>3. PICK m \in Int : m = up % Day
    <3>1. up % Day \in 0..Day - 1
      BY <1>4, DivMod
    <3>2. QED
      BY <3>1
  <2>4. m = Step * (n - c * q) + 0 /\ n - c * q \in Int
    BY <1>2, <2>1, <2>2, <2>3 DEF up
  <2>5. m % Step = 0
    BY <2>4, DivUnique
  <2>6. QED
    BY <1>3, <2>3, <2>5
<1>8. 2 * CircularDiff(Rounded(a, t), a) <= 2 * Radius + Step
  <2>1. PICK y \in Int : y = up - a
    BY <1>4
  <2>2. CircularDiff((a + y) % Day, a) <= IF y >= 0 THEN y ELSE -y
    BY NotFarther
  <2>3. a + y = up
    BY <1>4, <2>1
  <2>4. CircularDiff(Rounded(a, t), a) \in Int
    <3>1. PICK d \in Int : d = Rounded(a, t) - a
      BY <1>6 DEF MinuteOfDay
    <3>2. d % Day \in Int
      BY DivMod
    <3>3. QED
      BY <3>1, <3>2 DEF CircularDiff
  <2>5. 2 * y <= 2 * Radius + Step /\ -(2 * y) <= 2 * Radius + Step
    BY <1>4, <1>5, <2>1
  <2>6. QED
    BY <1>3, <2>2, <2>3, <2>4, <2>5
<1>9. QED
  BY <1>6, <1>7, <1>8

\* With the log of any state, these are MinutesTurn
LEMMA LogTurns ==
  ASSUME SuggestionTypeOK
  PROVE  MinutesTurn
<1>1. log \subseteq [date : Nat, minute : MinuteOfDay]
  BY DEF SuggestionTypeOK
<1>2. ASSUME NEW k \in MinuteOfDay, k % Step = 0
      PROVE  FindPattern({[e EXCEPT !.minute = (@ + k) % Day] : e \in log})
               = {[p EXCEPT !.minute = (@ + k) % Day] : p \in FindPattern(log)}
  <2>1. TurnedLog(log, k) = {[e EXCEPT !.minute = (@ + k) % Day] : e \in log}
    BY DEF TurnedLog, TurnedEvent
  <2>2. QED
    BY <1>1, <1>2, <2>1, PatternTurnsWith
<1>3. QED
  BY <1>2 DEF MinutesTurn

\* and PatternFits.
LEMMA LogFits ==
  ASSUME SuggestionTypeOK
  PROVE  PatternFits
<1>1. SUFFICES ASSUME NEW p \in FindPattern(log)
               PROVE  /\ p.minute \in MinuteOfDay /\ p.minute % Step = 0
                      /\ p.daysMatched >= MinDays
                      /\ \E e \in log :
                           /\ p.daysMatched = Cardinality(DatesNear(log, e.minute))
                           /\ 2 * CircularDiff(p.minute, e.minute) <= 2 * Radius + Step
  BY DEF PatternFits
<1>2. PICK a, t :
        /\ a \in BestAnchors(log) /\ t \in TwiceMedian(log, a)
        /\ Cardinality(DatesNear(log, a)) >= MinDays
        /\ p = [minute |-> Rounded(a, t), daysMatched |-> Cardinality(DatesNear(log, a))]
  BY DEF FindPattern
<1>3. PICK e \in log : a = e.minute
  BY <1>2 DEF BestAnchors
<1>4. a \in MinuteOfDay
  BY <1>3 DEF SuggestionTypeOK
<1>5. t \in -(2 * Radius)..2 * Radius
  BY <1>2, MedianWithinRadius
<1>6. /\ p.minute \in MinuteOfDay /\ p.minute % Step = 0
      /\ 2 * CircularDiff(p.minute, e.minute) <= 2 * Radius + Step
  BY <1>2, <1>3, <1>4, <1>5, RoundedNear
<1>7. QED
  BY <1>2, <1>3, <1>6

\* A suggested time of the day is one at which, but for the radius and half a step,
\* something was done on the dates it is said to match and on at least
\* MIN_DAYS_MATCHED; the dates being given it does not depend on where the circle
\* of minutes is cut.  A suggestion has one answer.
THEOREM SuggestionsAreSound == SuggestionSpec => []SuggestionsSound
<1>1. SuggestionInv => SuggestionsSound
  BY LogTurns, LogFits DEF SuggestionInv, SuggestionsSound
<1>2. QED
  BY <1>1, SuggestionInvariance, PTL

-----------------------------------------------------------------------------
(***************************************************************************)
(* MCAutomationEngine: the engine, the job and its log side by side.       *)
(***************************************************************************)
LEMMA LogKeeps ==
  ASSUME SuggestionInv, NEW d \in Date, NEW m \in MinuteOfDay,
         LogBehavior([date |-> d, minute |-> m])
  PROVE  SuggestionInv'
<1>1. /\ log' = log \cup {[date |-> d, minute |-> m]}
      /\ UNCHANGED <<relays, offers, schedules, inFlight, runs, replies, made>>
  BY DEF LogBehavior
<1>2. SuggestionTypeOK'
  BY <1>1, HomeAssumption DEF SuggestionInv, SuggestionTypeOK
<1> QED
  BY <1>1, <1>2 DEF SuggestionInv, OneRun, SeenByRun, Spares, RepliesFit, NothingMadeYet,
     AnsweredOnce, Offered

LEMMA HomeStep == IInv /\ SuggestionInv /\ [HomeNext]_homeVars => IInv' /\ SuggestionInv'
<1> SUFFICES ASSUME IInv, SuggestionInv, [HomeNext]_homeVars PROVE IInv' /\ SuggestionInv'
  OBVIOUS
<1>1. [Next]_vars
  BY DEF HomeNext, RulesScene, PatternScene, SuggestionScene, homeVars
<1>2. \/ [SuggestionNext]_suggestionVars
      \/ \E d \in Date, m \in MinuteOfDay : LogBehavior([date |-> d, minute |-> m])
  BY DEF HomeNext, RulesScene, PatternScene, SuggestionScene, homeVars
<1> QED BY <1>1, <1>2, InvStep, SuggestionStep, LogKeeps

\* The states of the engine and of the suggestion job keep their types.
THEOREM HomeTypesHold == HomeSpec => []HomeTypeOK
<1>1. HomeInit => IInv /\ SuggestionInv
  BY InvInit, SuggestionInvInit DEF HomeInit
<1>2. IInv /\ SuggestionInv => HomeTypeOK
  BY DEF IInv, SuggestionInv, HomeTypeOK
<1> QED BY <1>1, <1>2, HomeStep, PTL DEF HomeSpec


\* The same for the house that the run starts from: left alone its rules keep
\* up, and its suggestions are right.
THEOREM HomeIsSound == HomeSpec => [](RulesKeepUp /\ SuggestionsSound)
<1>1. HomeInit => IInv /\ SuggestionInv
  BY InvInit, SuggestionInvInit DEF HomeInit
<1>2. IInv => RulesKeepUp
  BY DEF IInv, AllHandled, Handled, DueFires, Enabled, Tracked, Settled, EdgeTracked, Idle,
         RulesKeepUp
<1>3. SuggestionInv => SuggestionsSound
  BY LogTurns, LogFits DEF SuggestionInv, SuggestionsSound
<1>4. QED
  BY <1>1, <1>2, <1>3, HomeStep, PTL DEF HomeSpec
=============================================================================
