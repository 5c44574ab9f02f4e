------------------------- MODULE MCAutomationEngine -------------------------
(***************************************************************************)
(* AutomationEngine and HabitSuggestion on small instances.  The scene     *)
(* says what moves:                                                        *)
(*   sensor       a home with one sensor rule, the only tick waits for its *)
(*                SELECT;                                                  *)
(*   schedule     a home with one schedule rule and no readings;           *)
(*   pattern      a log of one habit, which grows event by event;          *)
(*   suggestions  the job, members and people who change rules.            *)
(***************************************************************************)
EXTENDS AutomationEngine, HabitSuggestion, TLC

CONSTANTS
  Date,      \* dates of the log
  MaxEvents  \* bound: events in the log

ASSUME HomeAssumption == Date \subseteq Nat

VARIABLE scene

homeVars == <<vars, suggestionVars, scene>>

HomeInit ==
  /\ scene \in {"sensor", "schedule", "pattern", "suggestions"}
  /\ Init /\ SuggestionInit
  /\ \E r \in IF scene = "schedule" THEN ScheduleRule ELSE SensorRule : \A q \in Rule :
       /\ row[q].mode = IF q = r THEN "on" ELSE "deleted"
       /\ scene \in {"pattern", "suggestions"} => row[q].cond = CHOOSE c \in Condition(q) : TRUE

\* The engine treats rules one after the other.
RulesScene ==
  /\ scene \in {"sensor", "schedule"} /\ Next
  /\ IF scene = "sensor" THEN tick' # "loop" ELSE lastEvent' = {}
  /\ UNCHANGED <<suggestionVars, scene>>

PatternScene ==
  /\ scene = "pattern" /\ Cardinality(log) < MaxEvents
  /\ \E d \in Date, m \in MinuteOfDay : LogBehavior([date |-> d, minute |-> m])
  /\ UNCHANGED <<vars, scene>>

\* Without a suggestion, people make one rule at a time.
SuggestionScene ==
  /\ scene = "suggestions" /\ SuggestionNext
  /\ Cardinality(schedules') <= Cardinality(schedules) \/ schedules = {} \/ made' # made
  /\ UNCHANGED <<vars, scene>>

HomeNext == RulesScene \/ PatternScene \/ SuggestionScene

HomeSpec == HomeInit /\ [][HomeNext]_homeVars

\* The states of the engine and of the job have their types.
HomeTypeOK == TypeOK /\ SuggestionTypeOK

Symmetry == Permutations(Event) \cup Permutations(Threshold) \cup Permutations(Reply) \cup Permutations(Run)
=============================================================================
