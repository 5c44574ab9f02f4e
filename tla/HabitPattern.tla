---------------------------- MODULE HabitPattern ----------------------------
(***************************************************************************)
(* How the suggestion job finds a habit in the log of one relay and one    *)
(* action: the minute of the day round which something was done on enough  *)
(* different days.  The day is a circle of Day minutes, 1440 in the code.  *)
(***************************************************************************)
EXTENDS Integers, FiniteSets, Sequences

CONSTANTS
  Day,      \* minutes of a day
  Radius,   \* MATCH_RADIUS_MIN
  Step,     \* a suggestion is rounded to a multiple of it
  MinDays   \* MIN_DAYS_MATCHED

ASSUME PatternAssumption ==
  /\ Step \in Nat \ {0} /\ Day \in Nat \ {0} /\ Day % Step = 0
  /\ Radius \in Nat /\ 2 * Radius < Day /\ MinDays \in Nat \ {0}

MinuteOfDay == 0..Day - 1

\* On the circle five to twelve and five past are ten minutes apart.
CircularDiff(a, b) ==
  LET raw == (a - b) % Day IN IF 2 * raw > Day THEN Day - raw ELSE raw

\* A bug to be caught: the plain difference.
MutSignedDiff(minute, anchor) == minute - anchor

SignedDiff(minute, anchor) ==
  LET ahead == (minute - anchor) % Day IN IF 2 * ahead > Day THEN ahead - Day ELSE ahead

Near(a, b) == CircularDiff(a, b) <= Radius

DatesNear(log, anchor) == {e.date : e \in {e \in log : Near(e.minute, anchor)}}

\* The events of one date that may be kept: the nearest ones, in whatever order
\* the query returns them.
Kept(log, anchor, date) ==
  {e \in log : e.date = date /\ \A f \in log : f.date = date =>
                 CircularDiff(e.minute, anchor) <= CircularDiff(f.minute, anchor)}

Deltas(log, anchor) ==
  {delta \in [DatesNear(log, anchor) -> -Radius..Radius] :
     \A date \in DOMAIN delta : \E e \in Kept(log, anchor, date) :
       delta[date] = SignedDiff(e.minute, anchor)}

\* What delta assigns to the date at place k, the dates in the order of that.
AtPlace(delta, k) ==
  {delta[date] : date \in
     {d \in DOMAIN delta :
        /\ Cardinality({x \in DOMAIN delta : delta[x] < delta[d]}) < k
        /\ k <= Cardinality({x \in DOMAIN delta : delta[x] <= delta[d]})}}

\* Twice the median of what is assigned to the dates, the mean of the middle two.
TwiceMedian(log, anchor) ==
  UNION {{low + high : low \in AtPlace(delta, (Cardinality(DOMAIN delta) + 1) \div 2),
                       high \in AtPlace(delta, (Cardinality(DOMAIN delta) \div 2) + 1)} :
           delta \in Deltas(log, anchor)}

\* The nearest multiple of Step, halves upwards, brought back on the clock.
Rounded(anchor, twice) ==
  (((2 * anchor + twice + Step) \div (2 * Step)) * Step) % Day

\* An anchor is the minute of an event; the best is the first with most dates.
BestAnchors(log) ==
  {a \in {e.minute : e \in log} :
     \A e \in log :
       Cardinality(DatesNear(log, e.minute)) <= Cardinality(DatesNear(log, a))}

\* Everything findPattern may return for the log: nothing is {}.
FindPattern(log) ==
  UNION {{[minute |-> Rounded(a, twice), daysMatched |-> Cardinality(DatesNear(log, a))] :
            twice \in TwiceMedian(log, a)} :
         a \in {a \in BestAnchors(log) : Cardinality(DatesNear(log, a)) >= MinDays}}
=============================================================================
