--------------------------- MODULE HabitSuggestion ---------------------------
(***************************************************************************)
(* The job that looks for habits in a home and suggests rules, and the     *)
(* members who accept or dismiss what it suggests.  Every statement of the *)
(* job is a step; the home is one of many, which the job scans one after   *)
(* the other.  A home that is suspended is as one that is not scanned and  *)
(* whose members do nothing: both look at its status only at the start.    *)
(* What the job finds in the log is any minute for any habit; HabitPattern *)
(* says which.                                                             *)
(***************************************************************************)
EXTENDS HabitPattern

CONSTANTS
  Habit,        \* a relay and an action
  Suggested,    \* the minutes suggestions are made for
  Run,          \* executions of the job
  Reply,        \* requests of members
  MaxOffer,     \* bound: rows of recommendation_history
  RejectedDays, \* REJECTED_COOLDOWN_DAYS
  Absent

\* A row of recommendation_history with its feedback; `presented` and `answered`
\* are days, as far as the job tells them apart.
OfferRow ==
  [habit : Habit, minute : Suggested, status : {"pending", "confirmed", "rejected"},
   presented : 0..1, answered : 0..RejectedDays + 1, feedback : Nat]
Deleted == [status |-> "deleted"]

ASSUME SuggestionAssumption ==
  /\ Suggested \subseteq MinuteOfDay /\ MaxOffer \in Nat /\ RejectedDays \in Nat \ {0}
  /\ Absent \notin Run /\ Absent \notin OfferRow /\ Absent # Deleted

VARIABLES
  log,       \* user_behavior_logs of one habit, of people's own actions
  relays,    \* the habits whose relay is in the home
  offers,    \* recommendation_history, with its user_feedback
  schedules, \* enabled rules: what they do and when
  inFlight,  \* the run that callers share
  runs,      \* where each run is
  replies,   \* where each request is
  made       \* history: rules made out of each suggestion

suggestionVars == <<log, relays, offers, schedules, inFlight, runs, replies, made>>

Offer == 1..MaxOffer
NoRun == [pc |-> "idle"]
NoReply == [kind |-> "none"]
Candidate == Habit \X Suggested
Offered == {o \in Offer : offers[o] \notin {Absent, Deleted}}

SuggestionInit ==
  /\ log = {}
  /\ relays = Habit
  /\ offers = [o \in Offer |-> Absent]
  /\ schedules = {}
  /\ inFlight = Absent
  /\ runs = [r \in Run |-> NoRun]
  /\ replies = [p \in Reply |-> NoReply]
  /\ made = [o \in Offer |-> 0]

\* logBehavior: a person switches the relay.
LogBehavior(e) ==
  /\ log' = log \cup {e}
  /\ UNCHANGED <<relays, offers, schedules, inFlight, runs, replies, made>>
-----------------------------------------------------------------------------
\* A bug to be caught: a run by hand does not join the one of the timer.
MutMayRun == TRUE

MayRun == inFlight = Absent

\* runHabitSuggestionsOnce, by the timer or by an administrator.
StartRun(r) ==
  /\ MayRun /\ runs[r] = NoRun
  /\ inFlight' = r
  /\ runs' = [runs EXCEPT ![r] = [pc |-> "recent"]]
  /\ UNCHANGED <<log, relays, offers, schedules, replies, made>>

EndRun(r) ==
  /\ runs' = [runs EXCEPT ![r] = NoRun]
  /\ inFlight' = Absent

\* The home has a suggestion of the last 24 hours, answered or not.
HasRecent == \E o \in Offered : offers[o].presented = 0

CheckRecent(r) ==
  /\ runs[r].pc = "recent"
  /\ IF HasRecent THEN EndRun(r)
     ELSE /\ runs' = [runs EXCEPT ![r] = [pc |-> "load"]]
          /\ UNCHANGED inFlight
  /\ UNCHANGED <<log, relays, offers, schedules, replies, made>>

\* loadEvents and detectCandidates: at most one minute for each habit.
LoadEvents(r) ==
  /\ runs[r].pc = "load"
  /\ \E found \in SUBSET Candidate :
       /\ \A c \in found : c[1] \in relays /\ \A d \in found : c[1] = d[1] => c = d
       /\ runs' = [runs EXCEPT ![r] = [pc |-> "loop", todo |-> found]]
  /\ UNCHANGED <<log, relays, offers, schedules, inFlight, replies, made>>

\* A bug to be caught: only what is pending stands in the way.
MutSuppresses(o) == offers[o].status = "pending"

Suppresses(o) ==
  offers[o].status = "rejected" => offers[o].answered <= RejectedDays

IsSuggestedAlready(c) ==
  \E o \in Offered :
    offers[o].habit = c[1] /\ Near(offers[o].minute, c[2]) /\ Suppresses(o)

\* isSuppressed, the first statement; the loop is over when no candidate is left.
CheckSuggestions(r) ==
  /\ runs[r].pc = "loop"
  /\ \/ /\ runs[r].todo = {}
        /\ EndRun(r)
     \/ \E c \in runs[r].todo :
          /\ runs' = [runs EXCEPT ![r] =
               IF IsSuggestedAlready(c) THEN [pc |-> "loop", todo |-> @.todo \ {c}]
               ELSE [pc |-> "rules", todo |-> @.todo \ {c}, candidate |-> c]]
          /\ UNCHANGED inFlight
  /\ UNCHANGED <<log, relays, offers, schedules, replies, made>>

\* isSuppressed, the second statement.
CheckRules(r) ==
  /\ runs[r].pc = "rules"
  /\ LET c == runs[r].candidate IN
       runs' = [runs EXCEPT ![r] =
         IF \E s \in schedules : s[1] = c[1] /\ Near(s[2], c[2])
           THEN [pc |-> "loop", todo |-> @.todo]
           ELSE [pc |-> "insert", candidate |-> c]]
  /\ UNCHANGED <<log, relays, offers, schedules, inFlight, replies, made>>

\* createSuggestion; the relay must still be there for its foreign key.
CreateSuggestion(r) ==
  /\ runs[r].pc = "insert"
  /\ LET c == runs[r].candidate IN
       \/ /\ c[1] \in relays
          /\ \E o \in Offer :
               /\ offers[o] = Absent /\ \A q \in 1..o - 1 : offers[q] # Absent
               /\ offers' = [offers EXCEPT ![o] =
                    [habit |-> c[1], minute |-> c[2], status |-> "pending",
                     presented |-> 0, answered |-> 0, feedback |-> 0]]
       \/ c[1] \notin relays /\ UNCHANGED offers
  /\ EndRun(r)
  /\ UNCHANGED <<log, relays, schedules, replies, made>>

\* A statement fails: the home is given up, and with it the run.
RunFails(r) ==
  /\ runs[r] # NoRun
  /\ EndRun(r)
  /\ UNCHANGED <<log, relays, offers, schedules, replies, made>>
-----------------------------------------------------------------------------
\* loadForResponse, and for an acceptance findRelayOfHome.
LoadForResponse(p, kind, o) ==
  /\ replies[p] = NoReply
  /\ o \in Offered
  /\ replies' = [replies EXCEPT ![p] = [kind |-> kind, offer |-> o]]
  /\ UNCHANGED <<log, relays, offers, schedules, inFlight, runs, made>>

\* A bug to be caught: the status is not looked at under the lock.
MutIsOpen(o) == o \in Offered

IsOpen(o) == offers[o].status = "pending"

Answered(o, status) ==
  offers' = [offers EXCEPT ![o] =
    [habit |-> @.habit, minute |-> @.minute, status |-> status,
     presented |-> @.presented, answered |-> 0, feedback |-> @.feedback + 1]]

\* The transaction of acceptSuggestion: the rule, the row and the feedback.
AcceptSuggestion(p) ==
  /\ replies[p].kind = "accept"
  /\ LET o == replies[p].offer IN
       /\ IsOpen(o)
       /\ Answered(o, "confirmed")
       /\ schedules' = schedules \cup {<<offers[o].habit, offers[o].minute>>}
       /\ made' = [made EXCEPT ![o] = @ + 1]
  /\ replies' = [replies EXCEPT ![p] = NoReply]
  /\ UNCHANGED <<log, relays, inFlight, runs>>

\* The transaction of dismissSuggestion.
DismissSuggestion(p) ==
  /\ replies[p].kind = "dismiss"
  /\ LET o == replies[p].offer IN IsOpen(o) /\ Answered(o, "rejected")
  /\ replies' = [replies EXCEPT ![p] = NoReply]
  /\ UNCHANGED <<log, relays, schedules, inFlight, runs, made>>

\* 404, 409 ALREADY_RESPONDED, or a statement fails.
RefuseReply(p) ==
  /\ replies[p] # NoReply
  /\ replies' = [replies EXCEPT ![p] = NoReply]
  /\ UNCHANGED <<log, relays, offers, schedules, inFlight, runs, made>>
-----------------------------------------------------------------------------
\* People make, change, switch and delete rules.
ChangeRules(c) ==
  /\ schedules' = IF c \in schedules THEN schedules \ {c} ELSE schedules \cup {c}
  /\ UNCHANGED <<log, relays, offers, inFlight, runs, replies, made>>

\* A device is deleted: its suggestions go with it, its rules lose it.
DeleteRelay(h) ==
  /\ h \in relays
  /\ relays' = relays \ {h}
  /\ offers' = [o \in Offer |->
       IF o \in Offered /\ offers[o].habit = h THEN Deleted ELSE offers[o]]
  /\ schedules' = {s \in schedules : s[1] # h}
  /\ UNCHANGED <<log, inFlight, runs, replies, made>>

\* A day passes; more than RejectedDays, or the one day after which a home may be
\* given a suggestion again, are not told apart.
Older(age, bound) == IF age < bound THEN age + 1 ELSE age

DayPasses ==
  /\ offers' = [o \in Offer |->
       IF o \notin Offered THEN offers[o]
       ELSE [offers[o] EXCEPT !.presented = Older(@, 1),
               !.answered = IF offers[o].status = "rejected"
                              THEN Older(@, RejectedDays + 1) ELSE 0]]
  /\ UNCHANGED <<log, relays, schedules, inFlight, runs, replies, made>>

\* The process stops and starts again.
RestartJob ==
  /\ inFlight' = Absent
  /\ runs' = [r \in Run |-> NoRun]
  /\ replies' = [p \in Reply |-> NoReply]
  /\ UNCHANGED <<log, relays, offers, schedules, made>>

RunStep(r) ==
  \/ StartRun(r) \/ CheckRecent(r) \/ LoadEvents(r)
  \/ CheckSuggestions(r) \/ CheckRules(r) \/ CreateSuggestion(r) \/ RunFails(r)

ReplyStep(p) ==
  \/ \E kind \in {"accept", "dismiss"}, o \in Offer : LoadForResponse(p, kind, o)
  \/ AcceptSuggestion(p) \/ DismissSuggestion(p) \/ RefuseReply(p)

SuggestionNext ==
  \/ \E r \in Run : RunStep(r)
  \/ \E p \in Reply : ReplyStep(p)
  \/ \E c \in Candidate : ChangeRules(c)
  \/ \E h \in Habit : DeleteRelay(h)
  \/ DayPasses \/ RestartJob

SuggestionSpec == SuggestionInit /\ [][SuggestionNext]_suggestionVars
-----------------------------------------------------------------------------
SuggestionTypeOK ==
  /\ log \subseteq [date : Nat, minute : MinuteOfDay]
  /\ relays \subseteq Habit
  /\ offers \in [Offer -> OfferRow \cup {Absent, Deleted}]
  /\ schedules \subseteq Candidate
  /\ inFlight \in Run \cup {Absent}

\* The dates of the log given, nothing in what findPattern computes of its minutes
\* (which events are near, their signed distances, the median and its rounding)
\* depends on where the circle of minutes is cut: with every minute turned by the
\* same whole number of steps the minutes found are turned by as much, and the
\* dates that match are as many (habitSuggestion.job.ts:52-91).  This is about the
\* arithmetic and not about another time zone, under which dates change as well.
MinutesTurn ==
  \A k \in {n \in MinuteOfDay : n % Step = 0} :
    FindPattern({[e EXCEPT !.minute = (@ + k) % Day] : e \in log})
      = {[p EXCEPT !.minute = (@ + k) % Day] : p \in FindPattern(log)}

\* What is suggested is a time of the day that is rounded, and at most the radius
\* and half a step away, on the circle, from an event of the log about which as
\* many dates as it is said to match, and at least MIN_DAYS_MATCHED, have an event
\* (habitSuggestion.job.ts:87-90).
PatternFits ==
  \A p \in FindPattern(log) :
    /\ p.minute \in MinuteOfDay /\ p.minute % Step = 0 /\ p.daysMatched >= MinDays
    /\ \E e \in log :
         /\ p.daysMatched = Cardinality(DatesNear(log, e.minute))
         /\ 2 * CircularDiff(p.minute, e.minute) <= 2 * Radius + Step

\* A suggestion has one answer, and makes a rule exactly when that is yes,
\* although two members may answer at once (lockSuggestionStatus).
AnsweredOnce ==
  \A o \in Offered :
    /\ offers[o].feedback = IF offers[o].status = "pending" THEN 0 ELSE 1
    /\ made[o] = IF offers[o].status = "confirmed" THEN 1 ELSE 0

\* What a suggestion says of the log is so, wherever the circle of minutes is cut,
\* and it has one answer.
SuggestionsSound == MinutesTurn /\ PatternFits /\ AnsweredOnce

\* Nobody is asked twice: what is suggested has not been suggested before, but
\* if it was rejected long ago, and is the home's only suggestion of 24 hours,
\* although the job looks at all this in statements of its own while members
\* answer and administrators start it by hand (habitSuggestion.job.ts:142-236).
NobodyIsPestered ==
  [][\A o \in Offer : offers[o] = Absent /\ offers'[o] # Absent =>
       \A q \in Offered :
         /\ offers[q].presented > 0
         /\ offers[q].habit = offers'[o].habit /\ Near(offers[q].minute, offers'[o].minute)
              => offers[q].status = "rejected" /\ offers[q].answered > RejectedDays]_suggestionVars
=============================================================================
