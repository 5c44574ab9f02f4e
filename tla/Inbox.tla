-------------------------------- MODULE Inbox --------------------------------
(***************************************************************************)
(* A customer's notifications: the rows of the server, their way to the    *)
(* phone as events and as pages read by REST, and the phone's list and     *)
(* badge, which change before the server has agreed                        *)
(* (notification_providers.dart).  LiveHome has the socket in detail; here *)
(* it is up or down for both ends at once.                                 *)
(*                                                                         *)
(* Notifications are numbered in the order in which they are committed.    *)
(***************************************************************************)
EXTENDS Integers, Sequences, FiniteSets

CONSTANTS
  MaxNotes,  \* bound: how many notifications there ever are
  PageSize,  \* how many of them the phone asks for (50)
  Foreign,   \* those of another home than the one selected
  MaxTaps,   \* bound: marks and pulls on the phone, marks elsewhere, failures
  Mark       \* marks that can be under way at once

ASSUME InboxAssumption ==
  /\ MaxNotes \in Nat \ {0} /\ PageSize \in Nat \ {0} /\ MaxTaps \in Nat
  /\ Foreign \subseteq 1..MaxNotes

VARIABLES
  rows,    \* is_read of every row of the user
  posted,  \* rows whose event is still to be emitted
  events,  \* events on the socket
  link,    \* is the socket up
  ready,   \* has the list been loaded (state.value is not null)
  items,   \* state.value.items: is_read by id
  badge,   \* state.value.unreadCount
  read,    \* the read under way
  marks,   \* the marks under way
  lapse,   \* history: the phone was never told of something, or took over
           \* an outdated state, and no later read has made up for it
  taps

inboxVars == <<rows, posted, events, link, ready, items, badge, read, marks, lapse, taps>>

Ids == 1..Len(rows)
Unread(rs) == {i \in 1..Len(rs) : ~rs[i]}
Pending == posted \cup {events[k] : k \in DOMAIN events}

\* GET /notifications: the newest rows, and how many are unread in all.
Newest(rs) == [i \in {j \in 1..Len(rs) : j > Len(rs) - PageSize} |-> rs[i]]
Total(rs) == Cardinality(Unread(rs))

\* A read by build(), the poll timer, a connection, a return to the app or a
\* pull.  (Bound: one at a time.)  An answer's parts are sequences, empty until
\* they are read.
NoRead == [at |-> "idle", list |-> <<>>, count |-> <<>>]
Requested == [NoRead EXCEPT !.at = "asked"]

Unused == [op |-> "none", ids |-> {}, items |-> <<>>, badge |-> 0, done |-> FALSE]

Flags == UNION {[ids -> BOOLEAN] : ids \in SUBSET (1..MaxNotes)}

InboxTypeOK ==
  /\ rows \in UNION {[1..n -> BOOLEAN] : n \in 0..MaxNotes}
  /\ Pending \subseteq Ids
  /\ {ready, lapse} \subseteq BOOLEAN /\ link \in {"up", "down"}
  /\ items \in Flags /\ badge \in Nat /\ taps \in 0..MaxTaps
  /\ read \in [at : {"idle", "asked"}, list : {<<>>} \cup {<<p>> : p \in Flags},
              count : {<<>>} \cup {<<n>> : n \in 0..MaxNotes}]
  /\ \A m \in Mark :
       /\ marks[m].op \in {"none", "one", "home", "all"} /\ marks[m].done \in BOOLEAN
       /\ marks[m].ids \subseteq Ids /\ marks[m].items \in Flags /\ marks[m].badge \in Nat

\* The shell has just been entered and asks for the list.
InboxInit ==
  /\ rows \in [1..MaxNotes - 1 -> BOOLEAN]
  /\ posted = {} /\ events = <<>> /\ link = "up"
  /\ ready = FALSE /\ items = <<>> /\ badge = 0
  /\ read = Requested
  /\ marks = [m \in Mark |-> Unused]
  /\ lapse = FALSE /\ taps = 0

Spend == taps < MaxTaps /\ taps' = taps + 1

-----------------------------------------------------------------------------
(***************************************************************************)
(* The backend                                                             *)
(***************************************************************************)
\* insertCustomerNotification: the INSERT,
Notify ==
  /\ Len(rows) < MaxNotes
  /\ rows' = Append(rows, FALSE)
  /\ posted' = posted \cup {Len(rows) + 1}
  /\ UNCHANGED <<events, link, ready, items, badge, read, marks, lapse, taps>>

\* and when it has returned, the event.
EmitNote(i) ==
  /\ i \in posted
  /\ posted' = posted \ {i}
  /\ IF link = "up" THEN events' = Append(events, i) /\ UNCHANGED lapse
     ELSE lapse' = (lapse \/ i \notin DOMAIN items) /\ UNCHANGED events
  /\ UNCHANGED <<rows, link, ready, items, badge, read, marks, taps>>

\* A mark in the portal: no event tells the phone of it.
MarkElsewhere(i) ==
  /\ Spend
  /\ i \in Unread(rows)
  /\ rows' = [rows EXCEPT ![i] = TRUE]
  /\ lapse' = TRUE
  /\ UNCHANGED <<posted, events, link, ready, items, badge, read, marks>>

-----------------------------------------------------------------------------
(***************************************************************************)
(* Events and reads                                                        *)
(***************************************************************************)
\* Faulty variant: a notification that a page has brought is counted again.
MutOnRealtime ==
  /\ events # <<>>
  /\ events' = Tail(events)
  /\ LET i == Head(events) IN
     IF ready
     THEN /\ items' = [j \in DOMAIN items \cup {i} |-> j # i /\ items[j]]
          /\ badge' = badge + 1
          /\ UNCHANGED read
     ELSE read' = Requested /\ UNCHANGED <<items, badge>>
  /\ UNCHANGED <<rows, posted, link, ready, marks, lapse, taps>>

\* onRealtime: a list that is not there is asked for again.
OnRealtime ==
  /\ events # <<>>
  /\ events' = Tail(events)
  /\ LET i == Head(events) IN
     \/ /\ ready /\ i \notin DOMAIN items
        /\ items' = [j \in DOMAIN items \cup {i} |-> j # i /\ items[j]]
        /\ badge' = badge + 1
        /\ UNCHANGED read
     \/ /\ ready /\ i \in DOMAIN items
        /\ UNCHANGED <<items, badge, read>>
     \/ /\ ~ready
        /\ read' = Requested
        /\ UNCHANGED <<items, badge>>
  /\ UNCHANGED <<rows, posted, link, ready, marks, lapse, taps>>

\* _onStatus: from now on the timer reads.
LinkDown ==
  /\ Spend
  /\ link = "up" /\ link' = "down"
  /\ events' = <<>>
  /\ lapse' = (lapse \/ \E k \in DOMAIN events : events[k] \notin DOMAIN items)
  /\ UNCHANGED <<rows, posted, ready, items, badge, read, marks>>

\* _onStatus: the timer is cancelled, and the app catches up.
LinkUp ==
  /\ link = "down" /\ link' = "up"
  /\ read = NoRead
  /\ read' = Requested
  /\ UNCHANGED <<rows, posted, events, ready, items, badge, marks, lapse, taps>>

\* Faulty variant: no timer reads while the socket is down.
MutAskPage ==
  /\ read = NoRead
  /\ Spend
  /\ read' = Requested
  /\ UNCHANGED <<rows, posted, events, link, ready, items, badge, marks, lapse>>

\* The timer fires; the app is opened again, or its list pulled down; loading
\* is tried again after an error.
AskPage ==
  /\ read = NoRead
  /\ \/ link = "down" /\ UNCHANGED taps
     \/ Spend
  /\ read' = Requested
  /\ UNCHANGED <<rows, posted, events, link, ready, items, badge, marks, lapse>>

\* The two statements run side by side.
ReadRuns ==
  /\ read.at = "asked"
  /\ \/ read.list = <<>> /\ read' = [read EXCEPT !.list = <<Newest(rows)>>]
     \/ read.count = <<>> /\ read' = [read EXCEPT !.count = <<Total(rows)>>]
  /\ UNCHANGED <<rows, posted, events, link, ready, items, badge, marks, lapse, taps>>

\* Is the answer the state of the server, but for rows at the end whose events
\* are all still to come?  (A row counted but behind the page would be counted
\* again by a late event.)
UpToDate(page, count) ==
  /\ \A m \in Mark : marks[m] = Unused
  /\ \E n \in 0..Len(rows) :
       /\ page = Newest(SubSeq(rows, 1, n)) /\ count = Total(SubSeq(rows, 1, n))
       /\ n + 1 .. Len(rows) \subseteq Pending \cap Unread(rows)
       /\ Pending \cap 1..n \subseteq DOMAIN page

\* build and refresh: the whole state is replaced.
ReadArrives ==
  /\ read.list # <<>> /\ read.count # <<>>
  /\ items' = read.list[1] /\ badge' = read.count[1]
  /\ ready' = TRUE
  /\ lapse' = ~UpToDate(items', badge')
  /\ read' = NoRead
  /\ UNCHANGED <<rows, posted, events, link, marks, taps>>

ReadFails ==
  /\ Spend
  /\ read.at = "asked"
  /\ read' = NoRead
  /\ UNCHANGED <<rows, posted, events, link, ready, items, badge, marks, lapse>>

-----------------------------------------------------------------------------
(***************************************************************************)
(* Marks                                                                   *)
(***************************************************************************)
\* What a mark is about: one notification, those of the home, or all.
MarkScope(op, ids) == IF op = "home" THEN ids \ Foreign ELSE ids

AsRead(flags, ids) == [j \in DOMAIN flags |-> flags[j] \/ j \in ids]
Left(op, n, ids) ==
  IF op = "all" \/ n < Cardinality(ids) THEN 0 ELSE n - Cardinality(ids)

\* markRead and markAllRead to their await; nothing happens if the screen has
\* nothing unread.
TapMark(m, op, ids) ==
  /\ Spend
  /\ ready /\ marks[m] = Unused
  /\ ids # {} /\ ids \subseteq {j \in DOMAIN items : ~items[j]}
  /\ items' = AsRead(items, ids)
  /\ badge' = Left(op, badge, ids)
  /\ marks' = [marks EXCEPT ![m] =
       [op |-> op, ids |-> ids, items |-> items, badge |-> badge, done |-> FALSE]]
  /\ UNCHANGED <<rows, posted, events, link, ready, read, lapse>>

TapOne(m) == \E i \in DOMAIN items : TapMark(m, "one", {i})
TapAll(m) ==
  \E op \in {"home", "all"} :
    TapMark(m, op, {j \in MarkScope(op, DOMAIN items) : ~items[j]})

\* The UPDATE; that of a whole home also marks what the screen does not have.
MarkActs(m) ==
  /\ marks[m].op # "none" /\ ~marks[m].done
  /\ LET ids == IF marks[m].op = "one" THEN marks[m].ids ELSE MarkScope(marks[m].op, Ids)
     IN /\ rows' = AsRead(rows, ids)
        /\ lapse' = (lapse \/ ~(ids \cap Unread(rows) \subseteq marks[m].ids))
  /\ marks' = [marks EXCEPT ![m].done = TRUE]
  /\ UNCHANGED <<posted, events, link, ready, items, badge, read, taps>>

MarkAnswered(m) ==
  /\ marks[m].done
  /\ marks' = [marks EXCEPT ![m] = Unused]
  /\ UNCHANGED <<rows, posted, events, link, ready, items, badge, read, lapse, taps>>

\* Is the state still what the tap has left behind?
Untouched(mark) ==
  /\ items = AsRead(mark.items, mark.ids)
  /\ badge = Left(mark.op, mark.badge, mark.ids)

\* Faulty variant: a refused mark puts the list back but not the badge.
MutMarkFails(m) ==
  /\ Spend
  /\ marks[m].op # "none"
  /\ items' = marks[m].items
  /\ lapse' = (lapse \/ marks[m].done \/ ~Untouched(marks[m]))
  /\ marks' = [marks EXCEPT ![m] = Unused]
  /\ UNCHANGED <<rows, posted, events, link, ready, badge, read>>

\* Refused, or the answer lost: the whole state of before the tap is put back,
\* which is right if the server did nothing and nothing has changed since.
MarkFails(m) ==
  /\ Spend
  /\ marks[m].op # "none"
  /\ items' = marks[m].items /\ badge' = marks[m].badge
  /\ lapse' = (lapse \/ marks[m].done \/ ~Untouched(marks[m]))
  /\ marks' = [marks EXCEPT ![m] = Unused]
  /\ UNCHANGED <<rows, posted, events, link, ready, read>>

InboxNext ==
  \/ Notify \/ OnRealtime \/ LinkDown \/ LinkUp
  \/ \E i \in Ids : EmitNote(i) \/ MarkElsewhere(i)
  \/ AskPage \/ ReadRuns \/ ReadArrives \/ ReadFails
  \/ \E m \in Mark : TapOne(m) \/ TapAll(m) \/ MarkActs(m) \/ MarkAnswered(m) \/ MarkFails(m)

InboxFairness ==
  /\ WF_inboxVars(OnRealtime) /\ WF_inboxVars(AskPage /\ UNCHANGED taps)
  /\ WF_inboxVars(\E i \in Ids : EmitNote(i))
  /\ WF_inboxVars(ReadRuns \/ ReadArrives)
  /\ \A m \in Mark : WF_inboxVars(MarkActs(m) \/ MarkAnswered(m))

-----------------------------------------------------------------------------
(***************************************************************************)
(* Properties                                                              *)
(***************************************************************************)
\* The screen has the newest rows, each with its flag, and the badge counts
\* what is unread.
Agrees ==
  /\ DOMAIN Newest(rows) \subseteq DOMAIN items
  /\ \A i \in DOMAIN items : items[i] = rows[i]
  /\ badge = Total(rows)

\* Between events, pages and marks in any order nothing is counted twice or
\* forgotten: once no event and no mark is on its way, list and badge are the
\* server's.  The exceptions are what `lapse' records: an event that the socket
\* lost, a mark made elsewhere or of rows the screen does not have, a page that
\* was older than what the phone knew, or whose count was (the two are read
\* apart), a rollback of what was done or over a later change.
InboxAgrees ==
  Pending = {} /\ (\A m \in Mark : marks[m] = Unused) /\ ready /\ ~lapse => Agrees

\* While the socket stays down polling brings the screen to what the server
\* has, whatever was lost, refused or put back before.
InboxSettles == <>[](link = "down") => <>[](ready /\ Agrees)
=============================================================================
