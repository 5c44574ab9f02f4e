---------------------------- MODULE RightsProofs ----------------------------
(***************************************************************************)
(* The theorems of Members and WsHub.  A call works on what it has read    *)
(* and what it has locked: CallFits says what both are still worth when    *)
(* its transaction commits.                                                *)
(***************************************************************************)
EXTENDS MCRights, FiniteSetTheorems, TLAPS

RowFits(row) == row.role = "GUEST" <=> row.ends # "never"

\* What a call may rely on: an invitation that it has locked is still one, a
\* row that it has read was a legal one, what it is about to write is legal.
CallFits(r) ==
  LET c == call[r] IN
  /\ c.pc \in {"locked", "activating"} =>
       c.in.kind = "accept" /\ c.in.row \in Row /\ lock[c.in.row] = r /\ IsInvite(c.in.row)
  /\ c.pc = "admitted" =>
       /\ c.in.kind \in {"patch", "remove"}
       /\ c.in.row \in Row /\ c.seen \in MemberRow /\ RowFits(c.seen)
  /\ c.pc = "checked" =>
       /\ c.in.kind \in {"patch", "leave", "decline"} => c.in.row \in Row
       /\ c.in.kind = "patch" =>
            c.in.role \in Role /\ c.in.ends \in {"never", "future", "past"} /\ RowFits(c.in)
       /\ c.in.kind = "invite" =>
            /\ c.in.email \in User /\ c.in.role \in Role
            /\ c.in.role = "GUEST" => c.in.ends = "future" /\ c.in.devices \subseteq Device

MembersInv == MembersTypeOK /\ (\A r \in Request : CallFits(r)) /\ RowsLegal

LEMMA NoCallType == NoCall \in Call /\ NoCall.pc = "idle"
  BY MembersAssumption DEF NoCall, Call, NoInput, Input, Phase, Kind, Role

LEMMA OwnerRowFits == OwnerRow \in MemberRow /\ RowFits(OwnerRow) /\ OwnerRow.user = Owner
  BY MembersAssumption DEF OwnerRow, MemberRow, RowFits, Role

\* A call goes on; the rows that other calls have locked are left to them.
LEMMA CallGoesOn ==
  ASSUME MembersInv, NEW r \in Request, NEW v \in Call, call' = [call EXCEPT ![r] = v],
         CallFits(r)', RowsLegal',
         rows' \in [Row -> MemberRow \cup {None}], lock' \in [Row -> Request \cup {None}],
         \A q \in Request \ {r}, m \in Row : lock[m] = q =>
           lock'[m] = q /\ (IsInvite(m) => IsInvite(m)'),
         issued' \in Row, UNCHANGED <<homeDevices, suspended>>, events' \in 0..MaxEvents
  PROVE  MembersInv'
<1>1. call' \in [Request -> Call] /\ \A q \in Request \ {r} : call'[q] = call[q]
  BY DEF MembersInv, MembersTypeOK
<1>2. ASSUME NEW q \in Request \ {r} PROVE CallFits(q)'
  <2>1. CallFits(q) /\ call'[q] = call[q]
    BY <1>1 DEF MembersInv
  <2>2. \A m \in Row : lock[m] = q /\ IsInvite(m) => lock'[m] = q /\ IsInvite(m)'
    OBVIOUS
  <2> QED BY <2>1, <2>2 DEF CallFits
<1> QED BY <1>1, <1>2 DEF MembersInv, MembersTypeOK

\* A call begins or goes on with what it has read; it changes nothing else.
LEMMA OnlyReads ==
  ASSUME MembersInv, NEW r \in Request, NEW v \in Call, call' = [call EXCEPT ![r] = v],
         CallFits(r)', Reading
  PROVE  MembersInv'
<1>1. RowsLegal' /\ \A m \in Row : IsInvite(m)' = IsInvite(m)
  BY DEF MembersInv, RowsLegal, EndsIffGuest, OneMembership, Reading, Exists, IsInvite
<1> QED BY <1>1, CallGoesOn DEF MembersInv, MembersTypeOK, Reading

\* Ending a call.
LEMMA EndOnly ==
  ASSUME MembersInv, NEW r \in Request, End(r), Reading
  PROVE  MembersInv'
<1>1. call'[r] = NoCall /\ CallFits(r)'
  BY NoCallType DEF CallFits, End, MembersInv, MembersTypeOK
<1> QED BY <1>1, NoCallType, OnlyReads DEF End

LEMMA AskedTypes ==
  ASSUME NEW in \in Asked
  PROVE  /\ in \in Input
         /\ in.kind \in {"patch", "remove", "accept", "decline"} => in.row \in Row
         /\ in.kind = "invite" =>
              /\ in.email \in User /\ in.role \in Role
              /\ in.role = "GUEST" => in.ends = "future" /\ in.devices \subseteq Device
<1>1. \/ in \in [kind : {"invite"}, actor : User, row : {None}, email : User, role : Plain,
                 ends : {None}, devices : {None}]
      \/ in \in [kind : {"invite"}, actor : User, row : {None}, email : User, role : {"GUEST"},
                 ends : {"future"}, devices : SUBSET Device]
      \/ in \in [kind : {"patch"}, actor : User, row : Row, email : {None},
                 role : Plain \cup {"GUEST", None}, ends : {"never", "future", None},
                 devices : (SUBSET Device) \cup {None}]
      \/ in \in [kind : {"remove", "accept", "decline"}, actor : User, row : Row, email : {None},
                 role : {None}, ends : {None}, devices : {None}]
      \/ in \in [kind : {"leave"}, actor : User, row : {None}, email : {None}, role : {None},
                 ends : {None}, devices : {None}]
  BY Zenon DEF Asked
<1> QED BY <1>1, MembersAssumption DEF Input, Kind, Role

LEMMA Begins ==
  ASSUME MembersTypeOK, NEW r \in Request, NEW i \in Input, NEW pc \in Phase,
         NEW seen \in MemberRow \cup {None}, Begin(r, i, pc, seen)
  PROVE  \E v \in Call : /\ call' = [call EXCEPT ![r] = v] /\ call'[r] = v
                         /\ v.pc = pc /\ v.in = i /\ v.seen = seen
<1>1. [pc |-> pc, in |-> i, seen |-> seen, tells |-> {}] \in Call
  BY DEF Call
<1> QED BY <1>1 DEF Begin, MembersTypeOK

LEMMA StartKeeps ==
  ASSUME MembersInv, NEW r \in Request, Start(r)
  PROVE  MembersInv'
<1>0. MembersTypeOK /\ RowsLegal /\ None \notin Request
  BY MembersAssumption DEF MembersInv
<1>1. PICK in \in Asked :
        \/ ReadTarget(r, in) \/ CheckInvite(r, in) \/ CheckLeave(r, in)
        \/ LockInvite(r, in) \/ SelectInvite(r, in)
  BY DEF Start
<1>2. /\ in \in Input
      /\ in.kind \in {"patch", "remove", "accept", "decline"} => in.row \in Row
      /\ in.kind = "invite" =>
           /\ in.email \in User /\ in.role \in Role
           /\ in.role = "GUEST" => in.ends = "future" /\ in.devices \subseteq Device
  BY AskedTypes
<1>3. "admitted" \in Phase /\ "checked" \in Phase /\ "locked" \in Phase
      /\ None \in MemberRow \cup {None}
  BY DEF Phase
<1>4. CASE ReadTarget(r, in)
  <2>1. /\ rows[in.row] \in MemberRow /\ RowFits(rows[in.row])
        /\ Begin(r, in, "admitted", rows[in.row]) /\ in.kind \in {"patch", "remove"} /\ Reading
    BY <1>0, <1>2, <1>4 DEF ReadTarget, Exists, MembersTypeOK, RowsLegal, EndsIffGuest, RowFits
  <2>2. PICK v \in Call : /\ call' = [call EXCEPT ![r] = v] /\ call'[r] = v
                          /\ v.pc = "admitted" /\ v.in = in /\ v.seen = rows[in.row]
    BY <1>0, <1>2, <1>3, <2>1, Begins
  <2>3. CallFits(r)'
    BY <1>2, <2>1, <2>2 DEF CallFits
  <2> QED BY <2>1, <2>2, <2>3, OnlyReads
<1>5. CASE CheckInvite(r, in) \/ SelectInvite(r, in)
  <2>1. Begin(r, in, "checked", None) /\ in.kind \in {"invite", "decline"} /\ Reading
    BY <1>5 DEF CheckInvite, SelectInvite
  <2>2. PICK v \in Call : /\ call' = [call EXCEPT ![r] = v] /\ call'[r] = v
                          /\ v.pc = "checked" /\ v.in = in
    BY <1>0, <1>2, <1>3, <2>1, Begins
  <2>3. CallFits(r)'
    BY <1>2, <2>1, <2>2 DEF CallFits
  <2> QED BY <2>1, <2>2, <2>3, OnlyReads
<1>6. CASE CheckLeave(r, in)
  <2> DEFINE m == MemberOf(in.actor)
             i == [in EXCEPT !.row = m]
  <2>1. IsMember(in.actor)
    BY <1>6 DEF CheckLeave, RequireHomeMember
  <2>2. m \in Row /\ Effective(m, in.actor)
    BY <2>1 DEF IsMember, MemberOf
  <2>3. rows[m] \in MemberRow
    BY <1>0, <2>2 DEF Effective, Exists, MembersTypeOK
  <2>4. Begin(r, i, "checked", rows[m]) /\ in.kind = "leave" /\ Reading
    BY <1>6 DEF CheckLeave
  <2> HIDE DEF m
  <2>5. i \in Input /\ i.row = m /\ i.kind = in.kind
    BY <1>2, <2>2 DEF Input
  <2> HIDE DEF i
  <2>6. PICK v \in Call : /\ call' = [call EXCEPT ![r] = v] /\ call'[r] = v
                          /\ v.pc = "checked" /\ v.in = i
    BY <1>0, <1>3, <2>3, <2>4, <2>5, Begins
  <2>7. CallFits(r)'
    BY <2>2, <2>4, <2>5, <2>6 DEF CallFits
  <2> QED BY <2>4, <2>6, <2>7, OnlyReads
<1>7. CASE LockInvite(r, in)
  <2>1. /\ in.kind = "accept" /\ in.row \in Row /\ lock[in.row] = None /\ IsInvite(in.row)
        /\ lock' = [lock EXCEPT ![in.row] = r] /\ Begin(r, in, "locked", None)
        /\ UNCHANGED <<issued, rows, homeDevices, suspended, events>>
    BY <1>2, <1>7 DEF LockInvite, Free, Acceptable
  <2>2. lock' \in [Row -> Request \cup {None}] /\ lock'[in.row] = r
        /\ \A q \in Request, m \in Row : lock[m] = q => lock'[m] = q
    BY <1>0, <2>1 DEF MembersTypeOK
  <2>3. RowsLegal' /\ \A m \in Row : IsInvite(m)' = IsInvite(m)
    BY <1>0, <2>1 DEF RowsLegal, EndsIffGuest, OneMembership, Exists, IsInvite
  <2>4. PICK v \in Call : /\ call' = [call EXCEPT ![r] = v] /\ call'[r] = v
                          /\ v.pc = "locked" /\ v.in = in
    BY <1>0, <1>2, <1>3, <2>1, Begins
  <2>5. CallFits(r)'
    BY <2>1, <2>2, <2>3, <2>4 DEF CallFits
  <2>6. /\ rows' \in [Row -> MemberRow \cup {None}] /\ issued' \in Row
        /\ UNCHANGED <<homeDevices, suspended>> /\ events' \in 0..MaxEvents
    BY <1>0, <2>1 DEF MembersTypeOK
  <2>7. \A q \in Request \ {r}, m \in Row : lock[m] = q =>
          lock'[m] = q /\ (IsInvite(m) => IsInvite(m)')
    BY <2>2, <2>3
  <2>8. RowsLegal'
    BY <2>3
  <2> QED BY <2>2, <2>4, <2>5, <2>6, <2>7, <2>8, CallGoesOn
<1> QED BY <1>1, <1>4, <1>5, <1>6, <1>7


\* A list of devices replaces the one of a row.
LEMMA PatchedRow ==
  ASSUME NEW old \in MemberRow, NEW in \in Input, in.role \in Role,
         in.ends \in {"never", "future", "past"}
  PROVE  /\ Patched(old, in) \in MemberRow
         /\ Patched(old, in).user = old.user
         /\ Patched(old, in).role = in.role /\ Patched(old, in).ends = in.ends
<1> DEFINE devices == IF in.devices = None THEN old.devices ELSE in.devices
           a == [old EXCEPT !.role = in.role]
           b == [a EXCEPT !.ends = in.ends]
           c == [b EXCEPT !.devices = devices]
<1>1. devices \in SUBSET Device
  BY DEF Input, MemberRow
<1>2. Patched(old, in) = c
  BY Zenon DEF Patched
<1> HIDE DEF devices
<1>3. a \in MemberRow /\ a.user = old.user /\ a.role = in.role
  BY DEF MemberRow
<1> HIDE DEF a
<1>4. b \in MemberRow /\ b.user = a.user /\ b.role = a.role /\ b.ends = in.ends
  BY <1>3 DEF MemberRow
<1> HIDE DEF b
<1>5. c \in MemberRow /\ c.user = b.user /\ c.role = b.role /\ c.ends = b.ends
  BY <1>1, <1>4 DEF MemberRow
<1> HIDE DEF c
<1> QED BY <1>2, <1>3, <1>4, <1>5

LEMMA CheckPatchKeeps ==
  ASSUME MembersInv, NEW r \in Request, CheckPatch(r)
  PROVE  MembersInv'
<1>0. /\ MembersTypeOK /\ call[r].pc = "admitted" /\ call[r].in.kind = "patch"
      /\ call[r].in \in Input /\ call[r].in.row \in Row
      /\ call[r].seen \in MemberRow /\ RowFits(call[r].seen)
  BY DEF MembersInv, CallFits, CheckPatch, At, MembersTypeOK, Call
<1>1. CASE Refuse(r)
  BY <1>1, EndOnly DEF Refuse
<1>2. CASE ~Refuse(r)
  <2> DEFINE in == call[r].in
             i == [in EXCEPT !.role = NewRole(r), !.ends = NewEnds(r), !.devices = NewDevices(r)]
  <2>1. /\ NewRole(r) # "GUEST" => in.ends \in {None, "never"}
        /\ NewRole(r) = "GUEST" /\ (in.ends # None \/ in.role # None) =>
             ValidGuestGrant(NewEnds(r), GuestList(r))
        /\ Begin(r, i, "checked", None) /\ Reading
    <3>1. CASE NewRole(r) # "GUEST"
      BY <1>2, <3>1, Zenon DEF CheckPatch
    <3>2. CASE NewRole(r) = "GUEST" /\ (in.ends # None \/ in.role # None)
      BY <1>2, <3>2, Zenon DEF CheckPatch
    <3>3. CASE NewRole(r) = "GUEST" /\ ~(in.ends # None \/ in.role # None)
      BY <1>2, <3>3, Zenon DEF CheckPatch
    <3> QED BY <3>1, <3>2, <3>3
  <2>2. NewRole(r) \in Role
    BY <1>0 DEF NewRole, Input, MemberRow
  <2>3. /\ NewRole(r) # "GUEST" => NewEnds(r) = "never"
        /\ NewRole(r) = "GUEST" /\ in.ends # None => NewEnds(r) = in.ends
        /\ NewRole(r) = "GUEST" /\ in.ends = None => NewEnds(r) = call[r].seen.ends
    BY Zenon DEF NewEnds
  <2>4. NewEnds(r) \in {"never", "future", "past"} /\ (NewRole(r) = "GUEST" <=> NewEnds(r) # "never")
    BY <1>0, <2>1, <2>3 DEF ValidGuestGrant, NewRole, RowFits, Input, MemberRow
  <2>5. GuestList(r) \in SUBSET Device
    <3>1. CASE in.devices # None
      <4>1. GuestList(r) = in.devices
        BY <3>1, Zenon DEF GuestList
      <4> QED BY <1>0, <3>1, <4>1 DEF Input
    <3>2. CASE in.devices = None /\ Exists(in.row)
      <4>1. GuestList(r) = rows[in.row].devices
        BY <3>2, Zenon DEF GuestList
      <4> QED BY <1>0, <3>2, <4>1 DEF Exists, MembersTypeOK, MemberRow
    <3>3. CASE in.devices = None /\ ~Exists(in.row)
      <4>1. GuestList(r) = {}
        BY <3>3, Zenon DEF GuestList
      <4> QED BY <4>1
    <3> QED BY <3>1, <3>2, <3>3
  <2>6. NewDevices(r) \in (SUBSET Device) \cup {None}
    <3>1. NewDevices(r) = {} \/ NewDevices(r) = GuestList(r) \/ NewDevices(r) = None
      BY Zenon DEF NewDevices
    <3> QED BY <2>5, <3>1
  <2>7. i \in Input /\ i.kind = "patch" /\ i.row = in.row /\ i.role = NewRole(r) /\ i.ends = NewEnds(r)
    <3> DEFINE a == [in EXCEPT !.role = NewRole(r)]
               b == [a EXCEPT !.ends = NewEnds(r)]
               c == [b EXCEPT !.devices = NewDevices(r)]
    <3>1. a \in Input /\ a.kind = "patch" /\ a.row = in.row /\ a.role = NewRole(r)
      BY <1>0, <2>2 DEF Input
    <3>2. i = c
      BY Zenon
    <3> HIDE DEF a
    <3>3. b \in Input /\ b.kind = a.kind /\ b.row = a.row /\ b.role = a.role /\ b.ends = NewEnds(r)
      BY <2>4, <3>1 DEF Input
    <3> HIDE DEF b
    <3>4. c \in Input /\ c.kind = b.kind /\ c.row = b.row /\ c.role = b.role /\ c.ends = b.ends
      BY <2>6, <3>3 DEF Input
    <3> HIDE DEF c, i
    <3> QED BY <3>1, <3>2, <3>3, <3>4
  <2> HIDE DEF i
  <2>8. PICK v \in Call : /\ call' = [call EXCEPT ![r] = v] /\ call'[r] = v
                          /\ v.pc = "checked" /\ v.in = i
    BY <1>0, <2>1, <2>7, Begins DEF Phase
  <2>9. CallFits(r)'
    BY <1>0, <2>2, <2>4, <2>7, <2>8 DEF CallFits, RowFits
  <2> QED BY <2>1, <2>8, <2>9, OnlyReads
<1> QED BY <1>1, <1>2


\* A transaction has committed; what is left of the call fits whatever it did.
LEMMA CommitKeeps ==
  ASSUME MembersInv, NEW r \in Request, Committed(r),
         call[r].in.kind = "remove" => call[r].seen \in MemberRow,
         RowsLegal',
         rows' \in [Row -> MemberRow \cup {None}], lock' \in [Row -> Request \cup {None}],
         \A q \in Request \ {r}, m \in Row : lock[m] = q =>
           lock'[m] = q /\ (IsInvite(m) => IsInvite(m)'),
         issued' \in Row, UNCHANGED <<homeDevices, suspended, events>>
  PROVE  MembersInv'
<1>0. call[r] \in Call /\ call[r].in \in Input /\ events \in 0..MaxEvents
  BY DEF MembersInv, MembersTypeOK, Call
<1> DEFINE k == [NoInput EXCEPT !.kind = call[r].in.kind]
           i == [k EXCEPT !.actor = call[r].in.actor]
           v == [pc |-> "committed", seen |-> None, tells |-> EventsOf(r), in |-> i]
<1>1. call' = [call EXCEPT ![r] = v]
  BY Zenon DEF Committed
<1>2. EventsOf(r) \in SUBSET SUBSET (User \cup {None})
  <2>1. CASE call[r].in.kind = "invite"
    <3>1. EventsOf(r) = {}
      BY <2>1, Zenon DEF EventsOf
    <3> QED BY <3>1
  <2>2. CASE call[r].in.kind = "remove" /\ call[r].seen.user # None
    <3>1. call[r].in.kind # "invite" /\ call[r].in.kind # "leave"
      BY <2>2
    <3>2. EventsOf(r) = {{call[r].seen.user}, {None}}
      BY <2>2, <3>1, Zenon DEF EventsOf
    <3> QED BY <2>2, <3>2 DEF MemberRow
  <2>3. CASE call[r].in.kind = "leave"
    <3>1. call[r].in.kind # "invite" /\ call[r].in.kind # "remove"
      BY <2>3
    <3>2. EventsOf(r) = {{call[r].in.actor}, {None}}
      BY <2>3, <3>1, Zenon DEF EventsOf
    <3> QED BY <1>0, <3>2 DEF Input
  <2>4. CASE /\ call[r].in.kind \notin {"invite", "leave"}
             /\ ~(call[r].in.kind = "remove" /\ call[r].seen.user # None)
    <3>1. call[r].in.kind # "invite" /\ call[r].in.kind # "leave"
      BY <2>4
    <3>2. EventsOf(r) = {{None}}
      BY <2>4, <3>1, Zenon DEF EventsOf
    <3> QED BY <3>2
  <2> QED BY <2>1, <2>2, <2>3, <2>4
<1>3. i \in Input
  <2>1. NoInput \in Input
    BY NoCallType DEF NoCall, Call
  <2>2. k \in Input
    BY <1>0, <2>1 DEF Input
  <2> HIDE DEF k
  <2> QED BY <1>0, <2>2 DEF Input
<1> HIDE DEF i
<1>4. v \in Call /\ v.pc = "committed"
  BY <1>2, <1>3 DEF Call, Phase
<1> HIDE DEF v
<1>5. CallFits(r)'
  BY <1>0, <1>1, <1>4 DEF CallFits, MembersInv, MembersTypeOK
<1>6. events' \in 0..MaxEvents
  BY <1>0
<1> QED BY <1>1, <1>4, <1>5, <1>6, CallGoesOn

\* One row is written by a call that no other call's lock keeps from it.
LEMMA WritesRow ==
  ASSUME MembersInv, NEW r \in Request, NEW k \in Row, Free(k), Writing(r),
         call[r].in.kind # "invite",
         call[r].in.kind = "remove" => call[r].seen \in MemberRow,
         NEW v \in MemberRow \cup {None}, rows' = [rows EXCEPT ![k] = v],
         v # None => rows[k] # None /\ RowFits(v) /\ v.user = rows[k].user
  PROVE  MembersInv'
<1>0. MembersTypeOK /\ RowsLegal /\ None \notin Request
  BY MembersAssumption DEF MembersInv
<1>1. rows' \in [Row -> MemberRow \cup {None}] /\ rows'[k] = v
      /\ \A m \in Row \ {k} : rows'[m] = rows[m]
  BY <1>0 DEF MembersTypeOK
<1>2. EndsIffGuest'
  BY <1>0, <1>1 DEF RowsLegal, EndsIffGuest, Exists, RowFits
<1>3. OneMembership'
  BY <1>0, <1>1 DEF RowsLegal, OneMembership, Exists
<1>4. Committed(r) /\ UNCHANGED <<issued, homeDevices, suspended, lock, events>>
  BY DEF Writing
<1>5. ASSUME NEW q \in Request \ {r}, NEW m \in Row, lock[m] = q
      PROVE  lock'[m] = q /\ (IsInvite(m) => IsInvite(m)')
  <2>1. m # k /\ lock'[m] = q
    BY <1>0, <1>4, <1>5 DEF Free
  <2> QED BY <1>1, <2>1 DEF IsInvite, Exists
<1>6. /\ lock' \in [Row -> Request \cup {None}] /\ issued' \in Row
      /\ UNCHANGED <<homeDevices, suspended, events>> /\ RowsLegal'
  BY <1>0, <1>2, <1>3, <1>4 DEF MembersTypeOK, RowsLegal
<1> QED BY <1>1, <1>4, <1>5, <1>6, CommitKeeps

\* ... or none: the row it was about is gone.
LEMMA WritesNothing ==
  ASSUME MembersInv, NEW r \in Request, Writing(r), UNCHANGED rows,
         call[r].in.kind \notin {"invite", "remove"}
  PROVE  MembersInv'
<1>0. MembersTypeOK /\ RowsLegal
  BY DEF MembersInv
<1>1. Committed(r) /\ UNCHANGED <<issued, homeDevices, suspended, lock, events>>
  BY DEF Writing
<1>2. RowsLegal' /\ \A m \in Row : IsInvite(m)' = IsInvite(m)
  BY <1>0 DEF RowsLegal, EndsIffGuest, OneMembership, Exists, IsInvite
<1>3. /\ lock' \in [Row -> Request \cup {None}] /\ issued' \in Row
      /\ UNCHANGED <<homeDevices, suspended, events>> /\ RowsLegal'
      /\ rows' \in [Row -> MemberRow \cup {None}]
  BY <1>0, <1>1, <1>2 DEF MembersTypeOK
<1>4. \A q \in Request \ {r}, m \in Row : lock[m] = q =>
        lock'[m] = q /\ (IsInvite(m) => IsInvite(m)')
  BY <1>1, <1>2
<1> QED BY <1>1, <1>3, <1>4, CommitKeeps

LEMMA CommitPatchKeeps ==
  ASSUME MembersInv, NEW r \in Request, CommitPatch(r)
  PROVE  MembersInv'
<1> DEFINE in == call[r].in
<1>0. /\ MembersTypeOK /\ in \in Input /\ in.kind = "patch" /\ in.row \in Row /\ Free(in.row)
      /\ in.role \in Role /\ in.ends \in {"never", "future", "past"} /\ RowFits(in)
  BY DEF MembersInv, CallFits, CommitPatch, At, MembersTypeOK, Call
<1>1. CASE Exists(in.row) /\ rows' = [rows EXCEPT ![in.row] = Patched(@, in)] /\ Writing(r)
  <2>1. rows[in.row] \in MemberRow
    BY <1>0, <1>1 DEF Exists, MembersTypeOK
  <2> DEFINE v == Patched(rows[in.row], in)
  <2>2. v \in MemberRow /\ v.user = rows[in.row].user /\ RowFits(v)
    BY <1>0, <2>1, PatchedRow DEF RowFits
  <2>3. rows' = [rows EXCEPT ![in.row] = v]
    BY <1>1
  <2> HIDE DEF v
  <2> QED BY <1>0, <1>1, <2>2, <2>3, WritesRow DEF Exists
<1>2. CASE ~Exists(in.row) /\ in.devices \in {None, {}} /\ Writing(r) /\ UNCHANGED rows
  BY <1>0, <1>2, WritesNothing
<1>3. CASE ~Exists(in.row) /\ in.devices \notin {None, {}} /\ Refuse(r)
  BY <1>3, EndOnly DEF Refuse
<1> QED BY <1>1, <1>2, <1>3, Zenon DEF CommitPatch

LEMMA DeletesKeep ==
  ASSUME MembersInv, NEW r \in Request, RemoveMember(r) \/ LeaveHome(r) \/ DeleteInvite(r)
  PROVE  MembersInv'
<1> DEFINE in == call[r].in
<1>0. MembersTypeOK /\ in.row \in Row /\ Free(in.row) /\ Writing(r) /\ in.kind # "invite"
      /\ (in.kind = "remove" => call[r].seen \in MemberRow)
  BY DEF MembersInv, CallFits, RemoveMember, LeaveHome, DeleteInvite, DeleteMember, At
<1>1. CASE RemoveMember(r) \/ LeaveHome(r)
  <2>1. rows' = [rows EXCEPT ![in.row] = None]
    BY <1>1 DEF RemoveMember, LeaveHome, DeleteMember
  <2>2. None \in MemberRow \cup {None}
    OBVIOUS
  <2> QED BY <1>0, <2>1, <2>2, WritesRow
<1>2. CASE DeleteInvite(r)
  <2> DEFINE v == IF IsInvite(in.row) THEN None ELSE rows[in.row]
  <2>1. rows' = [rows EXCEPT ![in.row] = v]
    BY <1>2, Zenon DEF DeleteInvite
  <2>2. v \in MemberRow \cup {None}
        /\ (v # None => rows[in.row] # None /\ RowFits(v) /\ v.user = rows[in.row].user)
    BY <1>0 DEF MembersTypeOK, MembersInv, RowsLegal, EndsIffGuest, RowFits, Exists
  <2> HIDE DEF v
  <2> QED BY <1>0, <2>1, <2>2, WritesRow
<1> QED BY <1>1, <1>2


\* Expired rows are deleted, and one row is written.
LEMMA ReplacesRows ==
  ASSUME MembersTypeOK, RowsLegal, NEW gone \in SUBSET Row, NEW k \in Row, NEW v \in MemberRow,
         RowFits(v), rows' = [Without(gone) EXCEPT ![k] = v],
         v.user # None => \A m \in Row \ {k} :
           Exists(m) /\ rows[m].user = v.user => m \in gone
  PROVE  /\ rows' \in [Row -> MemberRow \cup {None}] /\ RowsLegal' /\ rows'[k] = v
         /\ \A m \in Row \ {k} : m \notin gone => rows'[m] = rows[m]
<1>1. /\ Without(gone) \in [Row -> MemberRow \cup {None}]
      /\ \A m \in Row : Without(gone)[m] = IF m \in gone THEN None ELSE rows[m]
  BY DEF Without, MembersTypeOK
<1>2. /\ rows' \in [Row -> MemberRow \cup {None}] /\ rows'[k] = v
      /\ \A m \in Row \ {k} : rows'[m] = IF m \in gone THEN None ELSE rows[m]
  BY <1>1
<1>3. EndsIffGuest'
  BY <1>2 DEF RowsLegal, EndsIffGuest, Exists, RowFits
<1>4. OneMembership'
  BY <1>2 DEF RowsLegal, OneMembership, Exists
<1> QED BY <1>2, <1>3, <1>4 DEF RowsLegal

LEMMA CommitInviteKeeps ==
  ASSUME MembersInv, NEW r \in Request, CommitInvite(r)
  PROVE  MembersInv'
<1> DEFINE in == call[r].in
           gone == ExpiredRows(in.email)
           k == issued + 1
           v == [user |-> None, email |-> in.email, role |-> in.role, invite |-> "live",
                 ends |-> IF in.role = "GUEST" THEN in.ends ELSE "never",
                 devices |-> IF in.role = "GUEST" THEN in.devices ELSE {}]
<1>0. /\ MembersTypeOK /\ RowsLegal /\ None \notin Request /\ in.kind = "invite"
      /\ in.email \in User /\ in.role \in Role
      /\ in.role = "GUEST" => in.ends = "future" /\ in.devices \subseteq Device
  BY MembersAssumption DEF MembersInv, CallFits, CommitInvite, At
<1>1. /\ \A m \in gone : Free(m)
      /\ issued' = k /\ issued < MaxRow
      /\ rows' = [Without(gone) EXCEPT ![k] = v] /\ Writing(r)
  BY DEF CommitInvite
<1>2. k \in Row /\ issued' \in Row /\ gone \in SUBSET Row
  BY <1>0, <1>1, MembersAssumption DEF MembersTypeOK, Row, ExpiredRows
<1>3. v \in MemberRow /\ RowFits(v) /\ v.user = None /\ v.invite = "live"
  BY <1>0 DEF MemberRow, RowFits
<1> HIDE DEF gone, v, k
<1>4. /\ rows' \in [Row -> MemberRow \cup {None}] /\ RowsLegal' /\ rows'[k] = v
      /\ \A m \in Row \ {k} : m \notin gone => rows'[m] = rows[m]
  BY <1>0, <1>1, <1>2, <1>3, ReplacesRows
<1>5. Committed(r) /\ UNCHANGED <<homeDevices, suspended, lock, events>>
      /\ lock' \in [Row -> Request \cup {None}]
  BY <1>0, <1>1 DEF Writing, MembersTypeOK
<1>6. None \notin MemberRow
  BY MembersAssumption
<1>7. ASSUME NEW q \in Request \ {r}, NEW m \in Row, lock[m] = q
      PROVE  lock'[m] = q /\ (IsInvite(m) => IsInvite(m)')
  <2>1. m \notin gone /\ lock'[m] = q
    BY <1>0, <1>1, <1>5, <1>7 DEF Free
  <2>2. CASE m = k
    BY <1>3, <1>4, <1>6, <2>1, <2>2 DEF IsInvite, Exists
  <2>3. CASE m # k
    BY <1>4, <2>1, <2>3 DEF IsInvite, Exists
  <2> QED BY <2>1, <2>2, <2>3
<1>8. call[r].in.kind = "remove" => call[r].seen \in MemberRow
  BY <1>0
<1> QED BY <1>2, <1>4, <1>5, <1>7, <1>8, CommitKeeps

\* A transaction that rolls back.
LEMMA GivesUp ==
  ASSUME MembersInv, NEW r \in Request, End(r),
         lock' = [m \in Row |-> IF lock[m] = r THEN None ELSE lock[m]],
         UNCHANGED <<issued, rows, homeDevices, suspended>>, events' \in 0..MaxEvents
  PROVE  MembersInv'
<1>0. MembersTypeOK /\ RowsLegal
  BY DEF MembersInv
<1>1. call' = [call EXCEPT ![r] = NoCall] /\ NoCall \in Call /\ CallFits(r)'
  BY <1>0, NoCallType DEF CallFits, End, MembersTypeOK
<1>2. RowsLegal' /\ \A m \in Row : IsInvite(m)' = IsInvite(m)
  BY <1>0 DEF RowsLegal, EndsIffGuest, OneMembership, Exists, IsInvite
<1>3. /\ lock' \in [Row -> Request \cup {None}] /\ issued' \in Row
      /\ UNCHANGED <<homeDevices, suspended>> /\ RowsLegal'
      /\ rows' \in [Row -> MemberRow \cup {None}]
  BY <1>0, <1>2 DEF MembersTypeOK
<1>4. \A q \in Request \ {r}, m \in Row : lock[m] = q =>
        lock'[m] = q /\ (IsInvite(m) => IsInvite(m)')
  BY <1>2
<1> QED BY <1>1, <1>3, <1>4, CallGoesOn

LEMMA AlreadyMemberKeeps ==
  ASSUME MembersInv, NEW r \in Request, AlreadyMember(r)
  PROVE  MembersInv'
<1>1. events' \in 0..MaxEvents
  BY DEF AlreadyMember, Release, MembersInv, MembersTypeOK
<1>2. /\ End(r) /\ UNCHANGED <<issued, rows, homeDevices, suspended>>
      /\ lock' = [m \in Row |-> IF lock[m] = r THEN None ELSE lock[m]]
  BY DEF AlreadyMember, Release
<1> QED BY <1>1, <1>2, GivesUp

LEMMA CheckMembershipKeeps ==
  ASSUME MembersInv, NEW r \in Request, CheckMembership(r)
  PROVE  MembersInv'
<1>1. CASE AlreadyMember(r)
  BY <1>1, AlreadyMemberKeeps
<1>2. CASE Goto(r, "activating") /\ Reading
  <2> DEFINE v == [call[r] EXCEPT !.pc = "activating"]
  <2>0. call[r] \in Call /\ call \in [Request -> Call] /\ At(r, "locked") /\ CallFits(r)
    BY DEF MembersInv, MembersTypeOK, CheckMembership
  <2>1. call' = [call EXCEPT ![r] = v]
    BY <1>2 DEF Goto
  <2>2. v \in Call /\ v.pc = "activating" /\ v.in = call[r].in
    BY <2>0 DEF Call, Phase
  <2> HIDE DEF v
  <2>3. call'[r] = v
    BY <2>0, <2>1
  <2>4. CallFits(r)'
    BY <1>2, <2>0, <2>2, <2>3 DEF CallFits, At, Reading, IsInvite, Exists
  <2> QED BY <1>2, <2>1, <2>2, <2>4, OnlyReads
<1> QED BY <1>1, <1>2 DEF CheckMembership

LEMMA JoinedRow ==
  ASSUME NEW row \in MemberRow, NEW u \in User
  PROVE  /\ Joined(row, u) \in MemberRow /\ Joined(row, u).user = u
         /\ Joined(row, u).role = row.role /\ Joined(row, u).ends = row.ends
<1> DEFINE a == [row EXCEPT !.user = u]
           b == [a EXCEPT !.email = None]
           c == [b EXCEPT !.invite = "none"]
<1>1. Joined(row, u) = c
  BY Zenon DEF Joined
<1>2. a \in MemberRow /\ a.user = u /\ a.role = row.role /\ a.ends = row.ends
  BY DEF MemberRow
<1> HIDE DEF a
<1>3. b \in MemberRow /\ b.user = u /\ b.role = row.role /\ b.ends = row.ends
  BY <1>2 DEF MemberRow
<1> HIDE DEF b
<1>4. c \in MemberRow /\ c.user = u /\ c.role = row.role /\ c.ends = row.ends
  BY <1>3 DEF MemberRow
<1> HIDE DEF c
<1> QED BY <1>1, <1>4

LEMMA ActivateInviteKeeps ==
  ASSUME MembersInv, NEW r \in Request, ActivateInvite(r)
  PROVE  MembersInv'
<1> DEFINE in == call[r].in
           gone == ExpiredRows(in.actor)
           k == in.row
           v == Joined(rows[k], in.actor)
<1>0. /\ MembersTypeOK /\ RowsLegal /\ None \notin Request /\ None \notin User
      /\ in \in Input /\ in.actor \in User /\ gone \in SUBSET Row
      /\ in.kind = "accept" /\ k \in Row /\ lock[k] = r /\ IsInvite(k)
  BY MembersAssumption
     DEF MembersInv, CallFits, ActivateInvite, At, MembersTypeOK, Call, Input, ExpiredRows
<1>1. CASE AlreadyMember(r)
  BY <1>1, AlreadyMemberKeeps
<1>2. CASE ~AlreadyMember(r)
  <2>1. /\ ~IsMember(in.actor) /\ \A m \in gone : lock[m] \in {None, r}
        /\ rows' = [Without(gone) EXCEPT ![k] = v] /\ Committed(r) /\ Release(r)
    BY <1>2 DEF ActivateInvite
  <2>2. rows[k] \in MemberRow /\ RowFits(rows[k])
    BY <1>0 DEF IsInvite, Exists, MembersTypeOK, RowsLegal, EndsIffGuest, RowFits
  <2>3. v \in MemberRow /\ v.user = in.actor /\ RowFits(v)
    BY <1>0, <2>2, JoinedRow DEF RowFits
  <2>4. v.user # None => \A m \in Row \ {k} : Exists(m) /\ rows[m].user = v.user => m \in gone
    BY <2>1, <2>3 DEF IsMember, Effective, ExpiredRows
  <2> HIDE DEF gone, v, k
  <2>5. /\ rows' \in [Row -> MemberRow \cup {None}] /\ RowsLegal'
        /\ \A m \in Row \ {k} : m \notin gone => rows'[m] = rows[m]
    BY <1>0, <2>1, <2>3, <2>4, ReplacesRows
  <2>6. /\ lock' \in [Row -> Request \cup {None}] /\ issued' \in Row
        /\ UNCHANGED <<homeDevices, suspended, events>>
        /\ \A m \in Row : lock[m] # r => lock'[m] = lock[m]
    BY <1>0, <2>1 DEF Release, MembersTypeOK
  <2>7. ASSUME NEW q \in Request \ {r}, NEW m \in Row, lock[m] = q
        PROVE  lock'[m] = q /\ (IsInvite(m) => IsInvite(m)')
    <3>1. m # k /\ m \notin gone /\ lock'[m] = q
      BY <1>0, <2>1, <2>6, <2>7
    <3> QED BY <2>5, <3>1 DEF IsInvite, Exists
  <2>8. call[r].in.kind = "remove" => call[r].seen \in MemberRow
    BY <1>0
  <2> QED BY <2>1, <2>5, <2>6, <2>7, <2>8, CommitKeeps
<1> QED BY <1>1, <1>2


\* No call moves; the invitations that are locked stay invitations.
LEMMA CallsWait ==
  ASSUME MembersInv, UNCHANGED <<call, lock, issued>>, RowsLegal',
         rows' \in [Row -> MemberRow \cup {None}], \A m \in Row : IsInvite(m) => IsInvite(m)',
         homeDevices' \subseteq Device, suspended' \in BOOLEAN, events' \in 0..MaxEvents
  PROVE  MembersInv'
<1>1. MembersTypeOK'
  BY DEF MembersInv, MembersTypeOK
<1>2. ASSUME NEW r \in Request PROVE CallFits(r)'
  BY DEF MembersInv, CallFits
<1> QED BY <1>1, <1>2 DEF MembersInv

\* A row ages: its invitation lapses or its membership ends.
LEMMA AgesKeep ==
  ASSUME MembersInv, NEW m \in Row, LapseInvite(m) \/ EndMembership(m)
  PROVE  MembersInv'
<1>0. MembersTypeOK /\ RowsLegal /\ Exists(m) /\ rows[m] \in MemberRow
  BY DEF MembersInv, MembersTypeOK, LapseInvite, EndMembership, IsInvite, Exists
<1>1. \E v \in MemberRow : /\ rows' = [rows EXCEPT ![m] = v] /\ v.user = rows[m].user
                           /\ v.role = rows[m].role
                           /\ v.ends # "never" <=> rows[m].ends # "never"
  <2>1. CASE LapseInvite(m)
    <3> DEFINE v == [rows[m] EXCEPT !.invite = "lapsed"]
    <3>1. rows' = [rows EXCEPT ![m] = v]
      BY <2>1 DEF LapseInvite
    <3>2. v \in MemberRow /\ v.user = rows[m].user /\ v.role = rows[m].role
          /\ v.ends = rows[m].ends
      BY <1>0 DEF MemberRow
    <3> HIDE DEF v
    <3> QED BY <3>1, <3>2
  <2>2. CASE EndMembership(m)
    <3> DEFINE v == [rows[m] EXCEPT !.ends = "past"]
    <3>1. rows' = [rows EXCEPT ![m] = v] /\ rows[m].ends = "future"
      BY <2>2 DEF EndMembership
    <3>2. v \in MemberRow /\ v.user = rows[m].user /\ v.role = rows[m].role /\ v.ends = "past"
      BY <1>0 DEF MemberRow
    <3> HIDE DEF v
    <3> QED BY <3>1, <3>2
  <2> QED BY <2>1, <2>2
<1>2. PICK v \in MemberRow : /\ rows' = [rows EXCEPT ![m] = v] /\ v.user = rows[m].user
                             /\ v.role = rows[m].role
                             /\ v.ends # "never" <=> rows[m].ends # "never"
  BY <1>1
<1>3. rows' \in [Row -> MemberRow \cup {None}] /\ rows'[m] = v
      /\ \A k \in Row \ {m} : rows'[k] = rows[k]
  BY <1>0, <1>2 DEF MembersTypeOK
<1>4. \A k \in Row : Exists(k)' = Exists(k) /\ (Exists(k) => rows'[k].user = rows[k].user)
  BY <1>0, <1>2, <1>3, MembersAssumption DEF Exists
<1>5. EndsIffGuest'
  BY <1>0, <1>2, <1>3, <1>4 DEF RowsLegal, EndsIffGuest
<1>6. OneMembership'
  BY <1>0, <1>4 DEF RowsLegal, OneMembership
<1>7. /\ RowsLegal' /\ UNCHANGED <<call, lock, issued, homeDevices, suspended>>
      /\ events' \in 0..MaxEvents
  BY <1>0, <1>5, <1>6, MembersAssumption
     DEF RowsLegal, LapseInvite, EndMembership, Happens, MembersTypeOK
<1>8. \A k \in Row : IsInvite(k) => IsInvite(k)'
  BY <1>4 DEF IsInvite
<1>9. homeDevices' \subseteq Device /\ suspended' \in BOOLEAN /\ UNCHANGED <<call, lock, issued>>
  BY <1>0, <1>7 DEF MembersTypeOK
<1> QED BY <1>3, <1>7, <1>8, <1>9, CallsWait

\* The home changes; its rows do not.
LEMMA HomeChanges ==
  ASSUME MembersInv, (\E d \in Device : MoveDevice(d)) \/ SetSuspended
  PROVE  MembersInv'
<1>0. MembersTypeOK /\ RowsLegal
  BY DEF MembersInv
<1>1. /\ UNCHANGED <<call, lock, issued, rows>> /\ events' \in 0..MaxEvents
      /\ homeDevices' \subseteq Device
  <2>1. Happens /\ UNCHANGED <<call, lock, issued, rows>>
        /\ (homeDevices' = homeDevices \/ \E d \in Device : homeDevices' = homeDevices \ {d})
    BY DEF MoveDevice, SetSuspended
  <2> QED BY <1>0, <2>1, MembersAssumption DEF Happens, MembersTypeOK
<1>4. suspended' \in BOOLEAN
  <2>1. suspended' = suspended \/ suspended' = ~ suspended
    BY DEF MoveDevice, SetSuspended
  <2> QED BY <1>0, <2>1, Zenon DEF MembersTypeOK
<1>2. /\ RowsLegal' /\ rows' \in [Row -> MemberRow \cup {None}]
      /\ \A m \in Row : IsInvite(m) => IsInvite(m)'
  BY <1>0, <1>1 DEF MembersTypeOK, RowsLegal, EndsIffGuest, OneMembership, Exists, IsInvite
<1>3. UNCHANGED <<call, lock, issued>>
  BY <1>1
<1> QED BY <1>1, <1>2, <1>3, <1>4, CallsWait

LEMMA DisturbKeeps ==
  ASSUME MembersInv, Disturb
  PROVE  MembersInv'
<1>1. ASSUME NEW r \in Request, FailCall(r) PROVE MembersInv'
  <2>1. /\ End(r) /\ UNCHANGED <<issued, rows, homeDevices, suspended>> /\ events' \in 0..MaxEvents
        /\ lock' = [m \in Row |-> IF lock[m] = r THEN None ELSE lock[m]]
    BY <1>1, MembersAssumption DEF FailCall, Happens, MembersInv, MembersTypeOK
  <2> QED BY <2>1, GivesUp
<1>2. ASSUME NEW m \in Row, LapseInvite(m) \/ EndMembership(m) PROVE MembersInv'
  BY <1>2, AgesKeep
<1> QED BY <1>1, <1>2, HomeChanges DEF Disturb

LEMMA WorkKeeps ==
  ASSUME MembersInv, NEW r \in Request, Work(r)
  PROVE  MembersInv'
  BY CheckPatchKeeps, CommitPatchKeeps, CommitInviteKeeps, DeletesKeep,
     CheckMembershipKeeps, ActivateInviteKeeps DEF Work

LEMMA FinishKeeps ==
  ASSUME MembersInv, NEW r \in Request, FinishCall(r)
  PROVE  MembersInv'
  BY EndOnly DEF FinishCall

LEMMA MembersStutters ==
  ASSUME MembersInv, UNCHANGED membersVars
  PROVE  MembersInv'
<1>1. MembersTypeOK /\ RowsLegal /\ UNCHANGED <<rows, call, lock, issued, homeDevices, suspended, events>>
  BY DEF MembersInv, membersVars
<1>2. /\ RowsLegal' /\ rows' \in [Row -> MemberRow \cup {None}]
      /\ \A m \in Row : IsInvite(m) => IsInvite(m)'
  BY <1>1 DEF MembersTypeOK, RowsLegal, EndsIffGuest, OneMembership, Exists, IsInvite
<1>3. /\ homeDevices' \subseteq Device /\ suspended' \in BOOLEAN /\ events' \in 0..MaxEvents
      /\ UNCHANGED <<call, lock, issued>>
  BY <1>1 DEF MembersTypeOK
<1> QED BY <1>2, <1>3, CallsWait

LEMMA MembersStep ==
  ASSUME MembersInv, [MembersNext]_membersVars
  PROVE  MembersInv'
<1>1. ASSUME NEW r \in Request, Start(r) \/ Work(r) \/ FinishCall(r) PROVE MembersInv'
  BY <1>1, StartKeeps, WorkKeeps, FinishKeeps
<1> QED BY <1>1, DisturbKeeps, MembersStutters DEF MembersNext

LEMMA IdleCallsFit ==
  ASSUME call = [r \in Request |-> NoCall]
  PROVE  call \in [Request -> Call] /\ \A r \in Request : CallFits(r)
  BY NoCallType DEF CallFits

LEMMA MembersStart == MembersInit => MembersInv
<1> SUFFICES ASSUME MembersInit PROVE MembersInv
  OBVIOUS
<1>1. rows = [m \in Row |-> IF m = 1 THEN OwnerRow ELSE None]
  BY DEF MembersInit, OwnerRow
<1>2. call = [r \in Request |-> NoCall]
  BY DEF MembersInit
<1>3. 1 \in Row /\ 0 \in 0..MaxEvents
  BY MembersAssumption DEF Row
<1>4. MembersTypeOK
  BY <1>1, <1>2, <1>3, IdleCallsFit, OwnerRowFits DEF MembersInit, MembersTypeOK
<1>5. RowsLegal
  BY <1>1, OwnerRowFits DEF RowsLegal, EndsIffGuest, OneMembership, Exists, RowFits
<1> QED BY <1>2, <1>4, <1>5, IdleCallsFit DEF MembersInv

\* Members and invitations by themselves: a guest, member or invited, has an end and
\* nobody else has one, and nobody is in the home twice, whatever calls run at once
\* and fail (members.service.ts and the unique key of smart_home_members).
THEOREM MembersStayLegal == MembersSpec => [](MembersTypeOK /\ RowsLegal)
<1>1. MembersSpec => []MembersInv
  BY MembersStart, MembersStep, PTL DEF MembersSpec
<1>2. MembersInv => MembersTypeOK /\ RowsLegal
  BY DEF MembersInv
<1> QED BY <1>1, <1>2, PTL

-----------------------------------------------------------------------------
\* A connection that is not open or has not been verified has no user yet, and one
\* that never was or no longer is open has no timer.
Fits(k) ==
  /\ k.st \in {"new", "gone"} => ~ k.authTimer /\ ~ k.expiryTimer
  /\ k.st = "new" \/ k.stage \in {"waiting", "verifying"} => k.user = None

\* It takes one of its user's places.
Counts(k, u) == k.st \in {"open", "closing"} /\ k.user = u /\ k.stage # "failed"

HubInv == HubTypeOK /\ (\A c \in Conn : Fits(conn[c])) /\ AuthLimit

\* Nobody has more connections than before.
LEMMA PlacesBound ==
  ASSUME HubInv, conn' \in [Conn -> Connection], \A c \in Conn : Fits(conn'[c]),
         \A c \in Conn, u \in User : Counts(conn'[c], u) => Counts(conn[c], u),
         version' \in [User -> 0..MaxRevocations], asking' \subseteq SUBSET Conn,
         checking' \subseteq Conn
  PROVE  HubInv'
<1> DEFINE places(f, u) == {c \in {k \in Conn : f[k].st \in {"open", "closing"}} :
                              f[c].user = u /\ f[c].stage # "failed"}
<1>1. ASSUME NEW u \in User PROVE Cardinality(places(conn', u)) <= MaxAuth
  <2>1. places(conn', u) \subseteq places(conn, u)
    BY <1>1 DEF Counts
  <2>2. IsFiniteSet(places(conn, u))
    BY FS_Subset, WsHubAssumption
  <2>3. Cardinality(places(conn', u)) <= Cardinality(places(conn, u))
    BY <2>1, <2>2, FS_Subset
  <2>4. Cardinality(places(conn, u)) <= MaxAuth
    BY <1>1 DEF HubInv, AuthLimit, Connected
  <2>5. IsFiniteSet(places(conn', u))
    BY FS_Subset, WsHubAssumption
  <2>6. Cardinality(places(conn', u)) \in Nat /\ Cardinality(places(conn, u)) \in Nat
    BY <2>2, <2>5, FS_CardinalityType
  <2> HIDE DEF places
  <2> QED BY <2>3, <2>4, <2>6, WsHubAssumption
<1>2. AuthLimit'
  BY <1>1 DEF AuthLimit, Connected
<1> QED BY <1>2 DEF HubInv, HubTypeOK

\* One connection goes on without taking a place.
LEMMA OneMoves ==
  ASSUME HubInv, NEW c \in Conn, NEW v \in Connection, conn' = [conn EXCEPT ![c] = v],
         Fits(v), \A u \in User : Counts(v, u) => Counts(conn[c], u),
         version' = version, asking' \subseteq SUBSET Conn, checking' \subseteq Conn
  PROVE  HubInv'
<1>1. conn' \in [Conn -> Connection] /\ conn'[c] = v /\ \A k \in Conn \ {c} : conn'[k] = conn[k]
  BY DEF HubInv, HubTypeOK
<1>2. \A k \in Conn : Fits(conn'[k]) /\ \A u \in User : Counts(conn'[k], u) => Counts(conn[k], u)
  BY <1>1 DEF HubInv
<1>3. version' \in [User -> 0..MaxRevocations]
  BY DEF HubInv, HubTypeOK
<1> QED BY <1>1, <1>2, <1>3, PlacesBound

\* Authentication fails: the connection gives up its place.
LEMMA Fails ==
  ASSUME HubInv, NEW c \in Conn, version' = version, asking' \subseteq SUBSET Conn,
         checking' \subseteq Conn,
         conn' = [conn EXCEPT ![c].stage = "failed", ![c].st = "closing"]
  PROVE  HubInv'
<1>0. HubTypeOK /\ conn[c] \in Connection
  BY DEF HubInv, HubTypeOK
<1> DEFINE a == [conn[c] EXCEPT !.stage = "failed"]
           b == [a EXCEPT !.st = "closing"]
<1>1. conn' = [conn EXCEPT ![c] = b]
  BY <1>0 DEF HubTypeOK
<1>2. a \in Connection /\ a.stage = "failed"
  BY <1>0 DEF Connection
<1> HIDE DEF a
<1>3. b \in Connection /\ b.stage = a.stage /\ b.st = "closing"
  BY <1>2 DEF Connection
<1> HIDE DEF b
<1>4. Fits(b) /\ \A u \in User : Counts(b, u) => Counts(conn[c], u)
  BY <1>2, <1>3 DEF Fits, Counts
<1> QED BY <1>1, <1>3, <1>4, OneMoves

\* A connection opens, or is turned away.
LEMMA ConnectKeeps ==
  ASSUME HubInv, NEW c \in Conn, Connect(c)
  PROVE  HubInv'
<1>0. HubTypeOK /\ conn[c] \in Connection /\ Fits(conn[c]) /\ conn[c].st = "new"
      /\ version' = version /\ asking' \subseteq SUBSET Conn /\ checking' \subseteq Conn
  BY DEF HubInv, HubTypeOK, Connect
<1>1. CASE conn' = [conn EXCEPT ![c].st = "open", ![c].authTimer = TRUE]
  <2> DEFINE a == [conn[c] EXCEPT !.st = "open"]
             b == [a EXCEPT !.authTimer = TRUE]
  <2>1. conn' = [conn EXCEPT ![c] = b]
    BY <1>0, <1>1 DEF HubTypeOK
  <2>2. a \in Connection /\ a.user = conn[c].user /\ a.st = "open"
    BY <1>0 DEF Connection
  <2> HIDE DEF a
  <2>3. b \in Connection /\ b.user = a.user /\ b.st = a.st
    BY <2>2 DEF Connection
  <2> HIDE DEF b
  <2>4. Fits(b) /\ \A u \in User : Counts(b, u) => Counts(conn[c], u)
    BY <1>0, <2>2, <2>3, MembersAssumption DEF Fits, Counts
  <2> QED BY <1>0, <2>1, <2>3, <2>4, OneMoves
<1>2. CASE conn' = [conn EXCEPT ![c].st = "gone"]
  <2> DEFINE a == [conn[c] EXCEPT !.st = "gone"]
  <2>1. conn' = [conn EXCEPT ![c] = a]
    BY <1>0, <1>2 DEF HubTypeOK
  <2>2. a \in Connection /\ a.user = conn[c].user /\ a.st = "gone"
        /\ a.authTimer = conn[c].authTimer /\ a.expiryTimer = conn[c].expiryTimer
    BY <1>0 DEF Connection
  <2> HIDE DEF a
  <2>3. Fits(a) /\ \A u \in User : Counts(a, u) => Counts(conn[c], u)
    BY <1>0, <2>2 DEF Fits, Counts
  <2> QED BY <1>0, <2>1, <2>2, <2>3, OneMoves
<1> QED BY <1>1, <1>2 DEF Connect

\* The first frame names a token or closes the connection; no user is known yet.
LEMMA FirstFrameKeeps ==
  ASSUME HubInv, NEW c \in Conn, FirstFrame(c)
  PROVE  HubInv'
<1>0. HubTypeOK /\ conn[c] \in Connection /\ Fits(conn[c]) /\ conn[c].st = "open"
      /\ conn[c].stage = "waiting" /\ conn[c].user = None
      /\ version' = version /\ asking' \subseteq SUBSET Conn /\ checking' \subseteq Conn
  BY DEF HubInv, HubTypeOK, FirstFrame, Fits
<1>1. ASSUME NEW u \in User,
             conn' = [conn EXCEPT ![c].stage = "verifying", ![c].token = u, ![c].version = version[u]]
      PROVE  HubInv'
  <2> DEFINE a == [conn[c] EXCEPT !.stage = "verifying"]
             b == [a EXCEPT !.token = u]
             d == [b EXCEPT !.version = version[u]]
  <2>1. conn' = [conn EXCEPT ![c] = d]
    BY <1>0, <1>1 DEF HubTypeOK
  <2>2. a \in Connection /\ a.user = conn[c].user /\ a.st = conn[c].st
    BY <1>0 DEF Connection
  <2> HIDE DEF a
  <2>3. b \in Connection /\ b.user = a.user /\ b.st = a.st
    BY <2>2 DEF Connection
  <2> HIDE DEF b
  <2>4. d \in Connection /\ d.user = b.user /\ d.st = b.st
    BY <1>0, <2>3 DEF Connection, HubTypeOK
  <2> HIDE DEF d
  <2>5. Fits(d) /\ \A k \in User : Counts(d, k) => Counts(conn[c], k)
    BY <1>0, <2>2, <2>3, <2>4, MembersAssumption DEF Fits, Counts
  <2> QED BY <1>0, <2>1, <2>4, <2>5, OneMoves
<1>2. CASE conn' = [conn EXCEPT ![c].stage = "failed", ![c].st = "closing"]
  BY <1>0, <1>2, Fails
<1> QED BY <1>1, <1>2 DEF FirstFrame

\* A verified token takes a place, and there was one.
LEMMA VerifiedKeeps ==
  ASSUME HubInv, NEW c \in Conn, Verified(c)
  PROVE  HubInv'
<1> DEFINE u == conn[c].token
<1>0. HubTypeOK /\ conn[c] \in Connection /\ Fits(conn[c])
      /\ conn[c].stage = "verifying" /\ conn[c].user = None
      /\ version' = version /\ asking' \subseteq SUBSET Conn /\ checking' \subseteq Conn
  BY DEF HubInv, HubTypeOK, Verified, Fits
<1>1. CASE /\ conn[c].st = "open" /\ Cardinality(ConnectionsOf(u)) < MaxAuth
           /\ conn' = [conn EXCEPT ![c].stage = "loading", ![c].user = u, ![c].first = Loading]
  <2> DEFINE a == [conn[c] EXCEPT !.stage = "loading"]
             b == [a EXCEPT !.user = u]
             d == [b EXCEPT !.first = Loading]
  <2>1. conn' = [conn EXCEPT ![c] = d]
    BY <1>0, <1>1 DEF HubTypeOK
  <2>2. a \in Connection /\ a.stage = "loading" /\ a.st = conn[c].st
    BY <1>0 DEF Connection
  <2> HIDE DEF a
  <2>3. b \in Connection /\ b.user = u /\ b.stage = a.stage /\ b.st = a.st
    BY <1>0, <2>2 DEF Connection
  <2> HIDE DEF b
  <2>4. d \in Connection /\ d.user = b.user /\ d.stage = b.stage /\ d.st = b.st
    BY <2>3 DEF Connection, Load, Loading
  <2> HIDE DEF d
  <2>5. Fits(d) /\ d.user = u
    BY <1>1, <2>2, <2>3, <2>4 DEF Fits
  <2>6. conn' \in [Conn -> Connection] /\ conn'[c] = d /\ \A k \in Conn \ {c} : conn'[k] = conn[k]
    BY <1>0, <2>1, <2>4 DEF HubTypeOK
  <2>7. ASSUME NEW q \in User
        PROVE  Cardinality({k \in Connected : conn[k].user = q /\ conn[k].stage # "failed"})' <= MaxAuth
    <3> DEFINE old == {k \in Connected : conn[k].user = q /\ conn[k].stage # "failed"}
               new == {k \in Connected : conn[k].user = q /\ conn[k].stage # "failed"}'
    <3> SUFFICES Cardinality(new) <= MaxAuth
      OBVIOUS
    <3>1. IsFiniteSet(old) /\ IsFiniteSet(new) /\ IsFiniteSet(ConnectionsOf(q))
      <4>1. old \subseteq Conn /\ new \subseteq Conn /\ ConnectionsOf(q) \subseteq Conn
        BY DEF Connected, ConnectionsOf, Authed
      <4> QED BY <4>1, FS_Subset, WsHubAssumption
    <3>2. /\ Cardinality(old) \in Nat /\ Cardinality(new) \in Nat
          /\ Cardinality(ConnectionsOf(q)) \in Nat
      BY <3>1, FS_CardinalityType
    <3>3. CASE q = u
      <4>1. new \subseteq ConnectionsOf(q) \cup {c}
        BY <2>6, MembersAssumption DEF Connected, ConnectionsOf, Authed
      <4>2. /\ IsFiniteSet(ConnectionsOf(q) \cup {c})
            /\ \/ Cardinality(ConnectionsOf(q) \cup {c}) = Cardinality(ConnectionsOf(q))
               \/ Cardinality(ConnectionsOf(q) \cup {c}) = Cardinality(ConnectionsOf(q)) + 1
        BY <3>1, FS_AddElement
      <4>3. Cardinality(new) <= Cardinality(ConnectionsOf(q) \cup {c})
        BY <4>1, <4>2, FS_Subset
      <4>4. Cardinality(ConnectionsOf(q)) < MaxAuth
        BY <1>1, <3>3
      <4> HIDE DEF new, u
      <4> QED BY <3>2, <4>2, <4>3, <4>4, WsHubAssumption
    <3>4. CASE q # u
      <4>1. new \subseteq old
        BY <2>5, <2>6, <3>4 DEF Connected
      <4>2. Cardinality(new) <= Cardinality(old)
        BY <3>1, <4>1, FS_Subset
      <4>3. Cardinality(old) <= MaxAuth
        BY DEF HubInv, AuthLimit
      <4> HIDE DEF new, old, u
      <4> QED BY <3>2, <4>2, <4>3, WsHubAssumption
    <3> QED BY <3>3, <3>4
  <2>8. AuthLimit'
    BY <2>7 DEF AuthLimit
  <2> QED BY <1>0, <2>5, <2>6, <2>8 DEF HubInv, HubTypeOK
<1>2. CASE conn' = [conn EXCEPT ![c].stage = "failed", ![c].st = "closing"]
  BY <1>0, <1>2, Fails
<1>3. CASE conn' = [conn EXCEPT ![c].stage = "failed"]
  <2> DEFINE a == [conn[c] EXCEPT !.stage = "failed"]
  <2>1. conn' = [conn EXCEPT ![c] = a]
    BY <1>0, <1>3 DEF HubTypeOK
  <2>2. a \in Connection /\ a.user = conn[c].user /\ a.st = conn[c].st /\ a.stage = "failed"
        /\ a.authTimer = conn[c].authTimer /\ a.expiryTimer = conn[c].expiryTimer
    BY <1>0 DEF Connection
  <2> HIDE DEF a
  <2>3. Fits(a) /\ \A q \in User : Counts(a, q) => Counts(conn[c], q)
    BY <1>0, <2>2 DEF Fits, Counts
  <2> QED BY <1>0, <2>1, <2>2, <2>3, OneMoves
<1> QED BY <1>1, <1>2, <1>3 DEF Verified


LEMMA ScopeType ==
  ASSUME MembersTypeOK, NEW u
  PROVE  ScopeOf(u) \in Scope /\ Outside \in Scope
<1>1. Outside \in Scope
  BY DEF Outside, Scope
<1>2. CASE IsMember(u)
  <2> DEFINE m == MemberOf(u)
  <2>1. m \in Row /\ Effective(m, u)
    BY <1>2 DEF IsMember, MemberOf
  <2> HIDE DEF m
  <2>2. GuestDevices(m) \in SUBSET Device
    BY <2>1 DEF GuestDevices, Effective, Exists, MembersTypeOK, MemberRow
  <2>3. ScopeOf(u) = [in |-> TRUE, devices |-> GuestDevices(m)]
    BY <1>2 DEF ScopeOf, m
  <2> QED BY <1>1, <2>2, <2>3 DEF Scope
<1>3. CASE ~IsMember(u)
  BY <1>1, <1>3 DEF ScopeOf
<1> QED BY <1>1, <1>2, <1>3

\* The connection learns something; where it stands does not change.
LEMMA Learns ==
  ASSUME HubInv, NEW c \in Conn, NEW v \in Connection, conn' = [conn EXCEPT ![c] = v],
         v.st = conn[c].st, v.stage = conn[c].stage, v.user = conn[c].user,
         v.authTimer = conn[c].authTimer, v.expiryTimer = conn[c].expiryTimer,
         version' = version, asking' = asking, checking' = checking
  PROVE  HubInv'
<1>0. Fits(conn[c]) /\ asking' \subseteq SUBSET Conn /\ checking' \subseteq Conn
  BY DEF HubInv, HubTypeOK
<1>1. Fits(v) /\ \A u \in User : Counts(v, u) => Counts(conn[c], u)
  BY <1>0 DEF Fits, Counts
<1> QED BY <1>0, <1>1, OneMoves

LEMMA ReadHomesKeeps ==
  ASSUME MembersTypeOK, HubInv, NEW c \in Conn, ReadHomes(c)
  PROVE  HubInv'
<1> DEFINE s == ScopeOf(conn[c].user)
<1>0. HubTypeOK /\ conn[c] \in Connection /\ s \in Scope
      /\ version' = version /\ asking' = asking /\ checking' = checking
  BY ScopeType DEF HubInv, HubTypeOK, ReadHomes
<1>1. CASE conn' = [conn EXCEPT ![c].first.got = s]
  <2> DEFINE l == [conn[c].first EXCEPT !.got = s]
             v == [conn[c] EXCEPT !.first = l]
  <2>1. conn' = [conn EXCEPT ![c] = v]
    BY <1>0, <1>1 DEF HubTypeOK, Connection
  <2>2. l \in Load
    BY <1>0 DEF Connection, Load
  <2> HIDE DEF l
  <2>3. v \in Connection /\ v.st = conn[c].st /\ v.stage = conn[c].stage /\ v.user = conn[c].user
        /\ v.authTimer = conn[c].authTimer /\ v.expiryTimer = conn[c].expiryTimer
    BY <1>0, <2>2 DEF Connection
  <2> HIDE DEF v
  <2> QED BY <1>0, <2>1, <2>3, Learns
<1>2. CASE conn' = [conn EXCEPT ![c].refresh.got = s]
  <2> DEFINE l == [conn[c].refresh EXCEPT !.got = s]
             v == [conn[c] EXCEPT !.refresh = l]
  <2>1. conn' = [conn EXCEPT ![c] = v]
    BY <1>0, <1>2 DEF HubTypeOK, Connection
  <2>2. l \in Load
    BY <1>0 DEF Connection, Load
  <2> HIDE DEF l
  <2>3. v \in Connection /\ v.st = conn[c].st /\ v.stage = conn[c].stage /\ v.user = conn[c].user
        /\ v.authTimer = conn[c].authTimer /\ v.expiryTimer = conn[c].expiryTimer
    BY <1>0, <2>2 DEF Connection
  <2> HIDE DEF v
  <2> QED BY <1>0, <2>1, <2>3, Learns
<1> QED BY <1>1, <1>2 DEF ReadHomes

LEMMA HomesLoadedKeeps ==
  ASSUME HubInv, NEW c \in Conn, HomesLoaded(c)
  PROVE  HubInv'
<1>0. /\ HubTypeOK /\ conn[c] \in Connection /\ Fits(conn[c]) /\ conn[c].stage = "loading"
      /\ version' = version /\ asking' \subseteq SUBSET Conn /\ checking' \subseteq Conn
      /\ conn[c].first.got \in Scope
  BY DEF HubInv, HubTypeOK, HomesLoaded, Connection, Load
<1> DEFINE open == conn[c].st = "open"
           a == [conn[c] EXCEPT !.homes = conn[c].first.got]
           b == [a EXCEPT !.first = NoLoad]
           d == [b EXCEPT !.stage = "ready"]
           e == [d EXCEPT !.authTimer = IF open THEN FALSE ELSE conn[c].authTimer]
           f == [e EXCEPT !.expiryTimer = IF open THEN TRUE ELSE conn[c].expiryTimer]
<1>1. conn' = [conn EXCEPT ![c] = f]
  BY Zenon DEF HomesLoaded
<1>2. a \in Connection /\ a.st = conn[c].st /\ a.user = conn[c].user
      /\ a.authTimer = conn[c].authTimer /\ a.expiryTimer = conn[c].expiryTimer
  BY <1>0 DEF Connection
<1> HIDE DEF a
<1>3. b \in Connection /\ b.st = a.st /\ b.user = a.user
      /\ b.authTimer = a.authTimer /\ b.expiryTimer = a.expiryTimer
  BY <1>2 DEF Connection, Load, NoLoad
<1> HIDE DEF b
<1>4. d \in Connection /\ d.st = b.st /\ d.user = b.user /\ d.stage = "ready"
      /\ d.authTimer = b.authTimer /\ d.expiryTimer = b.expiryTimer
  BY <1>3 DEF Connection
<1> HIDE DEF d
<1>5. e \in Connection /\ e.st = d.st /\ e.user = d.user /\ e.stage = d.stage
      /\ (~ open => e.authTimer = conn[c].authTimer) /\ e.expiryTimer = d.expiryTimer
  BY <1>0, <1>4 DEF Connection
<1> HIDE DEF e
<1>6. f \in Connection /\ f.st = e.st /\ f.user = e.user /\ f.stage = e.stage
      /\ f.authTimer = e.authTimer /\ (~ open => f.expiryTimer = conn[c].expiryTimer)
  BY <1>0, <1>5 DEF Connection
<1> HIDE DEF f
<1>7. Fits(f) /\ \A u \in User : Counts(f, u) => Counts(conn[c], u)
  BY <1>0, <1>2, <1>3, <1>4, <1>5, <1>6 DEF Fits, Counts
<1> QED BY <1>0, <1>1, <1>6, <1>7, OneMoves

LEMMA RefreshDoneKeeps ==
  ASSUME HubInv, NEW c \in Conn, RefreshDone(c)
  PROVE  HubInv'
<1>0. /\ HubTypeOK /\ conn[c] \in Connection
      /\ version' = version /\ asking' = asking /\ checking' = checking
      /\ conn[c].refresh.got \in Scope
  BY DEF HubInv, HubTypeOK, RefreshDone, Connection, Load
<1> DEFINE a == [conn[c] EXCEPT !.homes = conn[c].refresh.got]
           b == [a EXCEPT !.refresh = NoLoad]
<1>1. conn' = [conn EXCEPT ![c] = b]
  BY <1>0 DEF HubTypeOK, RefreshDone
<1>2. a \in Connection /\ a.st = conn[c].st /\ a.stage = conn[c].stage /\ a.user = conn[c].user
      /\ a.authTimer = conn[c].authTimer /\ a.expiryTimer = conn[c].expiryTimer
  BY <1>0 DEF Connection
<1> HIDE DEF a
<1>3. b \in Connection /\ b.st = a.st /\ b.stage = a.stage /\ b.user = a.user
      /\ b.authTimer = a.authTimer /\ b.expiryTimer = a.expiryTimer
  BY <1>2 DEF Connection, Load, NoLoad
<1> HIDE DEF b
<1> QED BY <1>0, <1>1, <1>2, <1>3, Learns

\* A connection closes: by itself, for a revoked session, or for good.
LEMMA Closes ==
  ASSUME HubInv, NEW c \in Conn, version' = version, asking' \subseteq SUBSET Conn,
         checking' \subseteq Conn,
         \/ conn' = [conn EXCEPT ![c].st = "closing"] /\ conn[c].st = "open"
         \/ conn' = conn
  PROVE  HubInv'
<1>0. HubTypeOK /\ conn[c] \in Connection /\ Fits(conn[c])
  BY DEF HubInv, HubTypeOK
<1>1. CASE conn' = [conn EXCEPT ![c].st = "closing"] /\ conn[c].st = "open"
  <2> DEFINE a == [conn[c] EXCEPT !.st = "closing"]
  <2>1. conn' = [conn EXCEPT ![c] = a]
    BY <1>0, <1>1 DEF HubTypeOK
  <2>2. a \in Connection /\ a.user = conn[c].user /\ a.st = "closing" /\ a.stage = conn[c].stage
    BY <1>0 DEF Connection
  <2> HIDE DEF a
  <2>3. Fits(a) /\ \A q \in User : Counts(a, q) => Counts(conn[c], q)
    BY <1>0, <1>1, <2>2 DEF Fits, Counts
  <2> QED BY <2>1, <2>2, <2>3, OneMoves
<1>2. CASE conn' = conn
  <2>1. /\ conn' \in [Conn -> Connection] /\ \A k \in Conn : Fits(conn'[k])
        /\ \A k \in Conn, u \in User : Counts(conn'[k], u) => Counts(conn[k], u)
        /\ version' \in [User -> 0..MaxRevocations]
    BY <1>2 DEF HubInv, HubTypeOK
  <2> QED BY <2>1, PlacesBound
<1> QED BY <1>1, <1>2

LEMMA ClosingKeeps ==
  ASSUME HubInv, NEW c \in Conn, CloseConnection(c) \/ CheckSession(c)
  PROVE  HubInv'
<1>0. HubTypeOK /\ version' = version /\ asking' \subseteq SUBSET Conn /\ checking' \subseteq Conn
  BY DEF HubInv, HubTypeOK, CloseConnection, CheckSession
<1>1. CASE CloseConnection(c)
  BY <1>0, <1>1, Closes DEF CloseConnection
<1>2. CASE CheckSession(c)
  <2> DEFINE n == IF version[conn[c].user] # conn[c].version /\ conn[c].st = "open"
                  THEN "closing" ELSE conn[c].st
  <2>1. conn' = [conn EXCEPT ![c].st = n]
    BY <1>2 DEF CheckSession
  <2>2. (n = "closing" /\ conn[c].st = "open") \/ n = conn[c].st
    OBVIOUS
  <2> HIDE DEF n
  <2>3. n = conn[c].st => conn' = conn
    BY <1>0, <2>1 DEF HubTypeOK, Connection
  <2> QED BY <1>0, <2>1, <2>2, <2>3, Closes
<1> QED BY <1>1, <1>2

LEMMA ClosedKeeps ==
  ASSUME HubInv, NEW c \in Conn, ClosedEvent(c)
  PROVE  HubInv'
<1>0. HubTypeOK /\ conn[c] \in Connection /\ Fits(conn[c])
      /\ version' = version /\ asking' \subseteq SUBSET Conn /\ checking' \subseteq Conn
  BY DEF HubInv, HubTypeOK, ClosedEvent
<1> DEFINE a == [conn[c] EXCEPT !.st = "gone"]
           b == [a EXCEPT !.authTimer = FALSE]
           d == [b EXCEPT !.expiryTimer = FALSE]
<1>1. conn' = [conn EXCEPT ![c] = d]
  BY <1>0 DEF HubTypeOK, ClosedEvent
<1>2. a \in Connection /\ a.st = "gone" /\ a.stage = conn[c].stage /\ a.user = conn[c].user
  BY <1>0 DEF Connection
<1> HIDE DEF a
<1>3. b \in Connection /\ b.st = a.st /\ b.stage = a.stage /\ b.user = a.user /\ ~ b.authTimer
  BY <1>2 DEF Connection
<1> HIDE DEF b
<1>4. d \in Connection /\ d.st = b.st /\ d.stage = b.stage /\ d.user = b.user
      /\ d.authTimer = b.authTimer /\ ~ d.expiryTimer
  BY <1>3 DEF Connection
<1> HIDE DEF d
<1>5. Fits(d) /\ \A u \in User : Counts(d, u) => Counts(conn[c], u)
  BY <1>0, <1>2, <1>3, <1>4 DEF Fits, Counts
<1> QED BY <1>0, <1>1, <1>4, <1>5, OneMoves

\* Refreshing asks the database anew and moves nobody.
LEMMA RefreshKeeps ==
  ASSUME HubInv, NEW cs, conn' = Refreshed(cs) \/ conn' = conn,
         version' \in [User -> 0..MaxRevocations], asking' \subseteq SUBSET Conn,
         checking' \subseteq Conn
  PROVE  HubInv'
<1>0. HubTypeOK
  BY DEF HubInv
<1>1. ASSUME NEW c \in Conn
      PROVE  /\ conn'[c] \in Connection /\ Fits(conn'[c])
             /\ \A u \in User : Counts(conn'[c], u) => Counts(conn[c], u)
  <2> DEFINE v == [conn[c] EXCEPT !.refresh = Loading]
  <2>0. conn[c] \in Connection /\ Fits(conn[c])
    BY <1>1 DEF HubInv, HubTypeOK
  <2>1. conn'[c] = v \/ conn'[c] = conn[c]
    BY <1>1 DEF Refreshed
  <2>2. /\ v \in Connection /\ v.st = conn[c].st /\ v.stage = conn[c].stage /\ v.user = conn[c].user
        /\ v.authTimer = conn[c].authTimer /\ v.expiryTimer = conn[c].expiryTimer
    BY <2>0 DEF Connection, Load, Loading
  <2> HIDE DEF v
  <2>3. Fits(v) /\ \A u \in User : Counts(v, u) => Counts(conn[c], u)
    BY <2>0, <2>2 DEF Fits, Counts
  <2> QED BY <2>0, <2>1, <2>2, <2>3
<1>2. conn' \in [Conn -> Connection]
  <2>1. conn' = [c \in Conn |-> conn'[c]]
    BY <1>0 DEF Refreshed, HubTypeOK
  <2> QED BY <1>1, <2>1
<1> QED BY <1>1, <1>2, PlacesBound

LEMMA QueryFailsKeeps ==
  ASSUME HubInv, HubQueryFails
  PROVE  HubInv'
<1>0. HubTypeOK /\ version' = version /\ checking' = checking
      /\ asking' \subseteq SUBSET Conn
  BY DEF HubInv, HubTypeOK, HubQueryFails
<1>1. ASSUME NEW c \in Conn,
             conn' = [conn EXCEPT ![c].first = NoLoad, ![c].stage = "failed",
                        ![c].st = IF @ = "open" THEN "closing" ELSE @]
      PROVE  HubInv'
  <2> DEFINE a == [conn[c] EXCEPT !.first = NoLoad]
             b == [a EXCEPT !.stage = "failed"]
             d == [b EXCEPT !.st = IF @ = "open" THEN "closing" ELSE @]
  <2>0. conn[c] \in Connection /\ Fits(conn[c]) /\ checking' \subseteq Conn
    BY <1>0 DEF HubInv, HubTypeOK
  <2>1. conn' = [conn EXCEPT ![c] = d]
    BY <1>0, <1>1 DEF HubTypeOK
  <2>2. a \in Connection /\ a.st = conn[c].st /\ a.user = conn[c].user
        /\ a.authTimer = conn[c].authTimer /\ a.expiryTimer = conn[c].expiryTimer
    BY <2>0 DEF Connection, Load, NoLoad
  <2> HIDE DEF a
  <2>3. b \in Connection /\ b.st = a.st /\ b.user = a.user /\ b.stage = "failed"
        /\ b.authTimer = a.authTimer /\ b.expiryTimer = a.expiryTimer
    BY <2>2 DEF Connection
  <2> HIDE DEF b
  <2>4. d \in Connection /\ (d.st = b.st \/ d.st = "closing") /\ d.user = b.user /\ d.stage = b.stage
        /\ d.authTimer = b.authTimer /\ d.expiryTimer = b.expiryTimer
    BY <2>3 DEF Connection
  <2> HIDE DEF d
  <2>5. Fits(d) /\ \A u \in User : Counts(d, u) => Counts(conn[c], u)
    BY <2>0, <2>2, <2>3, <2>4 DEF Fits, Counts
  <2> QED BY <1>0, <2>0, <2>1, <2>4, <2>5, OneMoves
<1>2. ASSUME NEW c \in Conn, conn' = [conn EXCEPT ![c].refresh = NoLoad], UNCHANGED asking
      PROVE  HubInv'
  <2> DEFINE a == [conn[c] EXCEPT !.refresh = NoLoad]
  <2>0. conn[c] \in Connection
    BY <1>0 DEF HubInv, HubTypeOK
  <2>1. conn' = [conn EXCEPT ![c] = a]
    BY <1>0, <1>2 DEF HubTypeOK
  <2>2. a \in Connection /\ a.st = conn[c].st /\ a.stage = conn[c].stage /\ a.user = conn[c].user
        /\ a.authTimer = conn[c].authTimer /\ a.expiryTimer = conn[c].expiryTimer
    BY <2>0 DEF Connection, Load, NoLoad
  <2> HIDE DEF a
  <2> QED BY <1>0, <1>2, <2>1, <2>2, Learns
<1>3. ASSUME conn' = conn PROVE HubInv'
  <2>1. version' \in [User -> 0..MaxRevocations] /\ checking' \subseteq Conn
    BY <1>0 DEF HubTypeOK
  <2> QED BY <1>0, <1>3, <2>1, RefreshKeeps
<1> QED BY <1>1, <1>2, <1>3 DEF HubQueryFails

\* What many connections are told at once.
LEMMA HubEventsKeep ==
  ASSUME HubInv, \/ \E h \in asking : MembersKnown(h)
                 \/ \E tells : Dispatch(tells)
                 \/ \E u \in User : Revoke(u)
                 \/ HubTick
                 \/ UNCHANGED hubVars
  PROVE  HubInv'
<1>0. HubTypeOK /\ Authed \subseteq Conn
  BY DEF HubInv, Authed, Connected
<1>1. version' \in [User -> 0..MaxRevocations]
  <2>1. CASE \E u \in User : Revoke(u)
    BY <1>0, <2>1, WsHubAssumption DEF Revoke, HubTypeOK
  <2>2. CASE version' = version
    BY <1>0, <2>2 DEF HubTypeOK
  <2> QED BY <2>1, <2>2 DEF MembersKnown, Dispatch, HubTick, hubVars
<1>2. asking' \subseteq SUBSET Conn
  <2>1. ASSUME NEW tells, Dispatch(tells) PROVE asking' \subseteq SUBSET Conn
    <3>1. {c \in Authed : conn[c].homes.in} \subseteq Conn
      BY <1>0
    <3> QED BY <1>0, <2>1, <3>1 DEF Dispatch, HubTypeOK
  <2>2. asking' \subseteq asking => asking' \subseteq SUBSET Conn
    BY <1>0 DEF HubTypeOK
  <2> QED BY <2>1, <2>2 DEF MembersKnown, Revoke, HubTick, hubVars
<1>3. checking' \subseteq Conn
  BY <1>0 DEF MembersKnown, Dispatch, Revoke, HubTick, hubVars, HubTypeOK
<1>4. \E cs : conn' = Refreshed(cs) \/ conn' = conn
  BY DEF MembersKnown, Dispatch, Revoke, HubTick, hubVars
<1> QED BY <1>1, <1>2, <1>3, <1>4, RefreshKeeps

LEMMA HubStep ==
  ASSUME MembersTypeOK, HubInv, HubNext
  PROVE  HubInv'
<1>1. ASSUME NEW c \in Conn,
             Connect(c) \/ FirstFrame(c) \/ HubWork(c)
               \/ CloseConnection(c) \/ ClosedEvent(c) \/ CheckSession(c)
      PROVE  HubInv'
  BY <1>1, ConnectKeeps, FirstFrameKeeps, VerifiedKeeps, ReadHomesKeeps, HomesLoadedKeeps,
     RefreshDoneKeeps, ClosingKeeps, ClosedKeeps DEF HubWork
<1>2. CASE \/ \E h \in asking : MembersKnown(h)
           \/ \E u \in User : Revoke(u)
           \/ HubTick
  BY <1>2, HubEventsKeep
<1> QED BY <1>1, <1>2 DEF HubNext


-----------------------------------------------------------------------------
RightsInv == MembersInv /\ HubInv

LEMMA RightsStep ==
  ASSUME RightsInv, [RightsNext]_rightsVars
  PROVE  RightsInv'
<1>0. MembersInv /\ HubInv /\ MembersTypeOK
  BY DEF RightsInv, MembersInv
<1>1. ASSUME NEW r \in Request, Start(r) \/ Work(r) \/ FinishCall(r),
             UNCHANGED hubVars \/ Dispatch(Announced(r))
      PROVE  RightsInv'
  <2>1. MembersInv'
    BY <1>0, <1>1, StartKeeps, WorkKeeps, FinishKeeps
  <2>2. HubInv'
    BY <1>0, <1>1, HubEventsKeep
  <2> QED BY <2>1, <2>2 DEF RightsInv
<1>2. CASE Disturb /\ UNCHANGED hubVars
  BY <1>0, <1>2, DisturbKeeps, HubEventsKeep DEF RightsInv
<1>3. CASE HubNext /\ UNCHANGED membersVars
  BY <1>0, <1>3, HubStep, MembersStutters DEF RightsInv
<1>4. CASE HubQueryFails /\ Happens
             /\ UNCHANGED <<issued, rows, homeDevices, suspended, lock, call>>
  <2>1. /\ UNCHANGED <<call, lock, issued>> /\ RowsLegal'
        /\ rows' \in [Row -> MemberRow \cup {None}] /\ \A m \in Row : IsInvite(m) => IsInvite(m)'
    BY <1>0, <1>4 DEF MembersInv, MembersTypeOK, RowsLegal, EndsIffGuest, OneMembership, Exists,
                      IsInvite
  <2>2. homeDevices' \subseteq Device /\ suspended' \in BOOLEAN /\ events' \in 0..MaxEvents
    BY <1>0, <1>4, MembersAssumption DEF MembersTypeOK, Happens
  <2>3. MembersInv'
    BY <1>0, <2>1, <2>2, CallsWait
  <2> QED BY <1>0, <1>4, <2>3, QueryFailsKeeps DEF RightsInv
<1>5. CASE UNCHANGED rightsVars
  <2>1. UNCHANGED membersVars /\ UNCHANGED hubVars
    BY <1>5 DEF rightsVars
  <2> QED BY <1>0, <2>1, MembersStutters, HubEventsKeep DEF RightsInv
<1> QED BY <1>1, <1>2, <1>3, <1>4, <1>5 DEF RightsNext

\* Connections that are still to be opened, or never will.
LEMMA FreshConnection ==
  ASSUME NEW st \in {"new", "gone"}
  PROVE  LET v == [NewConnection EXCEPT !.st = st] IN
         /\ NewConnection \in Connection /\ v \in Connection
         /\ Fits(NewConnection) /\ Fits(v) /\ NewConnection.user = None /\ v.user = None
<1> DEFINE v == [NewConnection EXCEPT !.st = st]
<1>1. NewConnection \in Connection /\ ~ NewConnection.authTimer /\ ~ NewConnection.expiryTimer
      /\ NewConnection.user = None
  BY WsHubAssumption DEF NewConnection, Connection, Scope, Outside, Load, NoLoad
<1>2. v \in Connection /\ v.user = NewConnection.user /\ v.st = st
      /\ v.authTimer = NewConnection.authTimer /\ v.expiryTimer = NewConnection.expiryTimer
  BY <1>1 DEF Connection
<1> HIDE DEF v
<1>3. Fits(v) /\ Fits(NewConnection)
  BY <1>1, <1>2 DEF Fits
<1> QED BY <1>1, <1>2, <1>3 DEF v

LEMMA HubStart ==
  ASSUME NEW v \in Connection, Fits(v), v.user = None, conn = [c \in Conn |-> v],
         version = [u \in User |-> 0], asking = {}, checking = {}
  PROVE  HubInv
<1>1. \A c \in Conn : conn[c] = v
  OBVIOUS
<1>2. HubTypeOK
  BY WsHubAssumption DEF HubTypeOK
<1>3. ASSUME NEW u \in User
      PROVE  Cardinality({c \in Connected : conn[c].user = u /\ conn[c].stage # "failed"}) <= MaxAuth
  <2> DEFINE s == {c \in Connected : conn[c].user = u /\ conn[c].stage # "failed"}
  <2> SUFFICES Cardinality(s) <= MaxAuth
    OBVIOUS
  <2>1. s = {}
    BY <1>1, <1>3, MembersAssumption DEF Connected
  <2> HIDE DEF s
  <2>2. Cardinality(s) = 0
    BY <2>1, FS_EmptySet
  <2> QED BY <2>2, WsHubAssumption
<1> QED BY <1>1, <1>2, <1>3 DEF HubInv, AuthLimit

LEMMA RightsStart == RightsInit => RightsInv
<1> SUFFICES ASSUME RightsInit PROVE RightsInv
  OBVIOUS
<1>1. MembersInv
  BY MembersStart DEF RightsInit
<1>2. NewConnection \in Connection /\ Fits(NewConnection) /\ NewConnection.user = None
  BY FreshConnection
<1>3. HubInv
  BY <1>2, HubStart DEF RightsInit, HubInit
<1> QED BY <1>1, <1>3 DEF RightsInv

LEMMA RightsInvHolds == RightsSpec => []RightsInv
  BY RightsStart, RightsStep, PTL DEF RightsSpec

LEMMA InvGivesAll ==
  RightsInv => RightsTypeOK /\ RowsLegal /\ ConnectionsBounded
<1>1. HubInv => NoTimerLeft
  BY DEF HubInv, Fits, NoTimerLeft
<1> QED BY <1>1 DEF RightsInv, MembersInv, HubInv, RightsTypeOK, ConnectionsBounded

\* Calls, rows and connections have their types.
THEOREM RightsTypesHold == RightsSpec => []RightsTypeOK
  BY RightsInvHolds, InvGivesAll, PTL

\* The members of a home and its connections together: a guest, member or invited,
\* has an end and nobody else has one, and nobody is in the home twice, whatever
\* calls run at once (members.service.ts).
THEOREM RowsStayLegal == RightsSpec => []RowsLegal
  BY RightsInvHolds, InvGivesAll, PTL

\* No user gets past MAX_AUTH_PER_USER connections, and no timer outlives its
\* connection, wherever a close event falls between the awaits of handleAuthFrame
\* (wsHub.ts).
THEOREM ConnectionsStayBounded == RightsSpec => []ConnectionsBounded
  BY RightsInvHolds, InvGivesAll, PTL

\* A step of a call writes that call.
LEMMA OwnCall ==
  ASSUME NEW q \in Request, Start(q) \/ Work(q) \/ FinishCall(q)
  PROVE  \E v : call' = [call EXCEPT ![q] = v]
<1>1. CASE Start(q)
  BY <1>1, Zenon DEF Start, ReadTarget, CheckInvite, CheckLeave, LockInvite, SelectInvite, Begin
<1>2. CASE CheckPatch(q)
  BY <1>2, Zenon DEF CheckPatch, Refuse, End, Begin
<1>3. CASE CommitPatch(q) \/ CommitInvite(q) \/ RemoveMember(q) \/ LeaveHome(q) \/ DeleteInvite(q)
  BY <1>3, Zenon DEF CommitPatch, CommitInvite, RemoveMember, LeaveHome, DeleteInvite,
                     DeleteMember, Writing, Committed, Refuse, End
<1>4. CASE CheckMembership(q)
  <2>1. CASE Goto(q, "activating")
    BY <2>1 DEF Goto
  <2>2. CASE End(q)
    BY <2>2 DEF End
  <2> QED BY <1>4, <2>1, <2>2 DEF CheckMembership, AlreadyMember
<1>5. CASE ActivateInvite(q) \/ FinishCall(q)
  BY <1>5, Zenon DEF ActivateInvite, AlreadyMember, FinishCall, Committed, End
<1> QED BY <1>1, <1>2, <1>3, <1>4, <1>5 DEF Work

LEMMA DeclineSpares ==
  ASSUME RightsInv, [RightsNext]_rightsVars, NEW r \in Request, NEW m \in Row,
         call[r].in.kind = "decline", At(r, "checked"), call'[r].pc = "committed",
         Exists(m), rows[m].user # None
  PROVE  rows'[m] = rows[m]
<1>0. call \in [Request -> Call] /\ rows \in [Row -> MemberRow \cup {None}]
  BY DEF RightsInv, MembersInv, MembersTypeOK
<1>1. ASSUME NEW q \in Request, Start(q) \/ Work(q) \/ FinishCall(q) PROVE rows'[m] = rows[m]
  <2>1. PICK v : call' = [call EXCEPT ![q] = v]
    BY <1>1, OwnCall
  <2>2. q = r
    BY <1>0, <2>1 DEF At
  <2>3. DeleteInvite(r)
    BY <1>1, <2>2 DEF At, Start, Work, FinishCall, CheckPatch, CommitPatch, CommitInvite,
                      RemoveMember, LeaveHome, CheckMembership, ActivateInvite
  <2>4. rows' = [rows EXCEPT ![call[r].in.row] =
                   IF IsInvite(call[r].in.row) THEN None ELSE rows[call[r].in.row]]
    BY <2>3, Zenon DEF DeleteInvite
  <2> QED BY <1>0, <2>4 DEF IsInvite
<1>2. CASE Disturb
  <2>1. ASSUME NEW q \in Request, FailCall(q) PROVE FALSE
    <3>1. call' = [call EXCEPT ![q] = NoCall]
      BY <2>1 DEF FailCall, End
    <3> QED BY <1>0, <3>1, NoCallType DEF At
  <2>2. call' = call
    BY <1>2, <2>1 DEF Disturb, LapseInvite, EndMembership, MoveDevice, SetSuspended
  <2> QED BY <2>2 DEF At
<1>3. CASE call' = call
  BY <1>3 DEF At
<1> QED BY <1>1, <1>2, <1>3 DEF RightsNext, membersVars, rightsVars

\* Declining never takes a membership away, not even when the invitation is
\* accepted between its SELECT and its DELETE (deleteInviteForEmail).
THEOREM DecliningSparesMembers == RightsSpec => DeclineSparesMembers
<1>1. ASSUME RightsInv, [RightsNext]_rightsVars
      PROVE  [\A r \in Request, m \in Row :
                (call[r].in.kind = "decline" /\ At(r, "checked") /\ call'[r].pc = "committed"
                   /\ Exists(m) /\ rows[m].user # None) => rows'[m] = rows[m]]_membersVars
  BY <1>1, DeclineSpares
<1> QED BY <1>1, RightsInvHolds, PTL DEF RightsSpec, DeclineSparesMembers

\* The scenes that are run on small instances are legal states of the system.
LEMMA ScenesStart == MCRightsInit => RightsInv
<1> SUFFICES ASSUME MCRightsInit PROVE RightsInv
  OBVIOUS
<1>1. GuestRow \in MemberRow /\ RowFits(GuestRow) /\ GuestRow.user = Guest
  <2> DEFINE a == [OwnerRow EXCEPT !.user = Guest]
             b == [a EXCEPT !.role = "GUEST"]
             d == [b EXCEPT !.ends = "future"]
             e == [d EXCEPT !.devices = Device]
  <2>1. GuestRow = e
    BY Zenon DEF GuestRow
  <2>2. a \in MemberRow /\ a.user = Guest
    BY OwnerRowFits, SceneAssumption DEF MemberRow
  <2> HIDE DEF a
  <2>3. b \in MemberRow /\ b.user = a.user /\ b.role = "GUEST"
    BY <2>2 DEF MemberRow, Role
  <2> HIDE DEF b
  <2>4. d \in MemberRow /\ d.user = b.user /\ d.role = b.role /\ d.ends = "future"
    BY <2>3 DEF MemberRow
  <2> HIDE DEF d
  <2>5. e \in MemberRow /\ e.user = d.user /\ e.role = d.role /\ e.ends = d.ends
    BY <2>4 DEF MemberRow
  <2> HIDE DEF e
  <2> QED BY <2>1, <2>2, <2>3, <2>4, <2>5 DEF RowFits
<1>2. 1 \in Row /\ MaxRow \in Row /\ MaxRow - 1 \in Row /\ MaxRow # 1 /\ 0 \in 0..MaxEvents
      /\ MaxEvents \in 0..MaxEvents
  BY MembersAssumption, SceneAssumption DEF Row
<1>3. issued \in Row
  <2>1. CASE scene = "invitations"
    <3>1. issued = 1
      BY <2>1, Zenon DEF MCRightsInit
    <3> QED BY <1>2, <3>1
  <2>2. CASE scene = "edits"
    <3>1. scene # "invitations"
      BY <2>2
    <3>2. issued = MaxRow
      BY <2>2, <3>1, Zenon DEF MCRightsInit
    <3> QED BY <1>2, <3>2
  <2>3. CASE scene # "invitations" /\ scene # "edits"
    <3>1. issued = MaxRow - 1
      BY <2>3, Zenon DEF MCRightsInit
    <3> QED BY <1>2, <3>1
  <2> QED BY <2>1, <2>2, <2>3
<1>4. rows = [m \in Row |-> CASE m = 1 -> OwnerRow
                             [] m = MaxRow /\ scene = "edits" -> GuestRow
                             [] OTHER -> None]
  BY Zenon DEF MCRightsInit
<1>5. ASSUME NEW m \in Row
      PROVE  \/ m = 1 /\ rows[m] = OwnerRow
             \/ m = MaxRow /\ m # 1 /\ rows[m] = GuestRow
             \/ rows[m] = None
  <2>1. CASE m = 1
    <3>1. m # MaxRow
      BY <1>2, <2>1
    <3>2. rows[m] = OwnerRow
      BY <1>4, <2>1, <3>1, Zenon
    <3> QED BY <2>1, <3>2
  <2>2. CASE m = MaxRow /\ scene = "edits"
    <3>1. m # 1
      BY <1>2, <2>2
    <3>2. rows[m] = GuestRow
      BY <1>4, <2>2, <3>1, Zenon
    <3> QED BY <2>2, <3>1, <3>2
  <2>3. CASE m # 1 /\ ~(m = MaxRow /\ scene = "edits")
    <3>1. rows[m] = None
      BY <1>4, <2>3, Zenon
    <3> QED BY <3>1
  <2> QED BY <2>1, <2>2, <2>3
<1>6. rows \in [Row -> MemberRow \cup {None}]
  <2> DEFINE first(m) == CASE m = 1 -> OwnerRow
                           [] m = MaxRow /\ scene = "edits" -> GuestRow
                           [] OTHER -> None
  <2>0. rows = [m \in Row |-> first(m)]
    BY <1>4, Zenon
  <2> HIDE DEF first
  <2>1. rows = [m \in Row |-> rows[m]]
    BY <2>0
  <2> QED BY <1>1, <1>5, <2>1, OwnerRowFits
<1>7. RowsLegal
  BY <1>1, <1>5, OwnerRowFits, SceneAssumption
     DEF RowsLegal, EndsIffGuest, OneMembership, Exists, RowFits
<1>8. /\ call = [r \in Request |-> NoCall] /\ homeDevices = Device /\ suspended = FALSE
      /\ lock = [m \in Row |-> None] /\ events = IF scene = "edits" THEN MaxEvents ELSE 0
      /\ version = [u \in User |-> 0] /\ asking = {} /\ checking = {}
      /\ conn = [c \in Conn |-> [NewConnection EXCEPT
                   !.st = IF scene \in {"connected", "revoked"} THEN "new" ELSE "gone"]]
  BY Zenon DEF MCRightsInit
<1>9. MembersInv
  BY <1>2, <1>3, <1>6, <1>7, <1>8, IdleCallsFit DEF MembersInv, MembersTypeOK
<1>10. HubInv
  <2> DEFINE st == IF scene \in {"connected", "revoked"} THEN "new" ELSE "gone"
             v == [NewConnection EXCEPT !.st = st]
  <2>1. st \in {"new", "gone"} /\ conn = [c \in Conn |-> v]
    BY <1>8
  <2> HIDE DEF st
  <2>2. v \in Connection /\ Fits(v) /\ v.user = None
    BY <2>1, FreshConnection
  <2> HIDE DEF v
  <2> QED BY <1>8, <2>1, <2>2, HubStart
<1> QED BY <1>9, <1>10 DEF RightsInv

\* What is run on small instances keeps the same invariant.
THEOREM ScenesAreSafe ==
  MCRightsSpec => [](RightsTypeOK /\ RowsLegal /\ ConnectionsBounded)
<1>1. RightsInv /\ [RightsNext /\ InScene]_MCVars => RightsInv'
  BY RightsStep DEF MCVars
<1> QED BY <1>1, ScenesStart, InvGivesAll, PTL DEF MCRightsSpec
=============================================================================
