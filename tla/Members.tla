------------------------------- MODULE Members -------------------------------
(***************************************************************************)
(* Members and invitations of one home: members.service.ts and its SQL.    *)
(*                                                                         *)
(* A request is one HTTP call.  Its database statements outside a          *)
(* transaction are steps of their own; a transaction appears at its        *)
(* commit, the invitation that acceptInvitation has locked with FOR UPDATE *)
(* stays locked until then.  A call is taken up with its first statement;  *)
(* one that is refused there changes nothing and is not a step.  A user    *)
(* and his e-mail are the same value.                                      *)
(***************************************************************************)
EXTENDS Naturals, FiniteSets

CONSTANTS
  User,      \* accounts with role 'user'
  Owner,     \* the member with role OWNER
  MaxRow,    \* bound: so many rows of smart_home_members are ever made
  Device,    \* devices that may be in the home
  Request,   \* HTTP calls
  Plain,     \* roles other than OWNER and GUEST, which all checks treat alike
  None,      \* NULL, undefined, nobody
  MaxEvents  \* bound: time, devices, suspension and failures change so often

Row == 1..MaxRow

Role == {"OWNER", "CONTROLLER", "VIEWER", "GUEST"}

\* A row: a member (user set) or an invitation (user None, email set); how
\* long the invitation lives; when the membership ends; a guest's devices.
MemberRow == [user : User \cup {None}, email : User \cup {None}, role : Role,
              invite : {"none", "live", "lapsed"},
              ends : {"never", "future", "past"}, devices : SUBSET Device]

ASSUME MembersAssumption ==
  /\ Owner \in User
  /\ Plain \subseteq {"CONTROLLER", "VIEWER"}
  /\ None \notin User \cup Device \cup Request \cup Nat
  /\ None \notin MemberRow
  /\ MaxRow \in Nat \ {0} /\ MaxEvents \in Nat

VARIABLES
  issued,      \* the last id given to a row
  rows,        \* smart_home_members with member_device_access
  homeDevices, \* devices of the home
  suspended,   \* smart_homes.status = 'suspended'
  lock,        \* which request holds the lock of a row
  call,        \* what each request is doing
  events       \* counter for MaxEvents

membersVars == <<issued, rows, homeDevices, suspended, lock, call, events>>

-----------------------------------------------------------------------------
Kind == {"invite", "patch", "remove", "leave", "accept", "decline"}

\* What a call was asked: `row` is the member or invitation it names, None
\* stands for a field that the request left out.
Input == [kind : Kind, actor : User, row : Row \cup {None},
          email : User \cup {None}, role : Role \cup {None},
          ends : {"never", "future", "past", None},
          devices : (SUBSET Device) \cup {None}]

NoInput == [kind |-> "leave", actor |-> Owner, row |-> None, email |-> None,
            role |-> None, ends |-> None, devices |-> None]

Phase == {"idle", "admitted", "checked", "locked", "activating", "committed"}

\* `seen` is the row as it was read before the transaction.
\* `tells` are the home_changed events still to be emitted.
Call == [pc : Phase, in : Input, seen : MemberRow \cup {None},
         tells : SUBSET SUBSET (User \cup {None})]

NoCall == [pc |-> "idle", in |-> NoInput, seen |-> None, tells |-> {}]

Exists(m) == rows[m] # None

\* Effective membership: user set, and no end or an end to come.
Effective(m, u) ==
  Exists(m) /\ rows[m].user = u /\ rows[m].ends # "past"

IsMember(u) == \E m \in Row : Effective(m, u)

\* listEffectiveMemberUserIds.
MemberUsers == {u \in User : IsMember(u)}

MemberOf(u) == CHOOSE m \in Row : Effective(m, u)

Permissions(role) ==
  CASE role = "OWNER" -> {"view", "control_device", "manage_members"}
    [] role = "CONTROLLER" -> {"view", "control_device", "leave"}
    [] role = "VIEWER" -> {"view", "leave"}
    [] role = "GUEST" -> {"view", "control_device", "leave"}

\* requireHomeMember: 404 for who is no member, 403 for a missing permission.
RequireHomeMember(u, permission) ==
  IsMember(u) /\ permission \in Permissions(rows[MemberOf(u)].role)

\* What a member may see: all devices, or those granted to the guest and
\* still in the home.
GuestDevices(m) ==
  IF rows[m].role = "GUEST" THEN rows[m].devices \cap homeDevices
  ELSE Device

IsInvite(m) == Exists(m) /\ rows[m].user = None

\* emailAlreadyInHome: a member, or an invitation that has not lapsed.
EmailAlreadyInHome(e) ==
  \/ IsMember(e)
  \/ \E m \in Row : IsInvite(m) /\ rows[m].email = e /\ rows[m].invite = "live"

\* An invitation its addressee may see and accept.
Acceptable(m, u) ==
  /\ IsInvite(m) /\ rows[m].email = u
  /\ rows[m].invite = "live" /\ rows[m].ends # "past"

ExpiredRows(u) ==
  {m \in Row : Exists(m) /\ rows[m].user = u /\ rows[m].ends = "past"}

ValidGuestGrant(ends, devices) ==
  ends = "future" /\ devices # {} /\ devices \subseteq homeDevices

Free(m) == lock[m] = None

MembersTypeOK ==
  /\ rows \in [Row -> MemberRow \cup {None}]
  /\ issued \in Row
  /\ homeDevices \subseteq Device
  /\ suspended \in BOOLEAN
  /\ lock \in [Row -> Request \cup {None}]
  /\ call \in [Request -> Call]
  /\ events \in 0..MaxEvents

\* The home as a claim leaves it: its owner is its only member.
MembersInit ==
  /\ issued = 1
  /\ rows = [k \in Row |->
                 IF k = 1 THEN [user |-> Owner, email |-> None, role |-> "OWNER",
                                invite |-> "none", ends |-> "never", devices |-> {}]
                 ELSE None]
  /\ homeDevices = Device
  /\ suspended = FALSE
  /\ lock = [m \in Row |-> None]
  /\ call = [r \in Request |-> NoCall]
  /\ events = 0

-----------------------------------------------------------------------------
At(r, pc) == call[r].pc = pc

Goto(r, pc) == call' = [call EXCEPT ![r].pc = pc]

\* Nothing of the home changes in this step.
Reading == UNCHANGED <<issued, rows, homeDevices, suspended, lock, events>>

\* The home_changed events of a call: for which users, None for all members.
EventsOf(r) ==
  LET c == call[r] IN
  CASE c.in.kind = "invite" -> {}
    [] c.in.kind = "remove" /\ c.seen.user # None -> {{c.seen.user}, {None}}
    [] c.in.kind = "leave" -> {{c.in.actor}, {None}}
    [] OTHER -> {{None}}

\* What is left of a call after its commit.
Committed(r) ==
  call' = [call EXCEPT ![r] =
    [pc |-> "committed", seen |-> None, tells |-> EventsOf(r),
     in |-> [NoInput EXCEPT !.kind = call[r].in.kind, !.actor = call[r].in.actor]]]

\* The transaction writes rows and ends; only an invitation takes a new id.
Writing(r) ==
  /\ Committed(r)
  /\ call[r].in.kind # "invite" => UNCHANGED issued
  /\ UNCHANGED <<homeDevices, suspended, lock, events>>

\* The call ends; what it was is forgotten.
End(r) == call' = [call EXCEPT ![r] = NoCall]

Refuse(r) == End(r) /\ Reading

\* What the router lets through. OWNER is never assigned; only the invitation
\* of a guest carries an end and devices.
Asked ==
  LET of(kinds, rs, emails, roles, ends, devices) ==
        [kind : kinds, actor : User, row : rs, email : emails, role : roles,
         ends : ends, devices : devices]
  IN
  UNION {of({"invite"}, {None}, User, Plain, {None}, {None}),
         of({"invite"}, {None}, User, {"GUEST"}, {"future"}, SUBSET Device),
         of({"patch"}, Row, {None}, Plain \cup {"GUEST", None},
            {"never", "future", None}, (SUBSET Device) \cup {None}),
         of({"remove", "accept", "decline"}, Row, {None}, {None}, {None}, {None}),
         of({"leave"}, {None}, {None}, {None}, {None}, {None})}

\* A call of one of these kinds begins with what its first statement saw.
Begin(r, in, pc, seen) ==
  call' = [call EXCEPT ![r] = [pc |-> pc, in |-> in, seen |-> seen, tells |-> {}]]

(***************************************************************************)
(* Reading the target and the caller's rights                              *)
(***************************************************************************)

\* getMemberRow, then requireHomeMember and the checks on what was read.
ReadTarget(r, in) ==
  /\ in.kind \in {"patch", "remove"}
  /\ Exists(in.row)
  /\ RequireHomeMember(in.actor, "manage_members")
  /\ ~ suspended
  /\ rows[in.row].role # "OWNER"
  /\ in.kind = "patch" => in.role # None \/ in.ends # None \/ in.devices # None
  /\ Begin(r, in, "admitted", rows[in.row])
  /\ Reading

\* inviteMember up to the check that the e-mail is new to the home.
CheckInvite(r, in) ==
  /\ in.kind = "invite"
  /\ RequireHomeMember(in.actor, "manage_members")
  /\ ~ suspended
  /\ in.email # in.actor
  /\ in.role = "GUEST" => ValidGuestGrant(in.ends, in.devices)
  /\ ~ EmailAlreadyInHome(in.email)
  /\ Begin(r, in, "checked", None)
  /\ Reading

\* leaveHome: the row is the caller's own; OWNER cannot leave.
CheckLeave(r, in) ==
  /\ in.kind = "leave"
  /\ RequireHomeMember(in.actor, "view")
  /\ rows[MemberOf(in.actor)].role # "OWNER"
  /\ LET m == MemberOf(in.actor) IN
     Begin(r, [in EXCEPT !.row = m], "checked", rows[m])
  /\ Reading

-----------------------------------------------------------------------------
(***************************************************************************)
(* patchMember                                                             *)
(***************************************************************************)

\* Faulty variant: a role that the request leaves out is not filled in.
MutNewRole(r) == call[r].in.role

NewRole(r) ==
  IF call[r].in.role = None THEN call[r].seen.role ELSE call[r].in.role

\* Faulty variant: a guest whose end the request leaves out loses it.
MutNewEnds(r) ==
  IF NewRole(r) # "GUEST" \/ call[r].in.ends = None THEN "never"
  ELSE call[r].in.ends

\* The end to write: a guest keeps the one that was read unless it changes.
NewEnds(r) ==
  CASE NewRole(r) # "GUEST" -> "never"
    [] NewRole(r) = "GUEST" /\ call[r].in.ends # None -> call[r].in.ends
    [] OTHER -> call[r].seen.ends

\* The devices of the guest that the checks are about.
GuestList(r) ==
  CASE call[r].in.devices # None -> call[r].in.devices
    [] call[r].in.devices = None /\ Exists(call[r].in.row) -> rows[call[r].in.row].devices
    [] OTHER -> {}

\* The list to write; None leaves member_device_access alone.
NewDevices(r) ==
  CASE NewRole(r) # "GUEST" /\ call[r].seen.role = "GUEST" -> {}
    [] NewRole(r) = "GUEST"
         /\ (call[r].in.devices # None \/ call[r].seen.role # "GUEST") -> GuestList(r)
    [] OTHER -> None

\* Validation of a change; it reads the guest's devices and the home's. What
\* is to be written goes into the call.
CheckPatch(r) ==
  LET in == call[r].in
      valid ==
        CASE NewRole(r) # "GUEST" -> in.ends \in {None, "never"}
          [] NewRole(r) = "GUEST" /\ (in.ends # None \/ in.role # None) ->
               ValidGuestGrant(NewEnds(r), GuestList(r))
          [] OTHER -> in.devices # {} /\ (in.devices # None => in.devices \subseteq homeDevices)
  IN
  /\ At(r, "admitted") /\ in.kind = "patch"
  /\ \/ /\ valid
        /\ Begin(r, [in EXCEPT !.role = NewRole(r), !.ends = NewEnds(r),
                               !.devices = NewDevices(r)], "checked", None)
        /\ Reading
     \/ ~ valid /\ Refuse(r)

\* The row as updateMemberRow and replaceGuestDevices leave it.
Patched(row, in) ==
  [row EXCEPT !.role = in.role, !.ends = in.ends,
              !.devices = IF in.devices = None THEN @ ELSE in.devices]

\* updateMemberRow and replaceGuestDevices. If the row is gone the UPDATE
\* finds nothing, and an INSERT of devices breaks its foreign key.
CommitPatch(r) ==
  LET in == call[r].in IN
  /\ At(r, "checked") /\ in.kind = "patch" /\ Free(in.row)
  /\ \/ /\ Exists(in.row)
        /\ rows' = [rows EXCEPT ![in.row] = Patched(@, in)]
        /\ Writing(r)
     \/ ~ Exists(in.row) /\ in.devices \in {None, {}} /\ Writing(r) /\ UNCHANGED rows
     \/ ~ Exists(in.row) /\ in.devices \notin {None, {}} /\ Refuse(r)

(***************************************************************************)
(* inviteMember, removeMember, leaveHome                                   *)
(***************************************************************************)

\* deleteExpiredMemberRow.
Without(gone) == [m \in Row |-> IF m \in gone THEN None ELSE rows[m]]

\* deleteExpiredMemberRow and insertInvite in one transaction.
CommitInvite(r) ==
  LET in == call[r].in
      gone == ExpiredRows(in.email)
  IN
  /\ At(r, "checked") /\ in.kind = "invite"
  /\ \A m \in gone : Free(m)
  /\ issued < MaxRow /\ issued' = issued + 1
  /\ rows' = [Without(gone) EXCEPT ![issued'] =
       [user |-> None, email |-> in.email, role |-> in.role, invite |-> "live",
        ends |-> IF in.role = "GUEST" THEN in.ends ELSE "never",
        devices |-> IF in.role = "GUEST" THEN in.devices ELSE {}]]
  /\ Writing(r)

\* deleteMember: by id, whatever has become of the row.
DeleteMember(r) ==
  /\ Free(call[r].in.row)
  /\ rows' = [rows EXCEPT ![call[r].in.row] = None]
  /\ Writing(r)

RemoveMember(r) == call[r].in.kind = "remove" /\ At(r, "admitted") /\ DeleteMember(r)

LeaveHome(r) == call[r].in.kind = "leave" /\ At(r, "checked") /\ DeleteMember(r)

-----------------------------------------------------------------------------
(***************************************************************************)
(* acceptInvitation and declineInvitation                                  *)
(***************************************************************************)

\* SELECT ... FOR UPDATE of the caller's own, live invitation.
LockInvite(r, in) ==
  /\ in.kind = "accept"
  /\ Free(in.row) /\ Acceptable(in.row, in.actor)
  /\ lock' = [lock EXCEPT ![in.row] = r]
  /\ Begin(r, in, "locked", None)
  /\ UNCHANGED <<issued, rows, homeDevices, suspended, events>>

\* The end of a transaction releases its lock.
Release(r) ==
  /\ lock' = [m \in Row |-> IF lock[m] = r THEN None ELSE lock[m]]
  /\ UNCHANGED <<issued, homeDevices, suspended, events>>

AlreadyMember(r) ==
  IsMember(call[r].in.actor) /\ End(r) /\ Release(r) /\ UNCHANGED rows

\* hasEffectiveMembership, inside the transaction.
CheckMembership(r) ==
  /\ At(r, "locked")
  /\ \/ AlreadyMember(r)
     \/ ~ IsMember(call[r].in.actor) /\ Goto(r, "activating") /\ Reading

\* The row becomes a membership of u.
Joined(row, u) == [row EXCEPT !.user = u, !.email = None, !.invite = "none"]

\* Faulty variant: no unique key on (home_id, user_id).
MutActivateInvite(r) ==
  LET in == call[r].in IN
  /\ At(r, "activating")
  /\ rows' = [Without(ExpiredRows(in.actor)) EXCEPT ![in.row] = Joined(rows[in.row], in.actor)]
  /\ Committed(r) /\ Release(r)

\* deleteExpiredMemberRow, activateInvite and COMMIT. The unique key
\* (home_id, user_id) refuses a second membership of the caller.
ActivateInvite(r) ==
  LET in == call[r].in IN
  /\ At(r, "activating")
  /\ \A m \in ExpiredRows(in.actor) : lock[m] \in {None, r}
  /\ \/ AlreadyMember(r)
     \/ /\ ~ IsMember(in.actor)
        /\ rows' = [Without(ExpiredRows(in.actor)) EXCEPT
                       ![in.row] = Joined(rows[in.row], in.actor)]
        /\ Committed(r) /\ Release(r)

\* deleteInviteForEmail, the SELECT: a lapsed invitation can be declined too.
SelectInvite(r, in) ==
  /\ in.kind = "decline"
  /\ IsInvite(in.row) /\ rows[in.row].email = in.actor
  /\ Begin(r, in, "checked", None)
  /\ Reading

\* Faulty variant: DELETE by id alone.
MutDeleteInvite(r) ==
  LET in == call[r].in IN
  /\ At(r, "checked") /\ in.kind = "decline" /\ Free(in.row)
  /\ rows' = [rows EXCEPT ![in.row] = None]
  /\ Writing(r)

\* ... and the DELETE ... WHERE user_id IS NULL; it is not asked whether a row
\* was deleted.
DeleteInvite(r) ==
  LET in == call[r].in IN
  /\ At(r, "checked") /\ in.kind = "decline" /\ Free(in.row)
  /\ rows' = [rows EXCEPT ![in.row] = IF IsInvite(in.row) THEN None ELSE @]
  /\ Writing(r)

(***************************************************************************)
(* After the commit                                                        *)
(***************************************************************************)

\* Log, notifications, events and the answer. acceptInvitation reads the home
\* as its new member first: if that fails, no event is emitted.
Tells(r) == call[r].in.kind = "accept" => IsMember(call[r].in.actor)

Announced(r) == IF Tells(r) THEN call[r].tells ELSE {}

FinishCall(r) == At(r, "committed") /\ End(r) /\ Reading

-----------------------------------------------------------------------------
(***************************************************************************)
(* Time, the home, and failures                                            *)
(***************************************************************************)

Happens == events < MaxEvents /\ events' = events + 1

\* An invitation lapses (7 days), a membership ends (at most 30 days).
LapseInvite(m) ==
  /\ Happens
  /\ IsInvite(m) /\ rows[m].invite = "live"
  /\ rows' = [rows EXCEPT ![m].invite = "lapsed"]
  /\ UNCHANGED <<issued, homeDevices, suspended, lock, call>>

EndMembership(m) ==
  /\ Happens
  /\ Exists(m) /\ rows[m].ends = "future"
  /\ rows' = [rows EXCEPT ![m].ends = "past"]
  /\ UNCHANGED <<issued, homeDevices, suspended, lock, call>>

\* A device is moved to another home; its grants stay until they are replaced.
MoveDevice(d) ==
  /\ Happens
  /\ homeDevices' = homeDevices \ {d}
  /\ d \in homeDevices
  /\ UNCHANGED <<issued, rows, suspended, lock, call>>

SetSuspended ==
  /\ Happens
  /\ suspended' = ~ suspended
  /\ UNCHANGED <<issued, rows, homeDevices, lock, call>>

\* A statement fails: a transaction rolls back; after the commit the call
\* ends without its events.
FailCall(r) ==
  /\ Happens
  /\ ~ At(r, "idle")
  /\ lock' = [m \in Row |-> IF lock[m] = r THEN None ELSE lock[m]]
  /\ End(r)
  /\ UNCHANGED <<issued, rows, homeDevices, suspended>>

Start(r) ==
  /\ At(r, "idle")
  /\ \E in \in Asked :
    \/ ReadTarget(r, in) \/ CheckInvite(r, in) \/ CheckLeave(r, in)
    \/ LockInvite(r, in) \/ SelectInvite(r, in)

Work(r) ==
  \/ CheckPatch(r) \/ CommitPatch(r) \/ CommitInvite(r)
  \/ RemoveMember(r) \/ LeaveHome(r)
  \/ CheckMembership(r) \/ ActivateInvite(r) \/ DeleteInvite(r)

Disturb ==
  \/ \E m \in Row : LapseInvite(m) \/ EndMembership(m)
  \/ \E d \in Device : MoveDevice(d)
  \/ SetSuspended
  \/ \E r \in Request : FailCall(r)

MembersNext ==
  \/ \E r \in Request :
       Start(r) \/ Work(r) \/ FinishCall(r)
  \/ Disturb

MembersSpec == MembersInit /\ [][MembersNext]_membersVars

-----------------------------------------------------------------------------
\* A guest, member or invited, has an end and nobody else has one, although
\* patchMember decides what to write from a row it has read before: no mix of
\* concurrent edits makes a guest for ever (members.service.ts, NewEnds).
EndsIffGuest ==
  \A m \in Row : Exists(m) => (rows[m].role = "GUEST" <=> rows[m].ends # "never")

\* A person has one row in the home, however many invitations are accepted at
\* once (unique key and deleteExpiredMemberRow against acceptInvitation).
OneMembership ==
  \A m, k \in Row :
    Exists(m) /\ Exists(k) /\ rows[m].user = rows[k].user /\ rows[m].user # None
      => m = k

\* The rows of a home are ones that its members may have.
RowsLegal == EndsIffGuest /\ OneMembership

\* Declining never takes a membership away, not even when the invitation is
\* accepted between its SELECT and its DELETE (deleteInviteForEmail).
DeclineSparesMembers ==
  [][\A r \in Request, m \in Row :
       (call[r].in.kind = "decline" /\ At(r, "checked") /\ call'[r].pc = "committed"
          /\ Exists(m) /\ rows[m].user # None) => rows'[m] = rows[m]]_membersVars

\* The promise of members.service.ts:3: a guest has devices. Two edits of one
\* member break it.
GuestHasDevices ==
  \A m \in Row : Exists(m) /\ rows[m].role = "GUEST" => rows[m].devices # {}
=============================================================================
