---------------------------- MODULE OperatorAccess ----------------------------
(***************************************************************************)
(* Grants of operators on claimed homes (operatorAccess.service.ts), the   *)
(* requests of the console they permit, and the administrators who lock an *)
(* operator or revoke a grant meanwhile (team.service.ts).  Beside them the*)
(* legacy routes, which know no grants: they change the status of a device *)
(* and the password of an operator.  Every statement commits by itself,    *)
(* except a self-service grant, which is a transaction that holds a lock on*)
(* the row of the operator.                                                *)
(***************************************************************************)
EXTENDS Integers, FiniteSets

CONSTANTS
  Operator, House, Caller,   \* operators, homes, requests under way
  DailyLimit,                \* SELF_SERVICE_MAX_PER_DAY
  MaxGrant,                  \* bound: grants ever made
  MaxLogins,                 \* bound: logins of an operator after the first
  Nothing

ASSUME OperatorAssumption ==
  DailyLimit \in Nat /\ MaxGrant \in Nat /\ MaxLogins \in Nat /\ Nothing \notin Caller

VARIABLES
  account,   \* [Operator -> status and token_version of the row in users]
  cookie,    \* [Operator -> the cookie sh_operator its browser holds, and as a
             \*   history what has been done to the account since it was issued]
  logins,    \* [Operator -> how often it has logged in again]
  claimed,   \* homes that have an owner
  grants,    \* [1..MaxGrant -> a row of operator_home_access, or Nothing]
  made,      \* rows ever made
  userLock,  \* [Operator -> the transaction that locks its row, or Nothing]
  request,   \* [Caller -> the local variables of a request]
  revoked,   \* [1..MaxGrant -> revocations that were answered with success]
  could      \* requests that have been permitted at some moment, a history

operatorVars == <<account, cookie, logins, claimed, grants, made, userLock, request,
                  revoked, could>>

NewRequest(kind, o, h, i, pc) ==
  [kind |-> kind, op |-> o, home |-> h, grant |-> i, pc |-> pc]

NoRequest == NewRequest("none", Nothing, Nothing, 0, "idle")

OperatorInit ==
  /\ account = [o \in Operator |-> [status |-> "active", version |-> 0]]
  /\ cookie = [o \in Operator |-> [version |-> 0, since |-> {}]]
  /\ logins = [o \in Operator |-> 0]
  /\ claimed \in SUBSET House
  /\ grants = [i \in 1..MaxGrant |-> Nothing] /\ made = 0
  /\ userLock = [o \in Operator |-> Nothing]
  /\ request = [c \in Caller |-> NoRequest]
  /\ revoked = [i \in 1..MaxGrant |-> 0]
  /\ could = {}
-----------------------------------------------------------------------------
IsRow(i) == grants[i] # Nothing
IsOpen(i) == IsRow(i) /\ ~grants[i].revoked /\ ~grants[i].expired

\* findActiveGrant
OpenGrants(o, h) ==
  {i \in 1..MaxGrant : IsOpen(i) /\ grants[i].op = o /\ grants[i].home = h}

\* countSelfServiceGrantsSince: revoked and expired grants count as well.
SelfServiceOf(o) ==
  {i \in 1..MaxGrant : IsRow(i) /\ grants[i].op = o /\ grants[i].self /\ grants[i].recent}

\* What the operator may do at this home now: the home is nobody's yet, or a
\* grant permits it; the name and the address of a claimed home it never edits.
MayNow(o, h, kind) == h \notin claimed \/ (kind = "write" /\ OpenGrants(o, h) # {})

Move(c, pc) == request' = [request EXCEPT ![c].pc = pc]
Answer(c) == request' = [request EXCEPT ![c] = NoRequest]

\* A bug to be caught: the cookie is trusted for as long as it is signed.
MutCookieHolds(o) == account[o].status = "active"

\* loadSessionUser, for the cookies of the console.
CookieHolds(o) == account[o].status = "active" /\ cookie[o].version = account[o].version

\* verifyJWT, for the cookie `token` of the legacy routes: it carries no version,
\* so that one from before a lock is good again after it.
TokenHolds(o) == account[o].status = "active"

\* A request of an operator: "self" asks for a grant, "revoke" gives one of its
\* own back, "write" changes the status of a device, resets a gateway or deploys
\* an update, "edit" renames a home.  "legacy" changes the status of a device by
\* PATCH /api/devices/:id/status.
OperatorAsks(c, o, h) ==
  /\ request[c].pc = "idle" /\ account[o].status # "deleted"
  /\ \/ \E kind \in {"self", "write", "edit"} :
          request' = [request EXCEPT ![c] = NewRequest(kind, o, h, 0, "cookie")]
     \/ request' = [request EXCEPT ![c] = NewRequest("legacy", o, h, 0, "token")]
  /\ UNCHANGED <<account, cookie, logins, claimed, grants, made, userLock, revoked>>

\* requireDashboard
Authenticate(c) ==
  LET r == request[c] IN
  /\ r.pc = "cookie"
  /\ IF CookieHolds(r.op) THEN Move(c, "home") ELSE Answer(c)
  /\ UNCHANGED <<account, cookie, logins, claimed, grants, made, userLock, revoked>>

\* verifyJWT and requireRole; of the device only its own row is read then, and
\* neither its home nor a grant.
AuthenticateLegacy(c) ==
  LET r == request[c] IN
  /\ r.pc = "token"
  /\ IF TokenHolds(r.op) THEN Move(c, "apply") ELSE Answer(c)
  /\ UNCHANGED <<account, cookie, logins, claimed, grants, made, userLock, revoked>>

\* A bug to be caught: a grant permits to edit the home as well.
MutGoesTo(kind, free) ==
  CASE kind = "self" -> "lock" [] kind # "self" /\ free -> "apply" [] OTHER -> "check"

\* The next step of a request that has read the status of the home.
GoesTo(kind, free) ==
  CASE kind = "self" -> "lock"
    [] kind # "self" /\ free -> "apply"
    [] kind = "write" /\ ~free -> "check"
    [] OTHER -> "refused"

\* getHomeRow, requireDevice, requireGateway: the status of the home is read.
ReadHome(c) ==
  LET r == request[c]
      next == GoesTo(r.kind, r.home \notin claimed) IN
  /\ r.pc = "home"
  /\ IF next = "refused" THEN Answer(c) ELSE Move(c, next)
  /\ UNCHANGED <<account, cookie, logins, claimed, grants, made, userLock, revoked>>

\* requireOperatorHomeAccess for a home that was claimed when its row was read.
CheckGrant(c) ==
  LET r == request[c] IN
  /\ r.pc = "check"
  /\ IF OpenGrants(r.op, r.home) = {} THEN Answer(c) ELSE Move(c, "apply")
  /\ UNCHANGED <<account, cookie, logins, claimed, grants, made, userLock, revoked>>

\* updateDeviceStatus, sendGatewayCommand, createDeployment, updateHome, or the
\* UPDATE of the legacy route: none of them asks again.
Apply(c) ==
  /\ request[c].pc = "apply"
  /\ Answer(c)
  /\ UNCHANGED <<account, cookie, logins, claimed, grants, made, userLock, revoked>>
-----------------------------------------------------------------------------
\* Neither a lock nor a foreign key waits for a row that nobody has locked.
Unlocked(o) == userLock[o] = Nothing

\* A bug to be caught: the row of the operator is read without FOR UPDATE.
MutLockedBy(c, o) == UNCHANGED userLock

LockedBy(c, o) == Unlocked(o) /\ userLock' = [userLock EXCEPT ![o] = c]

\* lockOperatorRow; the lock of a row that has been deleted locks nothing.
LockOperator(c) ==
  LET r == request[c] IN
  /\ r.pc = "lock"
  /\ IF account[r.op].status = "deleted" THEN UNCHANGED userLock ELSE LockedBy(c, r.op)
  /\ Move(c, "active")
  /\ UNCHANGED <<account, cookie, logins, claimed, grants, made, revoked>>

Released(c) == userLock' = [o \in Operator |-> IF userLock[o] = c THEN Nothing ELSE userLock[o]]

FindActive(c) ==
  LET r == request[c] IN
  /\ r.pc = "active"
  /\ IF OpenGrants(r.op, r.home) = {}
     THEN Move(c, "count") /\ UNCHANGED userLock
     ELSE Answer(c) /\ Released(c)
  /\ UNCHANGED <<account, cookie, logins, claimed, grants, made, revoked>>

\* A bug to be caught: one more than the limit.
MutBelowLimit(o) == Cardinality(SelfServiceOf(o)) <= DailyLimit

BelowLimit(o) == Cardinality(SelfServiceOf(o)) < DailyLimit

CountSelfService(c) ==
  LET r == request[c] IN
  /\ r.pc = "count"
  /\ IF BelowLimit(r.op)
     THEN Move(c, "insert") /\ UNCHANGED userLock
     ELSE Answer(c) /\ Released(c)
  /\ UNCHANGED <<account, cookie, logins, claimed, grants, made, revoked>>

NewGrant(o, h, self) ==
  [op |-> o, home |-> h, self |-> self, expired |-> FALSE, revoked |-> FALSE,
   recent |-> TRUE]

\* insertGrant and COMMIT; the foreign key refuses a deleted operator.
InsertSelfService(c) ==
  LET r == request[c] IN
  /\ r.pc = "insert" /\ made < MaxGrant
  /\ IF account[r.op].status = "deleted" THEN UNCHANGED <<grants, made>>
     ELSE /\ made' = made + 1
          /\ grants' = [grants EXCEPT ![made'] = NewGrant(r.op, r.home, TRUE)]
  /\ Answer(c) /\ Released(c)
  /\ UNCHANGED <<account, cookie, logins, claimed, revoked>>

\* grantAsAdmin: findActiveOperator and, later, insertGrant.  Its foreign key
\* takes a share lock on the operator, which waits for a self-service grant.
AdminAsks(c, o, h) ==
  /\ request[c].pc = "idle" /\ account[o].status = "active"
  /\ request' = [request EXCEPT ![c] = NewRequest("admin", o, h, 0, "give")]
  /\ UNCHANGED <<account, cookie, logins, claimed, grants, made, userLock, revoked>>

\* A bug to be caught: the foreign key does not wait (the table without it).
MutReferenced(o) == TRUE

Referenced(o) == Unlocked(o)

InsertAdminGrant(c) ==
  LET r == request[c] IN
  /\ r.pc = "give" /\ made < MaxGrant
  /\ IF account[r.op].status = "deleted" THEN UNCHANGED <<grants, made>>
     ELSE /\ Referenced(r.op)
          /\ made' = made + 1
          /\ grants' = [grants EXCEPT ![made'] = NewGrant(r.op, r.home, FALSE)]
  /\ Answer(c)
  /\ UNCHANGED <<account, cookie, logins, claimed, userLock, revoked>>
-----------------------------------------------------------------------------
\* revokeGrant, by an administrator or the operator: the row is read ...
AskRevoke(c, i) ==
  /\ request[c].pc = "idle" /\ IsRow(i) /\ ~grants[i].revoked
  /\ request' = [request EXCEPT ![c] = NewRequest("revoke", Nothing, Nothing, i, "revoke")]
  /\ UNCHANGED <<account, cookie, logins, claimed, grants, made, userLock, revoked>>

\* A bug to be caught: UPDATE ... WHERE id = ? without "revoked_at IS NULL".
MutStillGranted(i) == IsRow(i)

StillGranted(i) == IsRow(i) /\ ~grants[i].revoked

\* ... and markGrantRevoked tells who of several was first.
MarkRevoked(c) ==
  LET i == request[c].grant IN
  /\ request[c].pc = "revoke"
  /\ IF StillGranted(i)
     THEN /\ grants' = [grants EXCEPT ![i].revoked = TRUE]
          /\ revoked' = [revoked EXCEPT ![i] = @ + 1]
     ELSE UNCHANGED <<grants, revoked>>
  /\ Answer(c)
  /\ UNCHANGED <<account, cookie, logins, claimed, made, userLock>>

Expire(i) ==
  /\ IsOpen(i)
  /\ grants' = [grants EXCEPT ![i].expired = TRUE]
  /\ UNCHANGED <<account, cookie, logins, claimed, made, userLock, request, revoked>>

\* 24 hours after it was made a grant is counted no longer; older ones first.
LeaveWindow(i) ==
  /\ IsRow(i) /\ grants[i].recent
  /\ \A j \in 1..(i - 1) : IsRow(j) => ~grants[j].recent
  /\ grants' = [grants EXCEPT ![i].recent = FALSE]
  /\ UNCHANGED <<account, cookie, logins, claimed, made, userLock, request, revoked>>

Claim(h) ==
  /\ h \notin claimed /\ claimed' = claimed \cup {h}
  /\ UNCHANGED <<account, cookie, logins, grants, made, userLock, request, revoked>>
-----------------------------------------------------------------------------
\* A bug to be caught: only a new password ends the sessions.
MutBumps(patch) == patch = "password"

\* updateStaff: a lock and a new password make every cookie of the console invalid.
Bumps(patch) == patch \in {"locked", "password"}

\* The history of a cookie goes on.
After(o, what) == [cookie EXCEPT ![o].since = @ \cup {what}]

\* patchStaff; the UPDATE waits for the lock of a self-service grant.
PatchStaff(o, patch) ==
  /\ account[o].status # "deleted" /\ Unlocked(o)
  /\ Bumps(patch) => account[o].version < MaxLogins + 1
  /\ account' = [account EXCEPT
       ![o].status = IF patch = "password" THEN @ ELSE patch,
       ![o].version = IF Bumps(patch) THEN @ + 1 ELSE @]
  /\ cookie' = IF patch = "active" THEN cookie ELSE After(o, patch)
  /\ UNCHANGED <<logins, claimed, grants, made, userLock, request, revoked>>

\* auditCookieLogout: every session of the operator ends, not just this one.
LogoutOperator(o) ==
  /\ account[o].status # "deleted" /\ Unlocked(o) /\ account[o].version < MaxLogins + 1
  /\ account' = [account EXCEPT ![o].version = @ + 1]
  /\ cookie' = After(o, "logout")
  /\ UNCHANGED <<logins, claimed, grants, made, userLock, request, revoked>>

\* PATCH /api/users/:id/password, the legacy route: the password is another one,
\* but token_version stays, and with it every session.
ResetPassword(o) ==
  /\ account[o].status # "deleted" /\ Unlocked(o)
  /\ cookie' = After(o, "reset")
  /\ UNCHANGED <<account, logins, claimed, grants, made, userLock, request, revoked>>

\* removeStaff, and DELETE /api/users/:id: the grants of the operator go with it.
RemoveStaff(o) ==
  /\ account[o].status # "deleted" /\ Unlocked(o)
  /\ account' = [account EXCEPT ![o].status = "deleted"]
  /\ grants' = [i \in 1..MaxGrant |->
       IF IsRow(i) /\ grants[i].op = o THEN Nothing ELSE grants[i]]
  /\ UNCHANGED <<cookie, logins, claimed, made, userLock, request, revoked>>

\* loginDashboard
LoginOperator(o) ==
  /\ account[o].status = "active" /\ logins[o] < MaxLogins
  /\ logins' = [logins EXCEPT ![o] = @ + 1]
  /\ cookie' = [cookie EXCEPT ![o] = [version |-> account[o].version, since |-> {}]]
  /\ UNCHANGED <<account, claimed, grants, made, userLock, request, revoked>>

CallerStep(c) ==
  \/ Authenticate(c) \/ AuthenticateLegacy(c) \/ ReadHome(c) \/ CheckGrant(c) \/ Apply(c)
  \/ LockOperator(c) \/ FindActive(c) \/ CountSelfService(c) \/ InsertSelfService(c)
  \/ InsertAdminGrant(c) \/ MarkRevoked(c)

OperatorStep ==
  \/ \E c \in Caller : \/ CallerStep(c)
                       \/ \E o \in Operator, h \in House :
                            OperatorAsks(c, o, h) \/ AdminAsks(c, o, h)
                       \/ \E i \in 1..MaxGrant : AskRevoke(c, i)
  \/ \E i \in 1..MaxGrant : Expire(i) \/ LeaveWindow(i)
  \/ \E h \in House : Claim(h)
  \/ \E o \in Operator : \/ RemoveStaff(o) \/ LoginOperator(o) \/ LogoutOperator(o)
                         \/ ResetPassword(o)
                         \/ \E patch \in {"active", "locked", "password"} :
                              PatchStaff(o, patch)

\* The history: which requests of the console were permitted, at their start or
\* since.
Permitted(c) ==
  /\ request[c].kind \in {"write", "edit"}
  /\ MayNow(request[c].op, request[c].home, request[c].kind)

Remembered == could' = {c \in Caller : request'[c].pc # "idle" /\ (c \in could \/ Permitted(c)')}

OperatorNext == OperatorStep /\ Remembered
OperatorSpec == OperatorInit /\ [][OperatorNext]_operatorVars
-----------------------------------------------------------------------------
RequestRecord ==
  [kind : {"none", "self", "write", "edit", "legacy", "admin", "revoke"},
   op : Operator \cup {Nothing}, home : House \cup {Nothing}, grant : 0..MaxGrant,
   pc : {"idle", "cookie", "token", "home", "check", "apply", "lock", "active", "count",
         "insert", "give", "revoke"}]

Incident == {"locked", "password", "logout", "reset"}

GrantRow == [op : Operator, home : House, self : BOOLEAN, expired : BOOLEAN,
             revoked : BOOLEAN, recent : BOOLEAN]

\* Types; a locked row belongs to a self-service grant under way, and one under
\* way has locked its operator unless the operator is gone
\* (operatorAccess.service.ts:77-99).
OperatorTypeOK ==
  /\ account \in [Operator -> [status : {"active", "locked", "deleted"},
                               version : 0..(MaxLogins + 1)]]
  /\ cookie \in [Operator -> [version : 0..(MaxLogins + 1), since : SUBSET Incident]]
  /\ logins \in [Operator -> 0..MaxLogins]
  /\ claimed \subseteq House
  /\ grants \in [1..MaxGrant -> GrantRow \cup {Nothing}] /\ made \in 0..MaxGrant
  /\ userLock \in [Operator -> Caller \cup {Nothing}]
  /\ request \in [Caller -> RequestRecord]
  /\ revoked \in [1..MaxGrant -> Nat] /\ could \subseteq Caller
  /\ \A c \in Caller : request[c].pc \in {"active", "count", "insert"} =>
       userLock[request[c].op] = c \/ account[request[c].op].status = "deleted"
  /\ \A o \in Operator, c \in Caller : userLock[o] = c =>
       request[c].op = o /\ request[c].pc \in {"active", "count", "insert"}

\* An operator never has more grants of its own making in 24 hours than
\* SELF_SERVICE_MAX_PER_DAY, however many of its requests run at once
\* (operatorAccess.service.ts:76-87).
SelfServiceLimit ==
  \A o \in Operator : Cardinality(SelfServiceOf(o)) <= DailyLimit

\* No operator opens a home that is open to it already: not by two requests at
\* once, and not beside an administrator, who checks nothing and locks nothing
\* but waits in the foreign key (operatorAccess.service.ts:79-84, 43-49).
NoSecondGrant ==
  [][\A i \in 1..MaxGrant : grants[i] = Nothing /\ grants'[i] # Nothing =>
       \/ ~grants'[i].self
       \/ OpenGrants(grants'[i].op, grants'[i].home) = {}]_operatorVars

\* Of several revocations of one grant one is answered with success
\* (operatorAccess.service.ts:125-131).
RevokedOnce == \A i \in 1..MaxGrant : revoked[i] <= 1

\* The status of the home and the grant are read, each by a statement of its own,
\* before the write of the console they permit.  What a request of the console
\* writes was permitted at some moment of that request: a grant that ended, or an
\* owner who came, before it began is never overlooked (access.service.ts:79-97,
\* smartHomes.service.ts:209-220).  Nothing of the kind holds for the status of a
\* device changed by the legacy route, which asks for no grant.
WriteWasPermitted ==
  \A c \in Caller : request[c].pc = "apply" /\ request[c].kind # "legacy" => c \in could

\* Operators give themselves no more grants than the limit, a grant is revoked
\* once, and the requests of the console that need one have had one.
GrantsHold == SelfServiceLimit /\ RevokedOnce /\ WriteWasPermitted

\* A cookie of the console from before a lock, a new password of the team page or
\* a logout is never good again there, and not after the operator has been
\* unlocked either (team.repository.ts:64, auth.service.ts:393, 416).  One from
\* before PATCH /api/users/:id/password stays good, and so does the cookie of the
\* legacy routes, whatever it is from before.
OldCookieFails ==
  [][\A c \in Caller : request[c].pc = "cookie" /\ request'[c].pc = "home" =>
       cookie[request[c].op].since \subseteq {"reset"}]_operatorVars

\* Rights are not given twice, and those of a session of the console not used
\* once it is over.
RightsMove == NoSecondGrant /\ OldCookieFails
=============================================================================
