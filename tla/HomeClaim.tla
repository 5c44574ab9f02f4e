------------------------------ MODULE HomeClaim ------------------------------
(***************************************************************************)
(* How a home gets its owner: claimHome (a customer enters an activation   *)
(* code), assignHomeOwner (an operator gives the home away) and the life   *)
(* of activation codes.                                                    *)
(*                                                                         *)
(* Every statement outside a transaction is a step.  A transaction locks   *)
(* the home row first (SELECT ... FOR UPDATE), then runs its statements,   *)
(* then commits; its writes become visible, and its row locks free, at the *)
(* commit.  PostgreSQL runs at READ COMMITTED: a blocked UPDATE looks at   *)
(* the row again once the lock is free.                                    *)
(*                                                                         *)
(* The three limits of failed attempts have one shape.  The account's per  *)
(* 15 minutes and the code's per hour are modelled; the account's per day  *)
(* is the first with a longer window.                                      *)
(***************************************************************************)
EXTENDS Naturals, FiniteSets

CONSTANTS
  Home, User, Code,
  Call,          \* calls of claimHome or assignHomeOwner
  Nobody, NoCode,
  AccountLimit,  \* LIMIT_ACCOUNT_SHORT.max
  CodeLimit,     \* LIMIT_CODE_HOUR.max
  Faults         \* which faults happen: "query", "commit", "crash"

ASSUME ConstantsAssumption ==
  /\ Nobody \notin User \cup Home \cup Call
  /\ NoCode \notin Code
  /\ AccountLimit \in Nat
  /\ CodeLimit \in Nat
  /\ IsFiniteSet(Call)
  /\ Faults \subseteq {"query", "commit", "crash"}

VARIABLES
  input,      \* what each call asks for
  pc,
  target,     \* the home each call works on, once it knows it
  verdict,    \* the reason a call is about to record
  log,        \* activation_logs: one row per call (result and reason)
  age,        \* 0: row in both windows, 1: in the code's only, 2: in neither
  homeStatus, \* smart_homes.status, "absent" before the home exists
  owner,      \* smart_homes.owner_user_id
  members,    \* users with an OWNER row in smart_home_members
  codeStatus, \* activation_tokens: used_at and revoked_at
  codeHome, usedBy,
  expired,    \* codes whose expires_at has passed
  lock,       \* the transaction that holds the home row
  tried       \* history: the calls that got to look their code up

homeVars == <<homeStatus, owner, members>>
codeVars == <<codeStatus, codeHome, usedBy>>
vars == <<input, pc, target, verdict, log, age, homeVars, codeVars, expired,
          lock, tried>>

Claim == [kind : {"claim"}, user : User, code : Code \cup {NoCode}]
Assignment == [kind : {"assign"}, user : User, home : Home]

Answered == {"won", "lost", "limited", "broken", "gone"}
Counted == {"NOT_FOUND", "ALREADY_USED", "EXPIRED", "PENDING"}
Reason == Counted \cup {"REVOKED", "ERROR", "RATE_LIMITED", "success"}

IsClaim(a) == input[a].kind = "claim"
Goto(a, label) == pc' = [pc EXCEPT ![a] = label]
CodesOf(h) == {k \in Code : codeHome[k] = h}
LiveCodes(h) == {k \in CodesOf(h) : codeStatus[k] = "live"}

Init ==
  /\ input \in [Call -> Claim \cup Assignment]
  /\ pc = [a \in Call |-> "idle"]
  /\ target = [a \in Call |-> Nobody]
  /\ verdict = [a \in Call |-> "none"]
  /\ log = [a \in Call |-> "none"]
  /\ age = [a \in Call |-> 0]
  /\ homeStatus = [h \in Home |-> "absent"]
  /\ owner = [h \in Home |-> Nobody]
  /\ members = [h \in Home |-> {}]
  /\ codeStatus = [k \in Code |-> "unissued"]
  /\ codeHome = [k \in Code |-> Nobody]
  /\ usedBy = [k \in Code |-> Nobody]
  /\ expired = {}
  /\ lock = [h \in Home |-> Nobody]
  /\ tried = {}

-----------------------------------------------------------------------------
(***************************************************************************)
(* claimHome until its transaction                                         *)
(***************************************************************************)

\* The attempt is written as PENDING before anything is counted.
InsertPendingAttempt(a) ==
  /\ pc[a] = "idle"
  /\ IsClaim(a)
  /\ log' = [log EXCEPT ![a] = "PENDING"]
  /\ Goto(a, "counting")
  /\ UNCHANGED <<input, target, verdict, age, homeVars, codeVars, expired,
                 lock, tried>>

\* listAccountFailures and listCodeFailures (sent together; either is enough to
\* refuse); the attempt's own row is among what they return.
AccountFailures(u) ==
  {a \in Call : /\ IsClaim(a) /\ input[a].user = u
                /\ log[a] \in Counted /\ age[a] = 0}
CodeFailures(k) ==
  {a \in Call : /\ IsClaim(a) /\ input[a].code = k
                /\ log[a] \in Counted /\ age[a] < 2}

\* Faulty variant: attempts still being processed are not counted.
MutOverLimit(a) ==
  LET counts(rows) == Cardinality({b \in rows : log[b] # "PENDING"}) IN
  \/ counts(AccountFailures(input[a].user)) >= AccountLimit
  \/ /\ input[a].code # NoCode
     /\ counts(CodeFailures(input[a].code)) >= CodeLimit

OverLimit(a) ==
  \/ Cardinality(AccountFailures(input[a].user)) > AccountLimit
  \/ /\ input[a].code # NoCode
     /\ Cardinality(CodeFailures(input[a].code)) > CodeLimit

\* enforceRateLimits: go on, or turn the row into RATE_LIMITED and answer 429.
EnforceRateLimits(a) ==
  /\ pc[a] = "counting"
  /\ \/ ~ OverLimit(a) /\ Goto(a, "searching") /\ UNCHANGED verdict
     \/ /\ OverLimit(a)
        /\ verdict' = [verdict EXCEPT ![a] = "RATE_LIMITED"]
        /\ Goto(a, "failing")
  /\ UNCHANGED <<input, target, log, age, homeVars, codeVars, expired, lock,
                 tried>>

\* findTokenByHash and the checks on the row it returns.
TokenReason(k) ==
  CASE k = NoCode \/ codeStatus[k] = "unissued" -> "NOT_FOUND"
    [] k # NoCode /\ codeStatus[k] = "used" -> "ALREADY_USED"
    [] k # NoCode /\ codeStatus[k] = "revoked" -> "REVOKED"
    [] k # NoCode /\ codeStatus[k] = "live" /\ k \in expired -> "EXPIRED"
    [] OTHER -> "none"

FindToken(a) ==
  LET k == input[a].code IN
  /\ pc[a] = "searching"
  /\ verdict' = [verdict EXCEPT ![a] = TokenReason(k)]
  /\ target' = [target EXCEPT ![a] =
                              IF k = NoCode THEN Nobody ELSE codeHome[k]]
  /\ Goto(a, IF TokenReason(k) = "none" THEN "locking" ELSE "failing")
  /\ tried' = tried \cup {a}
  /\ UNCHANGED <<input, log, age, homeVars, codeVars, expired, lock>>

\* What the caller is told: 429, 500, or why the code or the home is refused.
Answer(reason) ==
  CASE reason = "RATE_LIMITED" -> "limited"
    [] reason = "ERROR" -> "broken"
    [] OTHER -> "lost"

\* recordFailure on a connection of its own, then the error answer.
RecordFailure(a) ==
  /\ pc[a] = "failing"
  /\ log' = [log EXCEPT ![a] = verdict[a]]
  /\ Goto(a, Answer(verdict[a]))
  /\ UNCHANGED <<input, target, verdict, age, homeVars, codeVars, expired,
                 lock, tried>>

-----------------------------------------------------------------------------
(***************************************************************************)
(* assignHomeOwner until its transaction                                   *)
(***************************************************************************)
CheckUnclaimed(a) ==
  /\ pc[a] = "idle"
  /\ ~ IsClaim(a)
  /\ target' = [target EXCEPT ![a] = input[a].home]
  /\ Goto(a, IF homeStatus[input[a].home] = "unclaimed"
               THEN "locking" ELSE "lost")
  /\ UNCHANGED <<input, verdict, log, age, homeVars, codeVars, expired, lock,
                 tried>>

-----------------------------------------------------------------------------
(***************************************************************************)
(* The transaction around assignOwner                                      *)
(***************************************************************************)

\* Faulty variant: SELECT without FOR UPDATE.
MutLockHome(a) ==
  /\ pc[a] = "locking"
  /\ Goto(a, "assigning")
  /\ UNCHANGED <<input, target, verdict, log, age, homeVars, codeVars,
                 expired, lock, tried>>

\* lockHomeStatus: waits until no other transaction holds the row.
LockHome(a) ==
  /\ pc[a] = "locking"
  /\ lock[target[a]] = Nobody
  /\ lock' = [lock EXCEPT ![target[a]] = a]
  /\ Goto(a, "assigning")
  /\ UNCHANGED <<input, target, verdict, log, age, homeVars, codeVars,
                 expired, tried>>

\* Faulty variant: the row lock outlives the transaction.
MutUnlock(a) == UNCHANGED lock

Unlock(a) == lock' = [lock EXCEPT ![target[a]] = Nobody]

\* The end of a transaction that wrote nothing: a claim records the failure, an
\* assignment answers at once.
GiveUp(a, reason) ==
  /\ verdict' = [verdict EXCEPT ![a] = reason]
  /\ Goto(a, IF IsClaim(a) THEN "failing" ELSE Answer(reason))
  /\ UNCHANGED <<input, target, log, age, homeVars, codeVars, expired, tried>>

Rollback(a, reason) == GiveUp(a, reason) /\ Unlock(a)

\* Faulty variant: the home is taken whatever its status.
MutAssignOwner(a) ==
  /\ pc[a] = "assigning"
  /\ \/ /\ IsClaim(a) => codeStatus[input[a].code] = "live"
        /\ Goto(a, "committing")
        /\ UNCHANGED <<input, target, verdict, log, age, homeVars, codeVars,
                       expired, lock, tried>>
     \/ /\ IsClaim(a) /\ codeStatus[input[a].code] # "live"
        /\ Rollback(a, "ALREADY_USED")

\* The UPDATE of the code (used_at and revoked_at still NULL) and of the home
\* (still unclaimed): no affected row means 409 and a rollback.
AssignOwner(a) ==
  LET granted ==
        /\ IsClaim(a) => codeStatus[input[a].code] = "live"
        /\ homeStatus[target[a]] = "unclaimed"
  IN
  /\ pc[a] = "assigning"
  /\ \/ /\ granted
        /\ Goto(a, "committing")
        /\ UNCHANGED <<input, target, verdict, log, age, homeVars, codeVars,
                       expired, lock, tried>>
     \/ ~ granted /\ Rollback(a, "ALREADY_USED")

\* Faulty variant: the log row is not written in the transaction.
MutApply(a) ==
  LET h == target[a]
      used == {k \in Code : IsClaim(a) /\ k = input[a].code}
  IN
  /\ homeStatus' = [homeStatus EXCEPT ![h] = "active"]
  /\ owner' = [owner EXCEPT ![h] = input[a].user]
  /\ members' = [members EXCEPT ![h] = @ \cup {input[a].user}]
  /\ codeStatus' = [k \in Code |-> IF k \in used THEN "used"
                                   ELSE IF k \in LiveCodes(h) THEN "revoked"
                                   ELSE codeStatus[k]]
  /\ usedBy' = [k \in Code |-> IF k \in used THEN input[a].user ELSE usedBy[k]]
  /\ Unlock(a)
  /\ UNCHANGED <<input, target, log, age, codeHome, expired, tried>>

\* What the commit makes visible: the code is used, the home active and owned,
\* the other open codes revoked, the OWNER row and the log row written.
Apply(a) ==
  LET h == target[a]
      used == {k \in Code : IsClaim(a) /\ k = input[a].code}
  IN
  /\ homeStatus' = [homeStatus EXCEPT ![h] = "active"]
  /\ owner' = [owner EXCEPT ![h] = input[a].user]
  /\ members' = [members EXCEPT ![h] = @ \cup {input[a].user}]
  /\ codeStatus' = [k \in Code |-> IF k \in used THEN "used"
                                   ELSE IF k \in LiveCodes(h) THEN "revoked"
                                   ELSE codeStatus[k]]
  /\ usedBy' = [k \in Code |-> IF k \in used THEN input[a].user ELSE usedBy[k]]
  /\ log' = [log EXCEPT ![a] = "success"]
  /\ Unlock(a)
  /\ UNCHANGED <<input, target, age, codeHome, expired, tried>>

Commit(a) ==
  /\ pc[a] = "committing"
  /\ Apply(a)
  /\ Goto(a, "won")
  /\ UNCHANGED verdict

-----------------------------------------------------------------------------
(***************************************************************************)
(* Homes, codes and time                                                   *)
(***************************************************************************)

\* createSmartHome: kit, home and first code in one transaction.
CreateSmartHome(h, k) ==
  /\ homeStatus[h] = "absent"
  /\ codeStatus[k] = "unissued"
  /\ homeStatus' = [homeStatus EXCEPT ![h] = "unclaimed"]
  /\ codeStatus' = [codeStatus EXCEPT ![k] = "live"]
  /\ codeHome' = [codeHome EXCEPT ![k] = h]
  /\ UNCHANGED <<input, pc, target, verdict, log, age, owner, members, usedBy,
                 expired, lock, tried>>

\* Faulty variant: the codes issued before stay open.
MutIssueActivationCode(h, k) ==
  /\ homeStatus[h] = "unclaimed"
  /\ lock[h] = Nobody
  /\ codeStatus[k] = "unissued"
  /\ codeStatus' = [codeStatus EXCEPT ![k] = "live"]
  /\ codeHome' = [codeHome EXCEPT ![k] = h]
  /\ UNCHANGED <<input, pc, target, verdict, log, age, homeVars, usedBy,
                 expired, lock, tried>>

\* issueActivationCode, under the home lock from its first statement to the
\* commit: revoke what is open, insert a new code.
IssueActivationCode(h, k) ==
  /\ homeStatus[h] = "unclaimed"
  /\ lock[h] = Nobody
  /\ codeStatus[k] = "unissued"
  /\ codeStatus' = [j \in Code |-> IF j = k THEN "live"
                                   ELSE IF j \in LiveCodes(h) THEN "revoked"
                                   ELSE codeStatus[j]]
  /\ codeHome' = [codeHome EXCEPT ![k] = h]
  /\ UNCHANGED <<input, pc, target, verdict, log, age, homeVars, usedBy,
                 expired, lock, tried>>

\* revokeActivation takes no home lock: it waits only for code rows a
\* transaction has written and not committed.
RevokeActivation(h) ==
  /\ homeStatus[h] # "absent"
  /\ \A a \in Call : ~ (pc[a] = "committing" /\ target[a] = h)
  /\ codeStatus' = [k \in Code |-> IF k \in LiveCodes(h) THEN "revoked"
                                   ELSE codeStatus[k]]
  /\ UNCHANGED <<input, pc, target, verdict, log, age, homeVars, codeHome,
                 usedBy, expired, lock, tried>>

\* patchSmartHome: an admin suspends or reopens a home that was claimed when it
\* was read; no home is ever unclaimed again.
SetHomeStatus(h) ==
  /\ homeStatus[h] \in {"active", "suspended"}
  /\ lock[h] = Nobody
  /\ homeStatus' = [homeStatus EXCEPT ![h] = IF @ = "active" THEN "suspended"
                                             ELSE "active"]
  /\ UNCHANGED <<input, pc, target, verdict, log, age, owner, members,
                 codeVars, expired, lock, tried>>

Expire(k) ==
  /\ codeStatus[k] # "unissued"
  /\ k \notin expired
  /\ expired' = expired \cup {k}
  /\ UNCHANGED <<input, pc, target, verdict, log, age, homeVars, codeVars,
                 lock, tried>>

\* A row slides out of the 15-minute window, then out of the hour.
Grow(a) ==
  /\ log[a] # "none"
  /\ age[a] < 2
  /\ age' = [age EXCEPT ![a] = @ + 1]
  /\ UNCHANGED <<input, pc, target, verdict, log, homeVars, codeVars, expired,
                 lock, tried>>

-----------------------------------------------------------------------------
(***************************************************************************)
(* Faults                                                                  *)
(***************************************************************************)

\* A statement fails.  Outside the try of claimHome the call ends with a 500;
\* in the transaction it is rolled back; recordFailure swallows it.
QueryError(a) ==
  /\ "query" \in Faults
  /\ \/ /\ pc[a] \in {"idle", "counting", "searching"}
        /\ Goto(a, "broken")
        /\ UNCHANGED <<input, target, verdict, log, age, homeVars, codeVars,
                       expired, lock, tried>>
     \/ /\ pc[a] = "failing"
        /\ Goto(a, Answer(verdict[a]))
        /\ UNCHANGED <<input, target, verdict, log, age, homeVars, codeVars,
                       expired, lock, tried>>
     \/ /\ pc[a] = "locking"
        /\ GiveUp(a, "ERROR")
        /\ UNCHANGED lock
     \/ /\ pc[a] \in {"assigning", "committing"}
        /\ Rollback(a, "ERROR")

\* The commit took effect but its answer was lost: withTransaction reports an
\* error for a transaction that is there.
CommitUnheard(a) ==
  /\ "commit" \in Faults
  /\ pc[a] = "committing"
  /\ Apply(a)
  /\ verdict' = [verdict EXCEPT ![a] = "ERROR"]
  /\ Goto(a, IF IsClaim(a) THEN "failing" ELSE "broken")

\* The backend stops: open transactions are rolled back, calls are gone.
Crash ==
  /\ "crash" \in Faults
  /\ pc' = [a \in Call |-> IF pc[a] \in {"idle"} \cup Answered THEN pc[a]
                           ELSE "gone"]
  /\ lock' = [h \in Home |-> Nobody]
  /\ UNCHANGED <<input, target, verdict, log, age, homeVars, codeVars,
                 expired, tried>>

CallStep(a) ==
  \/ InsertPendingAttempt(a)
  \/ EnforceRateLimits(a)
  \/ FindToken(a)
  \/ RecordFailure(a)
  \/ CheckUnclaimed(a)
  \/ LockHome(a)
  \/ AssignOwner(a)
  \/ Commit(a)

Next ==
  \/ \E a \in Call :
       CallStep(a) \/ Grow(a) \/ QueryError(a) \/ CommitUnheard(a)
  \/ \E h \in Home, k \in Code :
       CreateSmartHome(h, k) \/ IssueActivationCode(h, k)
  \/ \E h \in Home : RevokeActivation(h) \/ SetHomeStatus(h)
  \/ \E k \in Code : Expire(k)
  \/ Crash

Spec == Init /\ [][Next]_vars

\* The event loop resumes every call whose statement has been answered.
LiveSpec == Spec /\ \A a \in Call : WF_vars(CallStep(a) /\ pc[a] # "idle")

-----------------------------------------------------------------------------
(***************************************************************************)
(* Properties                                                              *)
(***************************************************************************)

TypeOK ==
  /\ input \in [Call -> Claim \cup Assignment]
  /\ pc \in [Call -> {"idle", "counting", "searching", "failing", "locking",
                      "assigning", "committing"} \cup Answered]
  /\ target \in [Call -> Home \cup {Nobody}]
  /\ verdict \in [Call -> Reason \cup {"none"}]
  /\ log \in [Call -> Reason \cup {"none"}]
  /\ age \in [Call -> 0..2]
  /\ homeStatus \in [Home -> {"absent", "unclaimed", "active", "suspended"}]
  /\ owner \in [Home -> User \cup {Nobody}]
  /\ members \in [Home -> SUBSET User]
  /\ codeStatus \in [Code -> {"unissued", "live", "used", "revoked"}]
  /\ codeHome \in [Code -> Home \cup {Nobody}]
  /\ usedBy \in [Code -> User \cup {Nobody}]
  /\ expired \subseteq Code
  /\ lock \in [Home -> Call \cup {Nobody}]
  /\ tried \subseteq Call

\* However claims, assignments and revocations interleave, the three places
\* that say who owns a home (status, owner_user_id, the OWNER rows) agree.
OneOwner ==
  \A h \in Home :
    /\ members[h] = {owner[h]} \ {Nobody}
    /\ owner[h] # Nobody <=> homeStatus[h] \in {"active", "suspended"}

\* A used code made its user the owner of its home: no call spends a code and
\* loses the home.
UsedByOwner ==
  \A k \in Code : codeStatus[k] = "used" =>
    /\ codeHome[k] \in Home /\ usedBy[k] \in User
    /\ owner[codeHome[k]] = usedBy[k]

\* A home has at most one code that opens it, and none once it has an owner.
OneOpenCode ==
  \A h \in Home : \A k \in LiveCodes(h) :
    homeStatus[h] = "unclaimed" /\ LiveCodes(h) = {k}

\* Homes, their owners and their codes agree.
HomesAgree == OneOwner /\ UsedByOwner /\ OneOpenCode

\* Parallel requests do not slip through the limits together: no more attempts
\* than the limit get to try a code and end as a counted failure in a window.
LimitHolds ==
  /\ \A u \in User : Cardinality(tried \cap AccountFailures(u)) <= AccountLimit
  /\ \A k \in Code : Cardinality(tried \cap CodeFailures(k)) <= CodeLimit

\* The home and the log are committed together: a home has an owner exactly
\* when one call's row says so.
LogMatchesOwner ==
  \A h \in Home :
    owner[h] # Nobody <=>
      \E a \in Call :
        target[a] = h /\ log[a] = "success" /\ input[a].user = owner[h]

\* The owner of a home never changes here.
OwnerForGood ==
  [][\A h \in Home : owner[h] # Nobody => owner'[h] = owner[h]]_owner

\* Every call is answered: the row lock of a home is always given back.
EveryCallAnswered ==
  \A a \in Call : pc[a] # "idle" ~> pc[a] \in Answered

(***************************************************************************)
(* HomeClaim implements HomeOwnership.  An internal error tells the caller *)
(* nothing about the home.                                                 *)
(***************************************************************************)
Told(a) ==
  IF pc[a] = "won" THEN "won"
  ELSE IF pc[a] \in {"lost", "limited"} THEN "lost"
  ELSE "nothing"

Ownership == INSTANCE HomeOwnership WITH
               wants <- [a \in Call |-> input[a].user],
               told <- [a \in Call |-> Told(a)]

OwnershipSpec == Ownership!Spec
=============================================================================
