--------------------------- MODULE HomeClaimProofs ---------------------------
(***************************************************************************)
(* Theorems about HomeClaim, for any number of homes, users, codes and     *)
(* calls, and whatever faults happen unless a theorem says otherwise.      *)
(***************************************************************************)
EXTENDS HomeClaim, FiniteSetTheorems, TLAPS

LEMMA TypeInit == Init => TypeOK
  BY ConstantsAssumption DEF Init, TypeOK, Answered, Reason, Counted

LEMMA InputType ==
  ASSUME TypeOK, NEW a \in Call
  PROVE  /\ input[a].user \in User
         /\ IsClaim(a) => input[a].code \in Code \cup {NoCode}
         /\ ~ IsClaim(a) => input[a].home \in Home
<1>1. CASE input[a] \in Claim
  BY <1>1 DEF Claim, IsClaim
<1>2. CASE input[a] \in Assignment
  BY <1>2 DEF Assignment, IsClaim
<1> QED
  BY <1>1, <1>2 DEF TypeOK

LEMMA AnswerType ==
  ASSUME NEW reason
  PROVE  Answer(reason) \in {"limited", "broken", "lost"}
  BY Zenon DEF Answer

LEMMA ReasonType ==
  ASSUME NEW k
  PROVE  /\ TokenReason(k) \in Reason \cup {"none"}
         /\ TokenReason(k) = "none" => k # NoCode /\ codeStatus[k] # "unissued"
  BY Zenon DEF TokenReason, Reason, Counted

-----------------------------------------------------------------------------
(***************************************************************************)
(* The inductive invariant.  Locked: a transaction past its first          *)
(* statement holds its home, and nobody else does.  Staged: what a         *)
(* transaction has checked and written is still so when it commits.        *)
(***************************************************************************)
InTransaction == {"assigning", "committing"}

ClaimPhases ==
  \A a \in Call : pc[a] \in {"counting", "searching", "failing"} => IsClaim(a)

Locked ==
  /\ \A a \in Call : pc[a] \in {"locking"} \cup InTransaction
        => target[a] \in Home
  /\ \A a \in Call : pc[a] \in InTransaction => lock[target[a]] = a
  /\ \A h \in Home : lock[h] # Nobody =>
       pc[lock[h]] \in InTransaction /\ target[lock[h]] = h

CodesPlaced ==
  /\ \A k \in Code :
       IF codeStatus[k] = "unissued" THEN codeHome[k] = Nobody
       ELSE codeHome[k] \in Home /\ homeStatus[codeHome[k]] # "absent"
  /\ \A a \in Call : IsClaim(a) /\ pc[a] \in {"locking"} \cup InTransaction =>
       /\ input[a].code \in Code
       /\ codeStatus[input[a].code] # "unissued"
       /\ codeHome[input[a].code] = target[a]

Staged ==
  \A a \in Call : pc[a] = "committing" =>
    /\ homeStatus[target[a]] = "unclaimed"
    /\ IsClaim(a) => codeStatus[input[a].code] = "live"

IInv ==
  /\ TypeOK /\ ClaimPhases /\ Locked /\ CodesPlaced /\ Staged
  /\ OneOwner /\ UsedByOwner /\ OneOpenCode

LEMMA GiveUpType ==
  ASSUME TypeOK, NEW a \in Call, NEW reason \in Reason, GiveUp(a, reason),
         lock' \in [Home -> Call \cup {Nobody}]
  PROVE  TypeOK'
<1>1. verdict' \in [Call -> Reason \cup {"none"}]
  BY DEF TypeOK, GiveUp
<1>2. pc' \in [Call -> {"idle", "counting", "searching", "failing", "locking",
                      "assigning", "committing"} \cup Answered]
  BY AnswerType DEF TypeOK, GiveUp, Goto, Answered
<1> QED
  BY <1>1, <1>2 DEF TypeOK, GiveUp, homeVars, codeVars

LEMMA UnlockType ==
  ASSUME TypeOK, NEW a \in Call, Unlock(a)
  PROVE  lock' \in [Home -> Call \cup {Nobody}]
  BY DEF TypeOK, Unlock

LEMMA TypeStep == TypeOK /\ ClaimPhases /\ [Next]_vars => TypeOK'
<1> SUFFICES ASSUME TypeOK, ClaimPhases, [Next]_vars PROVE TypeOK'
  OBVIOUS
<1> USE ConstantsAssumption DEF TypeOK, ClaimPhases, Answered, Reason,
        Counted, Claim, Assignment, IsClaim, Goto, homeVars, codeVars
<1>1. ASSUME NEW a \in Call, InsertPendingAttempt(a) PROVE TypeOK'
  BY <1>1 DEF InsertPendingAttempt
<1>2. ASSUME NEW a \in Call, EnforceRateLimits(a) PROVE TypeOK'
  BY <1>2 DEF EnforceRateLimits
<1>3. ASSUME NEW a \in Call, FindToken(a) PROVE TypeOK'
  <2>1. IsClaim(a)
    BY <1>3 DEF FindToken
  <2>2. input[a].code \in Code \cup {NoCode}
    BY <2>1, InputType
  <2> QED
    BY <1>3, <2>1, <2>2, ReasonType DEF FindToken
<1>4. ASSUME NEW a \in Call, RecordFailure(a) PROVE TypeOK'
  BY <1>4, AnswerType DEF RecordFailure
<1>5. ASSUME NEW a \in Call, CheckUnclaimed(a) PROVE TypeOK'
  BY <1>5 DEF CheckUnclaimed
<1>6. ASSUME NEW a \in Call, LockHome(a) PROVE TypeOK'
  BY <1>6 DEF LockHome
<1>7. ASSUME NEW a \in Call, AssignOwner(a) PROVE TypeOK'
  <2>1. CASE UNCHANGED <<input, target, verdict, log, age, homeVars, codeVars,
                         expired, lock, tried>> /\ Goto(a, "committing")
    BY <2>1
  <2>2. CASE Rollback(a, "ALREADY_USED")
    BY <2>2, GiveUpType, UnlockType DEF Rollback
  <2> QED
    BY <1>7, <2>1, <2>2 DEF AssignOwner
<1>8. ASSUME NEW a \in Call, Commit(a) PROVE TypeOK'
  <2>1. input[a].user \in User
    BY InputType
  <2>2. /\ owner' \in [Home -> User \cup {Nobody}]
        /\ members' \in [Home -> SUBSET User]
    BY ZenonT(40), <1>8, <2>1 DEF Commit, Apply, Unlock
  <2>3. usedBy' \in [Code -> User \cup {Nobody}]
    BY <1>8, <2>1 DEF Commit, Apply, Unlock
  <2>4. codeStatus' \in [Code -> {"unissued", "live", "used", "revoked"}]
    BY <1>8 DEF Commit, Apply, Unlock
  <2> QED
    BY <1>8, <2>2, <2>3, <2>4 DEF Commit, Apply, Unlock
<1>9. ASSUME NEW a \in Call, Grow(a) PROVE TypeOK'
  BY <1>9 DEF Grow
<1>10. ASSUME NEW a \in Call, QueryError(a) PROVE TypeOK'
  <2>1. CASE UNCHANGED <<input, target, verdict, log, age, homeVars, codeVars,
                         expired, lock, tried>> /\ Goto(a, "broken")
    BY <2>1
  <2>2. CASE UNCHANGED <<input, target, verdict, log, age, homeVars, codeVars,
                         expired, lock, tried>> /\ Goto(a, Answer(verdict[a]))
    BY <2>2, AnswerType
  <2>3. CASE GiveUp(a, "ERROR") /\ UNCHANGED lock
    BY <2>3, GiveUpType
  <2>4. CASE Rollback(a, "ERROR")
    BY <2>4, GiveUpType, UnlockType DEF Rollback
  <2> QED
    BY <1>10, <2>1, <2>2, <2>3, <2>4 DEF QueryError
<1>11. ASSUME NEW a \in Call, CommitUnheard(a) PROVE TypeOK'
  <2>1. input[a].user \in User
    BY InputType
  <2>2. /\ owner' \in [Home -> User \cup {Nobody}]
        /\ members' \in [Home -> SUBSET User]
    BY ZenonT(40), <1>11, <2>1 DEF CommitUnheard, Apply, Unlock
  <2>3. usedBy' \in [Code -> User \cup {Nobody}]
    BY <1>11, <2>1 DEF CommitUnheard, Apply, Unlock
  <2>4. codeStatus' \in [Code -> {"unissued", "live", "used", "revoked"}]
    BY <1>11 DEF CommitUnheard, Apply, Unlock
  <2> QED
    BY <1>11, <2>2, <2>3, <2>4 DEF CommitUnheard, Apply, Unlock
<1>12. ASSUME NEW h \in Home, NEW k \in Code, CreateSmartHome(h, k)
       PROVE  TypeOK'
  BY <1>12 DEF CreateSmartHome
<1>13. ASSUME NEW h \in Home, NEW k \in Code, IssueActivationCode(h, k)
       PROVE  TypeOK'
  BY <1>13 DEF IssueActivationCode
<1>14. ASSUME NEW h \in Home, RevokeActivation(h) PROVE TypeOK'
  BY <1>14 DEF RevokeActivation
<1>15. ASSUME NEW h \in Home, SetHomeStatus(h) PROVE TypeOK'
  BY <1>15 DEF SetHomeStatus
<1>16. ASSUME NEW k \in Code, Expire(k) PROVE TypeOK'
  BY <1>16 DEF Expire
<1>17. CASE Crash
  BY <1>17 DEF Crash
<1>18. CASE UNCHANGED vars
  BY <1>18 DEF vars
<1> QED
  BY <1>1, <1>2, <1>3, <1>4, <1>5, <1>6, <1>7, <1>8, <1>9, <1>10, <1>11,
     <1>12, <1>13, <1>14, <1>15, <1>16, <1>17, <1>18
  DEF Next, CallStep

LEMMA ClaimPhasesStep == IInv /\ [Next]_vars => ClaimPhases'
<1> SUFFICES ASSUME IInv, [Next]_vars PROVE ClaimPhases'
  OBVIOUS
<1> USE ConstantsAssumption DEF IInv, TypeOK, ClaimPhases, Locked,
        CodesPlaced, Staged, InTransaction, Answered, Claim, Assignment,
        IsClaim, Goto, homeVars, codeVars, CodesOf, LiveCodes
<1>1. ASSUME NEW a \in Call, InsertPendingAttempt(a) PROVE ClaimPhases'
  BY <1>1 DEF InsertPendingAttempt
<1>2. ASSUME NEW a \in Call, EnforceRateLimits(a) PROVE ClaimPhases'
  BY <1>2 DEF EnforceRateLimits
<1>3. ASSUME NEW a \in Call, FindToken(a) PROVE ClaimPhases'
  BY <1>3 DEF FindToken, TokenReason
<1>4. ASSUME NEW a \in Call, RecordFailure(a) PROVE ClaimPhases'
  BY <1>4, AnswerType DEF RecordFailure
<1>5. ASSUME NEW a \in Call, CheckUnclaimed(a) PROVE ClaimPhases'
  BY <1>5 DEF CheckUnclaimed
<1>6. ASSUME NEW a \in Call, LockHome(a) PROVE ClaimPhases'
  BY <1>6 DEF LockHome
<1>7. ASSUME NEW a \in Call, AssignOwner(a) PROVE ClaimPhases'
  BY <1>7, AnswerType DEF AssignOwner, Rollback, GiveUp, Unlock
<1>8. ASSUME NEW a \in Call, Commit(a) PROVE ClaimPhases'
  BY <1>8 DEF Commit, Apply, Unlock
<1>9. ASSUME NEW a \in Call, Grow(a) PROVE ClaimPhases'
  BY <1>9 DEF Grow
<1>10. ASSUME NEW a \in Call, QueryError(a) PROVE ClaimPhases'
  BY <1>10, AnswerType DEF QueryError, Rollback, GiveUp, Unlock
<1>11. ASSUME NEW a \in Call, CommitUnheard(a) PROVE ClaimPhases'
  BY <1>11 DEF CommitUnheard, Apply, Unlock
<1>12. ASSUME NEW h \in Home, NEW k \in Code, CreateSmartHome(h, k)
       PROVE  ClaimPhases'
  BY <1>12 DEF CreateSmartHome
<1>13. ASSUME NEW h \in Home, NEW k \in Code, IssueActivationCode(h, k)
       PROVE  ClaimPhases'
  BY <1>13 DEF IssueActivationCode
<1>14. ASSUME NEW h \in Home, RevokeActivation(h) PROVE ClaimPhases'
  BY <1>14 DEF RevokeActivation
<1>15. ASSUME NEW h \in Home, SetHomeStatus(h) PROVE ClaimPhases'
  BY <1>15 DEF SetHomeStatus
<1>16. ASSUME NEW k \in Code, Expire(k) PROVE ClaimPhases'
  BY <1>16 DEF Expire
<1>17. CASE Crash
  BY <1>17 DEF Crash
<1>18. CASE UNCHANGED vars
  BY <1>18 DEF vars
<1> QED
  BY <1>1, <1>2, <1>3, <1>4, <1>5, <1>6, <1>7, <1>8, <1>9, <1>10, <1>11,
     <1>12, <1>13, <1>14, <1>15, <1>16, <1>17, <1>18
  DEF Next, CallStep

LEMMA LockedStep == IInv /\ [Next]_vars => Locked'
<1> SUFFICES ASSUME IInv, [Next]_vars PROVE Locked'
  OBVIOUS
<1> USE ConstantsAssumption DEF IInv, TypeOK, ClaimPhases, Locked,
        CodesPlaced, Staged, InTransaction, Answered, Claim, Assignment,
        IsClaim, Goto, homeVars, codeVars, CodesOf, LiveCodes
<1>1. ASSUME NEW a \in Call, InsertPendingAttempt(a) PROVE Locked'
  BY <1>1 DEF InsertPendingAttempt
<1>2. ASSUME NEW a \in Call, EnforceRateLimits(a) PROVE Locked'
  BY <1>2 DEF EnforceRateLimits
<1>3. ASSUME NEW a \in Call, FindToken(a) PROVE Locked'
  <2>1. IsClaim(a)
    BY <1>3 DEF FindToken
  <2>2. input[a].code \in Code \cup {NoCode}
    BY <2>1, InputType
  <2> QED
    BY <1>3, <2>1, <2>2, ReasonType DEF FindToken
<1>4. ASSUME NEW a \in Call, RecordFailure(a) PROVE Locked'
  BY <1>4, AnswerType DEF RecordFailure
<1>5. ASSUME NEW a \in Call, CheckUnclaimed(a) PROVE Locked'
  BY <1>5 DEF CheckUnclaimed
<1>6. ASSUME NEW a \in Call, LockHome(a) PROVE Locked'
  BY <1>6 DEF LockHome
<1>7. ASSUME NEW a \in Call, AssignOwner(a) PROVE Locked'
  BY SMTT(30), <1>7, AnswerType DEF AssignOwner, Rollback, GiveUp, Unlock
<1>8. ASSUME NEW a \in Call, Commit(a) PROVE Locked'
  BY <1>8 DEF Commit, Apply, Unlock
<1>9. ASSUME NEW a \in Call, Grow(a) PROVE Locked'
  BY <1>9 DEF Grow
<1>10. ASSUME NEW a \in Call, QueryError(a) PROVE Locked'
  BY <1>10, AnswerType DEF QueryError, Rollback, GiveUp, Unlock
<1>11. ASSUME NEW a \in Call, CommitUnheard(a) PROVE Locked'
  BY <1>11 DEF CommitUnheard, Apply, Unlock
<1>12. ASSUME NEW h \in Home, NEW k \in Code, CreateSmartHome(h, k)
       PROVE  Locked'
  BY <1>12 DEF CreateSmartHome
<1>13. ASSUME NEW h \in Home, NEW k \in Code, IssueActivationCode(h, k)
       PROVE  Locked'
  BY <1>13 DEF IssueActivationCode
<1>14. ASSUME NEW h \in Home, RevokeActivation(h) PROVE Locked'
  BY <1>14 DEF RevokeActivation
<1>15. ASSUME NEW h \in Home, SetHomeStatus(h) PROVE Locked'
  BY <1>15 DEF SetHomeStatus
<1>16. ASSUME NEW k \in Code, Expire(k) PROVE Locked'
  BY <1>16 DEF Expire
<1>17. CASE Crash
  BY <1>17 DEF Crash
<1>18. CASE UNCHANGED vars
  BY <1>18 DEF vars
<1> QED
  BY <1>1, <1>2, <1>3, <1>4, <1>5, <1>6, <1>7, <1>8, <1>9, <1>10, <1>11,
     <1>12, <1>13, <1>14, <1>15, <1>16, <1>17, <1>18
  DEF Next, CallStep

LEMMA CodesPlacedStep == IInv /\ [Next]_vars => CodesPlaced'
<1> SUFFICES ASSUME IInv, [Next]_vars PROVE CodesPlaced'
  OBVIOUS
<1> USE ConstantsAssumption DEF IInv, TypeOK, ClaimPhases, Locked,
        CodesPlaced, Staged, InTransaction, Answered, Claim, Assignment,
        IsClaim, Goto, homeVars, codeVars, CodesOf, LiveCodes
<1>1. ASSUME NEW a \in Call, InsertPendingAttempt(a) PROVE CodesPlaced'
  BY <1>1 DEF InsertPendingAttempt
<1>2. ASSUME NEW a \in Call, EnforceRateLimits(a) PROVE CodesPlaced'
  BY <1>2 DEF EnforceRateLimits
<1>3. ASSUME NEW a \in Call, FindToken(a) PROVE CodesPlaced'
  <2>1. IsClaim(a)
    BY <1>3 DEF FindToken
  <2>2. input[a].code \in Code \cup {NoCode}
    BY <2>1, InputType
  <2> QED
    BY <1>3, <2>1, <2>2, ReasonType DEF FindToken
<1>4. ASSUME NEW a \in Call, RecordFailure(a) PROVE CodesPlaced'
  BY <1>4, AnswerType DEF RecordFailure
<1>5. ASSUME NEW a \in Call, CheckUnclaimed(a) PROVE CodesPlaced'
  BY <1>5 DEF CheckUnclaimed
<1>6. ASSUME NEW a \in Call, LockHome(a) PROVE CodesPlaced'
  BY <1>6 DEF LockHome
<1>7. ASSUME NEW a \in Call, AssignOwner(a) PROVE CodesPlaced'
  BY <1>7, AnswerType DEF AssignOwner, Rollback, GiveUp, Unlock
<1>8. ASSUME NEW a \in Call, Commit(a) PROVE CodesPlaced'
  BY <1>8 DEF Commit, Apply, Unlock
<1>9. ASSUME NEW a \in Call, Grow(a) PROVE CodesPlaced'
  BY <1>9 DEF Grow
<1>10. ASSUME NEW a \in Call, QueryError(a) PROVE CodesPlaced'
  BY <1>10, AnswerType DEF QueryError, Rollback, GiveUp, Unlock
<1>11. ASSUME NEW a \in Call, CommitUnheard(a) PROVE CodesPlaced'
  BY <1>11 DEF CommitUnheard, Apply, Unlock
<1>12. ASSUME NEW h \in Home, NEW k \in Code, CreateSmartHome(h, k)
       PROVE  CodesPlaced'
  BY <1>12 DEF CreateSmartHome
<1>13. ASSUME NEW h \in Home, NEW k \in Code, IssueActivationCode(h, k)
       PROVE  CodesPlaced'
  BY <1>13 DEF IssueActivationCode
<1>14. ASSUME NEW h \in Home, RevokeActivation(h) PROVE CodesPlaced'
  BY <1>14 DEF RevokeActivation
<1>15. ASSUME NEW h \in Home, SetHomeStatus(h) PROVE CodesPlaced'
  BY <1>15 DEF SetHomeStatus
<1>16. ASSUME NEW k \in Code, Expire(k) PROVE CodesPlaced'
  BY <1>16 DEF Expire
<1>17. CASE Crash
  BY <1>17 DEF Crash
<1>18. CASE UNCHANGED vars
  BY <1>18 DEF vars
<1> QED
  BY <1>1, <1>2, <1>3, <1>4, <1>5, <1>6, <1>7, <1>8, <1>9, <1>10, <1>11,
     <1>12, <1>13, <1>14, <1>15, <1>16, <1>17, <1>18
  DEF Next, CallStep

LEMMA StagedStep == IInv /\ [Next]_vars => Staged'
<1> SUFFICES ASSUME IInv, [Next]_vars PROVE Staged'
  OBVIOUS
<1> USE ConstantsAssumption DEF IInv, TypeOK, ClaimPhases, Locked,
        CodesPlaced, Staged, InTransaction, Answered, Claim, Assignment,
        IsClaim, Goto, homeVars, codeVars, CodesOf, LiveCodes
<1>1. ASSUME NEW a \in Call, InsertPendingAttempt(a) PROVE Staged'
  BY <1>1 DEF InsertPendingAttempt
<1>2. ASSUME NEW a \in Call, EnforceRateLimits(a) PROVE Staged'
  BY <1>2 DEF EnforceRateLimits
<1>3. ASSUME NEW a \in Call, FindToken(a) PROVE Staged'
  BY <1>3 DEF FindToken, TokenReason
<1>4. ASSUME NEW a \in Call, RecordFailure(a) PROVE Staged'
  BY <1>4, AnswerType DEF RecordFailure
<1>5. ASSUME NEW a \in Call, CheckUnclaimed(a) PROVE Staged'
  BY <1>5 DEF CheckUnclaimed
<1>6. ASSUME NEW a \in Call, LockHome(a) PROVE Staged'
  BY <1>6 DEF LockHome
<1>7. ASSUME NEW a \in Call, AssignOwner(a) PROVE Staged'
  BY <1>7, AnswerType DEF AssignOwner, Rollback, GiveUp, Unlock
<1>8. ASSUME NEW a \in Call, Commit(a) PROVE Staged'
  BY <1>8 DEF Commit, Apply, Unlock
<1>9. ASSUME NEW a \in Call, Grow(a) PROVE Staged'
  BY <1>9 DEF Grow
<1>10. ASSUME NEW a \in Call, QueryError(a) PROVE Staged'
  BY <1>10, AnswerType DEF QueryError, Rollback, GiveUp, Unlock
<1>11. ASSUME NEW a \in Call, CommitUnheard(a) PROVE Staged'
  BY <1>11 DEF CommitUnheard, Apply, Unlock
<1>12. ASSUME NEW h \in Home, NEW k \in Code, CreateSmartHome(h, k)
       PROVE  Staged'
  BY <1>12 DEF CreateSmartHome
<1>13. ASSUME NEW h \in Home, NEW k \in Code, IssueActivationCode(h, k)
       PROVE  Staged'
  BY <1>13 DEF IssueActivationCode
<1>14. ASSUME NEW h \in Home, RevokeActivation(h) PROVE Staged'
  BY <1>14 DEF RevokeActivation
<1>15. ASSUME NEW h \in Home, SetHomeStatus(h) PROVE Staged'
  BY <1>15 DEF SetHomeStatus
<1>16. ASSUME NEW k \in Code, Expire(k) PROVE Staged'
  BY <1>16 DEF Expire
<1>17. CASE Crash
  BY <1>17 DEF Crash
<1>18. CASE UNCHANGED vars
  BY <1>18 DEF vars
<1> QED
  BY <1>1, <1>2, <1>3, <1>4, <1>5, <1>6, <1>7, <1>8, <1>9, <1>10, <1>11,
     <1>12, <1>13, <1>14, <1>15, <1>16, <1>17, <1>18
  DEF Next, CallStep

LEMMA OneOwnerStep == IInv /\ [Next]_vars => OneOwner'
<1> SUFFICES ASSUME IInv, [Next]_vars PROVE OneOwner'
  OBVIOUS
<1> USE ConstantsAssumption DEF IInv, TypeOK, ClaimPhases, Locked,
        CodesPlaced, Staged, InTransaction, Answered, Claim, Assignment,
        IsClaim, Goto, homeVars, codeVars, CodesOf, LiveCodes, OneOwner
<1>1. ASSUME NEW a \in Call, InsertPendingAttempt(a) PROVE OneOwner'
  BY <1>1 DEF InsertPendingAttempt
<1>2. ASSUME NEW a \in Call, EnforceRateLimits(a) PROVE OneOwner'
  BY <1>2 DEF EnforceRateLimits
<1>3. ASSUME NEW a \in Call, FindToken(a) PROVE OneOwner'
  BY <1>3 DEF FindToken, TokenReason
<1>4. ASSUME NEW a \in Call, RecordFailure(a) PROVE OneOwner'
  BY <1>4, AnswerType DEF RecordFailure
<1>5. ASSUME NEW a \in Call, CheckUnclaimed(a) PROVE OneOwner'
  BY <1>5 DEF CheckUnclaimed
<1>6. ASSUME NEW a \in Call, LockHome(a) PROVE OneOwner'
  BY <1>6 DEF LockHome
<1>7. ASSUME NEW a \in Call, AssignOwner(a) PROVE OneOwner'
  BY <1>7, AnswerType DEF AssignOwner, Rollback, GiveUp, Unlock
<1>8. ASSUME NEW a \in Call, Commit(a) PROVE OneOwner'
  BY <1>8 DEF Commit, Apply, Unlock
<1>9. ASSUME NEW a \in Call, Grow(a) PROVE OneOwner'
  BY <1>9 DEF Grow
<1>10. ASSUME NEW a \in Call, QueryError(a) PROVE OneOwner'
  BY <1>10, AnswerType DEF QueryError, Rollback, GiveUp, Unlock
<1>11. ASSUME NEW a \in Call, CommitUnheard(a) PROVE OneOwner'
  BY <1>11 DEF CommitUnheard, Apply, Unlock
<1>12. ASSUME NEW h \in Home, NEW k \in Code, CreateSmartHome(h, k)
       PROVE  OneOwner'
  BY <1>12 DEF CreateSmartHome
<1>13. ASSUME NEW h \in Home, NEW k \in Code, IssueActivationCode(h, k)
       PROVE  OneOwner'
  BY <1>13 DEF IssueActivationCode
<1>14. ASSUME NEW h \in Home, RevokeActivation(h) PROVE OneOwner'
  BY <1>14 DEF RevokeActivation
<1>15. ASSUME NEW h \in Home, SetHomeStatus(h) PROVE OneOwner'
  BY <1>15 DEF SetHomeStatus
<1>16. ASSUME NEW k \in Code, Expire(k) PROVE OneOwner'
  BY <1>16 DEF Expire
<1>17. CASE Crash
  BY <1>17 DEF Crash
<1>18. CASE UNCHANGED vars
  BY <1>18 DEF vars
<1> QED
  BY <1>1, <1>2, <1>3, <1>4, <1>5, <1>6, <1>7, <1>8, <1>9, <1>10, <1>11,
     <1>12, <1>13, <1>14, <1>15, <1>16, <1>17, <1>18
  DEF Next, CallStep

LEMMA UsedByOwnerStep == IInv /\ [Next]_vars => UsedByOwner'
<1> SUFFICES ASSUME IInv, [Next]_vars PROVE UsedByOwner'
  OBVIOUS
<1> USE ConstantsAssumption DEF IInv, TypeOK, ClaimPhases, Locked,
        CodesPlaced, Staged, InTransaction, Answered, Claim, Assignment,
        IsClaim, Goto, homeVars, codeVars, CodesOf, LiveCodes, OneOwner,
        UsedByOwner
<1>1. ASSUME NEW a \in Call, InsertPendingAttempt(a) PROVE UsedByOwner'
  BY <1>1 DEF InsertPendingAttempt
<1>2. ASSUME NEW a \in Call, EnforceRateLimits(a) PROVE UsedByOwner'
  BY <1>2 DEF EnforceRateLimits
<1>3. ASSUME NEW a \in Call, FindToken(a) PROVE UsedByOwner'
  BY <1>3 DEF FindToken, TokenReason
<1>4. ASSUME NEW a \in Call, RecordFailure(a) PROVE UsedByOwner'
  BY <1>4, AnswerType DEF RecordFailure
<1>5. ASSUME NEW a \in Call, CheckUnclaimed(a) PROVE UsedByOwner'
  BY <1>5 DEF CheckUnclaimed
<1>6. ASSUME NEW a \in Call, LockHome(a) PROVE UsedByOwner'
  BY <1>6 DEF LockHome
<1>7. ASSUME NEW a \in Call, AssignOwner(a) PROVE UsedByOwner'
  BY <1>7, AnswerType DEF AssignOwner, Rollback, GiveUp, Unlock
<1>8. ASSUME NEW a \in Call, Commit(a) PROVE UsedByOwner'
  <2> DEFINE h == target[a]
  <2>1. h \in Home /\ owner[h] = Nobody
    BY <1>8 DEF Commit
  <2>2. \A j \in Home : owner'[j] = IF j = h THEN input[a].user ELSE owner[j]
    BY <1>8, <2>1 DEF Commit, Apply
  <2>3. \A k \in Code : codeStatus[k] = "used" => codeHome[k] # h
    BY <2>1, InputType, ConstantsAssumption
  <2> QED
    BY <1>8, <2>1, <2>2, <2>3 DEF Commit, Apply
<1>9. ASSUME NEW a \in Call, Grow(a) PROVE UsedByOwner'
  BY <1>9 DEF Grow
<1>10. ASSUME NEW a \in Call, QueryError(a) PROVE UsedByOwner'
  BY <1>10, AnswerType DEF QueryError, Rollback, GiveUp, Unlock
<1>11. ASSUME NEW a \in Call, CommitUnheard(a) PROVE UsedByOwner'
  <2> DEFINE h == target[a]
  <2>1. h \in Home /\ owner[h] = Nobody
    BY <1>11 DEF CommitUnheard
  <2>2. \A j \in Home : owner'[j] = IF j = h THEN input[a].user ELSE owner[j]
    BY <1>11, <2>1 DEF CommitUnheard, Apply
  <2>3. \A k \in Code : codeStatus[k] = "used" => codeHome[k] # h
    BY <2>1, InputType, ConstantsAssumption
  <2> QED
    BY <1>11, <2>1, <2>2, <2>3 DEF CommitUnheard, Apply
<1>12. ASSUME NEW h \in Home, NEW k \in Code, CreateSmartHome(h, k)
       PROVE  UsedByOwner'
  BY <1>12 DEF CreateSmartHome
<1>13. ASSUME NEW h \in Home, NEW k \in Code, IssueActivationCode(h, k)
       PROVE  UsedByOwner'
  BY <1>13 DEF IssueActivationCode
<1>14. ASSUME NEW h \in Home, RevokeActivation(h) PROVE UsedByOwner'
  BY <1>14 DEF RevokeActivation
<1>15. ASSUME NEW h \in Home, SetHomeStatus(h) PROVE UsedByOwner'
  BY <1>15 DEF SetHomeStatus
<1>16. ASSUME NEW k \in Code, Expire(k) PROVE UsedByOwner'
  BY <1>16 DEF Expire
<1>17. CASE Crash
  BY <1>17 DEF Crash
<1>18. CASE UNCHANGED vars
  BY <1>18 DEF vars
<1> QED
  BY <1>1, <1>2, <1>3, <1>4, <1>5, <1>6, <1>7, <1>8, <1>9, <1>10, <1>11,
     <1>12, <1>13, <1>14, <1>15, <1>16, <1>17, <1>18
  DEF Next, CallStep

LEMMA OneOpenCodeStep == IInv /\ [Next]_vars => OneOpenCode'
<1> SUFFICES ASSUME IInv, [Next]_vars PROVE OneOpenCode'
  OBVIOUS
<1> USE ConstantsAssumption DEF IInv, TypeOK, ClaimPhases, Locked,
        CodesPlaced, Staged, InTransaction, Answered, Claim, Assignment,
        IsClaim, Goto, homeVars, codeVars, CodesOf, LiveCodes, OneOpenCode
<1>1. ASSUME NEW a \in Call, InsertPendingAttempt(a) PROVE OneOpenCode'
  BY <1>1 DEF InsertPendingAttempt
<1>2. ASSUME NEW a \in Call, EnforceRateLimits(a) PROVE OneOpenCode'
  BY <1>2 DEF EnforceRateLimits
<1>3. ASSUME NEW a \in Call, FindToken(a) PROVE OneOpenCode'
  BY <1>3 DEF FindToken, TokenReason
<1>4. ASSUME NEW a \in Call, RecordFailure(a) PROVE OneOpenCode'
  BY <1>4, AnswerType DEF RecordFailure
<1>5. ASSUME NEW a \in Call, CheckUnclaimed(a) PROVE OneOpenCode'
  BY <1>5 DEF CheckUnclaimed
<1>6. ASSUME NEW a \in Call, LockHome(a) PROVE OneOpenCode'
  BY <1>6 DEF LockHome
<1>7. ASSUME NEW a \in Call, AssignOwner(a) PROVE OneOpenCode'
  BY <1>7, AnswerType DEF AssignOwner, Rollback, GiveUp, Unlock
<1>8. ASSUME NEW a \in Call, Commit(a) PROVE OneOpenCode'
  BY <1>8 DEF Commit, Apply, Unlock
<1>9. ASSUME NEW a \in Call, Grow(a) PROVE OneOpenCode'
  BY <1>9 DEF Grow
<1>10. ASSUME NEW a \in Call, QueryError(a) PROVE OneOpenCode'
  BY <1>10, AnswerType DEF QueryError, Rollback, GiveUp, Unlock
<1>11. ASSUME NEW a \in Call, CommitUnheard(a) PROVE OneOpenCode'
  BY <1>11 DEF CommitUnheard, Apply, Unlock
<1>12. ASSUME NEW h \in Home, NEW k \in Code, CreateSmartHome(h, k)
       PROVE  OneOpenCode'
  BY <1>12 DEF CreateSmartHome
<1>13. ASSUME NEW h \in Home, NEW k \in Code, IssueActivationCode(h, k)
       PROVE  OneOpenCode'
  BY <1>13 DEF IssueActivationCode
<1>14. ASSUME NEW h \in Home, RevokeActivation(h) PROVE OneOpenCode'
  BY <1>14 DEF RevokeActivation
<1>15. ASSUME NEW h \in Home, SetHomeStatus(h) PROVE OneOpenCode'
  BY <1>15 DEF SetHomeStatus
<1>16. ASSUME NEW k \in Code, Expire(k) PROVE OneOpenCode'
  BY <1>16 DEF Expire
<1>17. CASE Crash
  BY <1>17 DEF Crash
<1>18. CASE UNCHANGED vars
  BY <1>18 DEF vars
<1> QED
  BY <1>1, <1>2, <1>3, <1>4, <1>5, <1>6, <1>7, <1>8, <1>9, <1>10, <1>11,
     <1>12, <1>13, <1>14, <1>15, <1>16, <1>17, <1>18
  DEF Next, CallStep

LEMMA InvInit == Init => IInv
  BY TypeInit, ConstantsAssumption DEF Init, IInv, Locked, CodesPlaced, Staged,
    ClaimPhases, OneOwner, UsedByOwner, OneOpenCode, LiveCodes, CodesOf,
    InTransaction

LEMMA InvStep == IInv /\ [Next]_vars => IInv'
  BY TypeStep, ClaimPhasesStep, LockedStep, CodesPlacedStep, StagedStep,
    OneOwnerStep, UsedByOwnerStep, OneOpenCodeStep DEF IInv

LEMMA Invariance == Spec => []IInv
  BY InvInit, InvStep, PTL DEF Spec

\* Every variable keeps its type, whatever faults happen.
THEOREM TypeCorrect == Spec => []TypeOK
  BY Invariance, PTL DEF IInv

\* Status, owner_user_id and the OWNER rows of a home always agree.
THEOREM OwnerIsUnique == Spec => []OneOwner
  BY Invariance, PTL DEF IInv

\* A spent code always bought its home for its user.
THEOREM CodeBuysHome == Spec => []UsedByOwner
  BY Invariance, PTL DEF IInv

\* At most one code opens a home, and none an owned home.
THEOREM OneCodeOpens == Spec => []OneOpenCode
  BY Invariance, PTL DEF IInv

\* The three together: homes, their owners and their codes agree.
THEOREM HomesAlwaysAgree == Spec => []HomesAgree
  BY OwnerIsUnique, CodeBuysHome, OneCodeOpens, PTL DEF HomesAgree

LEMMA OwnerStep ==
  IInv /\ [Next]_vars =>
    \A h \in Home : owner[h] # Nobody => owner'[h] = owner[h]
<1> SUFFICES ASSUME IInv, [Next]_vars, NEW g \in Home, owner[g] # Nobody
             PROVE  owner'[g] = owner[g]
  OBVIOUS
<1> USE ConstantsAssumption DEF IInv, TypeOK, ClaimPhases, Locked,
        CodesPlaced, Staged, InTransaction, Answered, Claim, Assignment,
        IsClaim, Goto, homeVars, codeVars, CodesOf, LiveCodes, OneOwner
<1>1. ASSUME NEW a \in Call, InsertPendingAttempt(a)
      PROVE  owner'[g] = owner[g]
  BY <1>1 DEF InsertPendingAttempt
<1>2. ASSUME NEW a \in Call, EnforceRateLimits(a) PROVE owner'[g] = owner[g]
  BY <1>2 DEF EnforceRateLimits
<1>3. ASSUME NEW a \in Call, FindToken(a) PROVE owner'[g] = owner[g]
  BY <1>3 DEF FindToken, TokenReason
<1>4. ASSUME NEW a \in Call, RecordFailure(a) PROVE owner'[g] = owner[g]
  BY <1>4, AnswerType DEF RecordFailure
<1>5. ASSUME NEW a \in Call, CheckUnclaimed(a) PROVE owner'[g] = owner[g]
  BY <1>5 DEF CheckUnclaimed
<1>6. ASSUME NEW a \in Call, LockHome(a) PROVE owner'[g] = owner[g]
  BY <1>6 DEF LockHome
<1>7. ASSUME NEW a \in Call, AssignOwner(a) PROVE owner'[g] = owner[g]
  BY <1>7, AnswerType DEF AssignOwner, Rollback, GiveUp, Unlock
<1>8. ASSUME NEW a \in Call, Commit(a) PROVE owner'[g] = owner[g]
  BY <1>8 DEF Commit, Apply, Unlock
<1>9. ASSUME NEW a \in Call, Grow(a) PROVE owner'[g] = owner[g]
  BY <1>9 DEF Grow
<1>10. ASSUME NEW a \in Call, QueryError(a) PROVE owner'[g] = owner[g]
  BY <1>10, AnswerType DEF QueryError, Rollback, GiveUp, Unlock
<1>11. ASSUME NEW a \in Call, CommitUnheard(a) PROVE owner'[g] = owner[g]
  BY <1>11 DEF CommitUnheard, Apply, Unlock
<1>12. ASSUME NEW h \in Home, NEW k \in Code, CreateSmartHome(h, k)
       PROVE  owner'[g] = owner[g]
  BY <1>12 DEF CreateSmartHome
<1>13. ASSUME NEW h \in Home, NEW k \in Code, IssueActivationCode(h, k)
       PROVE  owner'[g] = owner[g]
  BY <1>13 DEF IssueActivationCode
<1>14. ASSUME NEW h \in Home, RevokeActivation(h) PROVE owner'[g] = owner[g]
  BY <1>14 DEF RevokeActivation
<1>15. ASSUME NEW h \in Home, SetHomeStatus(h) PROVE owner'[g] = owner[g]
  BY <1>15 DEF SetHomeStatus
<1>16. ASSUME NEW k \in Code, Expire(k) PROVE owner'[g] = owner[g]
  BY <1>16 DEF Expire
<1>17. CASE Crash
  BY <1>17 DEF Crash
<1>18. CASE UNCHANGED vars
  BY <1>18 DEF vars
<1> QED
  BY <1>1, <1>2, <1>3, <1>4, <1>5, <1>6, <1>7, <1>8, <1>9, <1>10, <1>11,
     <1>12, <1>13, <1>14, <1>15, <1>16, <1>17, <1>18
  DEF Next, CallStep

\* Once a home has an owner, no claim and no assignment takes it away.
THEOREM OwnerStays == Spec => OwnerForGood
<1>1. IInv /\ [Next]_vars =>
        [\A h \in Home : owner[h] # Nobody => owner'[h] = owner[h]]_owner
  BY OwnerStep
<1> QED
  BY <1>1, Invariance, PTL DEF Spec, OwnerForGood

-----------------------------------------------------------------------------
(***************************************************************************)
(* Refinement: HomeClaim implements HomeOwnership.                         *)
(***************************************************************************)
\* Steps that leave the homes alone and only move a call on, perhaps to a
\* refusal.
LEMMA SilentStep ==
  ASSUME TypeOK, UNCHANGED <<input, owner, pc>>
  PROVE  [Ownership!Next]_(Ownership!vars)
<1>1. \A b \in Call : Told(b)' = Told(b)
  BY DEF Told
<1> QED
  BY <1>1 DEF Ownership!vars

LEMMA MoveOn ==
  ASSUME TypeOK, NEW a \in Call, NEW label, label # "won",
         pc[a] \notin Answered,
         pc' = [pc EXCEPT ![a] = label], UNCHANGED <<input, owner>>
  PROVE  [Ownership!Next]_(Ownership!vars)
<1>1. pc'[a] = label /\ \A b \in Call \ {a} : pc'[b] = pc[b]
  BY DEF TypeOK
<1>2. Told(a) = "nothing"
  BY DEF Told, Answered
<1>3. \A b \in Call \ {a} : Told(b)' = Told(b)
  BY <1>1 DEF Told
<1>4. CASE label \in {"lost", "limited"}
  <2>1. Told(a)' = "lost"
    BY <1>1, <1>4 DEF Told
  <2>2. [b \in Call |-> Told(b)]'
          = [[b \in Call |-> Told(b)] EXCEPT ![a] = "lost"]
    BY <1>3, <2>1
  <2>3. Ownership!Lose(a)
    BY <1>2, <2>2 DEF Ownership!Lose
  <2> QED
    BY <2>3 DEF Ownership!Next
<1>5. CASE label \notin {"lost", "limited"}
  <2>1. Told(a)' = "nothing"
    BY <1>1, <1>5 DEF Told
  <2>2. \A b \in Call : Told(b)' = Told(b)
    BY <1>2, <1>3, <2>1
  <2> QED
    BY <2>2 DEF Ownership!vars
<1> QED
  BY <1>4, <1>5

LEMMA Gives ==
  ASSUME IInv, NEW a \in Call, pc[a] = "committing", Apply(a)
  PROVE  Ownership!Give(target[a], input[a].user) /\ target[a] \in Home
  BY DEF IInv, TypeOK, Staged, Locked, InTransaction, OneOwner, Apply,
         Ownership!Give

LEMMA OwnershipStep == IInv /\ [Next]_vars => [Ownership!Next]_(Ownership!vars)
<1> SUFFICES ASSUME IInv, [Next]_vars
             PROVE  [Ownership!Next]_(Ownership!vars)
  OBVIOUS
<1> DEFINE Simulates == [Ownership!Next]_(Ownership!vars)
<1>0. TypeOK
  BY DEF IInv
<1> HIDE DEF Simulates
<1>1. ASSUME NEW a \in Call, InsertPendingAttempt(a) PROVE Simulates
  BY <1>1, <1>0, MoveOn
  DEF InsertPendingAttempt, Goto, homeVars, Answered, Simulates
<1>2. ASSUME NEW a \in Call, EnforceRateLimits(a) PROVE Simulates
  BY <1>2, <1>0, MoveOn
  DEF EnforceRateLimits, Goto, homeVars, Answered, Simulates
<1>3. ASSUME NEW a \in Call, FindToken(a) PROVE Simulates
  BY <1>3, <1>0, MoveOn DEF FindToken, Goto, homeVars, Answered, Simulates
<1>4. ASSUME NEW a \in Call, RecordFailure(a) PROVE Simulates
  BY <1>4, <1>0, AnswerType, MoveOn
  DEF RecordFailure, Goto, homeVars, Answered, Simulates
<1>5. ASSUME NEW a \in Call, CheckUnclaimed(a) PROVE Simulates
  BY <1>5, <1>0, MoveOn DEF CheckUnclaimed, Goto, homeVars, Answered, Simulates
<1>6. ASSUME NEW a \in Call, LockHome(a) PROVE Simulates
  BY <1>6, <1>0, MoveOn DEF LockHome, Goto, homeVars, Answered, Simulates
<1>7. ASSUME NEW a \in Call, AssignOwner(a) PROVE Simulates
  BY <1>7, <1>0, AnswerType, MoveOn
  DEF AssignOwner, Rollback, GiveUp, Goto, homeVars, Answered, Simulates
<1>8. ASSUME NEW a \in Call, Commit(a) PROVE Simulates
  <2>1. pc[a] = "committing" /\ Apply(a) /\ UNCHANGED input
    BY <1>8 DEF Commit, Apply
  <2>2. pc'[a] = "won" /\ \A b \in Call \ {a} : pc'[b] = pc[b]
    BY <1>8, <1>0 DEF Commit, Goto, TypeOK
  <2>3. Told(a) = "nothing" /\ Told(a)' = "won"
    BY <2>1, <2>2 DEF Told
  <2>4. \A b \in Call \ {a} : Told(b)' = Told(b)
    BY <2>2 DEF Told
  <2>5. [b \in Call |-> Told(b)]'
          = [[b \in Call |-> Told(b)] EXCEPT ![a] = "won"]
    BY <2>3, <2>4
  <2>6. Ownership!Win(a)
    BY <2>1, <2>3, <2>5, Gives DEF Ownership!Win
  <2> QED
    BY <2>6 DEF Ownership!Next, Simulates
<1>9. ASSUME NEW a \in Call, Grow(a) PROVE Simulates
  BY <1>9, <1>0, SilentStep DEF Grow, homeVars, Simulates
<1>10. ASSUME NEW a \in Call, QueryError(a) PROVE Simulates
  BY <1>10, <1>0, AnswerType, MoveOn
  DEF QueryError, Rollback, GiveUp, Goto, homeVars, Answered, Simulates
<1>11. ASSUME NEW a \in Call, CommitUnheard(a) PROVE Simulates
  <2>1. pc[a] = "committing" /\ Apply(a) /\ UNCHANGED input
    BY <1>11 DEF CommitUnheard, Apply
  <2>2. \A b \in Call : Told(b)' = Told(b)
    BY <1>11, <1>0 DEF CommitUnheard, Goto, Told, TypeOK
  <2>3. Ownership!WinUnheard
    BY <2>1, <2>2, <1>0, Gives, InputType DEF Ownership!WinUnheard
  <2> QED
    BY <2>3 DEF Ownership!Next, Simulates
<1>12. ASSUME NEW h \in Home, NEW k \in Code, CreateSmartHome(h, k)
       PROVE  Simulates
  BY <1>12, <1>0, SilentStep DEF CreateSmartHome, homeVars, Simulates
<1>13. ASSUME NEW h \in Home, NEW k \in Code, IssueActivationCode(h, k)
       PROVE  Simulates
  BY <1>13, <1>0, SilentStep DEF IssueActivationCode, homeVars, Simulates
<1>14. ASSUME NEW h \in Home, RevokeActivation(h) PROVE Simulates
  BY <1>14, <1>0, SilentStep DEF RevokeActivation, homeVars, Simulates
<1>15. ASSUME NEW h \in Home, SetHomeStatus(h) PROVE Simulates
  BY <1>15, <1>0, SilentStep DEF SetHomeStatus, homeVars, Simulates
<1>16. ASSUME NEW k \in Code, Expire(k) PROVE Simulates
  BY <1>16, <1>0, SilentStep DEF Expire, homeVars, Simulates
<1>17. CASE Crash
  <2>1. \A b \in Call : Told(b)' = Told(b)
    BY <1>17, <1>0 DEF Crash, Told, Answered, TypeOK
  <2> QED
    BY <1>17, <2>1 DEF Crash, homeVars, Ownership!vars, Simulates
<1>18. CASE UNCHANGED vars
  BY <1>18, <1>0, SilentStep DEF vars, homeVars, Simulates
<1> QED
  BY <1>1, <1>2, <1>3, <1>4, <1>5, <1>6, <1>7, <1>8, <1>9, <1>10, <1>11,
     <1>12, <1>13, <1>14, <1>15, <1>16, <1>17, <1>18
  DEF Next, CallStep, Simulates
\* Claims and assignments, with their codes, locks, logs and faults, give each
\* home away once, and tell a call it won only if it did.
THEOREM ImplementsOwnership == Spec => OwnershipSpec
<1>1. Init => Ownership!Init
  <2> SUFFICES ASSUME Init PROVE Ownership!Init
    OBVIOUS
  <2>1. \A a \in Call : input[a].user \in User
    BY TypeInit, InputType
  <2>2. \A a \in Call : Told(a) = "nothing"
    BY DEF Init, Told
  <2> QED
    BY <2>1, <2>2 DEF Init, Ownership!Init
<1> QED
  BY <1>1, OwnershipStep, Invariance, PTL
  DEF Spec, OwnershipSpec, Ownership!Spec

-----------------------------------------------------------------------------
(***************************************************************************)
(* The limits.  An attempt may try a code from the moment it was let       *)
(* through; its row was among those counted then, and from then on it can  *)
(* only stop counting.                                                     *)
(***************************************************************************)
LetThrough == tried \cup {a \in Call : pc[a] = "searching"}
AccountTries(u) == LetThrough \cap AccountFailures(u)
CodeTries(k) == LetThrough \cap CodeFailures(k)

Pending ==
  \A a \in Call :
    /\ pc[a] \in {"idle", "counting"} => a \notin tried
    /\ IsClaim(a) /\ pc[a] \in {"counting", "searching", "locking",
                               "assigning", "committing"}
         => log[a] = "PENDING"
    /\ pc[a] = "failing" => log[a] = "PENDING" \/ verdict[a] \notin Counted

Limits ==
  /\ \A u \in User : Cardinality(AccountTries(u)) <= AccountLimit
  /\ \A k \in Code : Cardinality(CodeTries(k)) <= CodeLimit

LEMMA PendingStep == IInv /\ Pending /\ [Next]_vars => Pending'
<1> SUFFICES ASSUME IInv, Pending, [Next]_vars PROVE Pending'
  OBVIOUS
<1> USE ConstantsAssumption DEF IInv, TypeOK, ClaimPhases, Locked,
        CodesPlaced, Staged, InTransaction, Answered, Claim, Assignment,
        IsClaim, Goto, homeVars, codeVars, CodesOf, LiveCodes, Pending,
        Counted
<1>1. ASSUME NEW a \in Call, InsertPendingAttempt(a) PROVE Pending'
  BY <1>1 DEF InsertPendingAttempt
<1>2. ASSUME NEW a \in Call, EnforceRateLimits(a) PROVE Pending'
  BY <1>2 DEF EnforceRateLimits
<1>3. ASSUME NEW a \in Call, FindToken(a) PROVE Pending'
  <2>1. IsClaim(a)
    BY <1>3 DEF FindToken
  <2> QED
    BY <1>3, <2>1 DEF FindToken
<1>4. ASSUME NEW a \in Call, RecordFailure(a) PROVE Pending'
  BY <1>4, AnswerType DEF RecordFailure
<1>5. ASSUME NEW a \in Call, CheckUnclaimed(a) PROVE Pending'
  BY <1>5 DEF CheckUnclaimed
<1>6. ASSUME NEW a \in Call, LockHome(a) PROVE Pending'
  BY <1>6 DEF LockHome
<1>7. ASSUME NEW a \in Call, AssignOwner(a) PROVE Pending'
  BY <1>7, AnswerType DEF AssignOwner, Rollback, GiveUp, Unlock
<1>8. ASSUME NEW a \in Call, Commit(a) PROVE Pending'
  BY <1>8 DEF Commit, Apply, Unlock
<1>9. ASSUME NEW a \in Call, Grow(a) PROVE Pending'
  BY <1>9 DEF Grow
<1>10. ASSUME NEW a \in Call, QueryError(a) PROVE Pending'
  BY <1>10, AnswerType DEF QueryError, Rollback, GiveUp, Unlock
<1>11. ASSUME NEW a \in Call, CommitUnheard(a) PROVE Pending'
  BY <1>11 DEF CommitUnheard, Apply, Unlock
<1>12. ASSUME NEW h \in Home, NEW k \in Code, CreateSmartHome(h, k)
       PROVE  Pending'
  BY <1>12 DEF CreateSmartHome
<1>13. ASSUME NEW h \in Home, NEW k \in Code, IssueActivationCode(h, k)
       PROVE  Pending'
  BY <1>13 DEF IssueActivationCode
<1>14. ASSUME NEW h \in Home, RevokeActivation(h) PROVE Pending'
  BY <1>14 DEF RevokeActivation
<1>15. ASSUME NEW h \in Home, SetHomeStatus(h) PROVE Pending'
  BY <1>15 DEF SetHomeStatus
<1>16. ASSUME NEW k \in Code, Expire(k) PROVE Pending'
  BY <1>16 DEF Expire
<1>17. CASE Crash
  BY <1>17 DEF Crash
<1>18. CASE UNCHANGED vars
  BY <1>18 DEF vars
<1> QED
  BY <1>1, <1>2, <1>3, <1>4, <1>5, <1>6, <1>7, <1>8, <1>9, <1>10, <1>11,
     <1>12, <1>13, <1>14, <1>15, <1>16, <1>17, <1>18
  DEF Next, CallStep

\* What is let through is no more than what it is counted among.
LEMMA SmallerCount ==
  ASSUME NEW S \in SUBSET Call, NEW T \in SUBSET S, NEW n \in Nat,
         Cardinality(S) <= n
  PROVE  Cardinality(T) <= n
<1>1. IsFiniteSet(S)
  BY ConstantsAssumption, FS_Subset
<1>2. IsFiniteSet(T) /\ Cardinality(T) <= Cardinality(S)
  BY <1>1, FS_Subset
<1>3. Cardinality(T) \in Nat /\ Cardinality(S) \in Nat
  BY <1>1, <1>2, FS_CardinalityType
<1> QED
  BY <1>2, <1>3

Fewer ==
  /\ \A u \in User : AccountTries(u)' \subseteq AccountTries(u)
  /\ \A k \in Code : CodeTries(k)' \subseteq CodeTries(k)

LEMMA FewerKeepsLimits == IInv /\ Limits /\ Fewer => Limits'
<1> SUFFICES ASSUME IInv, Limits, Fewer PROVE Limits'
  OBVIOUS
<1>1. /\ \A u \in User : AccountTries(u) \subseteq Call
      /\ \A k \in Code : CodeTries(k) \subseteq Call
  BY DEF AccountTries, CodeTries, AccountFailures, CodeFailures
<1>2. \A u \in User : Cardinality(AccountTries(u)') <= AccountLimit
  BY <1>1, SmallerCount, ConstantsAssumption DEF Fewer, Limits
<1>3. \A k \in Code : Cardinality(CodeTries(k)') <= CodeLimit
  BY <1>1, SmallerCount, ConstantsAssumption DEF Fewer, Limits
<1> QED
  BY <1>2, <1>3 DEF Limits

LEMMA LetThroughKeepsLimits ==
  ASSUME IInv, Limits, NEW a \in Call, EnforceRateLimits(a)
  PROVE  Limits'
<1> USE DEF AccountTries, CodeTries, AccountFailures, CodeFailures
<1>1. IsClaim(a)
  BY DEF IInv, ClaimPhases, EnforceRateLimits
<1>2. /\ UNCHANGED <<log, age, input, tried>>
      /\ \A b \in Call \ {a} : pc'[b] = "searching" => pc[b] = "searching"
  BY DEF IInv, TypeOK, EnforceRateLimits, Goto
<1>3. LetThrough' \subseteq LetThrough \cup {a}
  BY <1>2 DEF LetThrough
<1>4. CASE ~ OverLimit(a)
  <2>1. ASSUME NEW u \in User
        PROVE  Cardinality(AccountTries(u)') <= AccountLimit
    <3>1. CASE u = input[a].user
      <4>1. Cardinality(AccountFailures(u)) <= AccountLimit
        <5>1. Cardinality(AccountFailures(u)) \in Nat
          BY ConstantsAssumption, FS_Subset, FS_CardinalityType
        <5> QED
          BY <1>4, <3>1, <5>1, ConstantsAssumption DEF OverLimit
      <4>2. AccountTries(u)' \subseteq AccountFailures(u)
        BY <1>2 DEF IsClaim
      <4>3. AccountFailures(u) \subseteq Call
        OBVIOUS
      <4> QED
        BY <4>1, <4>2, <4>3, SmallerCount, ConstantsAssumption
    <3>2. CASE u # input[a].user
      <4>1. AccountTries(u)' \subseteq AccountTries(u)
        BY <1>2, <1>3, <3>2 DEF IsClaim
      <4>2. AccountTries(u) \subseteq Call
        OBVIOUS
      <4> QED
        BY <4>1, <4>2, SmallerCount, ConstantsAssumption DEF Limits
    <3> QED
      BY <3>1, <3>2
  <2>2. ASSUME NEW k \in Code PROVE Cardinality(CodeTries(k)') <= CodeLimit
    <3>1. CASE k = input[a].code
      <4>1. Cardinality(CodeFailures(k)) <= CodeLimit
        <5>1. Cardinality(CodeFailures(k)) \in Nat
          BY ConstantsAssumption, FS_Subset, FS_CardinalityType
        <5> QED
          BY <1>4, <3>1, <5>1, ConstantsAssumption DEF OverLimit
      <4>2. CodeTries(k)' \subseteq CodeFailures(k)
        BY <1>2 DEF IsClaim
      <4>3. CodeFailures(k) \subseteq Call
        OBVIOUS
      <4> QED
        BY <4>1, <4>2, <4>3, SmallerCount, ConstantsAssumption
    <3>2. CASE k # input[a].code
      <4>1. CodeTries(k)' \subseteq CodeTries(k)
        BY <1>2, <1>3, <3>2 DEF IsClaim
      <4>2. CodeTries(k) \subseteq Call
        OBVIOUS
      <4> QED
        BY <4>1, <4>2, SmallerCount, ConstantsAssumption DEF Limits
    <3> QED
      BY <3>1, <3>2
  <2> QED
    BY <2>1, <2>2 DEF Limits
<1>5. CASE OverLimit(a)
  <2>1. pc'[a] = "failing"
    BY <1>5 DEF EnforceRateLimits, Goto, IInv, TypeOK
  <2>2. LetThrough' \subseteq LetThrough
    BY <1>2, <2>1 DEF LetThrough
  <2>3. Fewer
    BY <1>2, <2>2 DEF Fewer, IsClaim
  <2> QED
    BY <2>3, FewerKeepsLimits
<1> QED
  BY <1>4, <1>5

LEMMA LimitsStep == IInv /\ Pending /\ Limits /\ [Next]_vars => Limits'
<1> SUFFICES ASSUME IInv, Pending, Limits, [Next]_vars PROVE Limits'
  OBVIOUS
<1> USE DEF IInv, TypeOK, ClaimPhases, homeVars, codeVars, IsClaim, Goto
<1>1. ASSUME NEW a \in Call, InsertPendingAttempt(a) PROVE Limits'
  <2>1. Fewer
    BY <1>1, AnswerType, ConstantsAssumption
    DEF InsertPendingAttempt, Pending, Counted, Answered,
       Fewer, AccountTries, CodeTries, LetThrough,
             AccountFailures, CodeFailures
  <2> QED
    BY <2>1, FewerKeepsLimits
<1>2. ASSUME NEW a \in Call, EnforceRateLimits(a) PROVE Limits'
  BY <1>2, LetThroughKeepsLimits
<1>3. ASSUME NEW a \in Call, FindToken(a) PROVE Limits'
  <2>1. Fewer
    BY <1>3, AnswerType, ConstantsAssumption
    DEF FindToken, TokenReason, Pending, Counted, Answered,
       Fewer, AccountTries, CodeTries, LetThrough,
             AccountFailures, CodeFailures
  <2> QED
    BY <2>1, FewerKeepsLimits
<1>4. ASSUME NEW a \in Call, RecordFailure(a) PROVE Limits'
  <2>1. Fewer
    BY <1>4, AnswerType, ConstantsAssumption
    DEF RecordFailure, Pending, Counted, Answered,
       Fewer, AccountTries, CodeTries, LetThrough,
             AccountFailures, CodeFailures
  <2> QED
    BY <2>1, FewerKeepsLimits
<1>5. ASSUME NEW a \in Call, CheckUnclaimed(a) PROVE Limits'
  <2>1. Fewer
    BY <1>5, AnswerType, ConstantsAssumption
    DEF CheckUnclaimed, Pending, Counted, Answered,
       Fewer, AccountTries, CodeTries, LetThrough,
             AccountFailures, CodeFailures
  <2> QED
    BY <2>1, FewerKeepsLimits
<1>6. ASSUME NEW a \in Call, LockHome(a) PROVE Limits'
  <2>1. Fewer
    BY <1>6, AnswerType, ConstantsAssumption
    DEF LockHome, Pending, Counted, Answered,
       Fewer, AccountTries, CodeTries, LetThrough,
             AccountFailures, CodeFailures
  <2> QED
    BY <2>1, FewerKeepsLimits
<1>7. ASSUME NEW a \in Call, AssignOwner(a) PROVE Limits'
  <2>1. Fewer
    BY <1>7, AnswerType, ConstantsAssumption
    DEF AssignOwner, Rollback, GiveUp, Unlock, Pending, Counted, Answered,
       Fewer, AccountTries, CodeTries, LetThrough,
             AccountFailures, CodeFailures
  <2> QED
    BY <2>1, FewerKeepsLimits
<1>8. ASSUME NEW a \in Call, Commit(a) PROVE Limits'
  <2>1. Fewer
    BY <1>8, AnswerType, ConstantsAssumption
    DEF Commit, Apply, Unlock, Pending, Counted, Answered,
       Fewer, AccountTries, CodeTries, LetThrough,
             AccountFailures, CodeFailures
  <2> QED
    BY <2>1, FewerKeepsLimits
<1>9. ASSUME NEW a \in Call, Grow(a) PROVE Limits'
  <2>1. Fewer
    BY <1>9, AnswerType, ConstantsAssumption
    DEF Grow, Pending, Counted, Answered,
       Fewer, AccountTries, CodeTries, LetThrough,
             AccountFailures, CodeFailures
  <2> QED
    BY <2>1, FewerKeepsLimits
<1>10. ASSUME NEW a \in Call, QueryError(a) PROVE Limits'
  <2>1. Fewer
    BY <1>10, AnswerType, ConstantsAssumption
    DEF QueryError, Rollback, GiveUp, Unlock, Pending, Counted, Answered,
       Fewer, AccountTries, CodeTries, LetThrough,
             AccountFailures, CodeFailures
  <2> QED
    BY <2>1, FewerKeepsLimits
<1>11. ASSUME NEW a \in Call, CommitUnheard(a) PROVE Limits'
  <2>1. Fewer
    BY <1>11, AnswerType, ConstantsAssumption
    DEF CommitUnheard, Apply, Unlock, Pending, Counted, Answered,
       Fewer, AccountTries, CodeTries, LetThrough,
             AccountFailures, CodeFailures
  <2> QED
    BY <2>1, FewerKeepsLimits
<1>12. ASSUME NEW h \in Home, NEW k \in Code, CreateSmartHome(h, k)
       PROVE  Limits'
  <2>1. Fewer
    BY <1>12, AnswerType, ConstantsAssumption
    DEF CreateSmartHome, Pending, Counted, Answered,
       Fewer, AccountTries, CodeTries, LetThrough,
             AccountFailures, CodeFailures
  <2> QED
    BY <2>1, FewerKeepsLimits
<1>13. ASSUME NEW h \in Home, NEW k \in Code, IssueActivationCode(h, k)
       PROVE  Limits'
  <2>1. Fewer
    BY <1>13, AnswerType, ConstantsAssumption
    DEF IssueActivationCode, Pending, Counted, Answered,
       Fewer, AccountTries, CodeTries, LetThrough,
             AccountFailures, CodeFailures
  <2> QED
    BY <2>1, FewerKeepsLimits
<1>14. ASSUME NEW h \in Home, RevokeActivation(h) PROVE Limits'
  <2>1. Fewer
    BY <1>14, AnswerType, ConstantsAssumption
    DEF RevokeActivation, Pending, Counted, Answered,
       Fewer, AccountTries, CodeTries, LetThrough,
             AccountFailures, CodeFailures
  <2> QED
    BY <2>1, FewerKeepsLimits
<1>15. ASSUME NEW h \in Home, SetHomeStatus(h) PROVE Limits'
  <2>1. Fewer
    BY <1>15, AnswerType, ConstantsAssumption
    DEF SetHomeStatus, Pending, Counted, Answered,
       Fewer, AccountTries, CodeTries, LetThrough,
             AccountFailures, CodeFailures
  <2> QED
    BY <2>1, FewerKeepsLimits
<1>16. ASSUME NEW k \in Code, Expire(k) PROVE Limits'
  <2>1. Fewer
    BY <1>16, AnswerType, ConstantsAssumption
    DEF Expire, Pending, Counted, Answered,
       Fewer, AccountTries, CodeTries, LetThrough,
             AccountFailures, CodeFailures
  <2> QED
    BY <2>1, FewerKeepsLimits
<1>17. CASE Crash
  <2>1. Fewer
    BY <1>17, AnswerType, ConstantsAssumption
    DEF Crash, Pending, Counted, Answered,
       Fewer, AccountTries, CodeTries, LetThrough,
             AccountFailures, CodeFailures
  <2> QED
    BY <2>1, FewerKeepsLimits
<1>18. CASE UNCHANGED vars
  <2>1. Fewer
    BY <1>18, AnswerType, ConstantsAssumption
    DEF vars, Pending, Counted, Answered,
       Fewer, AccountTries, CodeTries, LetThrough,
             AccountFailures, CodeFailures
  <2> QED
    BY <2>1, FewerKeepsLimits
<1> QED
  BY <1>1, <1>2, <1>3, <1>4, <1>5, <1>6, <1>7, <1>8, <1>9, <1>10, <1>11,
     <1>12, <1>13, <1>14, <1>15, <1>16, <1>17, <1>18
  DEF Next, CallStep

\* Parallel requests cannot slip through the limits of failed attempts: no more
\* than the limit get to try a code and count in one window.
THEOREM LimitsAreKept == Spec => []LimitHolds
<1>1. Init => Pending /\ Limits
  <2> SUFFICES ASSUME Init PROVE Pending /\ Limits
    OBVIOUS
  <2>1. /\ \A u \in User : AccountTries(u) = {}
        /\ \A k \in Code : CodeTries(k) = {}
    BY DEF Init, AccountTries, CodeTries, LetThrough
  <2>2. Limits
    <3>1. Cardinality({}) = 0
      BY FS_EmptySet
    <3> QED
      BY <2>1, <3>1, ConstantsAssumption DEF Limits
  <2> QED
    BY <2>2 DEF Init, Pending
<1>2. IInv /\ Limits => LimitHolds
  <2> SUFFICES ASSUME IInv, Limits PROVE LimitHolds
    OBVIOUS
  <2>1. ASSUME NEW u \in User
        PROVE  Cardinality(tried \cap AccountFailures(u)) <= AccountLimit
    <3>1. /\ tried \cap AccountFailures(u) \subseteq AccountTries(u)
          /\ AccountTries(u) \subseteq Call
      BY DEF AccountTries, LetThrough, AccountFailures
    <3> QED
      BY <3>1, SmallerCount, ConstantsAssumption DEF Limits
  <2>2. ASSUME NEW k \in Code
        PROVE  Cardinality(tried \cap CodeFailures(k)) <= CodeLimit
    <3>1. /\ tried \cap CodeFailures(k) \subseteq CodeTries(k)
          /\ CodeTries(k) \subseteq Call
      BY DEF CodeTries, LetThrough, CodeFailures
    <3> QED
      BY <3>1, SmallerCount, ConstantsAssumption DEF Limits
  <2> QED
    BY <2>1, <2>2 DEF LimitHolds
<1> QED
  BY <1>1, <1>2, PendingStep, LimitsStep, Invariance, PTL DEF Spec

-----------------------------------------------------------------------------
(***************************************************************************)
(* The log.  Without a lost answer to COMMIT a row that says success stays *)
(* as it was committed.                                                    *)
(***************************************************************************)
Genuine ==
  \A a \in Call :
    /\ log[a] = "success" =>
         /\ pc[a] = "won" /\ target[a] \in Home
         /\ owner[target[a]] = input[a].user
    /\ pc[a] \in {"failing"} => verdict[a] # "success"

LEMMA GenuineStep ==
  "commit" \notin Faults /\ IInv /\ Genuine /\ [Next]_vars => Genuine'
<1> SUFFICES ASSUME "commit" \notin Faults, IInv, Genuine, [Next]_vars
             PROVE  Genuine'
  OBVIOUS
<1> USE ConstantsAssumption DEF IInv, TypeOK, ClaimPhases, Locked,
        CodesPlaced, Staged, InTransaction, Answered, Claim, Assignment,
        IsClaim, Goto, homeVars, codeVars, CodesOf, LiveCodes, OneOwner,
        Genuine, Reason, Counted
<1>1. ASSUME NEW a \in Call, InsertPendingAttempt(a) PROVE Genuine'
  BY <1>1 DEF InsertPendingAttempt
<1>2. ASSUME NEW a \in Call, EnforceRateLimits(a) PROVE Genuine'
  BY <1>2 DEF EnforceRateLimits
<1>3. ASSUME NEW a \in Call, FindToken(a) PROVE Genuine'
  BY <1>3 DEF FindToken, TokenReason
<1>4. ASSUME NEW a \in Call, RecordFailure(a) PROVE Genuine'
  BY <1>4, AnswerType DEF RecordFailure
<1>5. ASSUME NEW a \in Call, CheckUnclaimed(a) PROVE Genuine'
  BY <1>5 DEF CheckUnclaimed
<1>6. ASSUME NEW a \in Call, LockHome(a) PROVE Genuine'
  BY <1>6 DEF LockHome
<1>7. ASSUME NEW a \in Call, AssignOwner(a) PROVE Genuine'
  BY <1>7, AnswerType DEF AssignOwner, Rollback, GiveUp, Unlock
<1>8. ASSUME NEW a \in Call, Commit(a) PROVE Genuine'
  BY <1>8 DEF Commit, Apply, Unlock
<1>9. ASSUME NEW a \in Call, Grow(a) PROVE Genuine'
  BY <1>9 DEF Grow
<1>10. ASSUME NEW a \in Call, QueryError(a) PROVE Genuine'
  BY <1>10, AnswerType DEF QueryError, Rollback, GiveUp, Unlock
<1>11. ASSUME NEW a \in Call, CommitUnheard(a) PROVE Genuine'
  BY <1>11 DEF CommitUnheard, Apply, Unlock
<1>12. ASSUME NEW h \in Home, NEW k \in Code, CreateSmartHome(h, k)
       PROVE  Genuine'
  BY <1>12 DEF CreateSmartHome
<1>13. ASSUME NEW h \in Home, NEW k \in Code, IssueActivationCode(h, k)
       PROVE  Genuine'
  BY <1>13 DEF IssueActivationCode
<1>14. ASSUME NEW h \in Home, RevokeActivation(h) PROVE Genuine'
  BY <1>14 DEF RevokeActivation
<1>15. ASSUME NEW h \in Home, SetHomeStatus(h) PROVE Genuine'
  BY <1>15 DEF SetHomeStatus
<1>16. ASSUME NEW k \in Code, Expire(k) PROVE Genuine'
  BY <1>16 DEF Expire
<1>17. CASE Crash
  BY <1>17 DEF Crash
<1>18. CASE UNCHANGED vars
  BY <1>18 DEF vars
<1> QED
  BY <1>1, <1>2, <1>3, <1>4, <1>5, <1>6, <1>7, <1>8, <1>9, <1>10, <1>11,
     <1>12, <1>13, <1>14, <1>15, <1>16, <1>17, <1>18
  DEF Next, CallStep

LEMMA LoggedStep ==
  "commit" \notin Faults /\ IInv /\ Genuine /\ LogMatchesOwner /\ [Next]_vars
    => LogMatchesOwner'
<1> SUFFICES ASSUME "commit" \notin Faults, IInv, Genuine, LogMatchesOwner,
                    [Next]_vars
             PROVE  LogMatchesOwner'
  OBVIOUS
<1> USE ConstantsAssumption DEF IInv, TypeOK, ClaimPhases, Locked, Staged,
        InTransaction, OneOwner, Genuine, LogMatchesOwner, Goto, IsClaim,
        homeVars, codeVars
<1>1. ASSUME NEW a \in Call, InsertPendingAttempt(a) PROVE LogMatchesOwner'
  BY <1>1 DEF InsertPendingAttempt
<1>2. ASSUME NEW a \in Call, EnforceRateLimits(a) PROVE LogMatchesOwner'
  BY <1>2 DEF EnforceRateLimits
<1>3. ASSUME NEW a \in Call, FindToken(a) PROVE LogMatchesOwner'
  BY <1>3 DEF FindToken, TokenReason
<1>4. ASSUME NEW a \in Call, RecordFailure(a) PROVE LogMatchesOwner'
  BY <1>4, AnswerType DEF RecordFailure
<1>5. ASSUME NEW a \in Call, CheckUnclaimed(a) PROVE LogMatchesOwner'
  BY <1>5 DEF CheckUnclaimed
<1>6. ASSUME NEW a \in Call, LockHome(a) PROVE LogMatchesOwner'
  BY <1>6 DEF LockHome
<1>7. ASSUME NEW a \in Call, AssignOwner(a) PROVE LogMatchesOwner'
  BY <1>7, AnswerType DEF AssignOwner, Rollback, GiveUp, Unlock
<1>8. ASSUME NEW a \in Call, Commit(a) PROVE LogMatchesOwner'
  <2> DEFINE h == target[a]
  <2>1. /\ UNCHANGED <<input, target>>
        /\ h \in Home
        /\ \A j \in Home :
             owner'[j] = IF j = h THEN input[a].user ELSE owner[j]
        /\ \A b \in Call : log'[b] = IF b = a THEN "success" ELSE log[b]
    BY <1>8 DEF Commit, Apply
  <2>2. \A b \in Call : input[b].user # Nobody
    BY InputType, ConstantsAssumption
  <2>3. ASSUME NEW j \in Home, owner'[j] # Nobody
        PROVE  \E b \in Call : /\ target'[b] = j /\ log'[b] = "success"
                              /\ input'[b].user = owner'[j]
    <3>1. CASE j = h
      BY <2>1, <3>1
    <3>2. CASE j # h
      <4>1. PICK b \in Call : /\ target[b] = j /\ log[b] = "success"
                            /\ input[b].user = owner[j]
        BY <2>1, <2>3, <3>2
      <4> QED
        BY <2>1, <3>2, <4>1
    <3> QED
      BY <3>1, <3>2
  <2> QED
    BY <2>1, <2>2, <2>3 DEF LogMatchesOwner
<1>9. ASSUME NEW a \in Call, Grow(a) PROVE LogMatchesOwner'
  BY <1>9 DEF Grow
<1>10. ASSUME NEW a \in Call, QueryError(a) PROVE LogMatchesOwner'
  BY <1>10, AnswerType DEF QueryError, Rollback, GiveUp, Unlock
<1>11. ASSUME NEW a \in Call, CommitUnheard(a) PROVE LogMatchesOwner'
  BY <1>11 DEF CommitUnheard, Apply, Unlock
<1>12. ASSUME NEW h \in Home, NEW k \in Code, CreateSmartHome(h, k)
       PROVE  LogMatchesOwner'
  BY <1>12 DEF CreateSmartHome
<1>13. ASSUME NEW h \in Home, NEW k \in Code, IssueActivationCode(h, k)
       PROVE  LogMatchesOwner'
  BY <1>13 DEF IssueActivationCode
<1>14. ASSUME NEW h \in Home, RevokeActivation(h) PROVE LogMatchesOwner'
  BY <1>14 DEF RevokeActivation
<1>15. ASSUME NEW h \in Home, SetHomeStatus(h) PROVE LogMatchesOwner'
  BY <1>15 DEF SetHomeStatus
<1>16. ASSUME NEW k \in Code, Expire(k) PROVE LogMatchesOwner'
  BY <1>16 DEF Expire
<1>17. CASE Crash
  BY <1>17 DEF Crash
<1>18. CASE UNCHANGED vars
  BY <1>18 DEF vars
<1> QED
  BY <1>1, <1>2, <1>3, <1>4, <1>5, <1>6, <1>7, <1>8, <1>9, <1>10, <1>11,
     <1>12, <1>13, <1>14, <1>15, <1>16, <1>17, <1>18
  DEF Next, CallStep

\* Unless the answer to a COMMIT is lost, a home has an owner exactly when a
\* row of the log says that a call gave it to that owner.
THEOREM LogAndOwnerAgree ==
  "commit" \notin Faults => (Spec => []LogMatchesOwner)
<1> SUFFICES ASSUME "commit" \notin Faults PROVE Spec => []LogMatchesOwner
  OBVIOUS
<1>1. Init => Genuine /\ LogMatchesOwner
  BY ConstantsAssumption DEF Init, Genuine, LogMatchesOwner
<1> QED
  BY <1>1, GenuineStep, LoggedStep, Invariance, PTL DEF Spec
=============================================================================
