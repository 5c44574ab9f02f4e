---------------------------- MODULE SessionProofs ----------------------------
(***************************************************************************)
(* Theorems about RefreshTokens, for any number of tokens and requests,    *)
(* any number of password changes, and whatever statements fail; and about *)
(* MobileSession, for any number of devices: what a device holds is its    *)
(* own, and stays good.                                                    *)
(***************************************************************************)
EXTENDS MobileSession, TLAPS

(***************************************************************************)
(* The inductive invariant.  Locked: the token of a refresh that goes on   *)
(* is its own and still live.  Families: every family is named by a token  *)
(* of its own.  Covered: a running UPDATE has seen every live row it       *)
(* should reach, but for those of families that raced it.                  *)
(***************************************************************************)
Phases ==
  \A c \in Call :
    /\ pc[c] = "verified" => op[c] = "login"
    /\ pc[c] = "rotating" => op[c] = "refresh"
    /\ pc[c] = "changed" => op[c] = "change"
    /\ pc[c] = "sweeping" => op[c] # "login"
    /\ out[c] # "none" => pc[c] = "answered"
    /\ out[c] = "reused" => op[c] = "refresh"

Locked ==
  \A c \in Call : pc[c] = "rotating" =>
    rowLock[arg[c]] = c /\ row[arg[c]] = "live"

Families ==
  \A t \in Issued : fam[t] \in Issued /\ fam[fam[t]] = fam[t]

Covered ==
  \A c \in Call : pc[c] = "sweeping" =>
    /\ op[c] \in {"refresh", "logout"} =>
         LiveOf(fam[arg[c]]) \subseteq seen[c] \/ fam[arg[c]] \in raced
    /\ op[c] = "change" =>
         \A t \in Live :
           t \in seen[c] \/ fam[t] \in raced \/ born[fam[t]] >= since[c]

Epochs == swept <= epoch /\ \A c \in Call : since[c] <= epoch

IInv ==
  /\ TypeOK /\ Phases /\ Locked /\ Families /\ Epochs /\ FamilyIsChain
  /\ OneLivePerFamily


LEMMA TypeStep == TypeOK /\ Phases /\ [Next]_serverVars => TypeOK'
<1> SUFFICES ASSUME TypeOK /\ Phases, [Next]_serverVars PROVE TypeOK'
  OBVIOUS
<1> USE ConstantsAssumption DEF TypeOK, Issued
<1>1. ASSUME NEW c \in Call, NEW o \in Op, NEW t \in Issued \cup {None},
              o \in {"refresh", "logout"} => t \in Issued,
              Ask(c, o, t)
      PROVE  TypeOK'
  BY <1>1 DEF Ask, Goto, Reply, Unlock, rowVars, historyVars, Op
<1>2. ASSUME NEW c \in Call, VerifyCredentials(c) PROVE TypeOK'
  BY <1>2 DEF VerifyCredentials, Goto, Reply, Unlock, rowVars, historyVars, Op
<1>3. ASSUME NEW c \in Call, StartMobileSession(c) PROVE TypeOK'
  BY <1>3 DEF StartMobileSession, Goto, Reply, Unlock, rowVars, historyVars, Op
<1>4. ASSUME NEW c \in Call, FindRefreshToken(c) PROVE TypeOK'
  <2>1. arg[c] \in Issued
    BY <1>4 DEF FindRefreshToken
  <2>2. UNCHANGED <<row, fam, next, expired, epoch, born, swept, raced, op,
                    arg, since, got>>
    BY <1>4 DEF FindRefreshToken, rowVars, historyVars
  <2>3. rowLock' \in [Token -> Call \cup {None}]
    BY <1>4, <2>1 DEF FindRefreshToken
  <2>4. seen' \in [Call -> SUBSET Issued']
    BY <1>4, <2>1, <2>2 DEF FindRefreshToken, Live, LiveOf
  <2>5. /\ pc' \in [Call -> {"idle", "asked", "verified", "rotating",
                            "changed", "sweeping", "answered"}]
        /\ out' \in [Call -> {"none", "ok", "reused", "expired", "error"}]
    BY <1>4 DEF FindRefreshToken, Goto, Reply
  <2> QED
    BY <2>1, <2>2, <2>3, <2>4, <2>5
<1>5. ASSUME NEW c \in Call, Rotate(c) PROVE TypeOK'
  <2>1. PICK n \in Token \ Issued :
          /\ row' = [row EXCEPT ![n] = "live", ![arg[c]] = "revoked"]
          /\ fam' = [fam EXCEPT ![n] = fam[arg[c]]]
          /\ next' = [next EXCEPT ![arg[c]] = n]
          /\ got' = [got EXCEPT ![c] = n]
    BY <1>5 DEF Rotate
  <2>2. arg[c] \in Issued
    BY <1>5 DEF Rotate, Phases
  <2>3. UNCHANGED <<expired, epoch, born, swept, op, arg, since, seen>>
    BY <1>5 DEF Rotate
  <2>4. fam[arg[c]] \in Token /\ fam[arg[c]] # None
    BY <2>2
  <2>5. /\ fam' \in [Token -> Token \cup {None}]
        /\ next' \in [Token -> Token \cup {None}]
        /\ row' \in [Token -> {"unused", "live", "revoked"}]
        /\ got' \in [Call -> Token \cup {None}]
    BY <2>1, <2>4
  <2>6. raced' \subseteq Token
    BY <1>5, <2>4 DEF Rotate
  <2>7. Issued \subseteq Issued'
    BY <2>1
  <2>8. \A t \in Token : fam'[t] = None <=> row'[t] = "unused"
    BY <2>1, <2>2, <2>4
  <2>9. rowLock' \in [Token -> Call \cup {None}]
    BY <1>5 DEF Rotate, Unlock
  <2>10. /\ pc' \in [Call -> {"idle", "asked", "verified", "rotating",
                             "changed", "sweeping", "answered"}]
         /\ out' \in [Call -> {"none", "ok", "reused", "expired", "error"}]
    BY <1>5 DEF Rotate, Reply
  <2> QED
    BY <2>3, <2>5, <2>6, <2>7, <2>8, <2>9, <2>10
<1>6. ASSUME NEW c \in Call, ChangePassword(c) PROVE TypeOK'
  BY <1>6 DEF ChangePassword, Goto, Reply, Unlock, rowVars, historyVars, Op
<1>7. ASSUME NEW c \in Call, BeginSweep(c) PROVE TypeOK'
  <2>1. Scope(c) \subseteq Issued
    BY <1>7 DEF Scope, Live, LiveOf
  <2> QED
    BY <1>7, <2>1 DEF BeginSweep, Goto, rowVars, historyVars
<1>8. ASSUME NEW c \in Call, EndSweep(c) PROVE TypeOK'
  <2>1. UNCHANGED <<fam, next, expired, epoch, born, raced, op, arg, since,
                    seen, got>>
    BY <1>8 DEF EndSweep
  <2>2. /\ row' \in [Token -> {"unused", "live", "revoked"}]
        /\ \A t \in Token : row'[t] = "unused" <=> row[t] = "unused"
    BY <1>8 DEF EndSweep
  <2>3. swept' \in 0..MaxEpoch
    BY <1>8 DEF EndSweep
  <2>4. rowLock' \in [Token -> Call \cup {None}]
    BY <1>8 DEF EndSweep, Unlock
  <2>5. /\ pc' \in [Call -> {"idle", "asked", "verified", "rotating",
                            "changed", "sweeping", "answered"}]
        /\ out' \in [Call -> {"none", "ok", "reused", "expired", "error"}]
    BY <1>8 DEF EndSweep, Reply
  <2>6. Issued' = Issued
    BY <2>2
  <2> QED
    BY <2>1, <2>2, <2>3, <2>4, <2>5, <2>6
<1>9. ASSUME NEW t \in Token, Expire(t) PROVE TypeOK'
  BY <1>9 DEF Expire, Goto, Reply, Unlock, rowVars, historyVars, Op
<1>10. ASSUME NEW c \in Call, QueryError(c) PROVE TypeOK'
  BY <1>10 DEF QueryError, Goto, Reply, Unlock, rowVars, historyVars, Op
<1>11. CASE UNCHANGED serverVars
  BY <1>11 DEF serverVars, rowVars, historyVars
<1> QED
  BY <1>1, <1>2, <1>3, <1>4, <1>5, <1>6, <1>7, <1>8, <1>9, <1>10, <1>11
  DEF Next, CallStep, Arrive, Op


LEMMA PhasesStep == IInv /\ [Next]_serverVars => Phases'
<1> SUFFICES ASSUME IInv, [Next]_serverVars PROVE Phases'
  OBVIOUS
<1> USE ConstantsAssumption DEF IInv, TypeOK, Phases
<1>1. ASSUME NEW c \in Call, NEW o \in Op, NEW t \in Issued \cup {None},
              o \in {"refresh", "logout"} => t \in Issued,
              Ask(c, o, t)
      PROVE  Phases'
  BY <1>1 DEF Ask, Goto, Reply, Unlock, rowVars, historyVars, Op
<1>2. ASSUME NEW c \in Call, VerifyCredentials(c) PROVE Phases'
  BY <1>2 DEF VerifyCredentials, Goto, Reply, Unlock, rowVars, historyVars, Op
<1>3. ASSUME NEW c \in Call, StartMobileSession(c) PROVE Phases'
  BY <1>3 DEF StartMobileSession, Goto, Reply, Unlock, rowVars, historyVars, Op
<1>4. ASSUME NEW c \in Call, FindRefreshToken(c) PROVE Phases'
  BY <1>4 DEF FindRefreshToken, Goto, Reply, Unlock, rowVars, historyVars, Op
<1>5. ASSUME NEW c \in Call, Rotate(c) PROVE Phases'
  BY <1>5 DEF Rotate, Goto, Reply, Unlock, rowVars, historyVars, Op
<1>6. ASSUME NEW c \in Call, ChangePassword(c) PROVE Phases'
  BY <1>6 DEF ChangePassword, Goto, Reply, Unlock, rowVars, historyVars, Op
<1>7. ASSUME NEW c \in Call, BeginSweep(c) PROVE Phases'
  BY <1>7 DEF BeginSweep, Goto, Reply, Unlock, rowVars, historyVars, Op
<1>8. ASSUME NEW c \in Call, EndSweep(c) PROVE Phases'
  BY <1>8 DEF EndSweep, Goto, Reply, Unlock, rowVars, historyVars, Op
<1>9. ASSUME NEW t \in Token, Expire(t) PROVE Phases'
  BY <1>9 DEF Expire, Goto, Reply, Unlock, rowVars, historyVars, Op
<1>10. ASSUME NEW c \in Call, QueryError(c) PROVE Phases'
  BY <1>10 DEF QueryError, Goto, Reply, Unlock, rowVars, historyVars, Op
<1>11. CASE UNCHANGED serverVars
  BY <1>11 DEF serverVars, rowVars, historyVars
<1> QED
  BY <1>1, <1>2, <1>3, <1>4, <1>5, <1>6, <1>7, <1>8, <1>9, <1>10, <1>11
  DEF Next, CallStep, Arrive, Op


LEMMA LockedStep == IInv /\ [Next]_serverVars => Locked'
<1> SUFFICES ASSUME IInv, [Next]_serverVars PROVE Locked'
  OBVIOUS
<1> USE ConstantsAssumption DEF IInv, TypeOK, Phases, Locked, Issued
<1>1. ASSUME NEW c \in Call, NEW o \in Op, NEW t \in Issued \cup {None},
              o \in {"refresh", "logout"} => t \in Issued,
              Ask(c, o, t)
      PROVE  Locked'
  BY <1>1 DEF Ask, Goto, Reply, Unlock, rowVars, historyVars, Op
<1>2. ASSUME NEW c \in Call, VerifyCredentials(c) PROVE Locked'
  BY <1>2 DEF VerifyCredentials, Goto, Reply, Unlock, rowVars, historyVars, Op
<1>3. ASSUME NEW c \in Call, StartMobileSession(c) PROVE Locked'
  BY <1>3 DEF StartMobileSession, Goto, Reply, Unlock, rowVars, historyVars, Op
<1>4. ASSUME NEW c \in Call, FindRefreshToken(c) PROVE Locked'
  BY <1>4 DEF FindRefreshToken, Goto, Reply, Unlock, rowVars, historyVars, Op
<1>5. ASSUME NEW c \in Call, Rotate(c) PROVE Locked'
  BY <1>5 DEF Rotate, Goto, Reply, Unlock, rowVars, historyVars, Op
<1>6. ASSUME NEW c \in Call, ChangePassword(c) PROVE Locked'
  BY <1>6 DEF ChangePassword, Goto, Reply, Unlock, rowVars, historyVars, Op
<1>7. ASSUME NEW c \in Call, BeginSweep(c) PROVE Locked'
  BY <1>7 DEF BeginSweep, Goto, Reply, Unlock, rowVars, historyVars, Op
<1>8. ASSUME NEW c \in Call, EndSweep(c) PROVE Locked'
  BY <1>8 DEF EndSweep, Goto, Reply, Unlock, rowVars, historyVars, Op
<1>9. ASSUME NEW t \in Token, Expire(t) PROVE Locked'
  BY <1>9 DEF Expire, Goto, Reply, Unlock, rowVars, historyVars, Op
<1>10. ASSUME NEW c \in Call, QueryError(c) PROVE Locked'
  BY <1>10 DEF QueryError, Goto, Reply, Unlock, rowVars, historyVars, Op
<1>11. CASE UNCHANGED serverVars
  BY <1>11 DEF serverVars, rowVars, historyVars
<1> QED
  BY <1>1, <1>2, <1>3, <1>4, <1>5, <1>6, <1>7, <1>8, <1>9, <1>10, <1>11
  DEF Next, CallStep, Arrive, Op


LEMMA FamiliesStep == IInv /\ [Next]_serverVars => Families'
<1> SUFFICES ASSUME IInv, [Next]_serverVars PROVE Families'
  OBVIOUS
<1> USE ConstantsAssumption DEF IInv, TypeOK, Phases, Families, Issued
<1>1. ASSUME NEW c \in Call, NEW o \in Op, NEW t \in Issued \cup {None},
              o \in {"refresh", "logout"} => t \in Issued,
              Ask(c, o, t)
      PROVE  Families'
  BY <1>1 DEF Ask, Goto, Reply, Unlock, rowVars, historyVars, Op
<1>2. ASSUME NEW c \in Call, VerifyCredentials(c) PROVE Families'
  BY <1>2 DEF VerifyCredentials, Goto, Reply, Unlock, rowVars, historyVars, Op
<1>3. ASSUME NEW c \in Call, StartMobileSession(c) PROVE Families'
  BY <1>3 DEF StartMobileSession, Goto, Reply, Unlock, rowVars, historyVars, Op
<1>4. ASSUME NEW c \in Call, FindRefreshToken(c) PROVE Families'
  BY <1>4 DEF FindRefreshToken, Goto, Reply, Unlock, rowVars, historyVars, Op
<1>5. ASSUME NEW c \in Call, Rotate(c) PROVE Families'
  BY <1>5 DEF Rotate, Goto, Reply, Unlock, rowVars, historyVars, Op
<1>6. ASSUME NEW c \in Call, ChangePassword(c) PROVE Families'
  BY <1>6 DEF ChangePassword, Goto, Reply, Unlock, rowVars, historyVars, Op
<1>7. ASSUME NEW c \in Call, BeginSweep(c) PROVE Families'
  BY <1>7 DEF BeginSweep, Goto, Reply, Unlock, rowVars, historyVars, Op
<1>8. ASSUME NEW c \in Call, EndSweep(c) PROVE Families'
  BY <1>8 DEF EndSweep, Goto, Reply, Unlock, rowVars, historyVars, Op
<1>9. ASSUME NEW t \in Token, Expire(t) PROVE Families'
  BY <1>9 DEF Expire, Goto, Reply, Unlock, rowVars, historyVars, Op
<1>10. ASSUME NEW c \in Call, QueryError(c) PROVE Families'
  BY <1>10 DEF QueryError, Goto, Reply, Unlock, rowVars, historyVars, Op
<1>11. CASE UNCHANGED serverVars
  BY <1>11 DEF serverVars, rowVars, historyVars
<1> QED
  BY <1>1, <1>2, <1>3, <1>4, <1>5, <1>6, <1>7, <1>8, <1>9, <1>10, <1>11
  DEF Next, CallStep, Arrive, Op


LEMMA EpochsStep == IInv /\ [Next]_serverVars => Epochs'
<1> SUFFICES ASSUME IInv, [Next]_serverVars PROVE Epochs'
  OBVIOUS
<1> USE ConstantsAssumption DEF IInv, TypeOK, Epochs
<1>1. ASSUME NEW c \in Call, NEW o \in Op, NEW t \in Issued \cup {None},
              o \in {"refresh", "logout"} => t \in Issued,
              Ask(c, o, t)
      PROVE  Epochs'
  BY <1>1 DEF Ask, Goto, Reply, Unlock, rowVars, historyVars, Op
<1>2. ASSUME NEW c \in Call, VerifyCredentials(c) PROVE Epochs'
  BY <1>2 DEF VerifyCredentials, Goto, Reply, Unlock, rowVars, historyVars, Op
<1>3. ASSUME NEW c \in Call, StartMobileSession(c) PROVE Epochs'
  BY <1>3 DEF StartMobileSession, Goto, Reply, Unlock, rowVars, historyVars, Op
<1>4. ASSUME NEW c \in Call, FindRefreshToken(c) PROVE Epochs'
  BY <1>4 DEF FindRefreshToken, Goto, Reply, Unlock, rowVars, historyVars, Op
<1>5. ASSUME NEW c \in Call, Rotate(c) PROVE Epochs'
  BY <1>5 DEF Rotate, Goto, Reply, Unlock, rowVars, historyVars, Op
<1>6. ASSUME NEW c \in Call, ChangePassword(c) PROVE Epochs'
  BY <1>6 DEF ChangePassword, Goto, Reply, Unlock, rowVars, historyVars, Op
<1>7. ASSUME NEW c \in Call, BeginSweep(c) PROVE Epochs'
  BY <1>7 DEF BeginSweep, Goto, Reply, Unlock, rowVars, historyVars, Op
<1>8. ASSUME NEW c \in Call, EndSweep(c) PROVE Epochs'
  BY <1>8 DEF EndSweep, Goto, Reply, Unlock, rowVars, historyVars, Op
<1>9. ASSUME NEW t \in Token, Expire(t) PROVE Epochs'
  BY <1>9 DEF Expire, Goto, Reply, Unlock, rowVars, historyVars, Op
<1>10. ASSUME NEW c \in Call, QueryError(c) PROVE Epochs'
  BY <1>10 DEF QueryError, Goto, Reply, Unlock, rowVars, historyVars, Op
<1>11. CASE UNCHANGED serverVars
  BY <1>11 DEF serverVars, rowVars, historyVars
<1> QED
  BY <1>1, <1>2, <1>3, <1>4, <1>5, <1>6, <1>7, <1>8, <1>9, <1>10, <1>11
  DEF Next, CallStep, Arrive, Op


LEMMA ChainStep == IInv /\ [Next]_serverVars => FamilyIsChain'
<1> SUFFICES ASSUME IInv, [Next]_serverVars PROVE FamilyIsChain'
  OBVIOUS
<1> USE ConstantsAssumption
        DEF IInv, TypeOK, Phases, Locked, FamilyIsChain, Issued
<1>1. ASSUME NEW c \in Call, NEW o \in Op, NEW t \in Issued \cup {None},
              o \in {"refresh", "logout"} => t \in Issued,
              Ask(c, o, t)
      PROVE  FamilyIsChain'
  BY <1>1 DEF Ask, Goto, Reply, Unlock, rowVars, historyVars, Op
<1>2. ASSUME NEW c \in Call, VerifyCredentials(c) PROVE FamilyIsChain'
  BY <1>2 DEF VerifyCredentials, Goto, Reply, Unlock, rowVars, historyVars, Op
<1>3. ASSUME NEW c \in Call, StartMobileSession(c) PROVE FamilyIsChain'
  BY <1>3 DEF StartMobileSession, Goto, Reply, Unlock, rowVars, historyVars, Op
<1>4. ASSUME NEW c \in Call, FindRefreshToken(c) PROVE FamilyIsChain'
  BY <1>4 DEF FindRefreshToken, Goto, Reply, Unlock, rowVars, historyVars, Op
<1>5. ASSUME NEW c \in Call, Rotate(c) PROVE FamilyIsChain'
  BY <1>5 DEF Rotate, Goto, Reply, Unlock, rowVars, historyVars, Op
<1>6. ASSUME NEW c \in Call, ChangePassword(c) PROVE FamilyIsChain'
  BY <1>6 DEF ChangePassword, Goto, Reply, Unlock, rowVars, historyVars, Op
<1>7. ASSUME NEW c \in Call, BeginSweep(c) PROVE FamilyIsChain'
  BY <1>7 DEF BeginSweep, Goto, Reply, Unlock, rowVars, historyVars, Op
<1>8. ASSUME NEW c \in Call, EndSweep(c) PROVE FamilyIsChain'
  BY <1>8 DEF EndSweep, Goto, Reply, Unlock, rowVars, historyVars, Op
<1>9. ASSUME NEW t \in Token, Expire(t) PROVE FamilyIsChain'
  BY <1>9 DEF Expire, Goto, Reply, Unlock, rowVars, historyVars, Op
<1>10. ASSUME NEW c \in Call, QueryError(c) PROVE FamilyIsChain'
  BY <1>10 DEF QueryError, Goto, Reply, Unlock, rowVars, historyVars, Op
<1>11. CASE UNCHANGED serverVars
  BY <1>11 DEF serverVars, rowVars, historyVars
<1> QED
  BY <1>1, <1>2, <1>3, <1>4, <1>5, <1>6, <1>7, <1>8, <1>9, <1>10, <1>11
  DEF Next, CallStep, Arrive, Op


LEMMA OneLiveStep == IInv /\ [Next]_serverVars => OneLivePerFamily'
<1> SUFFICES ASSUME IInv, [Next]_serverVars PROVE OneLivePerFamily'
  OBVIOUS
<1> USE ConstantsAssumption
        DEF IInv, TypeOK, Phases, Locked, Families, OneLivePerFamily, Issued, Live
<1>1. ASSUME NEW c \in Call, NEW o \in Op, NEW t \in Issued \cup {None},
              o \in {"refresh", "logout"} => t \in Issued,
              Ask(c, o, t)
      PROVE  OneLivePerFamily'
  BY <1>1 DEF Ask, Goto, Reply, Unlock, rowVars, historyVars, Op
<1>2. ASSUME NEW c \in Call, VerifyCredentials(c) PROVE OneLivePerFamily'
  BY <1>2 DEF VerifyCredentials, Goto, Reply, Unlock, rowVars, historyVars, Op
<1>3. ASSUME NEW c \in Call, StartMobileSession(c) PROVE OneLivePerFamily'
  BY <1>3 DEF StartMobileSession, Goto, Reply, Unlock, rowVars, historyVars, Op
<1>4. ASSUME NEW c \in Call, FindRefreshToken(c) PROVE OneLivePerFamily'
  BY <1>4 DEF FindRefreshToken, Goto, Reply, Unlock, rowVars, historyVars, Op
<1>5. ASSUME NEW c \in Call, Rotate(c) PROVE OneLivePerFamily'
  BY <1>5 DEF Rotate, Goto, Reply, Unlock, rowVars, historyVars, Op
<1>6. ASSUME NEW c \in Call, ChangePassword(c) PROVE OneLivePerFamily'
  BY <1>6 DEF ChangePassword, Goto, Reply, Unlock, rowVars, historyVars, Op
<1>7. ASSUME NEW c \in Call, BeginSweep(c) PROVE OneLivePerFamily'
  BY <1>7 DEF BeginSweep, Goto, Reply, Unlock, rowVars, historyVars, Op
<1>8. ASSUME NEW c \in Call, EndSweep(c) PROVE OneLivePerFamily'
  BY <1>8 DEF EndSweep, Goto, Reply, Unlock, rowVars, historyVars, Op
<1>9. ASSUME NEW t \in Token, Expire(t) PROVE OneLivePerFamily'
  BY <1>9 DEF Expire, Goto, Reply, Unlock, rowVars, historyVars, Op
<1>10. ASSUME NEW c \in Call, QueryError(c) PROVE OneLivePerFamily'
  BY <1>10 DEF QueryError, Goto, Reply, Unlock, rowVars, historyVars, Op
<1>11. CASE UNCHANGED serverVars
  BY <1>11 DEF serverVars, rowVars, historyVars
<1> QED
  BY <1>1, <1>2, <1>3, <1>4, <1>5, <1>6, <1>7, <1>8, <1>9, <1>10, <1>11
  DEF Next, CallStep, Arrive, Op

LEMMA InvInit == Init => IInv
  BY ConstantsAssumption
  DEF Init, IInv, TypeOK, Issued, Live, Phases, Locked, Families, Epochs,
      FamilyIsChain, OneLivePerFamily, Op

LEMMA InvStep == IInv /\ [Next]_serverVars => IInv'
  BY TypeStep, PhasesStep, LockedStep, FamiliesStep, EpochsStep, ChainStep,
     OneLiveStep
  DEF IInv

LEMMA Invariance == Spec => []IInv
  BY InvInit, InvStep, PTL DEF Spec

\* Every variable keeps to its type, and the families, pointers and snapshots to
\* the rows that exist.
THEOREM TypeCorrect == Spec => []TypeOK
  BY Invariance, PTL DEF IInv

\* A login has at most one token that can be exchanged.
THEOREM OneTokenPerLogin == Spec => []OneLivePerFamily
  BY Invariance, PTL DEF IInv

\* The tokens of a login form one chain.
THEOREM TokensFormChains == Spec => []FamilyIsChain
  BY Invariance, PTL DEF IInv

\* A login is one chain of tokens with at most one live end.
THEOREM FamiliesAreSound == Spec => []FamiliesSound
  BY OneTokenPerLogin, TokensFormChains, PTL DEF FamiliesSound

-----------------------------------------------------------------------------
(***************************************************************************)
(* What a step does to the rows.                                           *)
(***************************************************************************)
LEMMA RowsStay ==
  ASSUME IInv, [Next]_serverVars, NEW t \in Issued
  PROVE  /\ fam'[t] = fam[t] /\ born'[t] = born[t]
         /\ row'[t] # "unused"
<1> DEFINE Goal == /\ fam'[t] = fam[t] /\ born'[t] = born[t]
                   /\ row'[t] # "unused"
<1> USE ConstantsAssumption
        DEF IInv, TypeOK, Phases, Locked, Families, Issued, Live
<1>1. ASSUME NEW c \in Call, NEW o \in Op, NEW x \in Issued \cup {None},
              o \in {"refresh", "logout"} => x \in Issued,
              Ask(c, o, x)
      PROVE  Goal
  BY <1>1 DEF Ask, Goto, Reply, Unlock, rowVars, historyVars
<1>2. ASSUME NEW c \in Call, VerifyCredentials(c) PROVE Goal
  BY <1>2 DEF VerifyCredentials, Goto, Reply, Unlock, rowVars, historyVars
<1>3. ASSUME NEW c \in Call, StartMobileSession(c) PROVE Goal
  BY <1>3 DEF StartMobileSession, Goto, Reply, Unlock, rowVars, historyVars
<1>4. ASSUME NEW c \in Call, FindRefreshToken(c) PROVE Goal
  BY <1>4 DEF FindRefreshToken, Goto, Reply, Unlock, rowVars, historyVars
<1>5. ASSUME NEW c \in Call, Rotate(c) PROVE Goal
  BY <1>5 DEF Rotate, Goto, Reply, Unlock, rowVars, historyVars
<1>6. ASSUME NEW c \in Call, ChangePassword(c) PROVE Goal
  BY <1>6 DEF ChangePassword, Goto, Reply, Unlock, rowVars, historyVars
<1>7. ASSUME NEW c \in Call, BeginSweep(c) PROVE Goal
  BY <1>7 DEF BeginSweep, Goto, Reply, Unlock, rowVars, historyVars
<1>8. ASSUME NEW c \in Call, EndSweep(c) PROVE Goal
  BY <1>8 DEF EndSweep, Goto, Reply, Unlock, rowVars, historyVars
<1>9. ASSUME NEW x \in Token, Expire(x) PROVE Goal
  BY <1>9 DEF Expire, Goto, Reply, Unlock, rowVars, historyVars
<1>10. ASSUME NEW c \in Call, QueryError(c) PROVE Goal
  BY <1>10 DEF QueryError, Goto, Reply, Unlock, rowVars, historyVars
<1>11. CASE UNCHANGED serverVars
  BY <1>11 DEF serverVars, rowVars, historyVars
<1> QED
  BY <1>1, <1>2, <1>3, <1>4, <1>5, <1>6, <1>7, <1>8, <1>9, <1>10, <1>11
  DEF Next, CallStep, Arrive, Op

LEMMA NewRow ==
  ASSUME IInv, [Next]_serverVars, NEW t \in Token \ Issued,
         t \in Issued'
  PROVE  /\ t \in Live'
         /\ fam'[t] = t \/ \E u \in Live : fam[u] = fam'[t]
<1> DEFINE Goal == /\ t \in Live'
                   /\ fam'[t] = t \/ \E u \in Live : fam[u] = fam'[t]
<1> USE ConstantsAssumption
        DEF IInv, TypeOK, Phases, Locked, Families, Issued, Live
<1>1. ASSUME NEW c \in Call, NEW o \in Op, NEW x \in Issued \cup {None},
              o \in {"refresh", "logout"} => x \in Issued,
              Ask(c, o, x)
      PROVE  Goal
  BY <1>1 DEF Ask, Goto, Reply, Unlock, rowVars, historyVars
<1>2. ASSUME NEW c \in Call, VerifyCredentials(c) PROVE Goal
  BY <1>2 DEF VerifyCredentials, Goto, Reply, Unlock, rowVars, historyVars
<1>3. ASSUME NEW c \in Call, StartMobileSession(c) PROVE Goal
  BY <1>3 DEF StartMobileSession, Goto, Reply, Unlock, rowVars, historyVars
<1>4. ASSUME NEW c \in Call, FindRefreshToken(c) PROVE Goal
  BY <1>4 DEF FindRefreshToken, Goto, Reply, Unlock, rowVars, historyVars
<1>5. ASSUME NEW c \in Call, Rotate(c) PROVE Goal
  BY <1>5 DEF Rotate, Goto, Reply, Unlock, rowVars, historyVars
<1>6. ASSUME NEW c \in Call, ChangePassword(c) PROVE Goal
  BY <1>6 DEF ChangePassword, Goto, Reply, Unlock, rowVars, historyVars
<1>7. ASSUME NEW c \in Call, BeginSweep(c) PROVE Goal
  BY <1>7 DEF BeginSweep, Goto, Reply, Unlock, rowVars, historyVars
<1>8. ASSUME NEW c \in Call, EndSweep(c) PROVE Goal
  BY <1>8 DEF EndSweep, Goto, Reply, Unlock, rowVars, historyVars
<1>9. ASSUME NEW x \in Token, Expire(x) PROVE Goal
  BY <1>9 DEF Expire, Goto, Reply, Unlock, rowVars, historyVars
<1>10. ASSUME NEW c \in Call, QueryError(c) PROVE Goal
  BY <1>10 DEF QueryError, Goto, Reply, Unlock, rowVars, historyVars
<1>11. CASE UNCHANGED serverVars
  BY <1>11 DEF serverVars, rowVars, historyVars
<1> QED
  BY <1>1, <1>2, <1>3, <1>4, <1>5, <1>6, <1>7, <1>8, <1>9, <1>10, <1>11
  DEF Next, CallStep, Arrive, Op

LEMMA NewLive ==
  ASSUME IInv, [Next]_serverVars, NEW t \in Live'
  PROVE  \/ t \in Live /\ fam'[t] = fam[t]
         \/ t \notin Issued /\ fam'[t] = t
         \/ t \notin Issued /\ \E u \in Live : fam[u] = fam'[t]
<1> DEFINE Goal == \/ t \in Live
                   \/ t \notin Issued
<1> USE ConstantsAssumption DEF IInv, TypeOK, Phases, Issued, Live
<1>1. ASSUME NEW c \in Call, NEW o \in Op, NEW x \in Issued \cup {None},
              o \in {"refresh", "logout"} => x \in Issued,
              Ask(c, o, x)
      PROVE  Goal
  BY <1>1 DEF Ask, Goto, Reply, Unlock, rowVars, historyVars
<1>2. ASSUME NEW c \in Call, VerifyCredentials(c) PROVE Goal
  BY <1>2 DEF VerifyCredentials, Goto, Reply, Unlock, rowVars, historyVars
<1>3. ASSUME NEW c \in Call, StartMobileSession(c) PROVE Goal
  BY <1>3 DEF StartMobileSession, Goto, Reply, Unlock, rowVars, historyVars
<1>4. ASSUME NEW c \in Call, FindRefreshToken(c) PROVE Goal
  BY <1>4 DEF FindRefreshToken, Goto, Reply, Unlock, rowVars, historyVars
<1>5. ASSUME NEW c \in Call, Rotate(c) PROVE Goal
  BY <1>5 DEF Rotate, Goto, Reply, Unlock, rowVars, historyVars
<1>6. ASSUME NEW c \in Call, ChangePassword(c) PROVE Goal
  BY <1>6 DEF ChangePassword, Goto, Reply, Unlock, rowVars, historyVars
<1>7. ASSUME NEW c \in Call, BeginSweep(c) PROVE Goal
  BY <1>7 DEF BeginSweep, Goto, Reply, Unlock, rowVars, historyVars
<1>8. ASSUME NEW c \in Call, EndSweep(c) PROVE Goal
  BY <1>8 DEF EndSweep, Goto, Reply, Unlock, rowVars, historyVars
<1>9. ASSUME NEW x \in Token, Expire(x) PROVE Goal
  BY <1>9 DEF Expire, Goto, Reply, Unlock, rowVars, historyVars
<1>10. ASSUME NEW c \in Call, QueryError(c) PROVE Goal
  BY <1>10 DEF QueryError, Goto, Reply, Unlock, rowVars, historyVars
<1>11. CASE UNCHANGED serverVars
  BY <1>11 DEF serverVars, rowVars, historyVars
<1>12. Goal
  BY <1>1, <1>2, <1>3, <1>4, <1>5, <1>6, <1>7, <1>8, <1>9, <1>10, <1>11
  DEF Next, CallStep, Arrive, Op
<1> QED
  BY <1>12, RowsStay, NewRow

\* A login that was ended has no live token ever again.
LEMMA EndedStep ==
  ASSUME IInv, [Next]_serverVars, NEW f \in Token, fam[f] = f, LiveOf(f) = {}
  PROVE  LiveOf(f)' = {}
<1>1. f \in Issued
  BY ConstantsAssumption DEF IInv, TypeOK, Issued
<1>2. ASSUME NEW t \in Live', fam'[t] = f PROVE FALSE
  BY <1>1, <1>2, NewLive DEF LiveOf
<1> QED
  BY <1>2 DEF LiveOf

\* A login that was ended stays ended, whatever is in flight.
THEOREM EndedStaysEnded == Spec => EndedForGood
<1>1. IInv /\ [Next]_serverVars =>
        [\A f \in Token :
           fam[f] = f /\ LiveOf(f) = {} => LiveOf(f)' = {}]_rowVars
  BY EndedStep
<1> QED
  BY <1>1, Invariance, PTL DEF Spec, EndedForGood

-----------------------------------------------------------------------------
(***************************************************************************)
(* What revoking reaches.                                                  *)
(***************************************************************************)
LEMMA AnsweredStays ==
  ASSUME IInv, [Next]_serverVars, NEW b \in Call,
         pc[b] = "answered"
  PROVE  UNCHANGED <<out[b], op[b], arg[b], seen[b], pc[b]>>
<1> DEFINE Goal == UNCHANGED <<out[b], op[b], arg[b], seen[b], pc[b]>>
<1> USE ConstantsAssumption DEF IInv, TypeOK, Phases, Issued
<1>1. ASSUME NEW c \in Call, NEW o \in Op, NEW x \in Issued \cup {None},
              o \in {"refresh", "logout"} => x \in Issued,
              Ask(c, o, x)
      PROVE  Goal
  BY <1>1 DEF Ask, Goto, Reply, Unlock, rowVars, historyVars
<1>2. ASSUME NEW c \in Call, VerifyCredentials(c) PROVE Goal
  BY <1>2 DEF VerifyCredentials, Goto, Reply, Unlock, rowVars, historyVars
<1>3. ASSUME NEW c \in Call, StartMobileSession(c) PROVE Goal
  BY <1>3 DEF StartMobileSession, Goto, Reply, Unlock, rowVars, historyVars
<1>4. ASSUME NEW c \in Call, FindRefreshToken(c) PROVE Goal
  BY <1>4 DEF FindRefreshToken, Goto, Reply, Unlock, rowVars, historyVars
<1>5. ASSUME NEW c \in Call, Rotate(c) PROVE Goal
  BY <1>5 DEF Rotate, Goto, Reply, Unlock, rowVars, historyVars
<1>6. ASSUME NEW c \in Call, ChangePassword(c) PROVE Goal
  BY <1>6 DEF ChangePassword, Goto, Reply, Unlock, rowVars, historyVars
<1>7. ASSUME NEW c \in Call, BeginSweep(c) PROVE Goal
  BY <1>7 DEF BeginSweep, Goto, Reply, Unlock, rowVars, historyVars
<1>8. ASSUME NEW c \in Call, EndSweep(c) PROVE Goal
  BY <1>8 DEF EndSweep, Goto, Reply, Unlock, rowVars, historyVars
<1>9. ASSUME NEW x \in Token, Expire(x) PROVE Goal
  BY <1>9 DEF Expire, Goto, Reply, Unlock, rowVars, historyVars
<1>10. ASSUME NEW c \in Call, QueryError(c) PROVE Goal
  BY <1>10 DEF QueryError, Goto, Reply, Unlock, rowVars, historyVars
<1>11. CASE UNCHANGED serverVars
  BY <1>11 DEF serverVars, rowVars, historyVars
<1> QED
  BY <1>1, <1>2, <1>3, <1>4, <1>5, <1>6, <1>7, <1>8, <1>9, <1>10, <1>11
  DEF Next, CallStep, Arrive, Op

LEMMA NewAnswer ==
  ASSUME IInv, [Next]_serverVars, NEW b \in Call,
         pc[b] # "answered", out'[b] # "none"
  PROVE  \/ /\ out'[b] = "ok"
            /\ op'[b] \notin {"logout", "everywhere", "change"}
         \/ out'[b] \in {"expired", "error"}
         \/ EndSweep(b)
<1> DEFINE Goal == \/ /\ out'[b] = "ok"
                      /\ op'[b] \notin {"logout", "everywhere", "change"}
                   \/ out'[b] \in {"expired", "error"}
                   \/ EndSweep(b)
<1> USE ConstantsAssumption DEF IInv, TypeOK, Phases, Issued
<1>1. ASSUME NEW c \in Call, NEW o \in Op, NEW x \in Issued \cup {None},
              o \in {"refresh", "logout"} => x \in Issued,
              Ask(c, o, x)
      PROVE  Goal
  BY <1>1 DEF Ask, Goto, Reply, Unlock, rowVars, historyVars
<1>2. ASSUME NEW c \in Call, VerifyCredentials(c) PROVE Goal
  BY <1>2 DEF VerifyCredentials, Goto, Reply, Unlock, rowVars, historyVars
<1>3. ASSUME NEW c \in Call, StartMobileSession(c) PROVE Goal
  BY <1>3 DEF StartMobileSession, Goto, Reply, Unlock, rowVars, historyVars
<1>4. ASSUME NEW c \in Call, FindRefreshToken(c) PROVE Goal
  BY <1>4 DEF FindRefreshToken, Goto, Reply, Unlock, rowVars, historyVars
<1>5. ASSUME NEW c \in Call, Rotate(c) PROVE Goal
  BY <1>5 DEF Rotate, Goto, Reply, Unlock, rowVars, historyVars
<1>6. ASSUME NEW c \in Call, ChangePassword(c) PROVE Goal
  BY <1>6 DEF ChangePassword, Goto, Reply, Unlock, rowVars, historyVars
<1>7. ASSUME NEW c \in Call, BeginSweep(c) PROVE Goal
  BY <1>7 DEF BeginSweep, Goto, Reply, Unlock, rowVars, historyVars
<1>8. ASSUME NEW c \in Call, EndSweep(c) PROVE Goal
  <2>1. CASE c = b
    BY <1>8, <2>1
  <2>2. CASE c # b
    <3>1. out'[b] = out[b]
      BY <1>8, <2>2 DEF EndSweep, Reply
    <3> QED
      BY <3>1
  <2> QED
    BY <2>1, <2>2
<1>9. ASSUME NEW x \in Token, Expire(x) PROVE Goal
  BY <1>9 DEF Expire, Goto, Reply, Unlock, rowVars, historyVars
<1>10. ASSUME NEW c \in Call, QueryError(c) PROVE Goal
  BY <1>10 DEF QueryError, Goto, Reply, Unlock, rowVars, historyVars
<1>11. CASE UNCHANGED serverVars
  <2>1. out'[b] = out[b]
    BY <1>11 DEF serverVars
  <2> QED
    BY <2>1
<1> QED
  BY <1>1, <1>2, <1>3, <1>4, <1>5, <1>6, <1>7, <1>8, <1>9, <1>10, <1>11
  DEF Next, CallStep, Arrive, Op

LEMMA Lost ==
  ASSUME IInv, [Next]_serverVars, NEW t \in Live, t \notin Live'
  PROVE  \/ \E n \in Live' : fam'[n] = fam[t]
         \/ \E b \in Call : out'[b] \in {"ok", "reused"} /\ t \in seen'[b]
<1> DEFINE Goal == \/ \E n \in Live' : fam'[n] = fam[t]
                   \/ \E b \in Call :
                        out'[b] \in {"ok", "reused"} /\ t \in seen'[b]
<1> USE ConstantsAssumption DEF IInv, TypeOK, Phases, Locked, Issued, Live
<1>1. ASSUME NEW c \in Call, NEW o \in Op, NEW x \in Issued \cup {None},
              o \in {"refresh", "logout"} => x \in Issued,
              Ask(c, o, x)
      PROVE  Goal
  BY <1>1 DEF Ask, Goto, Reply, Unlock, rowVars, historyVars
<1>2. ASSUME NEW c \in Call, VerifyCredentials(c) PROVE Goal
  BY <1>2 DEF VerifyCredentials, Goto, Reply, Unlock, rowVars, historyVars
<1>3. ASSUME NEW c \in Call, StartMobileSession(c) PROVE Goal
  BY <1>3 DEF StartMobileSession, Goto, Reply, Unlock, rowVars, historyVars
<1>4. ASSUME NEW c \in Call, FindRefreshToken(c) PROVE Goal
  BY <1>4 DEF FindRefreshToken, Goto, Reply, Unlock, rowVars, historyVars
<1>5. ASSUME NEW c \in Call, Rotate(c) PROVE Goal
  BY <1>5 DEF Rotate, Goto, Reply, Unlock, rowVars, historyVars
<1>6. ASSUME NEW c \in Call, ChangePassword(c) PROVE Goal
  BY <1>6 DEF ChangePassword, Goto, Reply, Unlock, rowVars, historyVars
<1>7. ASSUME NEW c \in Call, BeginSweep(c) PROVE Goal
  BY <1>7 DEF BeginSweep, Goto, Reply, Unlock, rowVars, historyVars
<1>8. ASSUME NEW c \in Call, EndSweep(c) PROVE Goal
  BY <1>8 DEF EndSweep, Goto, Reply, Unlock, rowVars, historyVars
<1>9. ASSUME NEW x \in Token, Expire(x) PROVE Goal
  BY <1>9 DEF Expire, Goto, Reply, Unlock, rowVars, historyVars
<1>10. ASSUME NEW c \in Call, QueryError(c) PROVE Goal
  BY <1>10 DEF QueryError, Goto, Reply, Unlock, rowVars, historyVars
<1>11. CASE UNCHANGED serverVars
  BY <1>11 DEF serverVars, rowVars, historyVars
<1> QED
  BY <1>1, <1>2, <1>3, <1>4, <1>5, <1>6, <1>7, <1>8, <1>9, <1>10, <1>11
  DEF Next, CallStep, Arrive, Op

LEMMA Grows ==
  ASSUME IInv, [Next]_serverVars
  PROVE  raced \subseteq raced'
<1> DEFINE Goal == raced \subseteq raced'
<1> USE ConstantsAssumption DEF IInv, TypeOK, Phases, Issued
<1>1. ASSUME NEW c \in Call, NEW o \in Op, NEW x \in Issued \cup {None},
              o \in {"refresh", "logout"} => x \in Issued,
              Ask(c, o, x)
      PROVE  Goal
  BY <1>1 DEF Ask, Goto, Reply, Unlock, rowVars, historyVars
<1>2. ASSUME NEW c \in Call, VerifyCredentials(c) PROVE Goal
  BY <1>2 DEF VerifyCredentials, Goto, Reply, Unlock, rowVars, historyVars
<1>3. ASSUME NEW c \in Call, StartMobileSession(c) PROVE Goal
  BY <1>3 DEF StartMobileSession, Goto, Reply, Unlock, rowVars, historyVars
<1>4. ASSUME NEW c \in Call, FindRefreshToken(c) PROVE Goal
  BY <1>4 DEF FindRefreshToken, Goto, Reply, Unlock, rowVars, historyVars
<1>5. ASSUME NEW c \in Call, Rotate(c) PROVE Goal
  BY <1>5 DEF Rotate, Goto, Reply, Unlock, rowVars, historyVars
<1>6. ASSUME NEW c \in Call, ChangePassword(c) PROVE Goal
  BY <1>6 DEF ChangePassword, Goto, Reply, Unlock, rowVars, historyVars
<1>7. ASSUME NEW c \in Call, BeginSweep(c) PROVE Goal
  BY <1>7 DEF BeginSweep, Goto, Reply, Unlock, rowVars, historyVars
<1>8. ASSUME NEW c \in Call, EndSweep(c) PROVE Goal
  BY <1>8 DEF EndSweep, Goto, Reply, Unlock, rowVars, historyVars
<1>9. ASSUME NEW x \in Token, Expire(x) PROVE Goal
  BY <1>9 DEF Expire, Goto, Reply, Unlock, rowVars, historyVars
<1>10. ASSUME NEW c \in Call, QueryError(c) PROVE Goal
  BY <1>10 DEF QueryError, Goto, Reply, Unlock, rowVars, historyVars
<1>11. CASE UNCHANGED serverVars
  BY <1>11 DEF serverVars, rowVars, historyVars
<1> QED
  BY <1>1, <1>2, <1>3, <1>4, <1>5, <1>6, <1>7, <1>8, <1>9, <1>10, <1>11
  DEF Next, CallStep, Arrive, Op

LEMMA NeverLostStep == IInv /\ NeverLost /\ [Next]_serverVars => NeverLost'
<1> SUFFICES ASSUME IInv, NeverLost, [Next]_serverVars,
                    NEW f \in Issued', fam'[f] = f, LiveOf(f)' = {}
             PROVE  \E c \in Call : /\ out'[c] \in {"ok", "reused"}
                                    /\ \E t \in seen'[c] : fam'[t] = f
  BY DEF NeverLost
<1>1. f \in Token /\ f \notin Live'
  BY DEF Issued, LiveOf
<1>2. f \in Issued /\ fam[f] = f
  BY <1>1, NewRow, RowsStay
<1>3. CASE LiveOf(f) = {}
  <2>1. PICK c \in Call : /\ out[c] \in {"ok", "reused"}
                          /\ \E t \in seen[c] : fam[t] = f
    BY <1>2, <1>3 DEF NeverLost
  <2>2. pc[c] = "answered"
    BY <2>1 DEF IInv, Phases
  <2>3. UNCHANGED <<out[c], seen[c]>>
    BY <2>2, AnsweredStays
  <2>4. \A t \in seen[c] : fam'[t] = fam[t]
    BY RowsStay DEF IInv, TypeOK
  <2> QED
    BY <2>1, <2>3, <2>4
<1>4. CASE LiveOf(f) # {}
  <2>1. PICK u \in Live : fam[u] = f
    BY <1>4 DEF LiveOf
  <2>2. u \in Issued /\ fam'[u] = f
    BY <2>1, RowsStay DEF Live, Issued
  <2>3. u \notin Live'
    BY <2>2 DEF LiveOf
  <2>4. \E b \in Call : out'[b] \in {"ok", "reused"} /\ u \in seen'[b]
    BY <2>1, <2>3, Lost DEF LiveOf
  <2> QED
    BY <2>2, <2>4
<1> QED
  BY <1>3, <1>4

LEMMA CoveredStart ==
  ASSUME IInv, Covered, NEW d \in Call, StartMobileSession(d)
  PROVE  Covered'
<1> USE ConstantsAssumption
        DEF IInv, TypeOK, Phases, Families, Epochs, Issued, Live, LiveOf
<1>1. PICK n \in Token \ Issued :
        /\ row' = [row EXCEPT ![n] = "live"]
        /\ fam' = [fam EXCEPT ![n] = n]
        /\ born' = [born EXCEPT ![n] = since[d]]
        /\ raced' = IF since[d] < epoch THEN raced \cup {n} ELSE raced
  BY DEF StartMobileSession
<1>2. /\ pc' = [pc EXCEPT ![d] = "answered"]
      /\ UNCHANGED <<op, arg, since, seen>>
  BY DEF StartMobileSession, Reply
<1> SUFFICES ASSUME NEW c \in Call, pc'[c] = "sweeping"
             PROVE  /\ op[c] \in {"refresh", "logout"} =>
                         \/ LiveOf(fam[arg[c]])' \subseteq seen[c]
                         \/ fam'[arg[c]] \in raced'
                    /\ op[c] = "change" =>
                         \A t \in Live' :
                           \/ t \in seen[c]
                           \/ fam'[t] \in raced'
                           \/ born'[fam'[t]] >= since[c]
  BY <1>2 DEF Covered
<1>3. pc[c] = "sweeping"
  BY <1>2
<1>4. ASSUME op[c] \in {"refresh", "logout"}
      PROVE  \/ LiveOf(fam[arg[c]])' \subseteq seen[c]
             \/ fam'[arg[c]] \in raced'
  <2>1. arg[c] \in Issued /\ fam[arg[c]] \in Issued
    BY <1>4
  <2>2. fam'[arg[c]] = fam[arg[c]] /\ fam[arg[c]] # n
    BY <1>1, <2>1
  <2>3. LiveOf(fam[arg[c]])' = LiveOf(fam[arg[c]])
    BY <1>1, <1>2, <2>1, <2>2
  <2> QED
    BY <1>1, <1>3, <1>4, <2>2, <2>3 DEF Covered
<1>5. ASSUME op[c] = "change", NEW t \in Live'
      PROVE  \/ t \in seen[c]
             \/ fam'[t] \in raced'
             \/ born'[fam'[t]] >= since[c]
  <2>1. CASE t = n
    BY <1>1, <2>1
  <2>2. CASE t # n
    <3>1. t \in Live /\ fam'[t] = fam[t] /\ fam[t] \in Issued
      BY <1>1, <2>2
    <3>2. born'[fam[t]] = born[fam[t]]
      BY <1>1, <3>1
    <3> QED
      BY <1>1, <1>3, <1>5, <3>1, <3>2 DEF Covered
  <2> QED
    BY <2>1, <2>2
<1> QED
  BY <1>4, <1>5

LEMMA CoveredRotate ==
  ASSUME IInv, Covered, NEW d \in Call, Rotate(d)
  PROVE  Covered'
<1> USE ConstantsAssumption
        DEF IInv, TypeOK, Phases, Families, Issued, Live, LiveOf
<1>1. PICK n \in Token \ Issued :
        /\ row' = [row EXCEPT ![n] = "live", ![arg[d]] = "revoked"]
        /\ fam' = [fam EXCEPT ![n] = fam[arg[d]]]
  BY DEF Rotate
<1>2. /\ pc' = [pc EXCEPT ![d] = "answered"]
      /\ UNCHANGED <<op, arg, since, seen, born>>
  BY DEF Rotate, Reply
<1>3. arg[d] \in Live
  BY DEF Rotate, Locked
<1>4. /\ raced \subseteq raced'
      /\ \A c \in Call : pc[c] = "sweeping" /\ arg[d] \in seen[c] =>
           fam[arg[d]] \in raced'
  BY DEF Rotate
<1> SUFFICES ASSUME NEW c \in Call, pc'[c] = "sweeping"
             PROVE  /\ op[c] \in {"refresh", "logout"} =>
                         \/ LiveOf(fam[arg[c]])' \subseteq seen[c]
                         \/ fam'[arg[c]] \in raced'
                    /\ op[c] = "change" =>
                         \A t \in Live' :
                           \/ t \in seen[c]
                           \/ fam'[t] \in raced'
                           \/ born'[fam'[t]] >= since[c]
  BY <1>2 DEF Covered
<1>5. pc[c] = "sweeping"
  BY <1>2
<1>6. ASSUME op[c] \in {"refresh", "logout"}
      PROVE  \/ LiveOf(fam[arg[c]])' \subseteq seen[c]
             \/ fam'[arg[c]] \in raced'
  <2>1. arg[c] \in Issued /\ fam'[arg[c]] = fam[arg[c]]
    BY <1>1, <1>6
  <2>2. CASE fam[arg[c]] \in raced
    BY <1>4, <2>1, <2>2
  <2>3. CASE LiveOf(fam[arg[c]]) \subseteq seen[c]
    <3>1. CASE fam[arg[c]] = fam[arg[d]]
      BY <1>3, <1>4, <1>5, <2>1, <2>3, <3>1
    <3>2. CASE fam[arg[c]] # fam[arg[d]]
      BY <1>1, <1>2, <2>1, <2>3, <3>2
    <3> QED
      BY <3>1, <3>2
  <2> QED
    BY <1>5, <1>6, <2>2, <2>3 DEF Covered
<1>7. ASSUME op[c] = "change", NEW t \in Live'
      PROVE  \/ t \in seen[c]
             \/ fam'[t] \in raced'
             \/ born'[fam'[t]] >= since[c]
  <2>1. CASE t = n
    <3>1. fam'[t] = fam[arg[d]]
      BY <1>1, <2>1
    <3> QED
      BY <1>2, <1>3, <1>4, <1>5, <1>7, <3>1 DEF Covered
  <2>2. CASE t # n
    <3>1. t \in Live /\ fam'[t] = fam[t]
      BY <1>1, <2>2
    <3> QED
      BY <1>2, <1>4, <1>5, <1>7, <3>1 DEF Covered
  <2> QED
    BY <2>1, <2>2
<1> QED
  BY <1>6, <1>7

LEMMA CoveredBegin ==
  ASSUME IInv, Covered, NEW d \in Call, BeginSweep(d)
  PROVE  Covered'
<1> USE DEF IInv, TypeOK, Phases, Issued
<1>1. /\ pc' = [pc EXCEPT ![d] = "sweeping"]
      /\ seen' = [seen EXCEPT ![d] = Scope(d)]
      /\ UNCHANGED <<row, fam, raced, born, op, arg, since>>
  BY DEF BeginSweep, Goto, rowVars, historyVars
<1>2. op[d] # "refresh"
  BY DEF BeginSweep
<1>3. LiveOf(fam[arg[d]])' = LiveOf(fam[arg[d]]) /\ Live' = Live
  BY <1>1 DEF LiveOf, Live
<1>4. ASSUME NEW c \in Call, c # d, pc'[c] = "sweeping"
      PROVE  pc[c] = "sweeping" /\ seen'[c] = seen[c]
  BY <1>1, <1>4
<1>5. \A c \in Call : LiveOf(fam[arg[c]])' = LiveOf(fam[arg[c]])
  BY <1>1 DEF LiveOf, Live
<1>6. seen'[d] = Scope(d)
  BY <1>1
<1> QED
  BY <1>1, <1>2, <1>3, <1>4, <1>5, <1>6 DEF Covered, Scope

LEMMA CoveredFind ==
  ASSUME IInv, Covered, NEW d \in Call, FindRefreshToken(d)
  PROVE  Covered'
<1> USE DEF IInv, TypeOK, Phases, Issued
<1>1. /\ UNCHANGED <<row, fam, raced, born, op, arg, since>>
      /\ op[d] = "refresh"
  BY DEF FindRefreshToken, rowVars, historyVars
<1>2. \A c \in Call : c # d => pc'[c] = pc[c] /\ seen'[c] = seen[c]
  BY DEF FindRefreshToken, Goto, Reply
<1>3. pc'[d] = "sweeping" => seen'[d] = LiveOf(fam[arg[d]])
  BY DEF FindRefreshToken, Goto, Reply
<1>4. /\ Live' = Live
      /\ \A c \in Call : LiveOf(fam[arg[c]])' = LiveOf(fam[arg[c]])
  BY <1>1 DEF LiveOf, Live
<1> QED
  BY <1>1, <1>2, <1>3, <1>4 DEF Covered

LEMMA CoveredEnd ==
  ASSUME IInv, Covered, NEW d \in Call, EndSweep(d)
  PROVE  Covered'
<1> USE DEF IInv, TypeOK, Phases, Issued
<1>1. UNCHANGED <<fam, raced, born, op, arg, since, seen>>
  BY DEF EndSweep
<1>2. \A c \in Call : pc'[c] = "sweeping" => pc[c] = "sweeping"
  BY DEF EndSweep, Reply
<1>3. /\ Live' \subseteq Live
      /\ \A c \in Call : LiveOf(fam[arg[c]])' \subseteq LiveOf(fam[arg[c]])
  BY <1>1 DEF EndSweep, LiveOf, Live
<1> QED
  BY <1>1, <1>2, <1>3 DEF Covered

\* The steps that touch no row, family, snapshot or argument of an UPDATE.
LEMMA CoveredIdle ==
  ASSUME Covered, UNCHANGED <<row, fam, raced, born, seen>>,
         \A c \in Call : pc'[c] = "sweeping" =>
           pc[c] = "sweeping" /\ UNCHANGED <<op[c], arg[c], since[c]>>
  PROVE  Covered'
<1>1. /\ Live' = Live
      /\ \A c \in Call : LiveOf(fam[arg[c]])' =
           {t \in Live : fam[t] = fam[arg'[c]]}
  BY DEF LiveOf, Live
<1> QED
  BY <1>1 DEF Covered, LiveOf


LEMMA CoveredStep == IInv /\ Covered /\ [Next]_serverVars => Covered'
<1> SUFFICES ASSUME IInv /\ Covered, [Next]_serverVars PROVE Covered'
  OBVIOUS
<1>1. ASSUME NEW c \in Call, NEW o \in Op, NEW t \in Issued \cup {None},
              o \in {"refresh", "logout"} => t \in Issued,
              Ask(c, o, t)
      PROVE  Covered'
  BY <1>1, CoveredIdle
  DEF Ask, Goto, Reply, rowVars, historyVars, IInv, TypeOK
<1>2. ASSUME NEW c \in Call, VerifyCredentials(c) PROVE Covered'
  BY <1>2, CoveredIdle
  DEF VerifyCredentials, Goto, Reply, rowVars, historyVars, IInv, TypeOK
<1>3. ASSUME NEW c \in Call, StartMobileSession(c) PROVE Covered'
  BY <1>3, CoveredStart DEF IInv
<1>4. ASSUME NEW c \in Call, FindRefreshToken(c) PROVE Covered'
  BY <1>4, CoveredFind DEF IInv
<1>5. ASSUME NEW c \in Call, Rotate(c) PROVE Covered'
  BY <1>5, CoveredRotate DEF IInv
<1>6. ASSUME NEW c \in Call, ChangePassword(c) PROVE Covered'
  BY <1>6, CoveredIdle
  DEF ChangePassword, Goto, Reply, rowVars, historyVars, IInv, TypeOK
<1>7. ASSUME NEW c \in Call, BeginSweep(c) PROVE Covered'
  BY <1>7, CoveredBegin DEF IInv
<1>8. ASSUME NEW c \in Call, EndSweep(c) PROVE Covered'
  BY <1>8, CoveredEnd DEF IInv
<1>9. ASSUME NEW t \in Token, Expire(t) PROVE Covered'
  BY <1>9, CoveredIdle
  DEF Expire, Goto, Reply, rowVars, historyVars, IInv, TypeOK
<1>10. ASSUME NEW c \in Call, QueryError(c) PROVE Covered'
  BY <1>10, CoveredIdle
  DEF QueryError, Goto, Reply, rowVars, historyVars, IInv, TypeOK
<1>11. CASE UNCHANGED serverVars
  BY <1>11, CoveredIdle DEF serverVars, rowVars, historyVars
<1> QED
  BY <1>1, <1>2, <1>3, <1>4, <1>5, <1>6, <1>7, <1>8, <1>9, <1>10, <1>11
  DEF Next, CallStep, Arrive, Op

LEMMA ReachesCalls ==
  ASSUME IInv, Covered, SweepReaches, [Next]_serverVars, NEW c \in Call,
         (op'[c] = "logout" /\ out'[c] = "ok") \/ out'[c] = "reused"
  PROVE  LiveOf(fam[arg[c]])' = {} \/ fam'[arg'[c]] \in raced'
<1> USE DEF IInv
<1>1. CASE pc[c] = "answered"
  <2>1. UNCHANGED <<out[c], op[c], arg[c]>>
    BY <1>1, AnsweredStays
  <2>2. LiveOf(fam[arg[c]]) = {} \/ fam[arg[c]] \in raced
    BY <2>1 DEF SweepReaches
  <2>3. CASE arg[c] \in Issued
    <3>1. /\ fam'[arg'[c]] = fam[arg[c]]
          /\ fam[arg[c]] \in Token /\ fam[fam[arg[c]]] = fam[arg[c]]
      BY <2>1, <2>3, RowsStay DEF Families, Issued
    <3>2. LiveOf(fam[arg[c]]) = {} =>
            {t \in Live' : fam'[t] = fam[arg[c]]} = {}
      BY <3>1, EndedStep DEF LiveOf
    <3> QED
      BY <2>2, <3>1, <3>2, Grows DEF LiveOf
  <2>4. op[c] \in {"refresh", "logout"}
    BY <1>1, <2>1 DEF Phases
  <2> QED
    BY <2>3, <2>4 DEF TypeOK
<1>2. CASE pc[c] # "answered"
  <2>1. EndSweep(c)
    BY <1>2, NewAnswer
  <2>2. /\ pc[c] = "sweeping"
        /\ UNCHANGED <<fam, raced, op, arg, seen>>
        /\ \A t \in Live' : t \in Live /\ t \notin seen[c]
    BY <2>1 DEF EndSweep, Live, TypeOK
  <2>3. op[c] \in {"refresh", "logout"}
    BY <1>2, <2>1 DEF EndSweep, Reply, TypeOK
  <2>4. LiveOf(fam[arg[c]]) \subseteq seen[c] \/ fam[arg[c]] \in raced
    BY <2>2, <2>3 DEF Covered
  <2> QED
    BY <2>2, <2>4 DEF LiveOf
<1> QED
  BY <1>1, <1>2

LEMMA SweptBy ==
  ASSUME IInv, [Next]_serverVars
  PROVE  \/ swept' = swept
         \/ \E b \in Call :
              EndSweep(b) /\ op[b] = "change" /\ swept' = since[b]
<1> DEFINE Goal == \/ swept' = swept
                   \/ \E b \in Call :
                        EndSweep(b) /\ op[b] = "change" /\ swept' = since[b]
<1> USE ConstantsAssumption DEF IInv, TypeOK, Phases, Issued
<1>1. ASSUME NEW c \in Call, NEW o \in Op, NEW x \in Issued \cup {None},
              o \in {"refresh", "logout"} => x \in Issued,
              Ask(c, o, x)
      PROVE  Goal
  BY <1>1 DEF Ask, Goto, Reply, Unlock, rowVars, historyVars
<1>2. ASSUME NEW c \in Call, VerifyCredentials(c) PROVE Goal
  BY <1>2 DEF VerifyCredentials, Goto, Reply, Unlock, rowVars, historyVars
<1>3. ASSUME NEW c \in Call, StartMobileSession(c) PROVE Goal
  BY <1>3 DEF StartMobileSession, Goto, Reply, Unlock, rowVars, historyVars
<1>4. ASSUME NEW c \in Call, FindRefreshToken(c) PROVE Goal
  BY <1>4 DEF FindRefreshToken, Goto, Reply, Unlock, rowVars, historyVars
<1>5. ASSUME NEW c \in Call, Rotate(c) PROVE Goal
  BY <1>5 DEF Rotate, Goto, Reply, Unlock, rowVars, historyVars
<1>6. ASSUME NEW c \in Call, ChangePassword(c) PROVE Goal
  BY <1>6 DEF ChangePassword, Goto, Reply, Unlock, rowVars, historyVars
<1>7. ASSUME NEW c \in Call, BeginSweep(c) PROVE Goal
  BY <1>7 DEF BeginSweep, Goto, Reply, Unlock, rowVars, historyVars
<1>8. ASSUME NEW c \in Call, EndSweep(c) PROVE Goal
  BY <1>8 DEF EndSweep, Goto, Reply, Unlock, rowVars, historyVars
<1>9. ASSUME NEW x \in Token, Expire(x) PROVE Goal
  BY <1>9 DEF Expire, Goto, Reply, Unlock, rowVars, historyVars
<1>10. ASSUME NEW c \in Call, QueryError(c) PROVE Goal
  BY <1>10 DEF QueryError, Goto, Reply, Unlock, rowVars, historyVars
<1>11. CASE UNCHANGED serverVars
  BY <1>11 DEF serverVars, rowVars, historyVars
<1> QED
  BY <1>1, <1>2, <1>3, <1>4, <1>5, <1>6, <1>7, <1>8, <1>9, <1>10, <1>11
  DEF Next, CallStep, Arrive, Op

LEMMA NewFamily ==
  ASSUME IInv, [Next]_serverVars, NEW t \in Token \ Issued,
         t \in Issued', fam'[t] = t
  PROVE  swept' = swept /\ (t \in raced' \/ born'[t] >= epoch)
<1> DEFINE Goal == swept' = swept /\ (t \in raced' \/ born'[t] >= epoch)
<1> USE ConstantsAssumption DEF IInv, TypeOK, Phases, Families, Issued, Epochs
<1>1. ASSUME NEW c \in Call, NEW o \in Op, NEW x \in Issued \cup {None},
              o \in {"refresh", "logout"} => x \in Issued,
              Ask(c, o, x)
      PROVE  Goal
  BY <1>1 DEF Ask, Goto, Reply, Unlock, rowVars, historyVars
<1>2. ASSUME NEW c \in Call, VerifyCredentials(c) PROVE Goal
  BY <1>2 DEF VerifyCredentials, Goto, Reply, Unlock, rowVars, historyVars
<1>3. ASSUME NEW c \in Call, StartMobileSession(c) PROVE Goal
  BY <1>3 DEF StartMobileSession, Goto, Reply, Unlock, rowVars, historyVars
<1>4. ASSUME NEW c \in Call, FindRefreshToken(c) PROVE Goal
  BY <1>4 DEF FindRefreshToken, Goto, Reply, Unlock, rowVars, historyVars
<1>5. ASSUME NEW c \in Call, Rotate(c) PROVE Goal
  BY <1>5 DEF Rotate, Goto, Reply, Unlock, rowVars, historyVars
<1>6. ASSUME NEW c \in Call, ChangePassword(c) PROVE Goal
  BY <1>6 DEF ChangePassword, Goto, Reply, Unlock, rowVars, historyVars
<1>7. ASSUME NEW c \in Call, BeginSweep(c) PROVE Goal
  BY <1>7 DEF BeginSweep, Goto, Reply, Unlock, rowVars, historyVars
<1>8. ASSUME NEW c \in Call, EndSweep(c) PROVE Goal
  BY <1>8 DEF EndSweep, Goto, Reply, Unlock, rowVars, historyVars
<1>9. ASSUME NEW x \in Token, Expire(x) PROVE Goal
  BY <1>9 DEF Expire, Goto, Reply, Unlock, rowVars, historyVars
<1>10. ASSUME NEW c \in Call, QueryError(c) PROVE Goal
  BY <1>10 DEF QueryError, Goto, Reply, Unlock, rowVars, historyVars
<1>11. CASE UNCHANGED serverVars
  BY <1>11 DEF serverVars, rowVars, historyVars
<1> QED
  BY <1>1, <1>2, <1>3, <1>4, <1>5, <1>6, <1>7, <1>8, <1>9, <1>10, <1>11
  DEF Next, CallStep, Arrive, Op

LEMMA NewRowNoSweep ==
  ASSUME IInv, [Next]_serverVars, NEW t \in Token \ Issued,
         t \in Issued'
  PROVE  swept' = swept
<1> DEFINE Goal == swept' = swept
<1> USE ConstantsAssumption DEF IInv, TypeOK, Phases, Issued
<1>1. ASSUME NEW c \in Call, NEW o \in Op, NEW x \in Issued \cup {None},
              o \in {"refresh", "logout"} => x \in Issued,
              Ask(c, o, x)
      PROVE  Goal
  BY <1>1 DEF Ask, Goto, Reply, Unlock, rowVars, historyVars
<1>2. ASSUME NEW c \in Call, VerifyCredentials(c) PROVE Goal
  BY <1>2 DEF VerifyCredentials, Goto, Reply, Unlock, rowVars, historyVars
<1>3. ASSUME NEW c \in Call, StartMobileSession(c) PROVE Goal
  BY <1>3 DEF StartMobileSession, Goto, Reply, Unlock, rowVars, historyVars
<1>4. ASSUME NEW c \in Call, FindRefreshToken(c) PROVE Goal
  BY <1>4 DEF FindRefreshToken, Goto, Reply, Unlock, rowVars, historyVars
<1>5. ASSUME NEW c \in Call, Rotate(c) PROVE Goal
  BY <1>5 DEF Rotate, Goto, Reply, Unlock, rowVars, historyVars
<1>6. ASSUME NEW c \in Call, ChangePassword(c) PROVE Goal
  BY <1>6 DEF ChangePassword, Goto, Reply, Unlock, rowVars, historyVars
<1>7. ASSUME NEW c \in Call, BeginSweep(c) PROVE Goal
  BY <1>7 DEF BeginSweep, Goto, Reply, Unlock, rowVars, historyVars
<1>8. ASSUME NEW c \in Call, EndSweep(c) PROVE Goal
  BY <1>8 DEF EndSweep, Goto, Reply, Unlock, rowVars, historyVars
<1>9. ASSUME NEW x \in Token, Expire(x) PROVE Goal
  BY <1>9 DEF Expire, Goto, Reply, Unlock, rowVars, historyVars
<1>10. ASSUME NEW c \in Call, QueryError(c) PROVE Goal
  BY <1>10 DEF QueryError, Goto, Reply, Unlock, rowVars, historyVars
<1>11. CASE UNCHANGED serverVars
  BY <1>11 DEF serverVars, rowVars, historyVars
<1> QED
  BY <1>1, <1>2, <1>3, <1>4, <1>5, <1>6, <1>7, <1>8, <1>9, <1>10, <1>11
  DEF Next, CallStep, Arrive, Op

LEMMA ReachesAll ==
  ASSUME IInv, Covered, SweepReaches, [Next]_serverVars, NEW t \in Live',
         born'[fam'[t]] < swept'
  PROVE  fam'[t] \in raced'
<1> USE DEF IInv
<1>1. CASE t \in Live /\ fam'[t] = fam[t]
  <2>1. fam[t] \in Issued /\ born'[fam[t]] = born[fam[t]]
    BY <1>1, RowsStay DEF Families, Live, Issued
  <2>2. CASE swept' = swept
    BY <1>1, <2>1, <2>2, Grows DEF SweepReaches
  <2>3. ASSUME NEW b \in Call, EndSweep(b), op[b] = "change",
               swept' = since[b]
        PROVE  fam'[t] \in raced'
    <3>1. pc[b] = "sweeping" /\ t \notin seen[b] /\ raced' = raced
      BY <1>1, <2>3 DEF EndSweep, Live, TypeOK
    <3>2. fam[t] \in raced \/ born[fam[t]] >= since[b]
      BY <1>1, <2>3, <3>1 DEF Covered
    <3>3. born[fam[t]] \in Nat /\ since[b] \in Nat
      BY <2>1, ConstantsAssumption DEF TypeOK, Issued
    <3> QED
      BY <1>1, <2>1, <2>3, <3>1, <3>2, <3>3
  <2> QED
    BY <2>2, <2>3, SweptBy
<1>2. CASE t \notin Issued /\ fam'[t] = t
  <2>1. t \in Token /\ t \in Issued'
    BY DEF Live, Issued
  <2>2. swept' = swept /\ (t \in raced' \/ born'[t] >= epoch)
    BY <1>2, <2>1, NewFamily
  <2>3. born'[t] \in Nat /\ epoch \in Nat /\ swept \in Nat /\ swept <= epoch
    BY <2>1, TypeStep, ConstantsAssumption DEF TypeOK, Epochs
  <2> QED
    BY <1>2, <2>2, <2>3
<1>3. CASE t \notin Issued /\ \E u \in Live : fam[u] = fam'[t]
  <2>1. t \in Token /\ t \in Issued'
    BY DEF Live, Issued
  <2>2. PICK u \in Live : fam[u] = fam'[t]
    BY <1>3
  <2>3. fam[u] \in Issued /\ born'[fam[u]] = born[fam[u]]
    BY RowsStay DEF Families, Live, Issued
  <2>4. swept' = swept
    BY <1>3, <2>1, NewRowNoSweep
  <2> QED
    BY <2>2, <2>3, <2>4, Grows DEF SweepReaches
<1> QED
  BY <1>1, <1>2, <1>3, NewLive

LEMMA SweepReachesStep ==
  IInv /\ Covered /\ SweepReaches /\ [Next]_serverVars => SweepReaches'
<1> SUFFICES ASSUME IInv, Covered, SweepReaches, [Next]_serverVars
             PROVE  SweepReaches'
  OBVIOUS
<1>1. ASSUME NEW c \in Call,
             (op'[c] = "logout" /\ out'[c] = "ok") \/ out'[c] = "reused"
      PROVE  LiveOf(fam[arg[c]])' = {} \/ fam'[arg'[c]] \in raced'
  BY <1>1, ReachesCalls
<1>2. \A t \in Live' : born'[fam'[t]] < swept' => fam'[t] \in raced'
  BY ReachesAll
<1> QED
  BY <1>1, <1>2 DEF SweepReaches

LEMMA SweepInit == Init => NeverLost /\ Covered /\ SweepReaches
  BY DEF Init, NeverLost, Covered, SweepReaches, Issued, Live, LiveOf

\* A login loses its last live token only to a request that revoked it.
THEOREM NothingIsLost == Spec => []NeverLost
  BY SweepInit, NeverLostStep, Invariance, PTL DEF Spec

\* A logout, a detected reuse or a change of password misses only tokens issued
\* behind its UPDATE.
THEOREM SweepIsThorough == Spec => []SweepReaches
<1>1. IInv /\ Covered /\ SweepReaches /\ [Next]_serverVars
        => (Covered /\ SweepReaches)'
  BY CoveredStep, SweepReachesStep
<1> QED
  BY <1>1, SweepInit, Invariance, PTL DEF Spec

\* Revoking reaches every token it is meant for, and nothing else ends a login.
THEOREM RevocationIsExact == Spec => []RevocationExact
  BY NothingIsLost, SweepIsThorough, PTL DEF RevocationExact

-----------------------------------------------------------------------------
(***************************************************************************)
(* The devices (MobileSession).                                            *)
(***************************************************************************)
\* The token in an answer continues the login of the one in the request.
Served ==
  \A c \in Call :
    /\ got[c] # None =>
         /\ pc[c] = "answered" /\ out[c] = "ok" /\ op[c] \in {"login", "refresh"}
         /\ got[c] \in Issued
         /\ op[c] = "refresh" => fam[got[c]] = fam[arg[c]]
    /\ op[c] \in {"login", "refresh"} /\ out[c] = "ok" => got[c] # None

ClientTypes ==
  /\ mem \in [Device -> Token \cup {None}] /\ disk \in [Device -> Token \cup {None}]
  /\ flight \in [Device -> Call \cup {None}] /\ entering \in [Device -> Call \cup {None}]
  /\ leaving \in [Device -> Call \cup {None}] /\ calm \in BOOLEAN

\* A device waits for requests of the right kind, and holds tokens that exist.
Waits ==
  \A d \in Device :
    /\ mem[d] # None => mem[d] \in Issued
    /\ disk[d] # None => disk[d] \in Issued
    /\ flight[d] # None => op[flight[d]] = "refresh" /\ pc[flight[d]] # "idle"
    /\ entering[d] # None => op[entering[d]] = "login" /\ pc[entering[d]] # "idle"

\* A token the device holds, has sent, or is about to receive from a login.
Of(d, t) ==
  \/ t = mem[d] \/ t = disk[d]
  \/ flight[d] # None /\ t = arg[flight[d]]
  \/ entering[d] # None /\ t = got[entering[d]]

\* No two devices have tokens of one login.
Apart ==
  \A d, e \in Device : d # e =>
    /\ entering[d] # None => entering[d] # entering[e]
    /\ \A t, u \in Token : Of(d, t) /\ Of(e, u) => fam[t] # fam[u]

\* While nothing but logins and refreshes happens: every refresh is the one its
\* device waits for, is about the token in memory, and finds it live.
Quiet ==
  calm =>
    /\ \A c \in Call :
         /\ op[c] \in {"none", "login", "refresh"} /\ pc[c] # "sweeping" /\ out[c] # "reused"
         /\ op[c] = "refresh" /\ pc[c] # "answered" => \E d \in Device : flight[d] = c
    /\ \A d \in Device :
         /\ leaving[d] = None /\ disk[d] = mem[d]
         /\ flight[d] # None =>
              /\ mem[d] # None /\ arg[flight[d]] = mem[d]
              /\ out[flight[d]] = "ok" => got[flight[d]] \in Live
              /\ out[flight[d]] # "ok" => mem[d] \in Live
         /\ flight[d] = None /\ mem[d] # None => mem[d] \in Live
         /\ entering[d] # None =>
              /\ mem[d] = None
              /\ got[entering[d]] # None => got[entering[d]] \in Live

ClientInv == IInv /\ Served /\ ClientTypes /\ Waits /\ Apart /\ Quiet

-----------------------------------------------------------------------------
(***************************************************************************)
(* Steps of the server.                                                    *)
(***************************************************************************)
\* An answer is given once, and brings a token of the request's own login.
LEMMA ServedStep == IInv /\ Served /\ [Next]_serverVars => Served'
<1> SUFFICES ASSUME IInv, Served, [Next]_serverVars, NEW b \in Call
             PROVE  /\ got'[b] # None =>
                         /\ pc'[b] = "answered" /\ out'[b] = "ok" /\ op'[b] \in {"login", "refresh"}
                         /\ row'[got'[b]] # "unused" /\ got'[b] \in Token
                         /\ op'[b] = "refresh" => fam'[got'[b]] = fam'[arg'[b]]
                    /\ op'[b] \in {"login", "refresh"} /\ out'[b] = "ok" => got'[b] # None
  BY DEF Served, Issued
<1> DEFINE Goal ==
      /\ got'[b] # None =>
           /\ pc'[b] = "answered" /\ out'[b] = "ok" /\ op'[b] \in {"login", "refresh"}
           /\ row'[got'[b]] # "unused" /\ got'[b] \in Token
           /\ op'[b] = "refresh" => fam'[got'[b]] = fam'[arg'[b]]
      /\ op'[b] \in {"login", "refresh"} /\ out'[b] = "ok" => got'[b] # None
<1> SUFFICES Goal
  OBVIOUS
<1> USE ConstantsAssumption DEF IInv, TypeOK, Phases, Served, Issued
<1>1. ASSUME NEW c \in Call, NEW o \in Op, NEW x \in Issued \cup {None},
              o \in {"refresh", "logout"} => x \in Issued,
              Ask(c, o, x)
      PROVE  Goal
  BY <1>1 DEF Ask, Goto, rowVars, historyVars
<1>2. ASSUME NEW c \in Call, VerifyCredentials(c) PROVE Goal
  BY <1>2 DEF VerifyCredentials, Goto, rowVars, historyVars
<1>3. ASSUME NEW c \in Call, StartMobileSession(c) PROVE Goal
  BY <1>3 DEF StartMobileSession, Reply
<1>4. ASSUME NEW c \in Call, FindRefreshToken(c) PROVE Goal
  BY <1>4 DEF FindRefreshToken, Goto, Reply, rowVars, historyVars
<1>5. ASSUME NEW c \in Call, Rotate(c) PROVE Goal
  BY <1>5 DEF Rotate, Reply, Locked
<1>6. ASSUME NEW c \in Call, ChangePassword(c) PROVE Goal
  BY <1>6 DEF ChangePassword, Goto, rowVars, historyVars
<1>7. ASSUME NEW c \in Call, BeginSweep(c) PROVE Goal
  BY <1>7 DEF BeginSweep, Goto, rowVars, historyVars
<1>8. ASSUME NEW c \in Call, EndSweep(c) PROVE Goal
  <2>1. UNCHANGED <<fam, op, arg, got>> /\ \A t \in Token : row'[t] = "unused" <=> row[t] = "unused"
    BY <1>8 DEF EndSweep
  <2>2. CASE b # c
    <3>1. pc'[b] = pc[b] /\ out'[b] = out[b]
      BY <1>8, <2>2 DEF EndSweep, Reply
    <3> QED BY <2>1, <3>1
  <2>3. CASE b = c
    <3>1. pc[b] = "sweeping" /\ (op[b] = "refresh" => out'[b] = "reused")
      BY <1>8, <2>3 DEF EndSweep, Reply
    <3> QED BY <2>1, <3>1
  <2> QED BY <2>2, <2>3
<1>9. ASSUME NEW t \in Token, Expire(t) PROVE Goal
  BY <1>9 DEF Expire, rowVars, historyVars
<1>10. ASSUME NEW c \in Call, QueryError(c) PROVE Goal
  BY <1>10 DEF QueryError, Reply, rowVars, historyVars
<1>11. CASE UNCHANGED serverVars
  BY <1>11 DEF serverVars, rowVars, historyVars
<1> QED
  BY <1>1, <1>2, <1>3, <1>4, <1>5, <1>6, <1>7, <1>8, <1>9, <1>10, <1>11
  DEF Next, CallStep, Arrive, Op

\* A request that has arrived stays what it is.
LEMMA RequestStays ==
  ASSUME IInv, [Next]_serverVars, NEW b \in Call, pc[b] # "idle"
  PROVE  op'[b] = op[b] /\ arg'[b] = arg[b] /\ pc'[b] # "idle"
<1> DEFINE Goal == op'[b] = op[b] /\ arg'[b] = arg[b] /\ pc'[b] # "idle"
<1> USE DEF IInv, TypeOK
<1>1. ASSUME NEW c \in Call, NEW o \in Op, NEW x \in Issued \cup {None}, Ask(c, o, x)
      PROVE  Goal
  BY <1>1 DEF Ask, Goto
<1>2. ASSUME NEW c \in Call, VerifyCredentials(c) PROVE Goal
  BY <1>2 DEF VerifyCredentials, Goto
<1>3. ASSUME NEW c \in Call, StartMobileSession(c) PROVE Goal
  BY <1>3 DEF StartMobileSession, Reply
<1>4. ASSUME NEW c \in Call, FindRefreshToken(c) PROVE Goal
  BY <1>4 DEF FindRefreshToken, Goto, Reply
<1>5. ASSUME NEW c \in Call, Rotate(c) PROVE Goal
  BY <1>5 DEF Rotate, Reply
<1>6. ASSUME NEW c \in Call, ChangePassword(c) PROVE Goal
  BY <1>6 DEF ChangePassword, Goto
<1>7. ASSUME NEW c \in Call, BeginSweep(c) PROVE Goal
  BY <1>7 DEF BeginSweep, Goto
<1>8. ASSUME NEW c \in Call, EndSweep(c) PROVE Goal
  BY <1>8 DEF EndSweep, Reply
<1>9. ASSUME NEW t \in Token, Expire(t) PROVE Goal
  BY <1>9 DEF Expire
<1>10. ASSUME NEW c \in Call, QueryError(c) PROVE Goal
  BY <1>10 DEF QueryError, Reply
<1>11. CASE UNCHANGED serverVars
  BY <1>11 DEF serverVars
<1> QED
  BY <1>1, <1>2, <1>3, <1>4, <1>5, <1>6, <1>7, <1>8, <1>9, <1>10, <1>11
  DEF Next, CallStep, Arrive, Op

\* The token that a login brings is a new one, and its family is new.
LEMMA LoginAnswer ==
  ASSUME IInv, Served, [Next]_serverVars, NEW b \in Call, op[b] = "login",
         got'[b] # got[b]
  PROVE  /\ got'[b] \in Token \ Issued /\ fam'[got'[b]] = got'[b]
         /\ \A k \in Call \ {b} : got'[k] = got[k]
<1> DEFINE Goal == /\ got'[b] \in Token \ Issued /\ fam'[got'[b]] = got'[b]
                   /\ \A k \in Call \ {b} : got'[k] = got[k]
<1> USE DEF IInv, TypeOK
<1>1. ASSUME NEW c \in Call, NEW o \in Op, NEW x \in Issued \cup {None}, Ask(c, o, x)
      PROVE  Goal
  BY <1>1 DEF Ask
<1>2. ASSUME NEW c \in Call, VerifyCredentials(c) PROVE Goal
  BY <1>2 DEF VerifyCredentials
<1>3. ASSUME NEW c \in Call, StartMobileSession(c) PROVE Goal
  BY <1>3 DEF StartMobileSession
<1>4. ASSUME NEW c \in Call, FindRefreshToken(c) PROVE Goal
  BY <1>4 DEF FindRefreshToken
<1>5. ASSUME NEW c \in Call, Rotate(c) PROVE Goal
  BY <1>5 DEF Rotate, Phases
<1>6. ASSUME NEW c \in Call, ChangePassword(c) PROVE Goal
  BY <1>6 DEF ChangePassword
<1>7. ASSUME NEW c \in Call, BeginSweep(c) PROVE Goal
  BY <1>7 DEF BeginSweep
<1>8. ASSUME NEW c \in Call, EndSweep(c) PROVE Goal
  BY <1>8 DEF EndSweep
<1>9. ASSUME NEW t \in Token, Expire(t) PROVE Goal
  BY <1>9 DEF Expire
<1>10. ASSUME NEW c \in Call, QueryError(c) PROVE Goal
  BY <1>10 DEF QueryError
<1>11. CASE UNCHANGED serverVars
  BY <1>11 DEF serverVars
<1> QED
  BY <1>1, <1>2, <1>3, <1>4, <1>5, <1>6, <1>7, <1>8, <1>9, <1>10, <1>11
  DEF Next, CallStep, Arrive, Op


-----------------------------------------------------------------------------
(***************************************************************************)
(* What a server step means for the devices.                               *)
(***************************************************************************)
\* Every token a device is concerned with exists.
LEMMA OwnTokens ==
  ASSUME ClientInv, NEW d \in Device, NEW t \in Token, Of(d, t)
  PROVE  t \in Issued
<1>1. CASE t = mem[d] \/ t = disk[d]
  BY <1>1, ConstantsAssumption DEF ClientInv, Waits
<1>2. CASE flight[d] # None /\ t = arg[flight[d]]
  <2>1. flight[d] \in Call /\ op[flight[d]] = "refresh"
    BY <1>2 DEF ClientInv, Waits, ClientTypes
  <2> QED BY <1>2, <2>1 DEF ClientInv, IInv, TypeOK
<1>3. CASE entering[d] # None /\ t = got[entering[d]]
  <2>1. entering[d] \in Call /\ got[entering[d]] # None
    BY <1>3, ConstantsAssumption DEF ClientInv, ClientTypes
  <2> QED BY <1>3, <2>1 DEF ClientInv, Served
<1> QED BY <1>1, <1>2, <1>3 DEF Of

\* No client moves: the devices wait for what they waited for.
LEMMA WaitsServer ==
  ASSUME ClientInv, [Next]_serverVars, UNCHANGED clientVars
  PROVE  ClientTypes' /\ Waits'
<1>1. ClientTypes'
  BY DEF ClientInv, ClientTypes, clientVars
<1>2. ASSUME NEW d \in Device
      PROVE  /\ mem[d] # None => mem[d] \in Issued'
             /\ disk[d] # None => disk[d] \in Issued'
             /\ flight[d] # None => op'[flight[d]] = "refresh" /\ pc'[flight[d]] # "idle"
             /\ entering[d] # None => op'[entering[d]] = "login" /\ pc'[entering[d]] # "idle"
  <2>1. \A t \in Issued : t \in Issued'
    BY RowsStay DEF ClientInv, Issued
  <2>2. flight[d] \in Call \cup {None} /\ entering[d] \in Call \cup {None}
    BY DEF ClientInv, ClientTypes
  <2> QED BY <2>1, <2>2, RequestStays DEF ClientInv, Waits
<1> QED BY <1>1, <1>2 DEF Waits, clientVars

LEMMA ApartServer ==
  ASSUME ClientInv, [Next]_serverVars, UNCHANGED clientVars
  PROVE  Apart'
<1>1. ASSUME NEW d \in Device, NEW t \in Token, Of(d, t)'
      PROVE  \/ Of(d, t) /\ t \in Issued /\ fam'[t] = fam[t] /\ fam[t] \in Issued
             \/ /\ entering[d] # None /\ t = got'[entering[d]] /\ got'[entering[d]] # got[entering[d]]
                /\ t \notin Issued /\ fam'[t] = t
                /\ \A k \in Call \ {entering[d]} : got'[k] = got[k]
  <2>0. UNCHANGED <<mem, disk, flight, entering>>
    BY DEF clientVars
  <2>1. CASE Of(d, t)
    <3>1. t \in Issued
      BY <2>1, OwnTokens
    <3> QED BY <2>1, <3>1, RowsStay DEF ClientInv, IInv, Families
  <2>2. CASE ~ Of(d, t)
    <3>1. flight[d] # None => arg'[flight[d]] = arg[flight[d]]
      BY RequestStays DEF ClientInv, ClientTypes, Waits
    <3>2. entering[d] # None /\ t = got'[entering[d]] /\ got'[entering[d]] # got[entering[d]]
      BY <1>1, <2>0, <2>2, <3>1 DEF Of
    <3>3. entering[d] \in Call /\ op[entering[d]] = "login"
      BY <3>2 DEF ClientInv, ClientTypes, Waits
    <3> QED BY <3>2, <3>3, LoginAnswer DEF ClientInv
  <2> QED BY <2>1, <2>2
<1>2. ASSUME NEW d \in Device, NEW e \in Device, d # e
      PROVE  /\ entering[d] # None => entering[d] # entering[e]
             /\ \A t, u \in Token : Of(d, t) /\ Of(e, u) => fam[t] # fam[u]
  BY <1>2 DEF ClientInv, Apart
<1>3. ASSUME NEW d \in Device, NEW e \in Device, d # e, NEW t \in Token, NEW u \in Token,
             Of(d, t)', Of(e, u)'
      PROVE  fam'[t] # fam'[u]
  <2>1. \/ Of(d, t) /\ t \in Issued /\ fam'[t] = fam[t] /\ fam[t] \in Issued
        \/ /\ entering[d] # None /\ got'[entering[d]] # got[entering[d]]
           /\ t \notin Issued /\ fam'[t] = t
           /\ \A k \in Call \ {entering[d]} : got'[k] = got[k]
    BY <1>1, <1>3
  <2>2. \/ Of(e, u) /\ u \in Issued /\ fam'[u] = fam[u] /\ fam[u] \in Issued
        \/ /\ entering[e] # None /\ got'[entering[e]] # got[entering[e]]
           /\ u \notin Issued /\ fam'[u] = u
    BY <1>1, <1>3
  <2>3. entering[e] # None => entering[e] \in Call
    BY DEF ClientInv, ClientTypes
  <2>4. /\ entering[d] # None => entering[d] # entering[e]
        /\ Of(d, t) /\ Of(e, u) => fam[t] # fam[u]
    BY <1>2, <1>3
  <2> QED BY <2>1, <2>2, <2>3, <2>4
<1> QED BY <1>2, <1>3 DEF Apart, clientVars

\* What is live and not exchanged stays live while nothing is revoked.
LEMMA QuietServer ==
  ASSUME ClientInv, NEW c \in Call, CallStep(c) \/ QueryError(c), UNCHANGED clientVars, calm
  PROVE  Quiet'
<1>0. /\ op[c] \in {"none", "login", "refresh"} /\ pc[c] # "sweeping"
      /\ op[c] = "refresh" /\ pc[c] # "answered" => \E d \in Device : flight[d] = c
      /\ UNCHANGED <<mem, disk, flight, entering, leaving, calm>>
  BY DEF ClientInv, Quiet, clientVars
<1>1. ASSUME VerifyCredentials(c) PROVE Quiet'
  BY <1>0, <1>1, ConstantsAssumption DEF VerifyCredentials, Goto, rowVars, ClientInv, IInv,
     TypeOK, Phases, Quiet, Live
<1>2. ASSUME StartMobileSession(c) PROVE Quiet'
  BY <1>0, <1>2, ConstantsAssumption DEF StartMobileSession, Reply, ClientInv, IInv, TypeOK,
     Phases, Quiet, Live, Issued, Waits, ClientTypes
<1>6. ASSUME ChangePassword(c) \/ BeginSweep(c) \/ EndSweep(c) PROVE FALSE
  BY <1>0, <1>6 DEF ChangePassword, BeginSweep, EndSweep, ClientInv, IInv, Phases
<1>3. ASSUME FindRefreshToken(c) PROVE Quiet'
  <2>1. PICK d \in Device : flight[d] = c
    BY <1>0, <1>3 DEF FindRefreshToken
  <2>2. arg[c] = mem[d] /\ out[c] # "ok" /\ mem[d] \in Live
    BY <1>3, <2>1, ConstantsAssumption DEF FindRefreshToken, ClientInv, IInv, Phases, Quiet
  <2>3. /\ pc'[c] \in {"rotating", "answered"} /\ out'[c] \in {out[c], "expired"}
        /\ \A b \in Call \ {c} : pc'[b] = pc[b] /\ out'[b] = out[b]
        /\ UNCHANGED <<row, op, arg, got>>
    BY <1>3, <2>2 DEF FindRefreshToken, Goto, Reply, rowVars, Live, ClientInv, IInv, TypeOK
  <2>4. out[c] \notin {"ok", "reused"} /\ Live' = Live
    BY <2>2, <2>3 DEF ClientInv, Quiet, Live
  <2> QED BY <1>0, <2>1, <2>2, <2>3, <2>4 DEF ClientInv, Quiet, ClientTypes
<1>4. ASSUME Rotate(c) PROVE Quiet'
  <2>1. op[c] = "refresh" /\ pc[c] # "answered"
    BY <1>4 DEF Rotate, ClientInv, IInv, Phases
  <2>2. PICK d \in Device : flight[d] = c
    BY <1>0, <2>1
  <2>3. arg[c] = mem[d] /\ arg[c] \in Token /\ Of(d, arg[c])
    BY <2>2, ConstantsAssumption DEF ClientInv, Quiet, Of, ClientTypes
  <2>4. /\ got'[c] \in Token \ Issued /\ pc'[c] = "answered" /\ out'[c] = "ok"
        /\ \A b \in Call \ {c} : pc'[b] = pc[b] /\ out'[b] = out[b] /\ got'[b] = got[b]
        /\ row' = [row EXCEPT ![got'[c]] = "live", ![arg[c]] = "revoked"]
        /\ UNCHANGED <<op, arg>>
    BY <1>4 DEF Rotate, Reply, ClientInv, IInv, TypeOK
  <2>5. arg[c] \in Issued
    BY <2>3, OwnTokens
  <2>6. got'[c] \in Live' /\ \A t \in Live \ {arg[c]} : t \in Live'
    BY <2>3, <2>4, <2>5 DEF Live, Issued, ClientInv, IInv, TypeOK
  <2>7. \A e \in Device \ {d}, t \in Token : Of(e, t) => t # arg[c]
    BY <2>3 DEF ClientInv, Apart
  <2>8. \A e \in Device \ {d} : flight[e] # c /\ entering[e] # c
    BY <2>1, <2>3, <2>7, ConstantsAssumption DEF Of, ClientInv, Waits
  <2>9. entering[d] = None
    BY <2>2, <2>1, ConstantsAssumption DEF ClientInv, Quiet
  <2>10. ASSUME NEW b \in Call
         PROVE  /\ op'[b] \in {"none", "login", "refresh"} /\ pc'[b] # "sweeping" /\ out'[b] # "reused"
                /\ op'[b] = "refresh" /\ pc'[b] # "answered" => \E e \in Device : flight[e] = b
    BY <2>4 DEF ClientInv, Quiet
  <2>11. ASSUME NEW e \in Device
         PROVE  /\ leaving[e] = None /\ disk[e] = mem[e]
                /\ flight[e] # None =>
                     /\ mem[e] # None /\ arg[flight[e]] = mem[e]
                     /\ out'[flight[e]] = "ok" => got'[flight[e]] \in Live'
                     /\ out'[flight[e]] # "ok" => mem[e] \in Live'
                /\ flight[e] = None /\ mem[e] # None => mem[e] \in Live'
                /\ entering[e] # None =>
                     /\ mem[e] = None
                     /\ got'[entering[e]] # None => got'[entering[e]] \in Live'
    <3>1. CASE e = d
      BY <2>2, <2>3, <2>4, <2>6, <2>9, <3>1, ConstantsAssumption DEF ClientInv, Quiet
    <3>2. CASE e # d
      <4>1. /\ mem[e] # arg[c] \/ mem[e] \notin Token
            /\ flight[e] # None => flight[e] \in Call \ {c} /\ out'[flight[e]] = out[flight[e]]
                                   /\ got'[flight[e]] = got[flight[e]]
            /\ entering[e] # None => entering[e] \in Call \ {c} /\ got'[entering[e]] = got[entering[e]]
        BY <2>4, <2>7, <2>8, <3>2 DEF Of, ClientInv, ClientTypes
      <4>2. flight[e] # None /\ got[flight[e]] \in Live => got[flight[e]] # arg[c]
        <5>1. ASSUME flight[e] # None, got[flight[e]] \in Live PROVE got[flight[e]] # arg[c]
          <6>1. fam[got[flight[e]]] = fam[arg[flight[e]]] /\ arg[flight[e]] \in Token
            BY <4>1, <5>1, ConstantsAssumption DEF ClientInv, Served, Waits, Live, IInv, TypeOK,
               Issued
          <6>2. Of(e, arg[flight[e]])
            BY <5>1 DEF Of
          <6> QED BY <2>3, <3>2, <6>1, <6>2 DEF ClientInv, Apart
        <5> QED BY <5>1
      <4>3. entering[e] # None /\ got[entering[e]] \in Live => got[entering[e]] # arg[c]
        BY <2>7, <3>2 DEF Of, Live
      <4>4. \A t \in Live : t \in Token
        BY DEF Live
      <4> QED BY <2>6, <3>2, <4>1, <4>2, <4>3, <4>4 DEF ClientInv, Quiet
    <3> QED BY <3>1, <3>2
  <2> QED BY <1>0, <2>4, <2>10, <2>11 DEF Quiet
<1>5. ASSUME QueryError(c) PROVE Quiet'
  <2>1. /\ out[c] # "ok" /\ pc'[c] = "answered" /\ out'[c] = "error"
        /\ \A b \in Call \ {c} : pc'[b] = pc[b] /\ out'[b] = out[b]
        /\ UNCHANGED <<row, op, arg, got>>
    BY <1>5 DEF QueryError, Reply, rowVars, ClientInv, IInv, TypeOK, Phases
  <2>2. Live' = Live
    BY <2>1 DEF Live
  <2> QED BY <1>0, <2>1, <2>2 DEF ClientInv, Quiet, ClientTypes
<1> QED BY <1>1, <1>2, <1>3, <1>4, <1>5, <1>6 DEF CallStep

LEMMA QuietExpire ==
  ASSUME ClientInv, NEW t \in Token, Expire(t), UNCHANGED clientVars
  PROVE  Quiet'
<1>1. UNCHANGED <<row, op, pc, arg, out, got, mem, disk, flight, entering, leaving, calm>>
  BY DEF Expire, rowVars, clientVars
<1>2. Live' = Live
  BY <1>1 DEF Live
<1> QED BY <1>1, <1>2 DEF ClientInv, Quiet


-----------------------------------------------------------------------------
(***************************************************************************)
(* Steps of the devices.                                                   *)
(***************************************************************************)
\* To the server, a device is someone who sends requests.
LEMMA ClientIsCaller == ClientInv /\ [ClientNext]_vars => [Next]_serverVars
<1> SUFFICES ASSUME ClientInv, [ClientNext]_vars PROVE [Next]_serverVars
  OBVIOUS
<1>1. ASSUME NEW c \in Call, NEW o \in {"login", "everywhere", "change"}, Ask(c, o, None)
      PROVE  Next
  BY <1>1 DEF Next, Arrive
<1>2. ASSUME NEW c \in Call, NEW o \in {"refresh", "logout"}, NEW t \in Issued, Ask(c, o, t)
      PROVE  Next
  BY <1>2 DEF Next, Arrive
<1>3. ASSUME NEW d \in Device, DeviceStep(d) PROVE [Next]_serverVars
  <2>1. ASSUME NEW c \in Call, StartLogin(d, c) \/ StartRefresh(d, c) \/ StartLogout(d, c)
        PROVE  Next
    <3>1. mem[d] # None => mem[d] \in Issued
      BY DEF ClientInv, Waits
    <3> QED BY <1>1, <1>2, <2>1, <3>1 DEF StartLogin, StartRefresh, StartLogout
  <2>2. FinishLogin(d) \/ FinishRefresh(d) \/ RefreshUnanswered(d) \/ FinishLogout(d) \/ Relaunch(d)
          => UNCHANGED serverVars
    BY DEF FinishLogin, FinishRefresh, RefreshUnanswered, FinishLogout, Relaunch
  <2> QED BY <1>3, <2>1, <2>2 DEF DeviceStep
<1>4. ASSUME NEW c \in Call, Portal(c) PROVE Next
  BY <1>1, <1>4 DEF Portal
<1>5. CASE UNCHANGED vars
  BY <1>5 DEF vars
<1> QED BY <1>3, <1>4, <1>5 DEF ClientNext, Next

\* Nobody waits for a request that has not been sent.
LEMMA Asked ==
  ASSUME ClientInv, NEW c \in Call, NEW o, NEW x, Ask(c, o, x)
  PROVE  /\ op'[c] = o /\ arg'[c] = x /\ pc'[c] = "asked" /\ got[c] = None /\ out[c] = "none"
         /\ \A b \in Call \ {c} : op'[b] = op[b] /\ arg'[b] = arg[b] /\ pc'[b] = pc[b]
         /\ \A d \in Device : flight[d] # c /\ entering[d] # c
         /\ UNCHANGED <<row, fam, out, got, Live, Issued>>
<1>1. pc[c] = "idle" /\ UNCHANGED <<row, fam, out, got>>
  BY DEF Ask, rowVars
<1>2. Live' = Live /\ Issued' = Issued
  BY <1>1 DEF Live, Issued
<1>3. /\ op'[c] = o /\ arg'[c] = x /\ pc'[c] = "asked"
      /\ \A b \in Call \ {c} : op'[b] = op[b] /\ arg'[b] = arg[b] /\ pc'[b] = pc[b]
  BY DEF Ask, Goto, ClientInv, IInv, TypeOK
<1>4. got[c] = None /\ out[c] = "none"
  BY <1>1 DEF ClientInv, Served, IInv, Phases
<1>5. \A d \in Device : flight[d] # c /\ entering[d] # c
  BY <1>1, ConstantsAssumption DEF ClientInv, Waits
<1> QED BY <1>1, <1>2, <1>3, <1>4, <1>5

\* Devices stay apart when each only goes on with what it has.
LEMMA ApartKept ==
  ASSUME Apart,
         \A d, e \in Device : d # e /\ entering'[d] # None => entering'[d] # entering'[e],
         \A d \in Device, t \in Token : Of(d, t)' => \E s \in Token : Of(d, s) /\ fam[s] = fam'[t]
  PROVE  Apart'
<1>1. ASSUME NEW d \in Device, NEW e \in Device, d # e, NEW t \in Token, NEW u \in Token,
             Of(d, t)', Of(e, u)'
      PROVE  fam'[t] # fam'[u]
  <2>1. PICK s \in Token : Of(d, s) /\ fam[s] = fam'[t]
    BY <1>1
  <2>2. PICK r \in Token : Of(e, r) /\ fam[r] = fam'[u]
    BY <1>1
  <2> QED BY <1>1, <2>1, <2>2 DEF Apart
<1> QED BY <1>1 DEF Apart

\* A device starts to log in.
LEMMA StartLoginKeeps ==
  ASSUME ClientInv, NEW d \in Device, NEW c \in Call, StartLogin(d, c)
  PROVE  ClientTypes' /\ Waits' /\ Apart' /\ Quiet'
<1>1. /\ mem[d] = None /\ entering[d] = None
      /\ entering' = [entering EXCEPT ![d] = c]
      /\ UNCHANGED <<mem, disk, flight, leaving, calm>>
      /\ Ask(c, "login", None)
  BY DEF StartLogin
<1>2. /\ op'[c] = "login" /\ pc'[c] = "asked" /\ got[c] = None /\ out[c] = "none"
      /\ \A b \in Call \ {c} : op'[b] = op[b] /\ arg'[b] = arg[b] /\ pc'[b] = pc[b]
      /\ \A e \in Device : flight[e] # c /\ entering[e] # c
      /\ UNCHANGED <<row, fam, out, got, Live, Issued>>
  BY <1>1, Asked
<1>3. ClientTypes' /\ Waits'
  BY <1>1, <1>2 DEF ClientInv, ClientTypes, Waits
<1>4. Apart'
  <2>1. \A e \in Device, t \in Token : Of(e, t)' => Of(e, t)
    BY <1>1, <1>2, ConstantsAssumption DEF Of, ClientInv, ClientTypes
  <2>2. \A e, f \in Device : e # f /\ entering'[e] # None => entering'[e] # entering'[f]
    BY <1>1, <1>2 DEF ClientInv, ClientTypes, Apart
  <2> QED BY <1>2, <2>1, <2>2, ApartKept DEF ClientInv
<1>5. Quiet'
  BY <1>1, <1>2 DEF ClientInv, ClientTypes, Quiet
<1> QED BY <1>3, <1>4, <1>5

\* It starts the refresh it has none of.
LEMMA StartRefreshKeeps ==
  ASSUME ClientInv, NEW d \in Device, NEW c \in Call, StartRefresh(d, c)
  PROVE  ClientTypes' /\ Waits' /\ Apart' /\ Quiet'
<1>1. /\ mem[d] # None /\ flight[d] = None
      /\ flight' = [flight EXCEPT ![d] = c]
      /\ UNCHANGED <<mem, disk, entering, leaving, calm>>
      /\ Ask(c, "refresh", mem[d])
  BY DEF StartRefresh
<1>2. /\ op'[c] = "refresh" /\ pc'[c] = "asked" /\ arg'[c] = mem[d] /\ out[c] = "none"
      /\ \A b \in Call \ {c} : op'[b] = op[b] /\ arg'[b] = arg[b] /\ pc'[b] = pc[b]
      /\ \A e \in Device : flight[e] # c /\ entering[e] # c
      /\ UNCHANGED <<row, fam, out, got, Live, Issued>>
  BY <1>1, Asked
<1>3. ClientTypes' /\ Waits'
  BY <1>1, <1>2 DEF ClientInv, ClientTypes, Waits
<1>4. Apart'
  <2>1. \A e \in Device, t \in Token : Of(e, t)' => Of(e, t)
    BY <1>1, <1>2, ConstantsAssumption DEF Of, ClientInv, ClientTypes
  <2> QED BY <1>1, <1>2, <2>1, ApartKept DEF ClientInv, Apart
<1>5. Quiet'
  BY <1>1, <1>2, ConstantsAssumption DEF ClientInv, ClientTypes, Quiet
<1> QED BY <1>3, <1>4, <1>5

\* A logout, or the customer in the portal, ends the quiet.
LEMMA StartLogoutKeeps ==
  ASSUME ClientInv, NEW d \in Device, NEW c \in Call, StartLogout(d, c)
  PROVE  ClientTypes' /\ Waits' /\ Apart' /\ Quiet'
<1>1. /\ leaving' = [leaving EXCEPT ![d] = c] /\ calm' = FALSE
      /\ UNCHANGED <<mem, disk, flight, entering>>
      /\ Ask(c, "logout", mem[d])
  BY DEF StartLogout
<1>2. /\ \A b \in Call \ {c} : op'[b] = op[b] /\ arg'[b] = arg[b] /\ pc'[b] = pc[b]
      /\ \A e \in Device : flight[e] # c /\ entering[e] # c
      /\ UNCHANGED <<row, fam, out, got, Live, Issued>>
  BY <1>1, Asked
<1>3. ClientTypes' /\ Waits'
  BY <1>1, <1>2 DEF ClientInv, ClientTypes, Waits
<1>4. Apart'
  <2>1. \A e \in Device, t \in Token : Of(e, t)' => Of(e, t)
    BY <1>1, <1>2, ConstantsAssumption DEF Of, ClientInv, ClientTypes
  <2> QED BY <1>1, <1>2, <2>1, ApartKept DEF ClientInv, Apart
<1> QED BY <1>1, <1>3, <1>4 DEF Quiet

LEMMA PortalKeeps ==
  ASSUME ClientInv, NEW c \in Call, Portal(c)
  PROVE  ClientTypes' /\ Waits' /\ Apart' /\ Quiet'
<1>1. /\ calm' = FALSE /\ UNCHANGED <<mem, disk, flight, entering, leaving>>
      /\ \E o \in {"change", "everywhere"} : Ask(c, o, None)
  BY DEF Portal
<1>2. /\ \A b \in Call \ {c} : op'[b] = op[b] /\ arg'[b] = arg[b] /\ pc'[b] = pc[b]
      /\ \A e \in Device : flight[e] # c /\ entering[e] # c
      /\ UNCHANGED <<row, fam, out, got, Live, Issued>>
  BY <1>1, Asked
<1>3. ClientTypes' /\ Waits'
  BY <1>1, <1>2 DEF ClientInv, ClientTypes, Waits
<1>4. Apart'
  <2>1. \A e \in Device, t \in Token : Of(e, t)' => Of(e, t)
    BY <1>1, <1>2, ConstantsAssumption DEF Of, ClientInv, ClientTypes
  <2> QED BY <1>1, <1>2, <2>1, ApartKept DEF ClientInv, Apart
<1> QED BY <1>1, <1>3, <1>4 DEF Quiet


\* The answer to a login is stored.
LEMMA FinishLoginKeeps ==
  ASSUME ClientInv, NEW d \in Device, FinishLogin(d)
  PROVE  ClientTypes' /\ Waits' /\ Apart' /\ Quiet'
<1> DEFINE c == entering[d]
<1>1. /\ c # None /\ c \in Call /\ pc[c] = "answered" /\ op[c] = "login"
      /\ entering' = [entering EXCEPT ![d] = None]
      /\ UNCHANGED <<serverVars, flight, leaving>>
  BY DEF FinishLogin, ClientInv, ClientTypes, Waits
<1>2. UNCHANGED <<row, fam, op, pc, arg, out, got, Live, Issued>>
  BY <1>1 DEF serverVars, rowVars, Live, Issued
<1>3. CASE out[c] = "ok"
  <2>1. got[c] \in Issued /\ got[c] \in Token /\ got[c] # None
    BY <1>1, <1>3, ConstantsAssumption DEF ClientInv, Served, Issued
  <2>2. /\ mem' = [mem EXCEPT ![d] = got[c]]
        /\ \/ disk' = [disk EXCEPT ![d] = got[c]] /\ UNCHANGED calm
           \/ UNCHANGED disk /\ calm' = FALSE
    BY <1>3 DEF FinishLogin, Store
  <2>3. ClientTypes' /\ Waits'
    BY <1>1, <1>2, <2>1, <2>2, ConstantsAssumption DEF ClientInv, ClientTypes, Waits
  <2>4. Apart'
    <3>1. \A e \in Device, t \in Token : Of(e, t)' => Of(e, t)
      BY <1>1, <1>2, <2>2, ConstantsAssumption DEF Of, ClientInv, ClientTypes
    <3>2. \A e, f \in Device : e # f /\ entering'[e] # None => entering'[e] # entering'[f]
      BY <1>1 DEF ClientInv, ClientTypes, Apart
    <3> QED BY <1>2, <3>1, <3>2, ApartKept DEF ClientInv
  <2>5. Quiet'
    BY <1>1, <1>2, <2>1, <2>2 DEF ClientInv, ClientTypes, Quiet
  <2> QED BY <2>3, <2>4, <2>5
<1>4. CASE out[c] # "ok"
  <2>1. UNCHANGED <<mem, disk, calm>>
    BY <1>4 DEF FinishLogin
  <2>2. ClientTypes' /\ Waits'
    BY <1>1, <1>2, <2>1 DEF ClientInv, ClientTypes, Waits
  <2>3. Apart'
    <3>1. \A e \in Device, t \in Token : Of(e, t)' => Of(e, t)
      BY <1>1, <1>2, <2>1 DEF Of, ClientInv, ClientTypes
    <3>2. \A e, f \in Device : e # f /\ entering'[e] # None => entering'[e] # entering'[f]
      BY <1>1 DEF ClientInv, ClientTypes, Apart
    <3> QED BY <1>2, <3>1, <3>2, ApartKept DEF ClientInv
  <2>4. Quiet'
    BY <1>1, <1>2, <2>1 DEF ClientInv, ClientTypes, Quiet
  <2> QED BY <2>2, <2>3, <2>4
<1> QED BY <1>3, <1>4

\* The answer to a refresh is stored, or ends the session.
LEMMA FinishRefreshKeeps ==
  ASSUME ClientInv, NEW d \in Device, FinishRefresh(d)
  PROVE  ClientTypes' /\ Waits' /\ Apart' /\ Quiet'
<1> DEFINE c == flight[d]
<1>1. /\ c # None /\ c \in Call /\ pc[c] = "answered" /\ op[c] = "refresh"
      /\ flight' = [flight EXCEPT ![d] = None]
      /\ UNCHANGED <<serverVars, entering, leaving>>
  BY DEF FinishRefresh, ClientInv, ClientTypes, Waits
<1>2. UNCHANGED <<row, fam, op, pc, arg, out, got, Live, Issued>>
  BY <1>1 DEF serverVars, rowVars, Live, Issued
<1>3. CASE out[c] = "ok"
  <2>1. got[c] \in Issued /\ got[c] \in Token /\ got[c] # None /\ fam[got[c]] = fam[arg[c]]
    BY <1>1, <1>3, ConstantsAssumption DEF ClientInv, Served, Issued
  <2>2. /\ mem' = [mem EXCEPT ![d] = got[c]]
        /\ \/ disk' = [disk EXCEPT ![d] = got[c]] /\ UNCHANGED calm
           \/ UNCHANGED disk /\ calm' = FALSE
    BY <1>3 DEF FinishRefresh, Store
  <2>3. ClientTypes' /\ Waits'
    BY <1>1, <1>2, <2>1, <2>2, ConstantsAssumption DEF ClientInv, ClientTypes, Waits
  <2>4. Apart'
    <3>1. arg[c] \in Token /\ Of(d, arg[c])
      BY <1>1 DEF Of, ClientInv, IInv, TypeOK, Issued
    <3>2. \A e \in Device, t \in Token : Of(e, t)' => Of(e, t) \/ (e = d /\ t = got[c])
      BY <1>1, <1>2, <2>2, ConstantsAssumption DEF Of, ClientInv, ClientTypes
    <3>3. \A e \in Device, t \in Token : Of(e, t)' => \E s \in Token : Of(e, s) /\ fam[s] = fam'[t]
      BY <1>2, <2>1, <3>1, <3>2
    <3> QED BY <1>1, <3>3, ApartKept DEF ClientInv, Apart
  <2>5. Quiet'
    <3>1. CASE calm'
      <4>1. calm /\ disk' = [disk EXCEPT ![d] = got[c]]
        BY <2>2, <3>1
      <4>2. got[c] \in Live /\ entering[d] = None
        BY <1>1, <1>3, <4>1 DEF ClientInv, Quiet
      <4>3. \A b \in Call : op[b] = "refresh" /\ pc[b] # "answered" => \E e \in Device : flight'[e] = b
        BY <1>1, <4>1 DEF ClientInv, ClientTypes, Quiet
      <4>4. \A e \in Device \ {d} : UNCHANGED <<mem[e], disk[e], flight[e]>>
        BY <1>1, <2>2, <4>1 DEF ClientInv, ClientTypes
      <4>5. mem'[d] = got[c] /\ disk'[d] = got[c] /\ flight'[d] = None
        BY <1>1, <2>2, <4>1 DEF ClientInv, ClientTypes
      <4> QED BY <1>1, <1>2, <4>1, <4>2, <4>3, <4>4, <4>5 DEF ClientInv, Quiet
    <3> QED BY <3>1 DEF Quiet
  <2> QED BY <2>3, <2>4, <2>5
<1>4. CASE out[c] # "ok"
  <2>1. \/ /\ out[c] \in {"reused", "expired"} /\ mem' = [mem EXCEPT ![d] = None]
           /\ \/ disk' = [disk EXCEPT ![d] = None] /\ UNCHANGED calm
              \/ UNCHANGED disk /\ calm' = FALSE
        \/ UNCHANGED <<mem, disk, calm>>
    BY <1>4 DEF FinishRefresh, Store
  <2>2. ClientTypes' /\ Waits'
    BY <1>1, <1>2, <2>1 DEF ClientInv, ClientTypes, Waits
  <2>3. Apart'
    <3>1. \A e \in Device, t \in Token : Of(e, t)' => Of(e, t)
      BY <1>1, <1>2, <2>1, ConstantsAssumption DEF Of, ClientInv, ClientTypes
    <3> QED BY <1>1, <1>2, <3>1, ApartKept DEF ClientInv, Apart
  <2>4. Quiet'
    <3>1. CASE calm'
      <4>1. calm
        BY <2>1, <3>1
      <4>2. mem[d] \in Live /\ disk[d] = mem[d] /\ entering[d] = None
        BY <1>1, <1>4, <4>1 DEF ClientInv, Quiet
      <4>3. \A b \in Call : op[b] = "refresh" /\ pc[b] # "answered" => \E e \in Device : flight'[e] = b
        BY <1>1, <4>1 DEF ClientInv, ClientTypes, Quiet
      <4>4. \A e \in Device \ {d} : UNCHANGED <<mem[e], disk[e], flight[e]>>
        BY <1>1, <2>1, <3>1 DEF ClientInv, ClientTypes
      <4>5. mem'[d] \in {None, mem[d]} /\ disk'[d] = mem'[d] /\ flight'[d] = None
        BY <1>1, <2>1, <3>1, <4>2 DEF ClientInv, ClientTypes
      <4> QED BY <1>1, <1>2, <4>1, <4>2, <4>3, <4>4, <4>5 DEF ClientInv, Quiet
    <3> QED BY <3>1 DEF Quiet
  <2> QED BY <2>2, <2>3, <2>4
<1> QED BY <1>3, <1>4

LEMMA UnansweredKeeps ==
  ASSUME ClientInv, NEW d \in Device, RefreshUnanswered(d)
  PROVE  ClientTypes' /\ Waits' /\ Apart' /\ Quiet'
<1>1. /\ flight' = [flight EXCEPT ![d] = None] /\ calm' = FALSE
      /\ UNCHANGED <<serverVars, mem, disk, entering, leaving>>
  BY DEF RefreshUnanswered
<1>2. UNCHANGED <<row, fam, op, pc, arg, got, Issued>>
  BY <1>1 DEF serverVars, rowVars, Issued
<1>3. ClientTypes' /\ Waits'
  BY <1>1, <1>2 DEF ClientInv, ClientTypes, Waits
<1>4. Apart'
  <2>1. \A e \in Device, t \in Token : Of(e, t)' => Of(e, t)
    BY <1>1, <1>2 DEF Of, ClientInv, ClientTypes
  <2> QED BY <1>1, <1>2, <2>1, ApartKept DEF ClientInv, Apart
<1> QED BY <1>1, <1>3, <1>4 DEF Quiet

LEMMA FinishLogoutKeeps ==
  ASSUME ClientInv, NEW d \in Device, FinishLogout(d)
  PROVE  ClientTypes' /\ Waits' /\ Apart' /\ Quiet'
<1>1. /\ leaving' = [leaving EXCEPT ![d] = None] /\ leaving[d] # None
      /\ mem' = [mem EXCEPT ![d] = None]
      /\ disk' = [disk EXCEPT ![d] = None] \/ UNCHANGED disk
      /\ calm' => calm
      /\ UNCHANGED <<serverVars, flight, entering>>
  BY DEF FinishLogout, Store
<1>2. UNCHANGED <<row, fam, op, pc, arg, got, Issued>>
  BY <1>1 DEF serverVars, rowVars, Issued
<1>3. calm' \in BOOLEAN /\ ~ calm'
  <2>1. ~ calm
    BY <1>1 DEF ClientInv, Quiet
  <2>2. calm' \in BOOLEAN
    BY DEF FinishLogout, Store, ClientInv, ClientTypes
  <2> QED BY <1>1, <2>1, <2>2
<1>4. ClientTypes' /\ Waits'
  BY <1>1, <1>2, <1>3 DEF ClientInv, ClientTypes, Waits
<1>5. Apart'
  <2>1. \A e \in Device, t \in Token : Of(e, t)' => Of(e, t)
    BY <1>1, <1>2, ConstantsAssumption DEF Of, ClientInv, ClientTypes
  <2> QED BY <1>1, <1>2, <2>1, ApartKept DEF ClientInv, Apart
<1> QED BY <1>3, <1>4, <1>5 DEF Quiet

LEMMA RelaunchKeeps ==
  ASSUME ClientInv, NEW d \in Device, Relaunch(d)
  PROVE  ClientTypes' /\ Waits' /\ Apart' /\ Quiet'
<1>1. /\ mem' = [mem EXCEPT ![d] = disk[d]]
      /\ flight' = [flight EXCEPT ![d] = None] /\ entering' = [entering EXCEPT ![d] = None]
      /\ leaving' = [leaving EXCEPT ![d] = None] /\ calm' = FALSE
      /\ UNCHANGED <<serverVars, disk>>
  BY DEF Relaunch
<1>2. UNCHANGED <<row, fam, op, pc, arg, got, Issued>>
  BY <1>1 DEF serverVars, rowVars, Issued
<1>3. ClientTypes' /\ Waits'
  BY <1>1, <1>2 DEF ClientInv, ClientTypes, Waits
<1>4. Apart'
  <2>1. \A e \in Device, t \in Token : Of(e, t)' => Of(e, t)
    BY <1>1, <1>2 DEF Of, ClientInv, ClientTypes
  <2>2. \A e, f \in Device : e # f /\ entering'[e] # None => entering'[e] # entering'[f]
    BY <1>1 DEF ClientInv, ClientTypes, Apart
  <2> QED BY <1>2, <2>1, <2>2, ApartKept DEF ClientInv
<1> QED BY <1>1, <1>3, <1>4 DEF Quiet

-----------------------------------------------------------------------------
(***************************************************************************)
(* The theorems.                                                           *)
(***************************************************************************)
LEMMA ClientStep == ClientInv /\ [ClientNext]_vars => ClientInv'
<1> SUFFICES ASSUME ClientInv, [ClientNext]_vars PROVE ClientInv'
  OBVIOUS
<1>1. [Next]_serverVars
  BY ClientIsCaller
<1>2. IInv' /\ Served'
  BY <1>1, InvStep, ServedStep DEF ClientInv
<1>3. ASSUME NEW d \in Device, DeviceStep(d)
      PROVE  ClientTypes' /\ Waits' /\ Apart' /\ Quiet'
  BY <1>3, StartLoginKeeps, StartRefreshKeeps, StartLogoutKeeps, FinishLoginKeeps,
     FinishRefreshKeeps, UnansweredKeeps, FinishLogoutKeeps, RelaunchKeeps DEF DeviceStep
<1>4. ASSUME NEW c \in Call, CallStep(c) \/ QueryError(c), UNCHANGED clientVars
      PROVE  ClientTypes' /\ Waits' /\ Apart' /\ Quiet'
  <2>1. ClientTypes' /\ Waits' /\ Apart'
    BY <1>1, <1>4, WaitsServer, ApartServer
  <2>2. CASE calm
    BY <1>4, <2>1, <2>2, QuietServer
  <2>3. CASE ~ calm
    BY <1>4, <2>1, <2>3 DEF Quiet, clientVars
  <2> QED BY <2>2, <2>3
<1>5. ASSUME NEW t \in Token, Expire(t), UNCHANGED clientVars
      PROVE  ClientTypes' /\ Waits' /\ Apart' /\ Quiet'
  BY <1>1, <1>5, WaitsServer, ApartServer, QuietExpire
<1>6. ASSUME UNCHANGED vars
      PROVE  ClientTypes' /\ Waits' /\ Apart' /\ Quiet'
  <2>0. UNCHANGED clientVars /\ UNCHANGED serverVars
    BY <1>6 DEF vars
  <2>1. UNCHANGED <<serverVars, clientVars>>
    BY <2>0
  <2>2. UNCHANGED <<op, pc, out, arg, got, mem, disk, flight, entering, leaving, calm, Live>>
    BY <2>1 DEF serverVars, rowVars, clientVars, Live
  <2>3. Quiet'
    BY <2>2 DEF ClientInv, Quiet
  <2>4. ClientTypes' /\ Waits'
    BY <1>1, <2>0, WaitsServer
  <2>5. Apart'
    BY <1>1, <2>0, ApartServer
  <2> QED BY <2>3, <2>4, <2>5
<1>7. ASSUME NEW c \in Call, Portal(c)
      PROVE  ClientTypes' /\ Waits' /\ Apart' /\ Quiet'
  BY <1>7, PortalKeeps
<1>8. ClientTypes' /\ Waits' /\ Apart' /\ Quiet'
  BY <1>3, <1>4, <1>5, <1>6, <1>7 DEF ClientNext
<1> QED BY <1>2, <1>8 DEF ClientInv

LEMMA ClientStart == ClientInit => ClientInv
<1> SUFFICES ASSUME ClientInit PROVE ClientInv
  OBVIOUS
<1>1. IInv
  BY InvInit DEF ClientInit
<1>2. Served /\ ClientTypes /\ Waits /\ Quiet
  BY DEF ClientInit, Init, Served, ClientTypes, Waits, Quiet
<1>3. Apart
  BY ConstantsAssumption DEF ClientInit, Apart, Of
<1> QED BY <1>1, <1>2, <1>3 DEF ClientInv

LEMMA ClientInvariance == ClientSpec => []ClientInv
  BY ClientStart, ClientStep, PTL DEF ClientSpec

\* A phone waits for requests, and holds tokens, that exist.
THEOREM ClientTypesHold == ClientSpec => []ClientTypeOK
<1>1. ClientInv => ClientTypeOK
  BY DEF ClientInv, IInv, ClientTypes, ClientTypeOK
<1> QED BY <1>1, ClientInvariance, PTL

\* A phone has a login of its own; until something other than logins, refreshes
\* and failing queries happens, it keeps the live token of that login, in memory
\* and in storage, and is never taken for someone who uses a token twice.
THEOREM LoginsAreKept == ClientSpec => []LoginIsKept
<1>1. ClientInv => HeldIsLive /\ SingleFlightSuffices
  BY DEF ClientInv, Quiet, HeldIsLive, SingleFlightSuffices
<1>2. ClientInv => NoSharedLogin
  <2> SUFFICES ASSUME ClientInv, NEW d \in Device, NEW e \in Device, d # e,
                      NEW t \in {mem[d], disk[d]} \ {None}, NEW u \in {mem[e], disk[e]} \ {None}
               PROVE  fam[t] # fam[u]
    BY DEF NoSharedLogin
  <2>1. t \in Token /\ u \in Token
    BY DEF ClientInv, ClientTypes
  <2>2. Of(d, t) /\ Of(e, u)
    BY DEF Of
  <2> QED BY <2>1, <2>2 DEF ClientInv, Apart
<1> QED BY <1>1, <1>2, ClientInvariance, PTL DEF LoginIsKept
=============================================================================
