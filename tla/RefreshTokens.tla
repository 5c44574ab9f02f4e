---------------------------- MODULE RefreshTokens ----------------------------
(***************************************************************************)
(* The refresh tokens of one customer: logging in, exchanging a token for  *)
(* its successor, logging out and changing the password.                   *)
(*                                                                         *)
(* A refresh is one transaction: it locks its token's row, decides, and    *)
(* commits.  Revoking (a family, or all) is one UPDATE; at READ COMMITTED  *)
(* it works on the rows its snapshot saw live when it started, waits for   *)
(* those a transaction has locked, looks at them again, and does not see   *)
(* rows committed after it started.  So an UPDATE is two steps, BeginSweep *)
(* (the snapshot) and EndSweep.                                            *)
(*                                                                         *)
(* A family is named by its first token.                                   *)
(***************************************************************************)
EXTENDS Naturals, FiniteSets

CONSTANTS
  Token,
  Call,      \* requests to the backend
  None,
  MaxEpoch,  \* bound: password changes
  Faults     \* which faults happen: here "query", a statement fails

ASSUME ConstantsAssumption ==
  /\ None \notin Token \cup Call
  /\ MaxEpoch \in Nat
  /\ Faults \subseteq {"query"}

VARIABLES
  row,      \* refresh_tokens: "unused" before the insert, "live", "revoked"
  fam,      \* family_id
  next,     \* replaced_by_id
  expired,  \* tokens whose expires_at has passed
  rowLock,  \* the refresh that holds a token's row
  epoch,    \* password changes so far
  born,     \* history: the epoch of the password a family logged in with
  swept,    \* history: the last epoch whose change has been answered
  raced,    \* history: families that gained a token behind a running UPDATE
  op, pc,
  arg,      \* the token a request carries
  since,    \* the epoch a login or a change of password belongs to
  seen,     \* the rows in the snapshot of a request's UPDATE
  out, got  \* the answer, and the token in it

rowVars == <<row, fam, next>>
historyVars == <<born, swept, raced>>
serverVars == <<rowVars, expired, rowLock, epoch, historyVars, op, pc, arg,
                since, seen, out, got>>

Op == {"login", "refresh", "logout", "everywhere", "change"}
Issued == {t \in Token : row[t] # "unused"}
Live == {t \in Token : row[t] = "live"}
LiveOf(f) == {t \in Live : fam[t] = f}

Init ==
  /\ row = [t \in Token |-> "unused"]
  /\ fam = [t \in Token |-> None]
  /\ next = [t \in Token |-> None]
  /\ expired = {}
  /\ rowLock = [t \in Token |-> None]
  /\ epoch = 0
  /\ born = [t \in Token |-> 0]
  /\ swept = 0
  /\ raced = {}
  /\ op = [c \in Call |-> "none"]
  /\ pc = [c \in Call |-> "idle"]
  /\ arg = [c \in Call |-> None]
  /\ since = [c \in Call |-> 0]
  /\ seen = [c \in Call |-> {}]
  /\ out = [c \in Call |-> "none"]
  /\ got = [c \in Call |-> None]

Goto(c, label) == pc' = [pc EXCEPT ![c] = label]
Reply(c, answer) ==
  /\ pc' = [pc EXCEPT ![c] = "answered"]
  /\ out' = [out EXCEPT ![c] = answer]

\* A request reaches the backend.
Ask(c, o, t) ==
  /\ pc[c] = "idle"
  /\ op' = [op EXCEPT ![c] = o]
  /\ arg' = [arg EXCEPT ![c] = t]
  /\ Goto(c, "asked")
  /\ UNCHANGED <<rowVars, expired, rowLock, epoch, historyVars, since, seen,
                 out, got>>

-----------------------------------------------------------------------------
(***************************************************************************)
(* Logging in                                                              *)
(***************************************************************************)

\* verifyCredentials: the password that counts is the one read here.
VerifyCredentials(c) ==
  /\ pc[c] = "asked"
  /\ op[c] = "login"
  /\ since' = [since EXCEPT ![c] = epoch]
  /\ Goto(c, "verified")
  /\ UNCHANGED <<rowVars, expired, rowLock, epoch, historyVars, op, arg, seen,
                 out, got>>

\* Faulty variant: one family for all sessions of the customer.
MutStartMobileSession(c) ==
  /\ pc[c] = "verified"
  /\ \E n \in Token \ Issued :
       /\ row' = [row EXCEPT ![n] = "live"]
       /\ fam' = [fam EXCEPT ![n] = IF Issued = {} THEN n
                                   ELSE CHOOSE f \in Issued : fam[f] = f]
       /\ born' = [born EXCEPT ![n] = since[c]]
       /\ raced' = IF since[c] < epoch THEN raced \cup {n} ELSE raced
       /\ got' = [got EXCEPT ![c] = n]
  /\ Reply(c, "ok")
  /\ UNCHANGED <<next, expired, rowLock, epoch, swept, op, arg, since, seen>>

\* Faulty variant: the insert leaves the family out.
MutInsert(c) ==
  /\ pc[c] = "verified"
  /\ \E n \in Token \ Issued :
       /\ row' = [row EXCEPT ![n] = "live"]
       /\ born' = [born EXCEPT ![n] = since[c]]
       /\ raced' = IF since[c] < epoch THEN raced \cup {n} ELSE raced
       /\ got' = [got EXCEPT ![c] = n]
  /\ Reply(c, "ok")
  /\ UNCHANGED <<fam, next, expired, rowLock, epoch, swept, op, arg, since,
                 seen>>

\* startMobileSession: a new family.
StartMobileSession(c) ==
  /\ pc[c] = "verified"
  /\ \E n \in Token \ Issued :
       /\ row' = [row EXCEPT ![n] = "live"]
       /\ fam' = [fam EXCEPT ![n] = n]
       /\ born' = [born EXCEPT ![n] = since[c]]
       /\ raced' = IF since[c] < epoch THEN raced \cup {n} ELSE raced
       /\ got' = [got EXCEPT ![c] = n]
  /\ Reply(c, "ok")
  /\ UNCHANGED <<next, expired, rowLock, epoch, swept, op, arg, since, seen>>

-----------------------------------------------------------------------------
(***************************************************************************)
(* Exchanging a token                                                      *)
(***************************************************************************)

\* Faulty variant: SELECT without FOR UPDATE.
MutFindRefreshToken(c) ==
  LET t == arg[c] IN
  /\ pc[c] = "asked"
  /\ op[c] = "refresh"
  /\ \/ /\ row[t] = "revoked"
        /\ seen' = [seen EXCEPT ![c] = LiveOf(fam[t])]
        /\ Goto(c, "sweeping")
        /\ UNCHANGED <<rowLock, out>>
     \/ /\ row[t] = "live" /\ t \in expired
        /\ Reply(c, "expired")
        /\ UNCHANGED <<rowLock, seen>>
     \/ /\ row[t] = "live" /\ t \notin expired
        /\ Goto(c, "rotating")
        /\ UNCHANGED <<rowLock, seen, out>>
  /\ UNCHANGED <<rowVars, expired, epoch, historyVars, op, arg, since, got>>

\* The first statement of a refresh (findRefreshTokenByHash FOR UPDATE) and
\* what it decides.  A revoked token starts the UPDATE of its family.
FindRefreshToken(c) ==
  LET t == arg[c] IN
  /\ pc[c] = "asked"
  /\ op[c] = "refresh"
  /\ rowLock[t] = None
  /\ \/ /\ row[t] = "revoked"
        /\ rowLock' = [rowLock EXCEPT ![t] = c]
        /\ seen' = [seen EXCEPT ![c] = LiveOf(fam[t])]
        /\ Goto(c, "sweeping")
        /\ UNCHANGED out
     \/ /\ row[t] = "live" /\ t \in expired
        /\ Reply(c, "expired")
        /\ UNCHANGED <<rowLock, seen>>
     \/ /\ row[t] = "live" /\ t \notin expired
        /\ rowLock' = [rowLock EXCEPT ![t] = c]
        /\ Goto(c, "rotating")
        /\ UNCHANGED <<seen, out>>
  /\ UNCHANGED <<rowVars, expired, epoch, historyVars, op, arg, since, got>>

\* Faulty variant: the row lock outlives the transaction.
MutUnlock(c) == UNCHANGED rowLock

Unlock(c) ==
  rowLock' = [t \in Token |-> IF rowLock[t] = c THEN None ELSE rowLock[t]]

\* Faulty variant: the successor does not join the family.
MutRotate(c) ==
  LET t == arg[c] IN
  /\ pc[c] = "rotating"
  /\ \E n \in Token \ Issued :
       /\ row' = [row EXCEPT ![n] = "live", ![t] = "revoked"]
       /\ fam' = [fam EXCEPT ![n] = n]
       /\ next' = [next EXCEPT ![t] = n]
       /\ got' = [got EXCEPT ![c] = n]
  /\ raced' = IF \E s \in Call : pc[s] = "sweeping" /\ t \in seen[s]
                THEN raced \cup {fam[t]} ELSE raced
  /\ Unlock(c)
  /\ Reply(c, "ok")
  /\ UNCHANGED <<expired, epoch, born, swept, op, arg, since, seen>>

\* issueRefreshToken, markRefreshTokenRotated, commit.
Rotate(c) ==
  LET t == arg[c] IN
  /\ pc[c] = "rotating"
  /\ \E n \in Token \ Issued :
       /\ row' = [row EXCEPT ![n] = "live", ![t] = "revoked"]
       /\ fam' = [fam EXCEPT ![n] = fam[t]]
       /\ next' = [next EXCEPT ![t] = n]
       /\ got' = [got EXCEPT ![c] = n]
  /\ raced' = IF \E s \in Call : pc[s] = "sweeping" /\ t \in seen[s]
                THEN raced \cup {fam[t]} ELSE raced
  /\ Unlock(c)
  /\ Reply(c, "ok")
  /\ UNCHANGED <<expired, epoch, born, swept, op, arg, since, seen>>

-----------------------------------------------------------------------------
(***************************************************************************)
(* Revoking                                                                *)
(***************************************************************************)

\* updatePasswordHash, an UPDATE of its own.  Raising token_version, the next
\* one, ends access tokens and touches no refresh token.
ChangePassword(c) ==
  /\ pc[c] = "asked"
  /\ op[c] = "change"
  /\ epoch < MaxEpoch
  /\ epoch' = epoch + 1
  /\ since' = [since EXCEPT ![c] = epoch + 1]
  /\ Goto(c, "changed")
  /\ UNCHANGED <<rowVars, expired, rowLock, historyVars, op, arg, seen, out,
                 got>>

\* Faulty variant: a logout revokes only the token it carries.
MutScope(c) == IF op[c] = "logout" THEN Live \cap {arg[c]} ELSE Live

\* What logoutMobileSession (a family) and revokeAllRefreshTokensOfUser (all)
\* revoke.
Scope(c) == IF op[c] = "logout" THEN LiveOf(fam[arg[c]]) ELSE Live

BeginSweep(c) ==
  /\ \/ pc[c] = "asked" /\ op[c] \in {"logout", "everywhere"}
     \/ pc[c] = "changed"
  /\ seen' = [seen EXCEPT ![c] = Scope(c)]
  /\ Goto(c, "sweeping")
  /\ UNCHANGED <<rowVars, expired, rowLock, epoch, historyVars, op, arg,
                 since, out, got>>

\* Faulty variant: a row's lock is not waited for.
MutEndSweep(c) ==
  /\ pc[c] = "sweeping"
  /\ row' = [t \in Token |-> IF t \in seen[c] THEN "revoked" ELSE row[t]]
  /\ Unlock(c)
  /\ Reply(c, IF op[c] = "refresh" THEN "reused" ELSE "ok")
  /\ swept' = IF op[c] = "change" /\ since[c] > swept THEN since[c] ELSE swept
  /\ UNCHANGED <<fam, next, expired, epoch, born, raced, op, arg, since, seen,
                 got>>

\* The UPDATE gets to its rows and takes effect.
EndSweep(c) ==
  /\ pc[c] = "sweeping"
  /\ \A t \in seen[c] : rowLock[t] \in {None, c}
  /\ row' = [t \in Token |-> IF t \in seen[c] THEN "revoked" ELSE row[t]]
  /\ Unlock(c)
  /\ Reply(c, IF op[c] = "refresh" THEN "reused" ELSE "ok")
  /\ swept' = IF op[c] = "change" /\ since[c] > swept THEN since[c] ELSE swept
  /\ UNCHANGED <<fam, next, expired, epoch, born, raced, op, arg, since, seen,
                 got>>

-----------------------------------------------------------------------------
\* Thirty days have passed.
Expire(t) ==
  /\ row[t] # "unused"
  /\ t \notin expired
  /\ expired' = expired \cup {t}
  /\ UNCHANGED <<rowVars, rowLock, epoch, historyVars, op, pc, arg, since,
                 seen, out, got>>

\* A statement fails: the transaction, if any, is rolled back; a password that
\* is changed stays changed.
QueryError(c) ==
  /\ "query" \in Faults
  /\ pc[c] \notin {"idle", "answered"}
  /\ Unlock(c)
  /\ Reply(c, "error")
  /\ UNCHANGED <<rowVars, expired, epoch, historyVars, op, arg, since, seen,
                 got>>

CallStep(c) ==
  \/ VerifyCredentials(c)
  \/ StartMobileSession(c)
  \/ FindRefreshToken(c)
  \/ Rotate(c)
  \/ ChangePassword(c)
  \/ BeginSweep(c)
  \/ EndSweep(c)

\* Any request may carry any token that was ever handed out.
Arrive(c) ==
  \/ \E o \in {"login", "everywhere", "change"} : Ask(c, o, None)
  \/ \E o \in {"refresh", "logout"}, t \in Issued : Ask(c, o, t)

Next ==
  \/ \E c \in Call : Arrive(c) \/ CallStep(c) \/ QueryError(c)
  \/ \E t \in Token : Expire(t)

Spec == Init /\ [][Next]_serverVars

\* Requests that have arrived are worked on.
LiveSpec == Spec /\ \A c \in Call : WF_serverVars(CallStep(c))

-----------------------------------------------------------------------------
(***************************************************************************)
(* Properties                                                              *)
(***************************************************************************)
TypeOK ==
  /\ row \in [Token -> {"unused", "live", "revoked"}]
  /\ fam \in [Token -> Token \cup {None}]
  /\ next \in [Token -> Token \cup {None}]
  /\ expired \subseteq Token
  /\ rowLock \in [Token -> Call \cup {None}]
  /\ epoch \in 0..MaxEpoch
  /\ born \in [Token -> 0..MaxEpoch]
  /\ swept \in 0..MaxEpoch
  /\ raced \subseteq Token
  /\ op \in [Call -> Op \cup {"none"}]
  /\ pc \in [Call -> {"idle", "asked", "verified", "rotating", "changed",
                      "sweeping", "answered"}]
  /\ arg \in [Call -> Token \cup {None}]
  /\ since \in [Call -> 0..MaxEpoch]
  /\ seen \in [Call -> SUBSET Issued]
  /\ out \in [Call -> {"none", "ok", "reused", "expired", "error"}]
  /\ got \in [Call -> Token \cup {None}]
  /\ \A t \in Token : fam[t] = None <=> row[t] = "unused"
  /\ \A c \in Call : op[c] \in {"refresh", "logout"} => arg[c] \in Issued

\* Whatever is sent, however often and in parallel, a login has at most one
\* token that can be exchanged.
OneLivePerFamily ==
  \A t, u \in Live : fam[t] = fam[u] => t = u

\* A login loses its last live token only to an UPDATE that revoked it.
NeverLost ==
  \A f \in Issued : fam[f] = f /\ LiveOf(f) = {} =>
    \E c \in Call : out[c] \in {"ok", "reused"} /\ \E t \in seen[c] : fam[t] = f

\* The tokens of a login form one chain: only a revoked token has a successor,
\* in its own family, and no two tokens have the same one.
FamilyIsChain ==
  /\ \A t \in Token : next[t] # None =>
       row[t] = "revoked" /\ next[t] \in Issued /\ fam[next[t]] = fam[t]
  /\ \A t, u \in Token : next[t] = next[u] /\ next[t] # None => t = u

\* A login that was ended has no live token ever again.
EndedForGood ==
  [][\A f \in Token : fam[f] = f /\ LiveOf(f) = {} => LiveOf(f)' = {}]_rowVars

\* Revoking misses a token only if it was issued behind the UPDATE: to a
\* refresh that exchanged a row the UPDATE was about to revoke, or to a login
\* that had verified the old password.
SweepReaches ==
  /\ \A c \in Call :
       (op[c] = "logout" /\ out[c] = "ok") \/ out[c] = "reused"
         => LiveOf(fam[arg[c]]) = {} \/ fam[arg[c]] \in raced
  /\ \A t \in Live : born[fam[t]] < swept => fam[t] \in raced

\* A login is one chain of tokens with at most one live end.
FamiliesSound == OneLivePerFamily /\ FamilyIsChain

\* Revoking reaches every token it is meant for, and nothing else ends a login.
RevocationExact == NeverLost /\ SweepReaches

\* changePassword: every session from before has to log in again.
ChangeEndsSessions == \A t \in Live : born[fam[t]] >= swept

\* Every request is answered, each arriving once: no two of them wait for each
\* other's rows.  A change of password that the bound on them, MaxEpoch, does
\* not let begin is no request.
Unbegun(c) == op[c] = "change" /\ pc[c] = "asked" /\ epoch = MaxEpoch

EveryCallAnswered ==
  <>[]\A c \in Call : pc[c] \in {"idle", "answered"} \/ Unbegun(c)
=============================================================================
