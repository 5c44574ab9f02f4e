---------------------------- MODULE ClientsProofs ----------------------------
(***************************************************************************)
(* Theorems about MCClients: what the phone and the portals show and hold  *)
(* fits what the server told them.                                         *)
(***************************************************************************)
EXTENDS MCClients, FiniteSetTheorems, SequenceTheorems, TLAPS

-----------------------------------------------------------------------------
(***************************************************************************)
(* The tab of a portal (PortalSession).                                    *)
(***************************************************************************)
\* While the document starts, GET /me is its only request.
OnlyMe ==
  /\ loading <=> ~Free("me")
  /\ loading => /\ user = 0 /\ ~expiring
                /\ \A c \in CallName \ {"me"} : Free(c)
                /\ ~astray => calls["me"].with = jar

\* What can be under way beside a user, and beside a login: nothing that would
\* take the cookie away.
Orderly ==
  ~astray =>
    /\ user # 0 => jar = user /\ Free("clear")
    /\ ~Free("login") => user = 0 /\ Free("clear")
    /\ ~Free("logout") => expiring /\ user # 0 /\ Free("login")
    /\ (\E d \in DataCall : ~Free(d)) => user # 0 \/ expiring

\* A login that succeeded has a number.
Numbered == Answer("login") = "ok" => calls["login"].with # 0

PortalInv == PortalTypeOK /\ OnlyMe /\ Orderly /\ Numbered

\* The logins are the rows there are, and a further one gets the next number.
LEMMA LoginsCounted ==
  ASSUME PortalTypeOK
  PROVE  /\ Login = DOMAIN standing /\ Cardinality(Login) \in 0..MaxLogins
         /\ Login = 1..Cardinality(Login)
         /\ standing \in [Login -> {"ok", "locked", "void"}]
         /\ Login \subseteq Nat \ {0}
<1>1. PICK n \in 0..MaxLogins : standing \in [1..n -> {"ok", "locked", "void"}]
  BY DEF PortalTypeOK
<1>2. n \in Nat
  BY PortalAssumption
<1>3. Cardinality(1..n) = n
  <2>1. 1 \in Int /\ n \in Int
    BY <1>2
  <2>2. Cardinality(1..n) = IF 1 > n THEN 0 ELSE n - 1 + 1
    BY <2>1, FS_Interval
  <2>3. QED
    BY <1>2, <2>2
<1>4. DOMAIN standing = 1..n
  BY <1>1
<1>5. Login = 1..n
  BY <1>3, <1>4 DEF Login
<1>6. QED
  BY <1>1, <1>2, <1>3, <1>4, <1>5

\* The bound on what a user does.
LEMMA VisitsBounded ==
  ASSUME PortalTypeOK, Visit
  PROVE  visits' \in 0..MaxVisits
BY PortalAssumption DEF PortalTypeOK, Visit

\* Each action keeps the invariant of the tab, conjunct by conjunct.
LEMMA GuardKeepsPortal ==
  ASSUME PortalInv, Guard
  PROVE  PortalInv'
<1>1. Login' = Login
  BY DEF Guard, Login
<1>2. visits' \in 0..MaxVisits
  BY DEF PortalInv, PortalTypeOK, Guard
<1>3. PortalTypeOK'
  BY <1>1 DEF PortalInv, PortalTypeOK, Guard, Page
<1>4. OnlyMe'
  BY DEF PortalInv, OnlyMe, Guard, Free
<1>5. Orderly'
  BY DEF PortalInv, Orderly, Guard, Free
<1>6. Numbered'
  BY DEF PortalInv, Numbered, Guard, Answer
<1>7. QED
  BY <1>3, <1>4, <1>5, <1>6 DEF PortalInv

LEMMA NavigateKeepsPortal ==
  ASSUME PortalInv, Navigate
  PROVE  PortalInv'
<1>1. Login' = Login
  BY DEF Navigate, Login
<1>2. visits' \in 0..MaxVisits
  BY DEF PortalInv, PortalTypeOK, Navigate
<1>3. PortalTypeOK'
  BY <1>1 DEF PortalInv, PortalTypeOK, Navigate, Proxy, Page
<1>4. OnlyMe'
  BY DEF PortalInv, OnlyMe, Navigate, Free
<1>5. Orderly'
  BY DEF PortalInv, Orderly, Navigate, Free
<1>6. Numbered'
  BY DEF PortalInv, Numbered, Navigate, Answer
<1>7. QED
  BY <1>3, <1>4, <1>5, <1>6 DEF PortalInv

LEMMA TakeCookieKeepsPortal ==
  ASSUME PortalInv, TakeCookie
  PROVE  PortalInv'
<1>1. Login' = Login
  BY DEF TakeCookie, Login
<1>2. visits' \in 0..MaxVisits
  BY VisitsBounded DEF PortalInv, TakeCookie
<1>3. PortalTypeOK'
  BY <1>1, <1>2 DEF PortalInv, PortalTypeOK, TakeCookie
<1>4. OnlyMe'
  BY DEF PortalInv, OnlyMe, TakeCookie, Free
<1>5. Orderly'
  BY DEF Orderly, TakeCookie
<1>6. Numbered'
  BY DEF PortalInv, Numbered, TakeCookie, Answer
<1>7. QED
  BY <1>3, <1>4, <1>5, <1>6 DEF PortalInv

LEMMA ClearArrivesKeepsPortal ==
  ASSUME PortalInv, ClearArrives
  PROVE  PortalInv'
<1>1. Login' = Login
  BY DEF ClearArrives, Login
<1>2. visits' \in 0..MaxVisits
  BY DEF PortalInv, PortalTypeOK, ClearArrives
<1>3. PortalTypeOK'
  BY <1>1 DEF PortalInv, PortalTypeOK, ClearArrives, Cleared, Done, NoCall
<1>4. OnlyMe'
  BY DEF PortalInv, OnlyMe, ClearArrives, Done, Answered, Free, NoCall, CallName
<1>5. Orderly'
  BY DEF PortalInv, Orderly, ClearArrives, Done, Answered, Free, NoCall
<1>6. Numbered'
  BY DEF PortalInv, Numbered, ClearArrives, Done, Answer
<1>7. QED
  BY <1>3, <1>4, <1>5, <1>6 DEF PortalInv

LEMMA MeArrivesKeepsPortal ==
  ASSUME PortalInv, MeArrives
  PROVE  PortalInv'
<1>1. Login' = Login
  BY DEF MeArrives, Login
<1>2. visits' \in 0..MaxVisits
  BY DEF PortalInv, PortalTypeOK, MeArrives
<1>3. PortalTypeOK'
  BY <1>1 DEF PortalInv, PortalTypeOK, MeArrives, Done, Sent, NoCall, CallName
<1>4. OnlyMe'
  BY DEF PortalInv, PortalTypeOK, OnlyMe, MeArrives, Done, Free, CallName
<1>5. Orderly'
  BY PortalAssumption DEF PortalInv, OnlyMe, Orderly, MeArrives, Done, Answered, Free, NoCall,
     CallName
<1>6. Numbered'
  BY DEF PortalInv, Numbered, MeArrives, Done, Answer, CallName
<1>7. QED
  BY <1>3, <1>4, <1>5, <1>6 DEF PortalInv

LEMMA SignInKeepsPortal ==
  ASSUME PortalInv, SignIn
  PROVE  PortalInv'
<1>1. Login' = Login
  BY DEF SignIn, Login
<1>2. visits' \in 0..MaxVisits
  BY VisitsBounded DEF PortalInv, SignIn
<1>3. PortalTypeOK'
  BY <1>1, <1>2 DEF PortalInv, PortalTypeOK, SignIn, Sent
<1>4. OnlyMe'
  BY DEF PortalInv, OnlyMe, SignIn, Free
<1>5. Orderly'
  BY PortalAssumption DEF PortalInv, Orderly, SignIn, Free
<1>6. Numbered'
  BY DEF PortalInv, Numbered, SignIn, Answer, Sent
<1>7. QED
  BY <1>3, <1>4, <1>5, <1>6 DEF PortalInv

LEMMA SignedInKeepsPortal ==
  ASSUME PortalInv, SignedIn
  PROVE  PortalInv'
<1>1. Login' = Login
  BY DEF SignedIn, Login
<1>2. visits' \in 0..MaxVisits
  BY DEF PortalInv, PortalTypeOK, SignedIn
<1>3. PortalTypeOK'
  <2>1. calls["login"].with \in Login \cup {0}
    BY DEF PortalInv, PortalTypeOK, CallName
  <2>2. {jar', user'} \subseteq Login \cup {0}
    BY <2>1 DEF PortalInv, PortalTypeOK, SignedIn
  <2>3. expiring' \in BOOLEAN /\ loading' \in BOOLEAN
    BY DEF PortalInv, PortalTypeOK, SignedIn
  <2>4. astray' \in BOOLEAN
    BY Zenon DEF PortalInv, PortalTypeOK, SignedIn
  <2>5. page' \in Page /\ nav' \in Page \cup {"none"}
    BY DEF PortalInv, PortalTypeOK, SignedIn, Page
  <2>6. calls' \in [CallName -> [at : {"none", "sent", "answered"}, with : Login \cup {0},
                answer : {"none", "ok", "locked", "void", "empty", "lost"}]]
    BY DEF PortalInv, PortalTypeOK, SignedIn, Done, NoCall
  <2>7. standing' = standing
    BY DEF SignedIn
  <2>8. QED
    BY <1>1, <1>2, <2>2, <2>3, <2>4, <2>5, <2>6, <2>7 DEF PortalInv, PortalTypeOK
<1>4. OnlyMe'
  BY DEF PortalInv, OnlyMe, SignedIn, Done, Answer, Free, NoCall, CallName
<1>5. Orderly'
  BY DEF PortalInv, PortalTypeOK, Orderly, Numbered, SignedIn, Done, Free, NoCall, CallName
<1>6. Numbered'
  BY DEF PortalInv, Numbered, SignedIn, Done, Answer, NoCall
<1>7. QED
  BY <1>3, <1>4, <1>5, <1>6 DEF PortalInv

LEMMA SignOutKeepsPortal ==
  ASSUME PortalInv, SignOut
  PROVE  PortalInv'
<1>1. Login' = Login
  BY DEF SignOut, Login
<1>2. visits' \in 0..MaxVisits
  BY VisitsBounded DEF PortalInv, SignOut
<1>3. PortalTypeOK'
  BY <1>1, <1>2 DEF PortalInv, PortalTypeOK, SignOut, Sent
<1>4. OnlyMe'
  BY DEF PortalInv, OnlyMe, SignOut, Free
<1>5. Orderly'
  BY DEF PortalInv, Orderly, SignOut, Free
<1>6. Numbered'
  BY DEF PortalInv, Numbered, SignOut, Answer
<1>7. QED
  BY <1>3, <1>4, <1>5, <1>6 DEF PortalInv

LEMMA SignedOutKeepsPortal ==
  ASSUME PortalInv, SignedOut
  PROVE  PortalInv'
<1>1. Login' = Login
  BY DEF SignedOut, Login
<1>2. visits' \in 0..MaxVisits
  BY DEF PortalInv, PortalTypeOK, SignedOut
<1>3. PortalTypeOK'
  BY <1>1 DEF PortalInv, PortalTypeOK, SignedOut, Cleared, Done, NoCall, Page
<1>4. OnlyMe'
  BY DEF PortalInv, OnlyMe, SignedOut, Done, Answered, Free, NoCall, CallName
<1>5. Orderly'
  BY DEF PortalInv, PortalTypeOK, Orderly, SignedOut, Done, Answered, Free, NoCall, CallName
<1>6. Numbered'
  BY DEF PortalInv, Numbered, SignedOut, Done, Answer
<1>7. QED
  BY <1>3, <1>4, <1>5, <1>6 DEF PortalInv

LEMMA AskDataKeepsPortal ==
  ASSUME PortalInv, NEW d \in DataCall, AskData(d)
  PROVE  PortalInv'
<1>1. d \in CallName /\ d \notin {"me", "login", "logout", "clear", "refresh"}
  BY PortalAssumption DEF CallName
<1>2. Login' = Login
  BY DEF AskData, Login
<1>3. visits' \in 0..MaxVisits
  BY DEF PortalInv, PortalTypeOK, AskData
<1>4. PortalTypeOK'
  BY <1>2 DEF PortalInv, PortalTypeOK, AskData, Sent
<1>5. OnlyMe'
  BY PortalAssumption DEF PortalInv, OnlyMe, AskData, Free
<1>6. Orderly'
  BY PortalAssumption DEF PortalInv, Orderly, AskData, Free
<1>7. Numbered'
  BY <1>1 DEF PortalInv, Numbered, AskData, Answer
<1>8. QED
  BY <1>4, <1>5, <1>6, <1>7 DEF PortalInv

LEMMA DataArrivesKeepsPortal ==
  ASSUME PortalInv, NEW d \in DataCall, DataArrives(d)
  PROVE  PortalInv'
<1>1. d \in CallName /\ d \notin {"me", "login", "logout", "clear", "refresh"}
  BY PortalAssumption DEF CallName
<1>2. Login' = Login
  BY DEF DataArrives, Login
<1>3. visits' \in 0..MaxVisits
  BY DEF PortalInv, PortalTypeOK, DataArrives
<1>4. PortalTypeOK'
  <2>1. Done(d) \in [CallName -> [at : {"none", "sent", "answered"}, with : Login \cup {0},
                answer : {"none", "ok", "locked", "void", "empty", "lost"}]]
    BY <1>1 DEF PortalInv, PortalTypeOK, Done, NoCall
  <2>2. calls' \in [CallName -> [at : {"none", "sent", "answered"}, with : Login \cup {0},
                answer : {"none", "ok", "locked", "void", "empty", "lost"}]]
    BY <2>1 DEF PortalInv, PortalTypeOK, DataArrives, Sent
  <2>3. expiring' \in BOOLEAN /\ user' \in Login \cup {0} /\ nav' \in Page \cup {"none"}
    BY DEF PortalInv, PortalTypeOK, DataArrives, Page
  <2>4. QED
    BY <1>2, <2>2, <2>3 DEF PortalInv, PortalTypeOK, DataArrives
<1>5. OnlyMe'
  BY <1>1 DEF PortalInv, PortalTypeOK, OnlyMe, DataArrives, Done, Answer, Free, NoCall, CallName
<1>6. Orderly'
  <2>1. ASSUME Answer(d) \in {"void", "empty"}, ~expiring
        PROVE  Orderly'
    <3>1. expiring' /\ user' = 0 /\ astray' = astray
      BY <2>1 DEF DataArrives
    <3>2. calls' = [c \in CallName |-> IF c = "clear" THEN Sent ELSE Done(d)[c]]
      BY <2>1 DEF DataArrives
    <3>3. ~Free(d)
      BY DEF DataArrives, Answered, Free, NoCall
    <3>4. ~astray => Free("login") /\ Free("logout")
      BY <2>1, <3>3 DEF PortalInv, Orderly
    <3>5. ~astray' => Free("login")' /\ Free("logout")'
      BY <1>1, <3>1, <3>2, <3>4, PortalAssumption DEF Free, Done, NoCall, CallName
    <3>6. QED
      BY <3>1, <3>5 DEF Orderly
  <2>2. ASSUME ~(Answer(d) \in {"void", "empty"} /\ ~expiring)
        PROVE  Orderly'
    <3>1. calls' = Done(d) /\ UNCHANGED <<jar, expiring, user, astray>>
      BY <2>2 DEF DataArrives
    <3>2. \A c \in CallName : Free(c) => Free(c)'
      BY <1>1, <3>1 DEF PortalInv, PortalTypeOK, Free, Done, NoCall
    <3>3. QED
      BY <1>1, <3>1, <3>2, PortalAssumption DEF PortalInv, Orderly, CallName
  <2>3. QED
    BY <2>1, <2>2
<1>7. Numbered'
  BY <1>1 DEF PortalInv, PortalTypeOK, Numbered, DataArrives, Done, Answer, CallName
<1>8. QED
  BY <1>4, <1>5, <1>6, <1>7 DEF PortalInv

LEMMA RefreshUserKeepsPortal ==
  ASSUME PortalInv, RefreshUser
  PROVE  PortalInv'
<1>1. Login' = Login
  BY DEF RefreshUser, Login
<1>2. visits' \in 0..MaxVisits
  BY VisitsBounded DEF PortalInv, RefreshUser
<1>3. PortalTypeOK'
  BY <1>1, <1>2 DEF PortalInv, PortalTypeOK, RefreshUser, Sent
<1>4. OnlyMe'
  BY DEF PortalInv, OnlyMe, RefreshUser, Free
<1>5. Orderly'
  BY DEF PortalInv, Orderly, RefreshUser, Free
<1>6. Numbered'
  BY DEF PortalInv, Numbered, RefreshUser, Answer
<1>7. QED
  BY <1>3, <1>4, <1>5, <1>6 DEF PortalInv

LEMMA UserRefreshedKeepsPortal ==
  ASSUME PortalInv, UserRefreshed
  PROVE  PortalInv'
<1>1. Login' = Login
  BY DEF UserRefreshed, Login
<1>2. visits' \in 0..MaxVisits
  BY DEF PortalInv, PortalTypeOK, UserRefreshed
<1>3. PortalTypeOK'
  BY <1>1 DEF PortalInv, PortalTypeOK, UserRefreshed, Done, Answer, NoCall, CallName
<1>4. OnlyMe'
  BY DEF PortalInv, OnlyMe, UserRefreshed, Done, Answer, Free, NoCall, CallName
<1>5. Orderly'
  BY DEF PortalInv, PortalTypeOK, Orderly, UserRefreshed, Done, Free, CallName
<1>6. Numbered'
  BY DEF PortalInv, Numbered, UserRefreshed, Done, Answer
<1>7. QED
  BY <1>3, <1>4, <1>5, <1>6 DEF PortalInv

LEMMA LoseKeepsPortal ==
  ASSUME PortalInv, NEW c \in CallName, Lose(c)
  PROVE  PortalInv'
<1>1. Login' = Login
  BY DEF Lose, Login
<1>2. visits' \in 0..MaxVisits
  BY VisitsBounded DEF PortalInv, Lose
<1>3. PortalTypeOK'
  BY <1>1, <1>2 DEF PortalInv, PortalTypeOK, Lose, AnsweredBy
<1>4. OnlyMe'
  BY DEF PortalInv, OnlyMe, Lose, AnsweredBy, Free, NoCall
<1>5. Orderly'
  BY DEF PortalInv, Orderly, Lose, AnsweredBy, Free, NoCall
<1>6. Numbered'
  BY DEF PortalInv, Numbered, Lose, AnsweredBy, Answer
<1>7. QED
  BY <1>3, <1>4, <1>5, <1>6 DEF PortalInv

LEMMA LoadKeepsPortal ==
  ASSUME PortalInv, NEW t \in Page, Load(t)
  PROVE  PortalInv'
<1>1. Login' = Login
  BY DEF Load, Login
<1>2. visits' \in 0..MaxVisits
  BY VisitsBounded DEF PortalInv, Load
<1>3. PortalTypeOK'
  BY <1>1, <1>2 DEF PortalInv, PortalTypeOK, Load, Proxy, Sent, NoCall, Page
<1>4. OnlyMe'
  BY DEF OnlyMe, Load, Free, Sent, NoCall, CallName
<1>5. Orderly'
  BY PortalAssumption DEF Orderly, Load, Free, CallName
<1>6. Numbered'
  BY DEF Numbered, Load, Answer, NoCall, CallName
<1>7. QED
  BY <1>3, <1>4, <1>5, <1>6 DEF PortalInv

LEMMA RevokeKeepsPortal ==
  ASSUME PortalInv, NEW l \in Login, Revoke(l)
  PROVE  PortalInv'
<1>1. standing' \in UNION {[1..n -> {"ok", "locked", "void"}] : n \in 0..MaxLogins}
      /\ DOMAIN standing' = DOMAIN standing
  <2>1. PICK n \in 0..MaxLogins : standing \in [1..n -> {"ok", "locked", "void"}]
    BY DEF PortalInv, PortalTypeOK
  <2>2. standing' \in [1..n -> {"ok", "locked", "void"}]
    BY <2>1 DEF Revoke
  <2>3. QED
    BY <2>1, <2>2
<1>2. Login' = Login
  BY <1>1 DEF Login
<1>3. visits' \in 0..MaxVisits
  BY VisitsBounded DEF PortalInv, Revoke
<1>4. PortalTypeOK'
  BY <1>1, <1>2, <1>3 DEF PortalInv, PortalTypeOK, Revoke
<1>5. OnlyMe' /\ Orderly' /\ Numbered'
  BY DEF PortalInv, OnlyMe, Orderly, Numbered, Answer, Free, Revoke
<1>6. QED
  BY <1>4, <1>5 DEF PortalInv

\* An answer is one of those a call can have.
LEMMA AnswersFit ==
  ASSUME PortalTypeOK, NEW c \in CallName
  PROVE  (IF calls[c].with = 0 THEN "empty" ELSE standing[calls[c].with])
            \in {"ok", "locked", "void", "empty"}
<1>1. calls[c].with \in Login \cup {0}
  BY DEF PortalTypeOK
<1>2. standing \in [Login -> {"ok", "locked", "void"}]
  BY LoginsCounted
<1>3. QED
  BY <1>1, <1>2

LEMMA ServeKeepsPortal ==
  ASSUME PortalInv, NEW c \in CallName, Serve(c)
  PROVE  PortalInv'
<1>. DEFINE Grows ==
       /\ c = "login" /\ Cardinality(Login) < MaxLogins
       /\ standing' = [l \in Login \cup {Cardinality(Login) + 1} |->
                         IF l \in Login THEN standing[l] ELSE "ok"]
       /\ calls' = [calls EXCEPT ![c] =
             [at |-> "answered", with |-> Cardinality(Login) + 1, answer |-> "ok"]]
<1>1. CASE ~Grows
  <2>1. \/ c = "login" /\ calls' = AnsweredBy(c, "void") /\ UNCHANGED standing
        \/ c \in {"logout", "clear"} /\ calls' = AnsweredBy(c, "ok") /\ UNCHANGED standing
        \/ /\ c \in {"me", "refresh"} \cup DataCall
           /\ calls' = AnsweredBy(c, IF calls[c].with = 0 THEN "empty"
                                    ELSE standing[calls[c].with])
           /\ UNCHANGED standing
    BY <1>1 DEF Serve
  <2>2. Login' = Login /\ UNCHANGED standing
    BY <2>1 DEF Login
  <2>3. PICK a \in {"ok", "locked", "void", "empty"} :
          calls' = AnsweredBy(c, a) /\ (c = "login" => a = "void")
    <3>1. ASSUME c \in {"me", "refresh"} \cup DataCall
          PROVE  c # "login"
      BY <3>1, PortalAssumption
    <3>2. PortalTypeOK
      BY DEF PortalInv
    <3>3. QED
      BY <2>1, <3>1, <3>2, AnswersFit
  <2>4. PortalTypeOK'
    BY <2>2, <2>3 DEF PortalInv, PortalTypeOK, Serve, AnsweredBy
  <2>5. calls[c].at = "sent"
    BY DEF Serve
  <2>6. OnlyMe'
    BY <2>3 DEF PortalInv, OnlyMe, Serve, AnsweredBy, Free, NoCall
  <2>7. Orderly'
    BY <2>3 DEF PortalInv, Orderly, Serve, AnsweredBy, Free, NoCall
  <2>8. Numbered'
    BY <2>3 DEF PortalInv, Numbered, AnsweredBy, Answer
  <2>9. QED
    BY <2>4, <2>6, <2>7, <2>8 DEF PortalInv
<1>2. CASE Grows
  <2>. DEFINE n == Cardinality(Login)
  <2>1. /\ c = "login" /\ n < MaxLogins
        /\ standing' = [l \in Login \cup {n + 1} |-> IF l \in Login THEN standing[l] ELSE "ok"]
        /\ calls' = [calls EXCEPT ![c] =
             [at |-> "answered", with |-> n + 1, answer |-> "ok"]]
    BY <1>2
  <2>2. n \in 0..MaxLogins /\ Login = 1..n /\ standing \in [Login -> {"ok", "locked", "void"}]
    BY LoginsCounted DEF PortalInv
  <2>. HIDE DEF n
  <2>3. n + 1 \in 0..MaxLogins /\ Login \cup {n + 1} = 1..(n + 1)
    BY <2>1, <2>2, PortalAssumption
  <2>4. standing' \in [1..(n + 1) -> {"ok", "locked", "void"}]
    BY <2>1, <2>2, <2>3
  <2>5. Login' = 1..(n + 1)
    <3>1. 1 \in Int /\ n + 1 \in Int /\ n + 1 >= 1
      BY <2>2, PortalAssumption
    <3>2. Cardinality(1..(n + 1)) = IF 1 > n + 1 THEN 0 ELSE (n + 1) - 1 + 1
      BY <3>1, FS_Interval
    <3>3. Cardinality(1..(n + 1)) = n + 1
      BY <3>1, <3>2
    <3>4. DOMAIN standing' = 1..(n + 1)
      BY <2>4
    <3>5. QED
      BY <3>3, <3>4 DEF Login
  <2>6. Login \subseteq Login' /\ n + 1 \in Login'
    BY <2>2, <2>3, <2>5
  <2>7. standing' \in UNION {[1..m -> {"ok", "locked", "void"}] : m \in 0..MaxLogins}
    BY <2>3, <2>4
  <2>8. PortalTypeOK'
    BY <2>1, <2>6, <2>7 DEF PortalInv, PortalTypeOK, Serve
  <2>9. calls[c].at = "sent"
    BY DEF Serve
  <2>10. OnlyMe'
    BY <2>1 DEF PortalInv, OnlyMe, Serve, Free, NoCall
  <2>11. Orderly'
    BY <2>1 DEF PortalInv, Orderly, Serve, Free, NoCall
  <2>12. Numbered'
    BY <2>1, <2>2 DEF PortalInv, Numbered, Answer
  <2>13. QED
    BY <2>8, <2>10, <2>11, <2>12 DEF PortalInv
<1>3. QED
  BY <1>1, <1>2

\* A step of the tab.
LEMMA PortalStep ==
  ASSUME PortalInv, PortalNext
  PROVE  PortalInv'
<1>1. CASE Arrives
  BY <1>1, ClearArrivesKeepsPortal, MeArrivesKeepsPortal, SignedInKeepsPortal,
     SignedOutKeepsPortal, UserRefreshedKeepsPortal, DataArrivesKeepsPortal DEF Arrives
<1>2. CASE ~Arrives
  BY <1>2, LoadKeepsPortal, GuardKeepsPortal, NavigateKeepsPortal, ServeKeepsPortal,
     LoseKeepsPortal, RevokeKeepsPortal, TakeCookieKeepsPortal, SignInKeepsPortal,
     SignOutKeepsPortal, RefreshUserKeepsPortal, AskDataKeepsPortal DEF PortalNext
<1>3. QED
  BY <1>1, <1>2

\* A step of another part.
LEMMA PortalStutter ==
  ASSUME PortalInv, UNCHANGED portalVars
  PROVE  PortalInv'
BY DEF PortalInv, PortalTypeOK, Login, OnlyMe, Orderly, Numbered, Free, Answer, portalVars

\* The tab is opened.
LEMMA PortalStarts ==
  ASSUME PortalInit
  PROVE  PortalInv
<1>1. standing \in [1..0 -> {"ok", "locked", "void"}]
  BY DEF PortalInit
<1>2. PortalTypeOK
  <2>1. standing \in UNION {[1..n -> {"ok", "locked", "void"}] : n \in 0..MaxLogins}
    BY <1>1, PortalAssumption
  <2>2. visits \in 0..MaxVisits
    BY PortalAssumption DEF PortalInit
  <2>3. calls \in [CallName -> [at : {"none", "sent", "answered"}, with : Login \cup {0},
                answer : {"none", "ok", "locked", "void", "empty", "lost"}]]
    BY DEF PortalInit, NoCall
  <2>4. {jar, user} \subseteq Login \cup {0} /\ {loading, expiring, astray} \subseteq BOOLEAN
    BY DEF PortalInit
  <2>5. page \in Page /\ nav \in Page \cup {"none"}
    BY DEF PortalInit, Page
  <2>6. QED
    BY <2>1, <2>2, <2>3, <2>4, <2>5 DEF PortalTypeOK
<1>3. OnlyMe /\ Orderly /\ Numbered
  BY DEF PortalInit, OnlyMe, Orderly, Numbered, Free, Answer, NoCall, CallName
<1>4. QED
  BY <1>2, <1>3 DEF PortalInv

\* What the invariant is for: the cookie is the user's.
LEMMA PortalSound ==
  ASSUME PortalInv
  PROVE  PortalTypeOK /\ CookieIsUsers
BY DEF PortalInv, Orderly, CookieIsUsers

-----------------------------------------------------------------------------
(***************************************************************************)
(* The picture of a relay (LiveHome).                                      *)
(***************************************************************************)
\* The conjuncts of LiveTypeOK.
SourceTypes ==
  /\ {built, polling} \subseteq BOOLEAN
  /\ gen \in 0..MaxTurns /\ channel \in 0..MaxTurns
  /\ phase \in [Generation -> {"none", "token", "opening", "greeting", "live",
                               "dead", "recovering", "waiting", "over"}]
  /\ status \in {"disconnected", "connecting", "connected"}
  /\ refusals \in 0..2 /\ stopping \in 0..MaxTurns
  /\ peer \in {"none", "open", "ready", "gone"}

BackendTypes ==
  /\ hist \in Seq(BOOLEAN) /\ Present \in Version
  /\ due \subseteq Version /\ told \subseteq Version \X Version
  /\ wire \in Seq(Message)

ScreenTypes ==
  /\ {blocked, undone, missed} \subseteq BOOLEAN
  /\ fetch \in [Slot -> [st : {"idle", "asked", "read"}, i : Version \cup {0}]]
  /\ shown \in BOOLEAN /\ {base, peak} \subseteq Version
  /\ turns \in 0..MaxTurns

CommandTypes ==
  cmd \in [at : {"none", "asked", "acked", "refused", "answered"},
           pending : BOOLEAN, touched : BOOLEAN, want : BOOLEAN,
           n : Version \cup {0}, i : Version \cup {0}]

\* Every turn starts at most one generation, or makes at most one version.
Counted ==
  /\ gen + Present + (IF cmd.at = "asked" THEN 1 ELSE 0) <= turns + 1
  /\ stopping + (IF built THEN 1 ELSE 0) <= gen

\* A socket carries versions that exist; the news of its end is in it.
Carries(w, n) ==
  w \in Seq(Message) /\ \A k \in 1..Len(w) : w[k].t = "state" => w[k].i \in 1..n
Ends(w) == \E k \in 1..Len(w) : w[k].t \in {"bye", "refused"}

\* Every version on its way exists.
Versions ==
  /\ \A e \in told : e[2] \in 1..Present
  /\ \A s \in Slot : fetch[s].st = "read" => fetch[s].i \in 1..Present
  /\ Carries(wire, Present)
  /\ cmd.at = "answered" => cmd.i \in 1..Present

Socket ==
  /\ ~built => peer = "none"
  /\ peer \in {"none", "open"} => wire = <<>>
  /\ peer = "gone" => Ends(wire)

\* Where the current generation stands, the socket and the timer fit it.
Phased ==
  built =>
    /\ gen >= 1
    /\ polling <=> status # "connected"
    /\ phase[gen] \in {"token", "opening", "recovering", "waiting", "dead"} => peer = "none"
    /\ phase[gen] = "live" => peer \in {"ready", "gone"}
    /\ phase[gen] = "dead" => channel # gen
    /\ status = "connected" => phase[gen] \in {"live", "dead"}

PictureInv ==
  /\ SourceTypes /\ BackendTypes /\ ScreenTypes /\ CommandTypes
  /\ Counted /\ Versions /\ Socket /\ Phased

\* A further message on the socket.
LEMMA WireGrows ==
  ASSUME NEW n \in Nat, NEW w, Carries(w, n), NEW m \in Message, m.t = "state" => m.i \in 1..n
  PROVE  /\ Carries(Append(w, m), n)
         /\ Ends(w) \/ m.t \in {"bye", "refused"} => Ends(Append(w, m))
<1>1. /\ Append(w, m) \in Seq(Message) /\ Len(Append(w, m)) = Len(w) + 1 /\ Len(w) \in Nat
      /\ \A i \in 1..Len(w) : Append(w, m)[i] = w[i]
      /\ Append(w, m)[Len(w) + 1] = m
  BY AppendProperties, LenProperties DEF Carries
<1>. DEFINE v == Append(w, m)
<1>. HIDE DEF v
<1>2. QED
  BY <1>1 DEF Carries, Ends

\* The first message leaves the socket.
LEMMA WireShrinks ==
  ASSUME NEW n \in Nat, NEW w, Carries(w, n), w # <<>>
  PROVE  /\ Carries(Tail(w), n)
         /\ Head(w) \in Message /\ (Head(w).t = "state" => Head(w).i \in 1..n)
         /\ Ends(w) /\ Head(w).t \notin {"bye", "refused"} => Ends(Tail(w))
<1>1. /\ Tail(w) \in Seq(Message) /\ Len(Tail(w)) = Len(w) - 1
      /\ \A i \in 1..Len(Tail(w)) : Tail(w)[i] = w[i + 1]
      /\ Head(w) \in Message
  BY HeadTailProperties DEF Carries
<1>2. Len(w) \in Nat \ {0} /\ Head(w) = w[1]
  BY EmptySeq DEF Carries
<1>3. Carries(Tail(w), n)
  BY <1>1, <1>2 DEF Carries
<1>4. ASSUME Ends(w), Head(w).t \notin {"bye", "refused"}
      PROVE  Ends(Tail(w))
  <2>1. PICK k \in 1..Len(w) : w[k].t \in {"bye", "refused"}
    BY <1>4 DEF Ends
  <2>2. k # 1
    BY <1>2, <1>4, <2>1
  <2>3. k - 1 \in 1..Len(Tail(w)) /\ Tail(w)[k - 1] = w[k]
    BY <1>1, <1>2, <2>2
  <2>4. QED
    BY <2>1, <2>3 DEF Ends
<1>5. Head(w).t = "state" => Head(w).i \in 1..n
  BY <1>2 DEF Carries
<1>6. QED
  BY <1>1, <1>3, <1>4, <1>5

\* A socket that carries nothing.
LEMMA EmptyWire ==
  ASSUME NEW n \in Nat
  PROVE  Carries(<<>>, n)
<1>1. <<>> \in Seq(Message) /\ Len(<<>>) = 0
  BY EmptySeq
<1>2. QED
  BY <1>1 DEF Carries

\* A socket that carries the news of its end.
LEMMA OneMessage ==
  ASSUME NEW n \in Nat, NEW m \in Message, m.t # "state"
  PROVE  Carries(<<m>>, n) /\ (m.t \in {"bye", "refused"} => Ends(<<m>>))
BY DEF Carries, Ends

\* More versions do a socket no harm.
LEMMA WireLasts ==
  ASSUME NEW n \in Nat, NEW m \in Nat, n <= m, NEW w, Carries(w, n)
  PROVE  Carries(w, m)
BY DEF Carries

\* The bound on what the world does.
LEMMA TurnsBounded ==
  ASSUME ScreenTypes, Turn \/ Trouble
  PROVE  turns' \in 0..MaxTurns /\ turns' \in {turns, turns + 1} /\ (Turn => turns' = turns + 1)
BY LiveHomeAssumption DEF ScreenTypes, Turn, Trouble

\* A generation goes on, and the others stay where they are.
LEMMA PhasesFit ==
  ASSUME SourceTypes, NEW g \in Generation,
         NEW p \in {"none", "token", "opening", "greeting", "live",
                    "dead", "recovering", "waiting", "over"}, Goes(g, p)
  PROVE  /\ phase' \in [Generation -> {"none", "token", "opening", "greeting", "live",
                               "dead", "recovering", "waiting", "over"}]
         /\ phase'[g] = p /\ \A h \in Generation \ {g} : phase'[h] = phase[h]
BY DEF SourceTypes, Goes

\* A version comes to the screen.
LEMMA ShownFits ==
  ASSUME BackendTypes, NEW i \in 1..Present, base \in Version, peak \in Version, Picture(i)
  PROVE  shown' \in BOOLEAN /\ base' \in Version /\ peak' \in Version /\ undone' = FALSE
<1>1. hist[i] \in BOOLEAN /\ i \in Version
  BY ElementOfSeq, LiveHomeAssumption DEF BackendTypes, Present, Version
<1>2. QED
  BY <1>1 DEF Picture, Reached

\* Each action keeps the invariant of the picture, conjunct by conjunct.
LEMMA BuildKeepsPicture ==
  ASSUME PictureInv, Build
  PROVE  PictureInv'
<1>. /\ SourceTypes /\ BackendTypes /\ ScreenTypes /\ CommandTypes
     /\ Counted /\ Versions /\ Socket /\ Phased /\ MaxTurns \in Nat
  BY LiveHomeAssumption DEF PictureInv
<1>1. turns' \in 0..MaxTurns /\ turns' = turns + 1
  BY TurnsBounded DEF Build
<1>2. gen + 1 \in Generation
  BY <1>1 DEF Counted, SourceTypes, BackendTypes, Generation, Version
<1>3. Counted'
  BY <1>1 DEF SourceTypes, Counted, Present, Build, backendVars
<1>4. SourceTypes'
  <2>1. Goes(gen + 1, "token")
    BY DEF Build
  <2>2. QED
    BY <1>2, PhasesFit DEF SourceTypes, Build, Generation
<1>5. Versions'
  BY DEF Versions, Present, Build, backendVars
<1>6. BackendTypes'
  BY DEF BackendTypes, Present, Build, backendVars
<1>7. ScreenTypes'
  BY <1>1 DEF ScreenTypes, Build, pictureVars
<1>8. CommandTypes'
  BY DEF CommandTypes, Build
<1>9. Socket'
  BY DEF Socket, Build
<1>10. Phased'
  BY <1>1 DEF SourceTypes, BackendTypes, Counted, Socket, Phased, Version, Generation, Build,
     Goes
<1>11. QED
  BY <1>3, <1>4, <1>5, <1>6, <1>7, <1>8, <1>9, <1>10 DEF PictureInv

LEMMA TeardownKeepsPicture ==
  ASSUME PictureInv, Teardown
  PROVE  PictureInv'
<1>. /\ SourceTypes /\ BackendTypes /\ ScreenTypes /\ CommandTypes
     /\ Counted /\ Versions /\ Socket /\ Phased /\ MaxTurns \in Nat
  BY LiveHomeAssumption DEF PictureInv
<1>1. Carries(<<>>, Present)
  BY EmptyWire DEF BackendTypes, Version
<1>2. built /\ gen \in Generation
  BY DEF Teardown, Phased, SourceTypes, Generation
<1>3. Counted'
  BY DEF Counted, Present, Teardown, backendVars
<1>4. SourceTypes'
  <2>1. phase' \in [Generation -> {"none", "token", "opening", "greeting", "live",
                               "dead", "recovering", "waiting", "over"}]
    BY <1>2, PhasesFit DEF Teardown, SourceTypes
  <2>2. stopping' = stopping + 1 /\ stopping + 1 <= gen
    BY <1>2 DEF Teardown, Counted, SourceTypes
  <2>3. /\ built' = FALSE /\ polling' = FALSE /\ channel' = 0 /\ peer' = "none"
        /\ UNCHANGED <<gen, status, refusals>>
    BY DEF Teardown
  <2>4. stopping' \in 0..MaxTurns
    BY <2>2 DEF SourceTypes
  <2>5. {built', polling'} \subseteq BOOLEAN
    BY <2>3
  <2>6. gen' \in 0..MaxTurns /\ channel' \in 0..MaxTurns /\ refusals' \in 0..2
    BY <2>3 DEF SourceTypes
  <2>7. status' \in {"disconnected", "connecting", "connected"}
        /\ peer' \in {"none", "open", "ready", "gone"}
    BY <2>3 DEF SourceTypes
  <2>8. QED
    BY <2>1, <2>4, <2>5, <2>6, <2>7 DEF SourceTypes
<1>5. Versions'
  BY <1>1 DEF Versions, Present, Teardown, backendVars
<1>6. BackendTypes'
  BY DEF BackendTypes, Present, Teardown, backendVars
<1>7. ScreenTypes'
  BY DEF ScreenTypes, Teardown, pictureVars
<1>8. CommandTypes'
  BY DEF CommandTypes, Teardown
<1>9. Socket'
  BY DEF Socket, Teardown
<1>10. Phased'
  BY DEF Phased, Teardown
<1>11. QED
  BY <1>3, <1>4, <1>5, <1>6, <1>7, <1>8, <1>9, <1>10 DEF PictureInv

LEMMA StopEndsKeepsPicture ==
  ASSUME PictureInv, StopEnds
  PROVE  PictureInv'
<1>. /\ SourceTypes /\ BackendTypes /\ ScreenTypes /\ CommandTypes
     /\ Counted /\ Versions /\ Socket /\ Phased /\ MaxTurns \in Nat
  BY LiveHomeAssumption DEF PictureInv
<1>1. Counted'
  BY DEF SourceTypes, Counted, Present, StopEnds, backendVars
<1>2. SourceTypes'
  BY DEF SourceTypes, StopEnds, SetStatus
<1>3. Versions'
  BY DEF Versions, Present, StopEnds, backendVars
<1>4. BackendTypes'
  BY DEF BackendTypes, Present, StopEnds, backendVars
<1>5. ScreenTypes'
  BY DEF ScreenTypes, StopEnds, pictureVars
<1>6. CommandTypes'
  BY DEF CommandTypes, StopEnds
<1>7. Socket'
  BY DEF Socket, StopEnds
<1>8. Phased'
  BY DEF Phased, StopEnds, SetStatus
<1>9. QED
  BY <1>1, <1>2, <1>3, <1>4, <1>5, <1>6, <1>7, <1>8 DEF PictureInv

LEMMA TokenReadKeepsPicture ==
  ASSUME PictureInv, NEW g \in Generation, TokenRead(g)
  PROVE  PictureInv'
<1>. /\ SourceTypes /\ BackendTypes /\ ScreenTypes /\ CommandTypes
     /\ Counted /\ Versions /\ Socket /\ Phased /\ MaxTurns \in Nat
  BY LiveHomeAssumption DEF PictureInv
<1>1. turns' \in 0..MaxTurns /\ turns' \in {turns, turns + 1}
  BY TurnsBounded DEF TokenRead, ScreenTypes
<1>2. Counted'
  BY <1>1 DEF SourceTypes, Counted, Present, TokenRead, backendVars
<1>3. SourceTypes'
  BY DEF SourceTypes, TokenRead, Goes, Current, Abandon, Retry, SetStatus
<1>4. Versions'
  BY DEF Versions, Present, TokenRead, backendVars
<1>5. BackendTypes'
  BY DEF BackendTypes, Present, TokenRead, backendVars
<1>6. ScreenTypes'
  BY <1>1 DEF ScreenTypes, TokenRead, pictureVars
<1>7. CommandTypes'
  BY DEF CommandTypes, TokenRead
<1>8. Socket'
  BY DEF Socket, TokenRead
<1>9. Phased'
  BY DEF SourceTypes, Phased, Generation, TokenRead, Goes, Current, Abandon, Retry, SetStatus
<1>10. QED
  BY <1>2, <1>3, <1>4, <1>5, <1>6, <1>7, <1>8, <1>9 DEF PictureInv

LEMMA OpenedKeepsPicture ==
  ASSUME PictureInv, NEW g \in Generation, Opened(g)
  PROVE  PictureInv'
<1>. /\ SourceTypes /\ BackendTypes /\ ScreenTypes /\ CommandTypes
     /\ Counted /\ Versions /\ Socket /\ Phased /\ MaxTurns \in Nat
  BY LiveHomeAssumption DEF PictureInv
<1>1. Counted'
  BY DEF Counted, Present, Opened, backendVars
<1>2. SourceTypes'
  BY DEF SourceTypes, Opened, Goes, Abandon
<1>3. Versions'
  BY DEF Versions, Present, Opened, backendVars
<1>4. BackendTypes'
  BY DEF BackendTypes, Present, Opened, backendVars
<1>5. ScreenTypes'
  BY DEF ScreenTypes, Opened, pictureVars
<1>6. CommandTypes'
  BY DEF CommandTypes, Opened
<1>7. Socket'
  BY DEF Socket, Phased, Opened, Current
<1>8. Phased'
  BY DEF SourceTypes, Phased, Generation, Opened, Goes, Current, Abandon
<1>9. QED
  BY <1>1, <1>2, <1>3, <1>4, <1>5, <1>6, <1>7, <1>8 DEF PictureInv

LEMMA OpenFailsKeepsPicture ==
  ASSUME PictureInv, NEW g \in Generation, OpenFails(g)
  PROVE  PictureInv'
<1>. /\ SourceTypes /\ BackendTypes /\ ScreenTypes /\ CommandTypes
     /\ Counted /\ Versions /\ Socket /\ Phased /\ MaxTurns \in Nat
  BY LiveHomeAssumption DEF PictureInv
<1>1. turns' \in 0..MaxTurns /\ turns' \in {turns, turns + 1}
  BY TurnsBounded DEF OpenFails, ScreenTypes
<1>2. Counted'
  BY <1>1 DEF SourceTypes, Counted, Present, OpenFails, backendVars
<1>3. SourceTypes'
  BY DEF SourceTypes, OpenFails, Goes, Abandon, Retry, SetStatus
<1>4. Versions'
  BY DEF Versions, Present, OpenFails, backendVars
<1>5. BackendTypes'
  BY DEF BackendTypes, Present, OpenFails, backendVars
<1>6. ScreenTypes'
  BY <1>1 DEF ScreenTypes, OpenFails, pictureVars
<1>7. CommandTypes'
  BY DEF CommandTypes, OpenFails
<1>8. Socket'
  BY DEF Socket, OpenFails
<1>9. Phased'
  BY DEF SourceTypes, Phased, Generation, OpenFails, Goes, Current, Abandon, Retry, SetStatus
<1>10. QED
  BY <1>2, <1>3, <1>4, <1>5, <1>6, <1>7, <1>8, <1>9 DEF PictureInv

LEMMA RecoveredKeepsPicture ==
  ASSUME PictureInv, NEW g \in Generation, Recovered(g)
  PROVE  PictureInv'
<1>. /\ SourceTypes /\ BackendTypes /\ ScreenTypes /\ CommandTypes
     /\ Counted /\ Versions /\ Socket /\ Phased /\ MaxTurns \in Nat
  BY LiveHomeAssumption DEF PictureInv
<1>1. Counted'
  BY DEF Counted, Present, Recovered, backendVars
<1>2. SourceTypes'
  BY DEF SourceTypes, Recovered, Goes, Abandon, Retry, Connect, SetStatus
<1>3. Versions'
  BY DEF Versions, Present, Recovered, backendVars
<1>4. BackendTypes'
  BY DEF BackendTypes, Present, Recovered, backendVars
<1>5. ScreenTypes'
  BY DEF ScreenTypes, Recovered, pictureVars
<1>6. CommandTypes'
  BY DEF CommandTypes, Recovered
<1>7. Socket'
  BY DEF Socket, Recovered
<1>8. Phased'
  BY DEF SourceTypes, Phased, Generation, Recovered, Goes, Current, Abandon, Retry, Connect,
     SetStatus
<1>9. QED
  BY <1>1, <1>2, <1>3, <1>4, <1>5, <1>6, <1>7, <1>8 DEF PictureInv

LEMMA RetryTimerKeepsPicture ==
  ASSUME PictureInv, NEW g \in Generation, RetryTimer(g)
  PROVE  PictureInv'
<1>. /\ SourceTypes /\ BackendTypes /\ ScreenTypes /\ CommandTypes
     /\ Counted /\ Versions /\ Socket /\ Phased /\ MaxTurns \in Nat
  BY LiveHomeAssumption DEF PictureInv
<1>1. Counted'
  BY DEF Counted, Present, RetryTimer, backendVars
<1>2. SourceTypes'
  BY DEF SourceTypes, RetryTimer, Goes, Connect, SetStatus
<1>3. Versions'
  BY DEF Versions, Present, RetryTimer, backendVars
<1>4. BackendTypes'
  BY DEF BackendTypes, Present, RetryTimer, backendVars
<1>5. ScreenTypes'
  BY DEF ScreenTypes, RetryTimer, pictureVars
<1>6. CommandTypes'
  BY DEF CommandTypes, RetryTimer
<1>7. Socket'
  BY DEF Socket, RetryTimer
<1>8. Phased'
  BY DEF SourceTypes, Phased, RetryTimer, Goes, Current, Connect, SetStatus
<1>9. QED
  BY <1>1, <1>2, <1>3, <1>4, <1>5, <1>6, <1>7, <1>8 DEF PictureInv

LEMMA AuthTimeoutKeepsPicture ==
  ASSUME PictureInv, NEW g \in Generation, AuthTimeout(g)
  PROVE  PictureInv'
<1>. /\ SourceTypes /\ BackendTypes /\ ScreenTypes /\ CommandTypes
     /\ Counted /\ Versions /\ Socket /\ Phased /\ MaxTurns \in Nat
  BY LiveHomeAssumption DEF PictureInv
<1>1. turns' \in 0..MaxTurns /\ turns' \in {turns, turns + 1}
  BY TurnsBounded DEF AuthTimeout
<1>2. /\ Carries(Append(wire, Plain("bye")), Present)
      /\ Ends(wire) \/ "bye" \in {"bye", "refused"} => Ends(Append(wire, Plain("bye")))
  <2>1. Plain("bye") \in Message /\ Plain("bye").t = "bye"
    BY DEF Plain, Message
  <2>2. Present \in Nat /\ Carries(wire, Present)
    BY DEF Versions, BackendTypes, Version
  <2>3. QED
    BY <2>1, <2>2, WireGrows
<1>3. Counted'
  BY <1>1 DEF SourceTypes, Counted, Present, AuthTimeout, sourceVars, backendVars
<1>4. SourceTypes'
  BY DEF SourceTypes, AuthTimeout, sourceVars
<1>5. Versions'
  BY <1>2 DEF Versions, Present, AuthTimeout, backendVars
<1>6. BackendTypes'
  BY <1>2 DEF BackendTypes, Carries, Present, AuthTimeout, backendVars
<1>7. ScreenTypes'
  BY <1>1 DEF ScreenTypes, AuthTimeout, pictureVars
<1>8. CommandTypes'
  BY DEF CommandTypes, AuthTimeout
<1>9. Socket'
  BY <1>2 DEF Socket, AuthTimeout
<1>10. Phased'
  BY DEF Phased, AuthTimeout, sourceVars
<1>11. QED
  BY <1>3, <1>4, <1>5, <1>6, <1>7, <1>8, <1>9, <1>10 DEF PictureInv

LEMMA AcceptedKeepsPicture ==
  ASSUME PictureInv, Accepted
  PROVE  PictureInv'
<1>. /\ SourceTypes /\ BackendTypes /\ ScreenTypes /\ CommandTypes
     /\ Counted /\ Versions /\ Socket /\ Phased /\ MaxTurns \in Nat
  BY LiveHomeAssumption DEF PictureInv
<1>1. /\ wire # <<>> /\ Present \in Nat /\ Carries(wire, Present)
      /\ Carries(Tail(wire), Present) /\ (Head(wire).t = "state" => Head(wire).i \in 1..Present)
      /\ Ends(wire) /\ Head(wire).t \notin {"bye", "refused"} => Ends(Tail(wire))
  <2>1. wire # <<>> /\ Present \in Nat /\ Carries(wire, Present)
    BY DEF Accepted, Versions, BackendTypes, Version
  <2>2. QED
    BY <2>1, WireShrinks
<1>2. built /\ gen >= 1 /\ gen \in Generation /\ peer \in {"ready", "gone"}
  BY <1>1 DEF Socket, Phased, SourceTypes, Generation
<1>3. Counted'
  BY DEF Counted, Present, Accepted, backendVars
<1>4. SourceTypes'
  <2>1. phase' \in [Generation -> {"none", "token", "opening", "greeting", "live",
                               "dead", "recovering", "waiting", "over"}]
    BY <1>2, PhasesFit DEF Accepted
  <2>2. polling' \in BOOLEAN
    BY DEF SourceTypes, Accepted, SetStatus
  <2>3. QED
    BY <2>1, <2>2 DEF SourceTypes, Accepted, SetStatus
<1>5. Versions'
  BY <1>1 DEF Versions, Present, Accepted, Asked, backendVars
<1>6. BackendTypes'
  BY DEF BackendTypes, Present, Accepted, backendVars
<1>7. ScreenTypes'
  BY DEF ScreenTypes, Accepted, Asked, pictureVars
<1>8. CommandTypes'
  BY DEF CommandTypes, Accepted
<1>9. Socket'
  BY <1>1 DEF Socket, Accepted
<1>10. Phased'
  BY <1>2 DEF SourceTypes, Phased, Accepted, Goes, SetStatus
<1>11. QED
  BY <1>3, <1>4, <1>5, <1>6, <1>7, <1>8, <1>9, <1>10 DEF PictureInv

LEMMA EventArrivesKeepsPicture ==
  ASSUME PictureInv, EventArrives
  PROVE  PictureInv'
<1>. /\ SourceTypes /\ BackendTypes /\ ScreenTypes /\ CommandTypes
     /\ Counted /\ Versions /\ Socket /\ Phased /\ MaxTurns \in Nat
  BY LiveHomeAssumption DEF PictureInv
<1>1. /\ wire # <<>> /\ Present \in Nat /\ Carries(wire, Present)
      /\ Carries(Tail(wire), Present) /\ (Head(wire).t = "state" => Head(wire).i \in 1..Present)
      /\ Ends(wire) /\ Head(wire).t \notin {"bye", "refused"} => Ends(Tail(wire))
  <2>1. wire # <<>> /\ Present \in Nat /\ Carries(wire, Present)
    BY DEF EventArrives, Versions, BackendTypes, Version
  <2>2. QED
    BY <2>1, WireShrinks
<1>2. built /\ gen >= 1 /\ gen \in Generation /\ peer \in {"ready", "gone"}
  BY <1>1 DEF Socket, Phased, SourceTypes, Generation
<1>3. Counted'
  BY DEF CommandTypes, Counted, Present, EventArrives, Touch, sourceVars, backendVars
<1>4. SourceTypes'
  BY DEF SourceTypes, EventArrives, sourceVars
<1>5. Versions'
  BY <1>1 DEF CommandTypes, Versions, Present, EventArrives, Touch, backendVars
<1>6. BackendTypes'
  BY DEF BackendTypes, Present, EventArrives, backendVars
<1>7. ScreenTypes'
  <2>1. CASE status = "connected"
    <3>1. Picture(Head(wire).i) /\ Head(wire).i \in 1..Present /\ fetch' = fetch /\ UNCHANGED <<blocked, missed, turns>>
      BY <1>1, <2>1 DEF EventArrives
    <3>2. shown' \in BOOLEAN /\ base' \in Version /\ peak' \in Version /\ undone' = FALSE
      BY <3>1, ShownFits DEF ScreenTypes
    <3>3. QED
      BY <3>1, <3>2 DEF ScreenTypes, Version
  <2>2. CASE status # "connected"
    BY <2>2 DEF EventArrives, ScreenTypes, Version, pictureVars
  <2>3. QED
    BY <2>1, <2>2
<1>8. CommandTypes'
  BY DEF CommandTypes, EventArrives, Touch
<1>9. Socket'
  BY <1>1 DEF Socket, EventArrives
<1>10. Phased'
  BY DEF Phased, EventArrives, sourceVars
<1>11. QED
  BY <1>3, <1>4, <1>5, <1>6, <1>7, <1>8, <1>9, <1>10 DEF PictureInv

LEMMA ClosedKeepsPicture ==
  ASSUME PictureInv, Closed
  PROVE  PictureInv'
<1>. /\ SourceTypes /\ BackendTypes /\ ScreenTypes /\ CommandTypes
     /\ Counted /\ Versions /\ Socket /\ Phased /\ MaxTurns \in Nat
  BY LiveHomeAssumption DEF PictureInv
<1>1. Carries(<<>>, Present)
  BY EmptyWire DEF BackendTypes, Version
<1>2. built /\ wire # <<>> /\ peer \in {"ready", "gone"}
  BY DEF Closed, Socket, SourceTypes
<1>3. gen \in Generation
  BY <1>2 DEF Phased, SourceTypes, Generation
<1>4. Counted'
  BY DEF Counted, Present, Closed, backendVars
<1>5. SourceTypes'
  <2>1. phase' \in [Generation -> {"none", "token", "opening", "greeting", "live",
                               "dead", "recovering", "waiting", "over"}]
    BY <1>2, <1>3, PhasesFit DEF Closed, Retry
  <2>2. polling' \in BOOLEAN
    BY DEF SourceTypes, Closed, Retry, SetStatus
  <2>3. QED
    BY <2>1 DEF SourceTypes, Closed, Retry, SetStatus
<1>6. Versions'
  BY <1>1 DEF Versions, Present, Closed, backendVars
<1>7. BackendTypes'
  BY DEF BackendTypes, Present, Closed, backendVars
<1>8. ScreenTypes'
  BY DEF ScreenTypes, Closed, pictureVars
<1>9. CommandTypes'
  BY DEF CommandTypes, Closed
<1>10. Socket'
  BY DEF Socket, Closed
<1>11. Phased'
  BY <1>3 DEF SourceTypes, Phased, Closed, Goes, Retry, SetStatus
<1>12. QED
  BY <1>4, <1>5, <1>6, <1>7, <1>8, <1>9, <1>10, <1>11 DEF PictureInv

LEMMA RequestKeepsPicture ==
  ASSUME PictureInv, NEW s \in Slot, Request(s)
  PROVE  PictureInv'
<1>. /\ SourceTypes /\ BackendTypes /\ ScreenTypes /\ CommandTypes
     /\ Counted /\ Versions /\ Socket /\ Phased /\ MaxTurns \in Nat
  BY LiveHomeAssumption DEF PictureInv
<1>1. turns' \in 0..MaxTurns /\ turns' \in {turns, turns + 1}
  BY TurnsBounded DEF Request, ScreenTypes
<1>2. Counted'
  BY <1>1 DEF SourceTypes, Counted, Present, Request, sourceVars, backendVars
<1>3. SourceTypes'
  BY DEF SourceTypes, Request, sourceVars
<1>4. Versions'
  BY DEF Versions, Present, Request, Asked, backendVars
<1>5. BackendTypes'
  BY DEF BackendTypes, Present, Request, backendVars
<1>6. ScreenTypes'
  BY <1>1 DEF ScreenTypes, Request, Asked, pictureVars
<1>7. CommandTypes'
  BY DEF CommandTypes, Request
<1>8. Socket'
  BY DEF Socket, Request
<1>9. Phased'
  BY DEF Phased, Request, sourceVars
<1>10. QED
  BY <1>2, <1>3, <1>4, <1>5, <1>6, <1>7, <1>8, <1>9 DEF PictureInv

LEMMA FetchReadsKeepsPicture ==
  ASSUME PictureInv, NEW s \in Slot, FetchReads(s)
  PROVE  PictureInv'
<1>. /\ SourceTypes /\ BackendTypes /\ ScreenTypes /\ CommandTypes
     /\ Counted /\ Versions /\ Socket /\ Phased /\ MaxTurns \in Nat
  BY LiveHomeAssumption DEF PictureInv
<1>1. Counted'
  BY DEF Counted, Present, FetchReads, sourceVars, backendVars
<1>2. SourceTypes'
  BY DEF SourceTypes, FetchReads, sourceVars
<1>3. Versions'
  BY DEF BackendTypes, Versions, Present, Version, FetchReads, backendVars
<1>4. BackendTypes'
  BY DEF BackendTypes, Present, FetchReads, backendVars
<1>5. ScreenTypes'
  BY DEF BackendTypes, ScreenTypes, FetchReads, pictureVars
<1>6. CommandTypes'
  BY DEF CommandTypes, FetchReads
<1>7. Socket'
  BY DEF Socket, FetchReads
<1>8. Phased'
  BY DEF Phased, FetchReads, sourceVars
<1>9. QED
  BY <1>1, <1>2, <1>3, <1>4, <1>5, <1>6, <1>7, <1>8 DEF PictureInv

LEMMA FetchArrivesKeepsPicture ==
  ASSUME PictureInv, NEW s \in Slot, FetchArrives(s)
  PROVE  PictureInv'
<1>. /\ SourceTypes /\ BackendTypes /\ ScreenTypes /\ CommandTypes
     /\ Counted /\ Versions /\ Socket /\ Phased /\ MaxTurns \in Nat
  BY LiveHomeAssumption DEF PictureInv
<1>1. Counted'
  BY DEF Counted, Present, FetchArrives, Touch, sourceVars, backendVars
<1>2. SourceTypes'
  BY DEF SourceTypes, FetchArrives, sourceVars
<1>3. Versions'
  BY DEF Versions, Present, FetchArrives, Touch, Idle, backendVars
<1>4. BackendTypes'
  BY DEF BackendTypes, Present, FetchArrives, backendVars
<1>5. ScreenTypes'
  <2>1. /\ fetch[s].i \in 1..Present /\ fetch' = [fetch EXCEPT ![s] = Idle]
        /\ UNCHANGED <<blocked, missed, turns>>
    BY DEF FetchArrives, Versions
  <2>2. fetch' \in [Slot -> [st : {"idle", "asked", "read"}, i : Version \cup {0}]]
    BY <2>1 DEF ScreenTypes, Idle
  <2>3. CASE cmd.pending /\ s # "page"
    <3>1. Reached(fetch[s].i) /\ UNCHANGED <<shown, base, undone>>
      BY <2>3 DEF FetchArrives
    <3>2. fetch[s].i \in Version
      BY <2>1 DEF BackendTypes, Version
    <3>3. QED
      BY <2>1, <2>2, <3>1 DEF ScreenTypes, Reached
  <2>4. CASE ~(cmd.pending /\ s # "page")
    <3>1. Picture(fetch[s].i)
      BY <2>4 DEF FetchArrives
    <3>2. shown' \in BOOLEAN /\ base' \in Version /\ peak' \in Version /\ undone' = FALSE
      BY <2>1, <3>1, ShownFits DEF ScreenTypes
    <3>3. QED
      BY <2>1, <2>2, <3>2 DEF ScreenTypes
  <2>5. QED
    BY <2>3, <2>4
<1>6. CommandTypes'
  BY DEF CommandTypes, FetchArrives, Touch
<1>7. Socket'
  BY DEF Socket, FetchArrives
<1>8. Phased'
  BY DEF Phased, FetchArrives, sourceVars
<1>9. QED
  BY <1>1, <1>2, <1>3, <1>4, <1>5, <1>6, <1>7, <1>8 DEF PictureInv

LEMMA FetchFailsKeepsPicture ==
  ASSUME PictureInv, NEW s \in Slot, FetchFails(s)
  PROVE  PictureInv'
<1>. /\ SourceTypes /\ BackendTypes /\ ScreenTypes /\ CommandTypes
     /\ Counted /\ Versions /\ Socket /\ Phased /\ MaxTurns \in Nat
  BY LiveHomeAssumption DEF PictureInv
<1>1. turns' \in 0..MaxTurns /\ turns' = turns + 1
  BY TurnsBounded DEF FetchFails
<1>2. Counted'
  BY <1>1 DEF SourceTypes, Counted, Present, FetchFails, sourceVars, backendVars
<1>3. SourceTypes'
  BY DEF SourceTypes, FetchFails, sourceVars
<1>4. Versions'
  BY DEF Versions, Present, FetchFails, Idle, backendVars
<1>5. BackendTypes'
  BY DEF BackendTypes, Present, FetchFails, backendVars
<1>6. ScreenTypes'
  BY <1>1 DEF ScreenTypes, FetchFails, Idle, pictureVars
<1>7. CommandTypes'
  BY DEF CommandTypes, FetchFails
<1>8. Socket'
  BY DEF Socket, FetchFails
<1>9. Phased'
  BY DEF Phased, FetchFails, sourceVars
<1>10. QED
  BY <1>2, <1>3, <1>4, <1>5, <1>6, <1>7, <1>8, <1>9 DEF PictureInv

LEMMA TapKeepsPicture ==
  ASSUME PictureInv, Tap
  PROVE  PictureInv'
<1>. /\ SourceTypes /\ BackendTypes /\ ScreenTypes /\ CommandTypes
     /\ Counted /\ Versions /\ Socket /\ Phased /\ MaxTurns \in Nat
  BY LiveHomeAssumption DEF PictureInv
<1>1. turns' \in 0..MaxTurns /\ turns' = turns + 1
  BY TurnsBounded DEF Tap
<1>2. Counted'
  BY <1>1 DEF SourceTypes, Counted, Present, Tap, sourceVars, backendVars
<1>3. SourceTypes'
  BY DEF SourceTypes, Tap, sourceVars
<1>4. Versions'
  BY DEF Versions, Present, Tap, backendVars
<1>5. BackendTypes'
  BY DEF BackendTypes, Present, Tap, backendVars
<1>6. ScreenTypes'
  BY <1>1 DEF ScreenTypes, Tap
<1>7. CommandTypes'
  BY DEF CommandTypes, Tap
<1>8. Socket'
  BY DEF Socket, Tap
<1>9. Phased'
  BY DEF Phased, Tap, sourceVars
<1>10. QED
  BY <1>2, <1>3, <1>4, <1>5, <1>6, <1>7, <1>8, <1>9 DEF PictureInv

LEMMA TapAnsweredKeepsPicture ==
  ASSUME PictureInv, TapAnswered
  PROVE  PictureInv'
<1>. /\ SourceTypes /\ BackendTypes /\ ScreenTypes /\ CommandTypes
     /\ Counted /\ Versions /\ Socket /\ Phased /\ MaxTurns \in Nat
  BY LiveHomeAssumption DEF PictureInv
<1>1. Counted'
  BY DEF Counted, Present, TapAnswered, sourceVars, backendVars
<1>2. SourceTypes'
  BY DEF SourceTypes, TapAnswered, sourceVars
<1>3. Versions'
  BY DEF Versions, Present, TapAnswered, backendVars
<1>4. BackendTypes'
  BY DEF BackendTypes, Present, TapAnswered, backendVars
<1>5. ScreenTypes'
  <2>1. Picture(cmd.i) /\ cmd.i \in 1..Present /\ fetch' = fetch /\ UNCHANGED <<blocked, missed, turns>>
    BY DEF TapAnswered, Versions
  <2>2. shown' \in BOOLEAN /\ base' \in Version /\ peak' \in Version /\ undone' = FALSE
    BY <2>1, ShownFits DEF ScreenTypes
  <2>3. QED
    BY <2>1, <2>2 DEF ScreenTypes, Version
<1>6. CommandTypes'
  BY DEF CommandTypes, TapAnswered
<1>7. Socket'
  BY DEF Socket, TapAnswered
<1>8. Phased'
  BY DEF Phased, TapAnswered, sourceVars
<1>9. QED
  BY <1>1, <1>2, <1>3, <1>4, <1>5, <1>6, <1>7, <1>8 DEF PictureInv

LEMMA TapFailsKeepsPicture ==
  ASSUME PictureInv, TapFails
  PROVE  PictureInv'
<1>. /\ SourceTypes /\ BackendTypes /\ ScreenTypes /\ CommandTypes
     /\ Counted /\ Versions /\ Socket /\ Phased /\ MaxTurns \in Nat
  BY LiveHomeAssumption DEF PictureInv
<1>1. Counted'
  BY DEF Counted, Present, TapFails, sourceVars, backendVars
<1>2. SourceTypes'
  BY DEF SourceTypes, TapFails, sourceVars
<1>3. Versions'
  BY DEF Versions, Present, TapFails, backendVars
<1>4. BackendTypes'
  BY DEF BackendTypes, Present, TapFails, backendVars
<1>5. ScreenTypes'
  BY DEF ScreenTypes, TapFails
<1>6. CommandTypes'
  BY DEF CommandTypes, TapFails
<1>7. Socket'
  BY DEF Socket, TapFails
<1>8. Phased'
  BY DEF Phased, TapFails, sourceVars
<1>9. QED
  BY <1>1, <1>2, <1>3, <1>4, <1>5, <1>6, <1>7, <1>8 DEF PictureInv

LEMMA GreetsKeepsPicture ==
  ASSUME PictureInv, Greets
  PROVE  PictureInv'
<1>. /\ SourceTypes /\ BackendTypes /\ ScreenTypes /\ CommandTypes
     /\ Counted /\ Versions /\ Socket /\ Phased /\ MaxTurns \in Nat
  BY LiveHomeAssumption DEF PictureInv
<1>1. /\ Carries(Append(wire, Plain("auth_ok")), Present)
      /\ Ends(wire) \/ "auth_ok" \in {"bye", "refused"} => Ends(Append(wire, Plain("auth_ok")))
  <2>1. Plain("auth_ok") \in Message /\ Plain("auth_ok").t = "auth_ok"
    BY DEF Plain, Message
  <2>2. Present \in Nat /\ Carries(wire, Present)
    BY DEF Versions, BackendTypes, Version
  <2>3. QED
    BY <2>1, <2>2, WireGrows
<1>2. Counted'
  BY DEF Counted, Present, Greets, sourceVars, backendVars
<1>3. SourceTypes'
  BY DEF SourceTypes, Greets, sourceVars
<1>4. Versions'
  BY <1>1 DEF Versions, Present, Greets, backendVars
<1>5. BackendTypes'
  BY <1>1 DEF BackendTypes, Carries, Present, Greets, backendVars
<1>6. ScreenTypes'
  BY DEF ScreenTypes, Greets, pictureVars
<1>7. CommandTypes'
  BY DEF CommandTypes, Greets
<1>8. Socket'
  BY DEF Socket, Greets
<1>9. Phased'
  BY DEF Phased, Greets, sourceVars
<1>10. QED
  BY <1>2, <1>3, <1>4, <1>5, <1>6, <1>7, <1>8, <1>9 DEF PictureInv

LEMMA BreaksKeepsPicture ==
  ASSUME PictureInv, Breaks
  PROVE  PictureInv'
<1>. /\ SourceTypes /\ BackendTypes /\ ScreenTypes /\ CommandTypes
     /\ Counted /\ Versions /\ Socket /\ Phased /\ MaxTurns \in Nat
  BY LiveHomeAssumption DEF PictureInv
<1>1. turns' \in 0..MaxTurns /\ turns' \in {turns, turns + 1}
  BY TurnsBounded DEF Breaks
<1>2. Carries(wire', Present) /\ Ends(wire')
  <2>1. PICK t \in {"bye", "refused"} : wire' \in {Append(wire, Plain(t)), <<Plain("bye")>>}
    BY DEF Breaks
  <2>2. \A u \in {"bye", "refused"} : Plain(u) \in Message /\ Plain(u).t = u
    BY DEF Plain, Message
  <2>3. Present \in Nat /\ Carries(wire, Present)
    BY DEF Versions, BackendTypes, Version
  <2>4. Carries(Append(wire, Plain(t)), Present) /\ Ends(Append(wire, Plain(t)))
    BY <2>2, <2>3, WireGrows
  <2>5. Carries(<<Plain("bye")>>, Present) /\ Ends(<<Plain("bye")>>)
    BY <2>2, <2>3, OneMessage
  <2>6. QED
    BY <2>1, <2>4, <2>5
<1>3. Counted'
  BY <1>1 DEF SourceTypes, Counted, Present, Breaks, sourceVars, backendVars
<1>4. SourceTypes'
  BY DEF SourceTypes, Breaks, sourceVars
<1>5. Versions'
  BY <1>2 DEF Versions, Present, Breaks, backendVars
<1>6. BackendTypes'
  BY <1>2 DEF BackendTypes, Carries, Present, Breaks, backendVars
<1>7. ScreenTypes'
  BY <1>1 DEF ScreenTypes, Breaks, pictureVars
<1>8. CommandTypes'
  BY DEF CommandTypes, Breaks
<1>9. Socket'
  BY <1>2 DEF Socket, Breaks
<1>10. Phased'
  BY DEF Phased, Breaks, sourceVars
<1>11. QED
  BY <1>3, <1>4, <1>5, <1>6, <1>7, <1>8, <1>9, <1>10 DEF PictureInv

LEMMA ChangeKeepsPicture ==
  ASSUME PictureInv, Change
  PROVE  PictureInv'
<1>. /\ SourceTypes /\ BackendTypes /\ ScreenTypes /\ CommandTypes
     /\ Counted /\ Versions /\ Socket /\ Phased /\ MaxTurns \in Nat
  BY LiveHomeAssumption DEF PictureInv
<1>1. turns' \in 0..MaxTurns /\ turns' = turns + 1
  BY TurnsBounded DEF Change
<1>2. /\ hist' \in Seq(BOOLEAN) /\ Present' = Present + 1
      /\ due' = due \cup {Present + 1} /\ UNCHANGED <<told, cmd, fetch, wire>>
  <2>1. (~hist[Present]) \in BOOLEAN
    OBVIOUS
  <2>2. QED
    BY DEF Change, Switch, Present, BackendTypes
<1>3. Present \in Nat /\ Carries(wire, Present + 1)
  <2>1. Present \in Nat /\ Carries(wire, Present)
    BY DEF Versions, BackendTypes, Version
  <2>2. QED
    BY <2>1, WireLasts
<1>4. Counted'
  BY <1>1, <1>2, <1>3 DEF SourceTypes, Counted, Change, sourceVars
<1>5. SourceTypes'
  BY DEF SourceTypes, Change, sourceVars
<1>6. Versions'
  BY <1>2, <1>3 DEF Versions
<1>7. BackendTypes'
  <2>1. Present' \in Version'
    BY <1>2, <1>3, <1>1 DEF Counted, SourceTypes, Version
  <2>2. QED
    BY <2>1, <1>2 DEF BackendTypes
<1>8. ScreenTypes'
  BY <1>1 DEF ScreenTypes, Change, pictureVars
<1>9. CommandTypes'
  BY <1>2 DEF CommandTypes
<1>10. Socket'
  BY DEF Socket, Change
<1>11. Phased'
  BY DEF Phased, Change, sourceVars
<1>12. QED
  BY <1>4, <1>5, <1>6, <1>7, <1>8, <1>9, <1>10, <1>11 DEF PictureInv

LEMMA CommandActsKeepsPicture ==
  ASSUME PictureInv, CommandActs
  PROVE  PictureInv'
<1>. /\ SourceTypes /\ BackendTypes /\ ScreenTypes /\ CommandTypes
     /\ Counted /\ Versions /\ Socket /\ Phased /\ MaxTurns \in Nat
  BY LiveHomeAssumption DEF PictureInv
<1>1. cmd.at = "asked" /\ cmd.want \in BOOLEAN
  BY DEF CommandActs, CommandTypes
<1>2. UNCHANGED <<built, gen, channel, refusals, stopping, phase, status, polling, peer, wire,
        told, fetch, shown, base, peak, undone, missed, blocked, turns>>
  BY DEF CommandActs, sourceVars, pictureVars
<1>3. /\ Append(hist, cmd.want) \in Seq(BOOLEAN)
      /\ Len(Append(hist, cmd.want)) = Present + 1
  BY <1>1, AppendProperties DEF Present, BackendTypes
<1>4. \/ Switch(cmd.want) /\ cmd' = [cmd EXCEPT !.at = "acked", !.n = Present + 1]
      \/ cmd' = [cmd EXCEPT !.at = "refused"] /\ UNCHANGED <<hist, due>>
  BY DEF CommandActs
<1>5. /\ hist' \in Seq(BOOLEAN) /\ Present' \in {Present, Present + 1}
      /\ due' \subseteq due \cup {Present'}
  BY <1>3, <1>4 DEF Switch, Present, BackendTypes
<1>6. \/ cmd' = [cmd EXCEPT !.at = "acked", !.n = Present + 1] /\ Present' = Present + 1
      \/ cmd' = [cmd EXCEPT !.at = "refused"]
  BY <1>3, <1>4 DEF Switch, Present
<1>7. /\ cmd'.at \in {"acked", "refused"}
      /\ cmd' \in [at : {"acked", "refused"}, pending : BOOLEAN, touched : BOOLEAN,
                   want : BOOLEAN, n : Version \cup {0, Present'}, i : Version \cup {0}]
  BY <1>6 DEF CommandTypes
<1>8. Present \in Nat /\ Carries(wire, Present') /\ Present <= Present'
  <2>1. Present \in Nat /\ Carries(wire, Present)
    BY DEF Versions, BackendTypes, Version
  <2>2. QED
    BY <1>5, <2>1, WireLasts
<1>9. Counted'
  <2>1. gen + Present + 1 <= turns + 1 /\ stopping + (IF built THEN 1 ELSE 0) <= gen
    BY <1>1 DEF Counted
  <2>2. Present' \in Nat /\ gen \in Nat /\ turns \in Nat
    BY <1>5, <1>8 DEF SourceTypes, ScreenTypes
  <2>3. gen + Present' + 0 <= turns + 1
    BY <1>5, <1>8, <2>1, <2>2 DEF Present
  <2>4. cmd'.at # "asked"
    BY <1>7
  <2>5. QED
    BY <1>2, <2>1, <2>3, <2>4 DEF Counted
<1>10. SourceTypes'
  BY <1>2 DEF SourceTypes
<1>11. Versions'
  BY <1>5, <1>8, <1>2, <1>7 DEF Versions
<1>12. BackendTypes'
  <2>1. gen + Present' <= turns + 1 /\ gen \in Nat /\ turns \in 0..MaxTurns /\ gen >= 0
    BY <1>5, <1>1 DEF Present, Counted, SourceTypes, ScreenTypes
  <2>2. Present' \in Version'
    BY <1>8, <2>1 DEF Present, BackendTypes, Version
  <2>3. due' \subseteq Version
    BY <1>5, <2>2 DEF Present, BackendTypes, Version
  <2>4. QED
    BY <2>2, <1>5, <1>2 DEF BackendTypes
<1>13. ScreenTypes'
  BY <1>2 DEF ScreenTypes
<1>14. CommandTypes'
  BY <1>12, <1>7 DEF CommandTypes, BackendTypes, Version
<1>15. Socket'
  BY <1>2 DEF Socket
<1>16. Phased'
  BY <1>2 DEF Phased
<1>17. QED
  BY <1>9, <1>10, <1>11, <1>12, <1>13, <1>14, <1>15, <1>16 DEF PictureInv

LEMMA RowReadKeepsPicture ==
  ASSUME PictureInv, RowRead
  PROVE  PictureInv'
<1>. /\ SourceTypes /\ BackendTypes /\ ScreenTypes /\ CommandTypes
     /\ Counted /\ Versions /\ Socket /\ Phased /\ MaxTurns \in Nat
  BY LiveHomeAssumption DEF PictureInv
<1>1. Counted'
  BY DEF Counted, Present, RowRead, sourceVars
<1>2. SourceTypes'
  BY DEF SourceTypes, RowRead, sourceVars
<1>3. Versions'
  BY DEF BackendTypes, Versions, Present, Version, RowRead
<1>4. BackendTypes'
  BY DEF BackendTypes, Present, RowRead
<1>5. ScreenTypes'
  BY DEF ScreenTypes, RowRead, pictureVars
<1>6. CommandTypes'
  BY DEF CommandTypes, RowRead
<1>7. Socket'
  BY DEF Socket, RowRead
<1>8. Phased'
  BY DEF Phased, RowRead, sourceVars
<1>9. QED
  BY <1>1, <1>2, <1>3, <1>4, <1>5, <1>6, <1>7, <1>8 DEF PictureInv

LEMMA EmitKeepsPicture ==
  ASSUME PictureInv, Emit
  PROVE  PictureInv'
<1>. /\ SourceTypes /\ BackendTypes /\ ScreenTypes /\ CommandTypes
     /\ Counted /\ Versions /\ Socket /\ Phased /\ MaxTurns \in Nat
  BY LiveHomeAssumption DEF PictureInv
<1>1. PICK e \in told :
        /\ told' = told \ {e}
        /\ wire' = IF peer = "ready" THEN Append(wire, [t |-> "state", i |-> e[2]]) ELSE wire
        /\ cmd' = IF cmd.at = "acked" /\ cmd.n = e[1]
                  THEN [cmd EXCEPT !.at = "answered", !.i = e[2]] ELSE cmd
  BY DEF Emit
<1>2. e[2] \in Version /\ e[2] \in 1..Present
  BY DEF BackendTypes, Versions
<1>3. /\ Carries(Append(wire, [t |-> "state", i |-> e[2]]), Present)
      /\ Ends(wire) => Ends(Append(wire, [t |-> "state", i |-> e[2]]))
  <2>1. [t |-> "state", i |-> e[2]] \in Message
    BY <1>2 DEF Message
  <2>2. Present \in Nat /\ Carries(wire, Present)
    BY DEF Versions, BackendTypes, Version
  <2>3. QED
    BY <1>2, <2>1, <2>2, WireGrows
<1>4. Carries(wire', Present) /\ (Ends(wire) => Ends(wire'))
  BY <1>1, <1>3 DEF Versions
<1>5. Counted'
  BY DEF Counted, Present, Emit, sourceVars
<1>6. SourceTypes'
  BY DEF SourceTypes, Emit, sourceVars
<1>7. Versions'
  BY <1>4 DEF Versions, Present, Emit
<1>8. BackendTypes'
  BY <1>4 DEF BackendTypes, Carries, Present, Emit
<1>9. ScreenTypes'
  BY DEF ScreenTypes, Emit, pictureVars
<1>10. CommandTypes'
  BY <1>1, <1>2 DEF CommandTypes
<1>11. Socket'
  BY DEF Socket, Emit
<1>12. Phased'
  BY DEF Phased, Emit, sourceVars
<1>13. QED
  BY <1>5, <1>6, <1>7, <1>8, <1>9, <1>10, <1>11, <1>12 DEF PictureInv


\* A step of the picture.
LEMMA PictureStep ==
  ASSUME PictureInv, HomeLiveNext
  PROVE  PictureInv'
<1>1. ASSUME NEW g \in Generation, SourceStep(g)
      PROVE  PictureInv'
  BY <1>1, TokenReadKeepsPicture, OpenedKeepsPicture, OpenFailsKeepsPicture,
     RecoveredKeepsPicture, RetryTimerKeepsPicture, AuthTimeoutKeepsPicture DEF SourceStep
<1>2. ASSUME NEW s \in Slot, Request(s) \/ FetchReads(s) \/ FetchArrives(s) \/ FetchFails(s)
      PROVE  PictureInv'
  BY <1>2, RequestKeepsPicture, FetchReadsKeepsPicture, FetchArrivesKeepsPicture,
     FetchFailsKeepsPicture
<1>3. ASSUME Deliver
      PROVE  PictureInv'
  BY <1>3, AcceptedKeepsPicture, EventArrivesKeepsPicture, ClosedKeepsPicture DEF Deliver
<1>4. QED
  BY <1>1, <1>2, <1>3, BuildKeepsPicture, TeardownKeepsPicture, StopEndsKeepsPicture,
     TapKeepsPicture, TapAnsweredKeepsPicture, TapFailsKeepsPicture, GreetsKeepsPicture,
     BreaksKeepsPicture, ChangeKeepsPicture, CommandActsKeepsPicture, RowReadKeepsPicture,
     EmitKeepsPicture DEF HomeLiveNext

\* A step of another part.
LEMMA PictureStutter ==
  ASSUME PictureInv, UNCHANGED liveVars
  PROVE  PictureInv'
<1>1. UNCHANGED <<built, gen, phase, channel, refusals, stopping, status, polling, peer, wire,
                  hist, due, told, fetch, cmd, shown, base, peak, undone, missed, blocked, turns>>
  BY DEF liveVars, sourceVars, backendVars, pictureVars
<1>2. (SourceTypes /\ BackendTypes /\ ScreenTypes /\ CommandTypes)'
  BY <1>1 DEF PictureInv, SourceTypes, BackendTypes, ScreenTypes, CommandTypes, Present
<1>3. Counted' /\ Versions'
  BY <1>1 DEF PictureInv, Counted, Versions, Present
<1>4. Socket' /\ Phased'
  BY <1>1 DEF PictureInv, Socket, Phased
<1>5. QED
  BY <1>2, <1>3, <1>4 DEF PictureInv

\* The screen has not been opened yet.
LEMMA PictureStarts ==
  ASSUME HomeLiveInit
  PROVE  PictureInv
<1>1. Present = 1 /\ hist \in Seq(BOOLEAN)
  BY DEF HomeLiveInit, Present
<1>2. Carries(<<>>, 1)
  BY EmptyWire
<1>3. 1 \in Version /\ 0 \in 0..MaxTurns
  BY LiveHomeAssumption DEF Version
<1>4. SourceTypes
  <2>1. phase \in [Generation -> {"none", "token", "opening", "greeting", "live",
                               "dead", "recovering", "waiting", "over"}]
    BY DEF HomeLiveInit
  <2>2. {built, polling} \subseteq BOOLEAN
    BY Zenon DEF HomeLiveInit
  <2>3. refusals \in 0..2
    BY DEF HomeLiveInit
  <2>4. gen \in 0..MaxTurns /\ channel \in 0..MaxTurns /\ stopping \in 0..MaxTurns
    BY <1>3 DEF HomeLiveInit
  <2>5. status \in {"disconnected", "connecting", "connected"}
        /\ peer \in {"none", "open", "ready", "gone"}
    BY DEF HomeLiveInit
  <2>6. QED
    BY <2>1, <2>2, <2>4, <2>5, <2>3 DEF SourceTypes
<1>5. ScreenTypes
  BY <1>3 DEF HomeLiveInit, ScreenTypes, Idle
<1>6. BackendTypes
  BY LiveHomeAssumption, <1>1 DEF HomeLiveInit, BackendTypes, Version
<1>7. CommandTypes
  BY DEF HomeLiveInit, CommandTypes
<1>8. Counted
  BY <1>1 DEF HomeLiveInit, Counted
<1>9. Versions
  BY <1>1, <1>2 DEF HomeLiveInit, Versions, Idle
<1>10. Socket /\ Phased
  BY DEF HomeLiveInit, Socket, Phased
<1>11. QED
  BY <1>4, <1>5, <1>6, <1>7, <1>8, <1>9, <1>10 DEF PictureInv

\* What the invariant is for: at most one source, and it is the current one.
LEMMA PictureSound ==
  ASSUME PictureInv
  PROVE  SourceSound
<1>1. LiveTypeOK
  BY DEF PictureInv, SourceTypes, BackendTypes, ScreenTypes, CommandTypes, LiveTypeOK
<1>2. DOMAIN wire = 1..Len(wire)
  BY LenProperties DEF PictureInv, BackendTypes
<1>3. ASSUME built, status = "connected", channel = gen
      PROVE  CanHear
  <2>1. phase[gen] = "live"
    BY <1>3 DEF PictureInv, Phased
  <2>2. peer \in {"ready", "gone"}
    BY <1>3, <2>1 DEF PictureInv, Phased
  <2>3. peer = "gone" => Ends(wire)
    BY DEF PictureInv, Socket
  <2>4. QED
    BY <1>3, <2>2, <2>3 DEF CanHear, Ends
<1>4. ASSUME built, status = "connected", channel # gen
      PROVE  Forgotten
  BY <1>4 DEF PictureInv, Phased, Forgotten
<1>5. NeverDeaf
  BY <1>3, <1>4 DEF NeverDeaf, PictureInv, Phased
<1>6. QED
  BY <1>1, <1>5 DEF SourceSound

-----------------------------------------------------------------------------
(***************************************************************************)
(* The notifications (Inbox).  The parts of the invariant are stated for   *)
(* any rows rs, notifications pd on their way, list its, badge b and marks *)
(* ms, so that what a step does to them is a lemma about values.           *)
(***************************************************************************)
MarkRecord ==
  [op : {"none", "one", "home", "all"}, ids : SUBSET (1..MaxNotes), items : Flags,
   badge : Nat, done : BOOLEAN]

Flying(ms) == {m \in Mark : ms[m].op # "none"}
Undone(ms) == {m \in Flying(ms) : ~ms[m].done}
Alls(ms) == {m \in Undone(ms) : ms[m].op = "all"}

\* What is read in f is read in g.
Under(f, g) == DOMAIN f \subseteq DOMAIN g /\ \A i \in DOMAIN f : f[i] => g[i]

\* The list that the tap of mark x left, and a mark tapped when it was there.
After(x) == AsRead(x.items, x.ids)
Precedes(x, y) == Under(After(x), y.items)

\* A mark is about something that was unread.
MarkFits(x) ==
  x.op # "none" =>
    /\ x.ids # {} /\ x.ids \subseteq DOMAIN x.items
    /\ \A i \in x.ids : ~x.items[i]
    /\ x.op = "home" => x.ids \cap Foreign = {}

\* The marks under way were made one after the other, and the list has them all.
Ordered(its, ms) ==
  /\ \A m \in Flying(ms) : Under(After(ms[m]), its)
  /\ \A m, x \in Flying(ms) : m # x => Precedes(ms[m], ms[x]) \/ Precedes(ms[x], ms[m])

\* The list differs from the rows by the marks that the server has still to make.
Mirrors(rs, pd, its, ms) ==
  /\ DOMAIN its \subseteq DOMAIN rs /\ pd \subseteq DOMAIN rs
  /\ \A m \in Undone(ms) : \A i \in ms[m].ids : i \in DOMAIN rs /\ ~rs[i]
  /\ \A i \in DOMAIN its : its[i] <=> rs[i] \/ \E m \in Undone(ms) : i \in ms[m].ids
  /\ \A i \in pd \ DOMAIN its : ~rs[i]

\* The newest rows are in the list, or on their way.
Reaches(rs, pd, its) ==
  \A i \in DOMAIN rs : i > Len(rs) - PageSize => i \in DOMAIN its \cup pd

\* What the badge should count; what is on its way has still to be counted.
Uncounted(rs, pd, its) ==
  {i \in DOMAIN rs : IF i \in DOMAIN its THEN ~its[i] ELSE ~rs[i] /\ i \notin pd}

\* A mark of everything empties the badge before the rows are all read.
Counts(n, S, alls) ==
  n <= Cardinality(S) /\ (alls = {} => n = Cardinality(S))

\* The badge of now, and the one that a rollback would put back.
Badges(rs, pd, its, b, ms) ==
  /\ Counts(b, Uncounted(rs, pd, its), Alls(ms))
  /\ \A x \in Undone(ms) : DOMAIN ms[x].items = DOMAIN its =>
       Counts(ms[x].badge, Uncounted(rs, pd, ms[x].items),
              {m \in Alls(ms) : m # x /\ Precedes(ms[m], ms[x])})

Fit(rs, its, ms) ==
  /\ rs \in [1..Len(rs) -> BOOLEAN] /\ Len(rs) \in Nat
  /\ its \in [DOMAIN its -> BOOLEAN]
  /\ ms \in [Mark -> MarkRecord]
  /\ \A m \in Mark : MarkFits(ms[m])

Told(rs, pd, its, b, ms) ==
  /\ Ordered(its, ms) /\ Mirrors(rs, pd, its, ms) /\ Reaches(rs, pd, its)
  /\ Badges(rs, pd, its, b, ms)

\* A set of flags is a function of its own domain.
LEMMA FlagsAre ==
  ASSUME NEW f
  PROVE  f \in Flags <=> f \in [DOMAIN f -> BOOLEAN] /\ DOMAIN f \subseteq 1..MaxNotes
<1>1. ASSUME f \in Flags
      PROVE  f \in [DOMAIN f -> BOOLEAN] /\ DOMAIN f \subseteq 1..MaxNotes
  <2>1. PICK ids \in SUBSET (1..MaxNotes) : f \in [ids -> BOOLEAN]
    BY <1>1 DEF Flags
  <2>2. QED
    BY <2>1
<1>2. ASSUME f \in [DOMAIN f -> BOOLEAN], DOMAIN f \subseteq 1..MaxNotes
      PROVE  f \in Flags
  BY <1>2 DEF Flags
<1>3. QED
  BY <1>1, <1>2

\* What a tap leaves.
LEMMA AfterTap ==
  ASSUME NEW x, x.items \in [DOMAIN x.items -> BOOLEAN]
  PROVE  /\ After(x) \in [DOMAIN x.items -> BOOLEAN]
         /\ DOMAIN After(x) = DOMAIN x.items
         /\ \A j \in DOMAIN x.items : After(x)[j] <=> x.items[j] \/ j \in x.ids
BY DEF After, AsRead

\* The parts of a mark.
LEMMA RecordFits ==
  ASSUME NEW x \in MarkRecord
  PROVE  /\ x.items \in [DOMAIN x.items -> BOOLEAN] /\ DOMAIN x.items \subseteq 1..MaxNotes
         /\ x.badge \in Nat /\ x.done \in BOOLEAN /\ x.ids \in SUBSET (1..MaxNotes)
<1>1. x.items \in Flags /\ x.badge \in Nat /\ x.done \in BOOLEAN /\ x.ids \in SUBSET (1..MaxNotes)
  BY DEF MarkRecord
<1>2. QED
  BY <1>1, FlagsAre

\* Of two marks one was first, and they are about different notifications.
LEMMA OneIsFirst ==
  ASSUME NEW x \in MarkRecord, NEW y \in MarkRecord, MarkFits(x), MarkFits(y),
         x.op # "none", y.op # "none", Precedes(x, y)
  PROVE  ~Precedes(y, x) /\ x.ids \cap y.ids = {}
<1>1. /\ x.items \in [DOMAIN x.items -> BOOLEAN] /\ y.items \in [DOMAIN y.items -> BOOLEAN]
  BY RecordFits
<1>2. /\ DOMAIN After(x) = DOMAIN x.items /\ DOMAIN After(y) = DOMAIN y.items
      /\ \A j \in DOMAIN x.items : After(x)[j] <=> x.items[j] \/ j \in x.ids
      /\ \A j \in DOMAIN y.items : After(y)[j] <=> y.items[j] \/ j \in y.ids
  BY <1>1, AfterTap
<1>3. \A j \in x.ids : j \in DOMAIN y.items /\ y.items[j]
  BY <1>2 DEF Precedes, Under, MarkFits
<1>4. x.ids \cap y.ids = {}
  BY <1>3 DEF MarkFits
<1>5. ASSUME Precedes(y, x)
      PROVE  FALSE
  <2>1. PICK j \in x.ids : TRUE
    BY DEF MarkFits
  <2>2. x.items[j]
    BY <1>2, <1>3, <1>5 DEF Precedes, Under
  <2>3. QED
    BY <2>2 DEF MarkFits
<1>6. QED
  BY <1>4, <1>5

\* What is to be counted can be.
LEMMA CountIsFinite ==
  ASSUME NEW rs, rs \in [1..Len(rs) -> BOOLEAN], Len(rs) \in Nat, NEW pd, NEW its
  PROVE  /\ IsFiniteSet(Uncounted(rs, pd, its))
         /\ Cardinality(Uncounted(rs, pd, its)) \in Nat
<1>1. IsFiniteSet(1..Len(rs))
  BY FS_Interval
<1>2. Uncounted(rs, pd, its) \subseteq 1..Len(rs)
  BY DEF Uncounted
<1>3. IsFiniteSet(Uncounted(rs, pd, its))
  BY <1>1, <1>2, FS_Subset
<1>4. QED
  BY <1>3, FS_CardinalityType

\* The parts depend on the marks under way, and on what is counted.
LEMMA BadgesDepend ==
  ASSUME NEW rs, NEW pd, NEW its, NEW b, NEW ms, NEW rs2, NEW pd2,
         Badges(rs, pd, its, b, ms),
         Uncounted(rs2, pd2, its) = Uncounted(rs, pd, its),
         \A x \in Undone(ms) : DOMAIN ms[x].items = DOMAIN its =>
           Uncounted(rs2, pd2, ms[x].items) = Uncounted(rs, pd, ms[x].items)
  PROVE  Badges(rs2, pd2, its, b, ms)
BY DEF Badges

\* A new row, on its way.
LEMMA NewRowKeeps ==
  ASSUME NEW rs, NEW pd, NEW its, NEW b, NEW ms, Fit(rs, its, ms), Told(rs, pd, its, b, ms),
         NEW rs2, rs2 \in [1..Len(rs) + 1 -> BOOLEAN], Len(rs2) = Len(rs) + 1,
         \A i \in 1..Len(rs) : rs2[i] = rs[i], rs2[Len(rs) + 1] = FALSE
  PROVE  Told(rs2, pd \cup {Len(rs) + 1}, its, b, ms)
<1>. DEFINE n == Len(rs)
            pd2 == pd \cup {n + 1}
<1>. /\ Ordered(its, ms) /\ Mirrors(rs, pd, its, ms) /\ Reaches(rs, pd, its)
     /\ Badges(rs, pd, its, b, ms) /\ n \in Nat /\ rs \in [1..n -> BOOLEAN]
  BY DEF Told, Fit
<1>. rs2 \in [1..n + 1 -> BOOLEAN] /\ Len(rs2) = n + 1
     /\ (\A i \in 1..n : rs2[i] = rs[i]) /\ rs2[n + 1] = FALSE
  OBVIOUS
<1>1. /\ DOMAIN rs = 1..n /\ DOMAIN rs2 = 1..n + 1 /\ n + 1 \notin DOMAIN rs
      /\ DOMAIN rs2 = DOMAIN rs \cup {n + 1} /\ \A i \in DOMAIN rs : rs2[i] = rs[i]
  OBVIOUS
<1>. HIDE DEF n
<1>2. Mirrors(rs2, pd2, its, ms)
  BY <1>1 DEF Mirrors
<1>3. Reaches(rs2, pd2, its)
  BY <1>1, InboxAssumption DEF Reaches, n
<1>4. ASSUME NEW f, DOMAIN f \subseteq DOMAIN rs
      PROVE  Uncounted(rs2, pd2, f) = Uncounted(rs, pd, f)
  BY <1>1, <1>4 DEF Uncounted
<1>5. Uncounted(rs2, pd2, its) = Uncounted(rs, pd, its)
  BY <1>4 DEF Mirrors
<1>6. \A x \in Undone(ms) : DOMAIN ms[x].items = DOMAIN its =>
        Uncounted(rs2, pd2, ms[x].items) = Uncounted(rs, pd, ms[x].items)
  BY <1>4 DEF Mirrors
<1>. HIDE DEF pd2
<1>7. Badges(rs2, pd2, its, b, ms)
  BY <1>5, <1>6, BadgesDepend
<1>8. QED
  BY <1>2, <1>3, <1>7 DEF Told, pd2

\* What is on its way is less by something that the list has.
LEMMA SettledKeeps ==
  ASSUME NEW rs, NEW pd, NEW its, NEW b, NEW ms, Fit(rs, its, ms), Told(rs, pd, its, b, ms),
         NEW pd2 \in SUBSET pd, pd \ pd2 \subseteq DOMAIN its
  PROVE  Told(rs, pd2, its, b, ms)
<1>. /\ Ordered(its, ms) /\ Mirrors(rs, pd, its, ms) /\ Reaches(rs, pd, its)
     /\ Badges(rs, pd, its, b, ms)
  BY DEF Told
<1>1. Mirrors(rs, pd2, its, ms) /\ Reaches(rs, pd2, its)
  BY DEF Mirrors, Reaches
<1>2. ASSUME NEW f, DOMAIN f = DOMAIN its
      PROVE  Uncounted(rs, pd2, f) = Uncounted(rs, pd, f)
  BY <1>2 DEF Uncounted
<1>3. Badges(rs, pd2, its, b, ms)
  BY <1>2, BadgesDepend
<1>4. QED
  BY <1>1, <1>3 DEF Told

\* An event brings a notification that the list does not have.
LEMMA ArrivalKeeps ==
  ASSUME NEW rs, NEW pd, NEW its, NEW b \in Nat, NEW ms, Fit(rs, its, ms), Told(rs, pd, its, b, ms),
         NEW i \in pd, i \notin DOMAIN its, NEW pd2 \in SUBSET pd, pd \ {i} \subseteq pd2,
         NEW its2, its2 = [j \in DOMAIN its \cup {i} |-> j # i /\ its[j]]
  PROVE  Told(rs, pd2, its2, b + 1, ms)
<1>. /\ Ordered(its, ms) /\ Mirrors(rs, pd, its, ms) /\ Reaches(rs, pd, its)
     /\ Badges(rs, pd, its, b, ms) /\ Len(rs) \in Nat /\ rs \in [1..Len(rs) -> BOOLEAN]
     /\ its \in [DOMAIN its -> BOOLEAN]
  BY DEF Told, Fit
<1>1. /\ DOMAIN its2 = DOMAIN its \cup {i} /\ ~its2[i]
      /\ \A j \in DOMAIN its : its2[j] <=> its[j]
  OBVIOUS
<1>2. Ordered(its2, ms)
  BY <1>1 DEF Ordered, Under
<1>3. \A m \in Flying(ms) : DOMAIN ms[m].items \subseteq DOMAIN its
                            /\ (ms[m].ids \subseteq DOMAIN its)
  <2>1. ASSUME NEW m \in Flying(ms)
        PROVE  DOMAIN ms[m].items \subseteq DOMAIN its /\ (ms[m].ids \subseteq DOMAIN its)
    <3>1. ms[m] \in MarkRecord /\ MarkFits(ms[m]) /\ ms[m].op # "none"
      BY DEF Fit, Flying
    <3>2. ms[m].items \in [DOMAIN ms[m].items -> BOOLEAN]
      BY <3>1, RecordFits
    <3>3. DOMAIN After(ms[m]) = DOMAIN ms[m].items
      BY <3>2, AfterTap
    <3>4. QED
      BY <3>1, <3>3 DEF Ordered, Under, MarkFits
  <2>2. QED
    BY <2>1
<1>4. i \in DOMAIN rs /\ ~rs[i]
  BY DEF Mirrors
<1>5. \A m \in Undone(ms) : i \notin ms[m].ids
  BY <1>3 DEF Undone
<1>6. Mirrors(rs, pd2, its2, ms)
  BY <1>1, <1>4, <1>5 DEF Mirrors
<1>7. Reaches(rs, pd2, its2)
  BY <1>1 DEF Reaches
<1>8. /\ Uncounted(rs, pd2, its2) = Uncounted(rs, pd, its) \cup {i}
      /\ i \notin Uncounted(rs, pd, its)
  BY <1>1, <1>4 DEF Uncounted
<1>9. Cardinality(Uncounted(rs, pd2, its2)) = Cardinality(Uncounted(rs, pd, its)) + 1
  BY <1>8, CountIsFinite, FS_AddElement
<1>10. Counts(b + 1, Uncounted(rs, pd2, its2), Alls(ms))
  BY <1>9, CountIsFinite DEF Badges, Counts
<1>11. \A x \in Undone(ms) : DOMAIN ms[x].items # DOMAIN its2
  BY <1>1, <1>3 DEF Undone
<1>12. QED
  BY <1>2, <1>6, <1>7, <1>10, <1>11 DEF Told, Badges

\* A tap marks what the list has unread.
LEMMA TapKeeps ==
  ASSUME NEW rs, NEW pd, NEW its, NEW b \in Nat, NEW ms, Fit(rs, its, ms), Told(rs, pd, its, b, ms),
         NEW m \in Mark, ms[m].op = "none",
         NEW kind \in {"one", "home", "all"}, NEW ids, ids # {},
         ids \subseteq {j \in DOMAIN its : ~its[j]},
         NEW new \in MarkRecord, new.op = kind, new.ids = ids, new.items = its, new.badge = b,
         new.done = FALSE, MarkFits(new),
         NEW ms2, ms2 = [ms EXCEPT ![m] = new],
         NEW its2, its2 = AsRead(its, ids), NEW b2, b2 = Left(kind, b, ids)
  PROVE  Told(rs, pd, its2, b2, ms2)
<1>. /\ Ordered(its, ms) /\ Mirrors(rs, pd, its, ms) /\ Reaches(rs, pd, its)
     /\ Badges(rs, pd, its, b, ms) /\ Len(rs) \in Nat /\ rs \in [1..Len(rs) -> BOOLEAN]
     /\ its \in [DOMAIN its -> BOOLEAN] /\ ms \in [Mark -> MarkRecord]
     /\ \A x \in Mark : MarkFits(ms[x])
  BY DEF Told, Fit
<1>1. /\ its2 \in [DOMAIN its -> BOOLEAN] /\ DOMAIN its2 = DOMAIN its
      /\ \A j \in DOMAIN its : its2[j] <=> its[j] \/ j \in ids
      /\ After(new) = its2
  BY DEF AsRead, After
<1>2. /\ ms2[m] = new /\ \A x \in Mark \ {m} : ms2[x] = ms[x]
      /\ m \notin Flying(ms) /\ Flying(ms2) = Flying(ms) \cup {m}
      /\ m \notin Undone(ms) /\ Undone(ms2) = Undone(ms) \cup {m}
  BY DEF Flying, Undone
<1>3. /\ m \notin Alls(ms)
      /\ kind = "all" => Alls(ms2) = Alls(ms) \cup {m}
      /\ kind # "all" => Alls(ms2) = Alls(ms)
  BY <1>2 DEF Alls, Undone, Flying
<1>4. \A x \in Flying(ms) : Precedes(ms[x], new) /\ ~Precedes(new, ms[x])
  <2>1. ASSUME NEW x \in Flying(ms)
        PROVE  Precedes(ms[x], new) /\ ~Precedes(new, ms[x])
    <3>1. ms[x] \in MarkRecord /\ MarkFits(ms[x]) /\ ms[x].op # "none" /\ new.op # "none"
      BY DEF Flying
    <3>2. Precedes(ms[x], new)
      BY DEF Ordered, Precedes
    <3>3. QED
      BY <3>1, <3>2, OneIsFirst
  <2>2. QED
    BY <2>1
<1>5. Ordered(its2, ms2)
  <2>1. ASSUME NEW x \in Flying(ms2)
        PROVE  Under(After(ms2[x]), its2)
    <3>1. CASE x = m
      BY <1>1, <1>2, <3>1 DEF Under
    <3>2. CASE x # m
      BY <1>1 DEF Ordered, Under, Flying
    <3>3. QED
      BY <3>1, <3>2
  <2>2. ASSUME NEW x \in Flying(ms2), NEW y \in Flying(ms2), x # y
        PROVE  Precedes(ms2[x], ms2[y]) \/ Precedes(ms2[y], ms2[x])
    BY <1>2, <1>4, <2>2 DEF Ordered, Flying
  <2>3. QED
    BY <2>1, <2>2 DEF Ordered
<1>6. \A i \in ids : i \in DOMAIN rs /\ ~rs[i]
  BY DEF Mirrors
<1>7. Mirrors(rs, pd, its2, ms2)
  <2>1. \A x \in Undone(ms2) : \A i \in ms2[x].ids : i \in DOMAIN rs /\ ~rs[i]
    BY <1>2, <1>6 DEF Mirrors, Undone, Flying
  <2>2. \A i : (\E x \in Undone(ms2) : i \in ms2[x].ids)
               <=> (i \in ids \/ \E x \in Undone(ms) : i \in ms[x].ids)
    BY <1>2 DEF Undone, Flying
  <2>3. \A i \in DOMAIN its2 : its2[i] <=> rs[i] \/ \E x \in Undone(ms2) : i \in ms2[x].ids
    BY <1>1, <2>2 DEF Mirrors
  <2>4. QED
    BY <1>1, <2>1, <2>3 DEF Mirrors
<1>8. Reaches(rs, pd, its2)
  BY <1>1 DEF Reaches
<1>9. Counts(b2, Uncounted(rs, pd, its2), Alls(ms2))
  <2>. DEFINE U == Uncounted(rs, pd, its)
              U2 == Uncounted(rs, pd, its2)
  <2>1. U2 = U \ ids /\ ids \subseteq U
    BY <1>1 DEF Uncounted, Mirrors
  <2>2. IsFiniteSet(U) /\ Cardinality(U) \in Nat /\ IsFiniteSet(U2) /\ Cardinality(U2) \in Nat
    BY CountIsFinite
  <2>3. Counts(b, U, Alls(ms))
    BY DEF Badges
  <2>. HIDE DEF U, U2
  <2>4. IsFiniteSet(ids) /\ Cardinality(ids) \in Nat
    BY <2>1, <2>2, FS_Subset, FS_CardinalityType
  <2>5. Cardinality(U2) = Cardinality(U) - Cardinality(ids)
    <3>1. U \cap ids = ids
      BY <2>1
    <3>2. Cardinality(U \ ids) = Cardinality(U) - Cardinality(U \cap ids)
      BY <2>2, FS_Difference
    <3>3. QED
      BY <2>1, <3>1, <3>2
  <2>6. b2 = IF kind = "all" \/ b < Cardinality(ids) THEN 0 ELSE b - Cardinality(ids)
    BY DEF Left
  <2>7. ASSUME kind = "all"
        PROVE  Counts(b2, U2, Alls(ms2))
    <3>1. b2 = 0 /\ 0 <= Cardinality(U2)
      BY <2>2, <2>6, <2>7
    <3>2. m \in Alls(ms2)
      BY <1>3, <2>7
    <3>3. Alls(ms2) # {}
      BY <3>2
    <3>4. QED
      BY <3>1, <3>3 DEF Counts
  <2>8. ASSUME kind # "all"
        PROVE  Counts(b2, U2, Alls(ms2))
    BY <1>3, <2>2, <2>3, <2>4, <2>5, <2>6, <2>8 DEF Counts
  <2>9. Counts(b2, U2, Alls(ms2))
    BY <2>7, <2>8
  <2>10. QED
    BY <2>9 DEF U2
<1>10. ASSUME NEW x \in Undone(ms2), DOMAIN ms2[x].items = DOMAIN its2
      PROVE  Counts(ms2[x].badge, Uncounted(rs, pd, ms2[x].items),
                    {y \in Alls(ms2) : y # x /\ Precedes(ms2[y], ms2[x])})
  <2>1. CASE x = m
    <3>1. {y \in Alls(ms2) : y # x /\ Precedes(ms2[y], ms2[x])} = Alls(ms)
      BY <1>4, <2>1 DEF Alls, Undone, Flying
    <3>2. Counts(b, Uncounted(rs, pd, its), Alls(ms))
      BY DEF Badges
    <3>3. QED
      BY <1>2, <2>1, <3>1, <3>2
  <2>2. CASE x # m
    <3>1. x \in Undone(ms) /\ x \in Flying(ms) /\ ms2[x] = ms[x]
      BY <1>2, <2>2 DEF Undone, Flying
    <3>2. {y \in Alls(ms2) : y # x /\ Precedes(ms2[y], ms2[x])}
            = {y \in Alls(ms) : y # x /\ Precedes(ms[y], ms[x])}
      BY <1>4, <3>1 DEF Alls, Undone, Flying
    <3>3. DOMAIN ms[x].items = DOMAIN its
      BY <1>1, <1>10, <3>1
    <3>4. Counts(ms[x].badge, Uncounted(rs, pd, ms[x].items),
                 {y \in Alls(ms) : y # x /\ Precedes(ms[y], ms[x])})
      BY <3>1, <3>3 DEF Badges
    <3>5. QED
      BY <3>1, <3>2, <3>4
  <2>3. QED
    BY <2>1, <2>2
<1>11. Badges(rs, pd, its2, b2, ms2)
  BY <1>9, <1>10 DEF Badges
<1>12. QED
  BY <1>5, <1>7, <1>8, <1>11 DEF Told

\* The answer to a mark that the server has made.
LEMMA AnswerKeeps ==
  ASSUME NEW rs, NEW pd, NEW its, NEW b, NEW ms, Fit(rs, its, ms), Told(rs, pd, its, b, ms),
         NEW m \in Mark, ms[m].done = TRUE, NEW ms2, ms2 = [ms EXCEPT ![m] = Unused]
  PROVE  Told(rs, pd, its, b, ms2)
<1>. /\ Ordered(its, ms) /\ Mirrors(rs, pd, its, ms) /\ Reaches(rs, pd, its)
     /\ Badges(rs, pd, its, b, ms) /\ ms \in [Mark -> MarkRecord]
  BY DEF Told, Fit
<1>1. /\ \A x \in Mark \ {m} : ms2[x] = ms[x]
      /\ m \notin Undone(ms) /\ Flying(ms2) = Flying(ms) \ {m} /\ Undone(ms2) = Undone(ms)
  BY DEF Flying, Undone, Unused
<1>2. \A x \in Undone(ms) : x \in Mark \ {m}
  BY <1>1 DEF Undone, Flying
<1>3. Alls(ms2) = Alls(ms)
  BY <1>1, <1>2 DEF Alls
<1>4. Ordered(its, ms2)
  BY <1>1 DEF Ordered, Flying
<1>5. Mirrors(rs, pd, its, ms2)
  BY <1>1, <1>2 DEF Mirrors
<1>6. \A x \in Undone(ms) :
        {y \in Alls(ms2) : y # x /\ Precedes(ms2[y], ms2[x])}
          = {y \in Alls(ms) : y # x /\ Precedes(ms[y], ms[x])}
  BY <1>1, <1>2, <1>3 DEF Alls
<1>7. Badges(rs, pd, its, b, ms2)
  BY <1>1, <1>2, <1>3, <1>6 DEF Badges
<1>8. QED
  BY <1>4, <1>5, <1>7 DEF Told

\* The server makes a mark of what the screen had unread, and of nothing else.
LEMMA ActKeeps ==
  ASSUME NEW rs, NEW pd, NEW its, NEW b \in Nat, NEW ms, Fit(rs, its, ms), Told(rs, pd, its, b, ms),
         NEW m \in Undone(ms),
         NEW reach, ms[m].op = "one" => reach = ms[m].ids,
         ms[m].op # "one" => reach = MarkScope(ms[m].op, DOMAIN rs),
         \A i \in reach : i \in DOMAIN rs /\ ~rs[i] => i \in ms[m].ids,
         NEW rs2, rs2 = AsRead(rs, reach), Len(rs2) = Len(rs),
         NEW ms2, ms2 = [ms EXCEPT ![m].done = TRUE]
  PROVE  Told(rs2, pd, its, b, ms2)
<1>. /\ Ordered(its, ms) /\ Mirrors(rs, pd, its, ms) /\ Reaches(rs, pd, its)
     /\ Badges(rs, pd, its, b, ms) /\ Len(rs) \in Nat /\ rs \in [1..Len(rs) -> BOOLEAN]
     /\ its \in [DOMAIN its -> BOOLEAN] /\ ms \in [Mark -> MarkRecord]
     /\ \A x \in Mark : MarkFits(ms[x])
  BY DEF Told, Fit
<1>. m \in Mark /\ m \in Flying(ms) /\ ms[m] \in MarkRecord /\ MarkFits(ms[m]) /\ ms[m].op # "none"
  BY DEF Undone, Flying
<1>1. /\ ms[m].ids \subseteq DOMAIN rs /\ (\A i \in ms[m].ids : ~rs[i])
      /\ ms[m].ids \subseteq reach
  BY DEF Mirrors, MarkFits, MarkScope
<1>2. /\ DOMAIN rs2 = DOMAIN rs
      /\ \A i \in DOMAIN rs : rs2[i] <=> rs[i] \/ i \in ms[m].ids
  BY <1>1 DEF AsRead
<1>3. /\ \A x \in Mark \ {m} : ms2[x] = ms[x]
      /\ ms2[m].op = ms[m].op /\ ms2[m].ids = ms[m].ids /\ ms2[m].items = ms[m].items
      /\ ms2[m].done = TRUE
  BY DEF MarkRecord
<1>4. /\ \A x \in Mark : After(ms2[x]) = After(ms[x]) /\ ms2[x].items = ms[x].items
                         /\ ms2[x].ids = ms[x].ids /\ ms2[x].op = ms[x].op
      /\ \A x, y \in Mark : Precedes(ms2[x], ms2[y]) <=> Precedes(ms[x], ms[y])
  BY <1>3 DEF After, Precedes
<1>5. Flying(ms2) = Flying(ms) /\ Undone(ms2) = Undone(ms) \ {m} /\ Alls(ms2) = Alls(ms) \ {m}
  BY <1>3, <1>4 DEF Flying, Undone, Alls
<1>6. Ordered(its, ms2)
  BY <1>4, <1>5 DEF Ordered, Flying
<1>7. ASSUME NEW x \in Undone(ms), x # m
      PROVE  ms[x].ids \cap ms[m].ids = {} /\ ms[x].ids # {}
  <2>1. /\ x \in Flying(ms) /\ ms[x] \in MarkRecord /\ MarkFits(ms[x]) /\ ms[x].op # "none"
    BY DEF Undone, Flying
  <2>2. Precedes(ms[m], ms[x]) \/ Precedes(ms[x], ms[m])
    BY <1>7, <2>1 DEF Ordered
  <2>3. ms[x].ids \cap ms[m].ids = {}
    BY <2>1, <2>2, OneIsFirst
  <2>4. QED
    BY <2>1, <2>3 DEF MarkFits
<1>8. ms[m].ids \subseteq DOMAIN its
  <2>1. ms[m].items \in [DOMAIN ms[m].items -> BOOLEAN]
    BY RecordFits
  <2>2. DOMAIN After(ms[m]) = DOMAIN ms[m].items
    BY <2>1, AfterTap
  <2>3. QED
    BY <2>2 DEF Ordered, Under, MarkFits
<1>9. Mirrors(rs2, pd, its, ms2)
  <2>1. \A x \in Undone(ms2) : \A i \in ms2[x].ids : i \in DOMAIN rs2 /\ ~rs2[i]
    BY <1>2, <1>5, <1>7 DEF Mirrors, Flying
  <2>2. \A i : (\E x \in Undone(ms) : i \in ms[x].ids)
               <=> (i \in ms[m].ids \/ \E x \in Undone(ms2) : i \in ms2[x].ids)
    BY <1>4, <1>5 DEF Undone, Flying
  <2>3. \A i \in DOMAIN its : its[i] <=> rs2[i] \/ \E x \in Undone(ms2) : i \in ms2[x].ids
    BY <1>2, <2>2 DEF Mirrors
  <2>4. \A i \in pd \ DOMAIN its : ~rs2[i]
    BY <1>2, <1>8 DEF Mirrors
  <2>5. QED
    BY <1>2, <2>1, <2>3, <2>4 DEF Mirrors
<1>10. Reaches(rs2, pd, its)
  BY <1>2 DEF Reaches
<1>11. ASSUME NEW f, DOMAIN f = DOMAIN its
       PROVE  Uncounted(rs2, pd, f) = Uncounted(rs, pd, f)
  BY <1>2, <1>8, <1>11 DEF Uncounted
<1>12. ASSUME ms[m].op = "all"
       PROVE  \A i \in DOMAIN rs : ~rs[i] => i \in ms[m].ids
  BY <1>12 DEF MarkScope
<1>13. Counts(b, Uncounted(rs, pd, its), Alls(ms2))
  <2>1. Counts(b, Uncounted(rs, pd, its), Alls(ms))
    BY DEF Badges
  <2>2. CASE ms[m].op # "all"
    <3>1. Alls(ms2) = Alls(ms)
      BY <1>5, <2>2 DEF Alls
    <3>2. QED
      BY <2>1, <3>1
  <2>3. CASE ms[m].op = "all"
    <3>1. ASSUME NEW i \in Uncounted(rs, pd, its)
          PROVE  FALSE
      <4>1. i \in DOMAIN rs
        BY DEF Uncounted
      <4>2. ~rs[i]
        BY <4>1 DEF Uncounted, Mirrors
      <4>3. i \in ms[m].ids /\ i \in DOMAIN its
        BY <1>8, <1>12, <2>3, <4>1, <4>2
      <4>4. its[i]
        BY <4>3 DEF Mirrors
      <4>5. QED
        BY <4>3, <4>4 DEF Uncounted
    <3>2. Uncounted(rs, pd, its) = {}
      BY <3>1
    <3>3. Cardinality(Uncounted(rs, pd, its)) = 0
      BY <3>2, FS_EmptySet
    <3>4. QED
      BY <2>1, <3>3 DEF Counts
  <2>4. QED
    BY <2>2, <2>3
<1>14. ASSUME NEW x \in Undone(ms2), DOMAIN ms2[x].items = DOMAIN its
       PROVE  Counts(ms2[x].badge, Uncounted(rs2, pd, ms2[x].items),
                     {y \in Alls(ms2) : y # x /\ Precedes(ms2[y], ms2[x])})
  <2>1. x \in Undone(ms) /\ x # m /\ ms2[x] = ms[x] /\ x \in Mark
    BY <1>3, <1>5 DEF Undone, Flying
  <2>2. PICK i \in ms[x].ids : i \notin ms[m].ids
    BY <1>7, <2>1
  <2>3. i \in DOMAIN rs /\ ~rs[i]
    BY <2>1 DEF Mirrors
  <2>4. ms[m].op # "all"
    BY <1>12, <2>2, <2>3
  <2>5. Alls(ms2) = Alls(ms)
    BY <1>5, <2>4 DEF Alls
  <2>6. {y \in Alls(ms2) : y # x /\ Precedes(ms2[y], ms2[x])}
          = {y \in Alls(ms) : y # x /\ Precedes(ms[y], ms[x])}
    BY <2>5 DEF Alls, Undone, Flying
  <2>7. Counts(ms[x].badge, Uncounted(rs, pd, ms[x].items),
               {y \in Alls(ms) : y # x /\ Precedes(ms[y], ms[x])})
    BY <1>14, <2>1 DEF Badges
  <2>8. Uncounted(rs2, pd, ms[x].items) = Uncounted(rs, pd, ms[x].items)
    BY <1>11, <1>14, <2>1
  <2>9. QED
    BY <2>1, <2>6, <2>7, <2>8
<1>15. Badges(rs2, pd, its, b, ms2)
  BY <1>11, <1>13, <1>14 DEF Badges
<1>16. QED
  BY <1>6, <1>9, <1>10, <1>15 DEF Told

\* A mark that the server has not made is taken back, and nothing has changed.
LEMMA RollbackKeeps ==
  ASSUME NEW rs, NEW pd, NEW its, NEW b, NEW ms, Fit(rs, its, ms), Told(rs, pd, its, b, ms),
         NEW m \in Undone(ms), its = After(ms[m]),
         NEW ms2, ms2 = [ms EXCEPT ![m] = Unused]
  PROVE  Told(rs, pd, ms[m].items, ms[m].badge, ms2)
<1>. /\ Ordered(its, ms) /\ Mirrors(rs, pd, its, ms) /\ Reaches(rs, pd, its)
     /\ Badges(rs, pd, its, b, ms)
     /\ its \in [DOMAIN its -> BOOLEAN] /\ ms \in [Mark -> MarkRecord]
     /\ \A x \in Mark : MarkFits(ms[x])
  BY DEF Told, Fit
<1>. m \in Mark /\ m \in Flying(ms) /\ ms[m] \in MarkRecord /\ MarkFits(ms[m]) /\ ms[m].op # "none"
  BY DEF Undone, Flying
<1>. DEFINE old == ms[m].items
<1>1. /\ old \in [DOMAIN old -> BOOLEAN] /\ DOMAIN its = DOMAIN old
      /\ \A j \in DOMAIN old : its[j] <=> old[j] \/ j \in ms[m].ids
      /\ \A j \in ms[m].ids : j \in DOMAIN old /\ ~old[j]
  <2>1. old \in [DOMAIN old -> BOOLEAN]
    BY RecordFits
  <2>2. QED
    BY <2>1, AfterTap DEF MarkFits
<1>2. /\ \A x \in Mark \ {m} : ms2[x] = ms[x]
      /\ Flying(ms2) = Flying(ms) \ {m} /\ Undone(ms2) = Undone(ms) \ {m}
      /\ Alls(ms2) = Alls(ms) \ {m}
  BY DEF Flying, Undone, Alls, Unused
<1>3. ASSUME NEW x \in Flying(ms), x # m
      PROVE  /\ Precedes(ms[x], ms[m]) /\ ~Precedes(ms[m], ms[x])
             /\ ms[x].ids \cap ms[m].ids = {}
  <2>1. /\ ms[x] \in MarkRecord /\ MarkFits(ms[x]) /\ ms[x].op # "none"
    BY DEF Flying
  <2>2. ms[x].items \in [DOMAIN ms[x].items -> BOOLEAN]
    BY <2>1, RecordFits
  <2>3. ASSUME Precedes(ms[m], ms[x])
        PROVE  FALSE
    <3>1. PICK j \in ms[x].ids : j \in DOMAIN ms[x].items /\ ~ms[x].items[j]
      BY <2>1 DEF MarkFits
    <3>2. j \in DOMAIN After(ms[x]) /\ After(ms[x])[j]
      BY <2>2, <3>1, AfterTap
    <3>3. j \in DOMAIN its /\ its[j]
      BY <3>2 DEF Ordered, Under
    <3>4. ms[x].items[j]
      BY <2>3, <3>3 DEF Precedes, Under
    <3>5. QED
      BY <3>1, <3>4
  <2>4. Precedes(ms[x], ms[m])
    BY <1>3, <2>3 DEF Ordered
  <2>5. QED
    BY <2>1, <2>4, OneIsFirst
<1>4. Ordered(old, ms2)
  BY <1>2, <1>3 DEF Ordered, Flying, Precedes
<1>5. Mirrors(rs, pd, old, ms2)
  <2>1. \A x \in Undone(ms2) : ms2[x] = ms[x] /\ x \in Undone(ms) /\ x \in Flying(ms) /\ x # m
    BY <1>2 DEF Undone, Flying
  <2>2. \A x \in Undone(ms2) : \A i \in ms2[x].ids : i \in DOMAIN rs /\ ~rs[i]
    BY <2>1 DEF Mirrors
  <2>3. \A i : (\E x \in Undone(ms) : i \in ms[x].ids)
               <=> (i \in ms[m].ids \/ \E x \in Undone(ms2) : i \in ms2[x].ids)
    BY <1>2, <2>1
  <2>4. \A i \in ms[m].ids : ~rs[i] /\ \A x \in Undone(ms2) : i \notin ms2[x].ids
    BY <1>3, <2>1 DEF Mirrors
  <2>5. \A i \in DOMAIN old : old[i] <=> rs[i] \/ \E x \in Undone(ms2) : i \in ms2[x].ids
    BY <1>1, <2>3, <2>4 DEF Mirrors
  <2>6. QED
    BY <1>1, <2>2, <2>5 DEF Mirrors
<1>6. Reaches(rs, pd, old)
  BY <1>1 DEF Reaches
<1>7. Counts(ms[m].badge, Uncounted(rs, pd, old), Alls(ms2))
  <2>1. {y \in Alls(ms) : y # m /\ Precedes(ms[y], ms[m])} = Alls(ms2)
    BY <1>2, <1>3 DEF Alls, Undone
  <2>2. Counts(ms[m].badge, Uncounted(rs, pd, old),
               {y \in Alls(ms) : y # m /\ Precedes(ms[y], ms[m])})
    BY <1>1 DEF Badges
  <2>3. QED
    BY <2>1, <2>2
<1>8. ASSUME NEW x \in Undone(ms2), DOMAIN ms2[x].items = DOMAIN old
      PROVE  Counts(ms2[x].badge, Uncounted(rs, pd, ms2[x].items),
                    {y \in Alls(ms2) : y # x /\ Precedes(ms2[y], ms2[x])})
  <2>1. x \in Undone(ms) /\ x \in Flying(ms) /\ x # m /\ ms2[x] = ms[x]
    BY <1>2 DEF Undone, Flying
  <2>2. \A y \in Alls(ms2) : ms2[y] = ms[y]
    BY <1>2 DEF Alls, Undone, Flying
  <2>3. {y \in Alls(ms2) : y # x /\ Precedes(ms2[y], ms2[x])}
          = {y \in Alls(ms) : y # x /\ Precedes(ms[y], ms[x])}
    BY <1>2, <1>3, <2>1, <2>2
  <2>4. Counts(ms[x].badge, Uncounted(rs, pd, ms[x].items),
               {y \in Alls(ms) : y # x /\ Precedes(ms[y], ms[x])})
    BY <1>1, <1>8, <2>1 DEF Badges
  <2>5. QED
    BY <2>1, <2>3, <2>4
<1>9. Badges(rs, pd, old, ms[m].badge, ms2)
  BY <1>7, <1>8 DEF Badges
<1>10. QED
  BY <1>4, <1>5, <1>6, <1>9 DEF Told

\* What a queue holds.
On(q) == {q[k] : k \in DOMAIN q}

\* A further entry.
LEMMA QueueGrows ==
  ASSUME NEW S, NEW q \in Seq(S), NEW i \in S
  PROVE  Append(q, i) \in Seq(S) /\ On(Append(q, i)) = On(q) \cup {i}
<1>1. /\ Append(q, i) \in Seq(S) /\ Len(Append(q, i)) = Len(q) + 1 /\ Len(q) \in Nat
      /\ \A k \in 1..Len(q) : Append(q, i)[k] = q[k]
      /\ Append(q, i)[Len(q) + 1] = i
  BY AppendProperties, LenProperties
<1>2. DOMAIN q = 1..Len(q) /\ DOMAIN Append(q, i) = 1..Len(q) + 1
  BY <1>1, LenProperties
<1>. DEFINE v == Append(q, i)
<1>3. v \in Seq(S) /\ DOMAIN v = DOMAIN q \cup {Len(q) + 1} /\ v[Len(q) + 1] = i
      /\ \A k \in DOMAIN q : v[k] = q[k]
  BY <1>1, <1>2
<1>. HIDE DEF v
<1>4. On(v) = On(q) \cup {i}
  BY <1>3 DEF On
<1>5. QED
  BY <1>3, <1>4 DEF v

\* The first entry leaves.
LEMMA QueueShrinks ==
  ASSUME NEW S, NEW q \in Seq(S), q # <<>>
  PROVE  /\ Tail(q) \in Seq(S) /\ Head(q) \in On(q) /\ Head(q) \in S
         /\ On(Tail(q)) \subseteq On(q) /\ On(q) \ {Head(q)} \subseteq On(Tail(q))
<1>1. /\ Head(q) \in S /\ Tail(q) \in Seq(S) /\ Len(Tail(q)) = Len(q) - 1
      /\ \A k \in 1..Len(Tail(q)) : Tail(q)[k] = q[k + 1]
  BY HeadTailProperties
<1>2. /\ Len(q) \in Nat \ {0} /\ Head(q) = q[1]
      /\ DOMAIN q = 1..Len(q) /\ DOMAIN Tail(q) = 1..(Len(q) - 1)
  BY <1>1, EmptySeq, LenProperties
<1>. DEFINE v == Tail(q)
<1>3. /\ DOMAIN v = 1..(Len(q) - 1) /\ \A k \in DOMAIN v : v[k] = q[k + 1]
  BY <1>1, <1>2
<1>. HIDE DEF v
<1>4. Head(q) \in On(q)
  BY <1>2 DEF On
<1>5. On(v) \subseteq On(q)
  BY <1>2, <1>3 DEF On
<1>6. ASSUME NEW x \in On(q), x # Head(q)
      PROVE  x \in On(v)
  <2>1. PICK k \in DOMAIN q : x = q[k]
    BY DEF On
  <2>2. k # 1
    BY <1>2, <1>6, <2>1
  <2>3. k - 1 \in DOMAIN v /\ v[k - 1] = q[k]
    BY <1>2, <1>3, <2>2
  <2>4. QED
    BY <2>1, <2>3 DEF On
<1>7. QED
  BY <1>1, <1>4, <1>5, <1>6 DEF v

\* What an answer to a read, taken from the first n rows, leaves on the screen.
LEMMA AnswerIsSound ==
  ASSUME NEW rs, rs \in [1..Len(rs) -> BOOLEAN], Len(rs) \in Nat, NEW pd, pd \subseteq DOMAIN rs,
         NEW ms, \A m \in Mark : ms[m] = Unused,
         NEW n \in 0..Len(rs), NEW its, its = Newest(SubSeq(rs, 1, n)),
         NEW b, b = Total(SubSeq(rs, 1, n)),
         \A i \in n + 1 .. Len(rs) : i \in pd /\ ~rs[i],
         \A i \in pd : i \in 1..n => i \in DOMAIN its
  PROVE  Told(rs, pd, its, b, ms)
<1>. DEFINE first == SubSeq(rs, 1, n)
<1>1. Len(first) = n /\ \A i \in 1..n : first[i] = rs[i]
  <2>1. \A i \in 1..n : rs[i] \in BOOLEAN
    OBVIOUS
  <2>2. /\ Len(first) = IF 1 <= n THEN n - 1 + 1 ELSE 0
        /\ \A i \in 1..n - 1 + 1 : first[i] = rs[1 + i - 1]
    BY <2>1, SubSeqProperties
  <2>. HIDE DEF first
  <2>3. QED
    BY <2>2
<1>. HIDE DEF first
<1>2. its = Newest(first) /\ b = Total(first) /\ PageSize \in Nat \ {0}
  BY InboxAssumption DEF first
<1>3. /\ DOMAIN its = {i \in 1..n : i > n - PageSize}
      /\ \A i \in DOMAIN its : its[i] = rs[i]
      /\ b = Cardinality({i \in 1..n : ~rs[i]})
  <2>1. Unread(first) = {i \in 1..n : ~rs[i]}
    BY <1>1 DEF Unread
  <2>2. QED
    BY <1>1, <1>2, <2>1 DEF Newest, Total
<1>4. Flying(ms) = {} /\ Undone(ms) = {} /\ Alls(ms) = {}
  BY DEF Flying, Undone, Alls, Unused
<1>5. Ordered(its, ms)
  BY <1>4 DEF Ordered
<1>6. DOMAIN rs = 1..Len(rs) /\ DOMAIN its \subseteq DOMAIN rs
  BY <1>3
<1>7. Mirrors(rs, pd, its, ms)
  <2>1. \A i \in pd \ DOMAIN its : ~rs[i]
    BY <1>6
  <2>2. QED
    BY <1>3, <1>4, <1>6, <2>1 DEF Mirrors
<1>8. Reaches(rs, pd, its)
  <2>1. ASSUME NEW i \in DOMAIN rs, i > Len(rs) - PageSize
        PROVE  i \in DOMAIN its \cup pd
    <3>1. CASE i \in 1..n
      BY <1>2, <1>3, <1>6, <2>1, <3>1
    <3>2. CASE i \notin 1..n
      BY <1>6, <3>2
    <3>3. QED
      BY <3>1, <3>2
  <2>2. QED
    BY <2>1 DEF Reaches
<1>9. Uncounted(rs, pd, its) = {i \in 1..n : ~rs[i]}
  <2>1. ASSUME NEW i \in Uncounted(rs, pd, its)
        PROVE  i \in 1..n /\ ~rs[i]
    BY <1>3, <1>6 DEF Uncounted
  <2>2. ASSUME NEW i \in 1..n, ~rs[i]
        PROVE  i \in Uncounted(rs, pd, its)
    BY <1>3, <1>6, <2>2 DEF Uncounted
  <2>3. QED
    BY <2>1, <2>2
<1>10. Cardinality(Uncounted(rs, pd, its)) \in Nat
  BY CountIsFinite
<1>11. Badges(rs, pd, its, b, ms)
  <2>1. b = Cardinality(Uncounted(rs, pd, its))
    BY <1>3, <1>9
  <2>2. QED
    BY <1>4, <1>10, <2>1 DEF Badges, Counts
<1>12. QED
  BY <1>5, <1>7, <1>8, <1>11 DEF Told

RowTypes ==
  /\ rows \in [1..Len(rows) -> BOOLEAN] /\ Len(rows) \in 0..MaxNotes
  /\ posted \subseteq Ids /\ events \in Seq(1..MaxNotes) /\ On(events) \subseteq Ids

ListTypes ==
  /\ items \in Flags /\ DOMAIN items \subseteq Ids /\ badge \in Nat
  /\ ready \in BOOLEAN /\ lapse \in BOOLEAN /\ link \in {"up", "down"}
  /\ taps \in 0..MaxTaps

ReadTypes ==
  /\ read \in [at : {"idle", "asked"}, list : {<<>>} \cup {<<p>> : p \in Flags},
               count : {<<>>} \cup {<<n>> : n \in 0..MaxNotes}]
  /\ read.list # <<>> => DOMAIN read.list[1] \subseteq Ids

MarkTypes ==
  /\ marks \in [Mark -> MarkRecord]
  /\ \A m \in Mark : MarkFits(marks[m]) /\ marks[m].ids \subseteq Ids
                     /\ DOMAIN marks[m].items \subseteq Ids

\* While nothing has escaped the phone, its list is what the rows, the events
\* and the marks under way make of it.
ScreenTrue == ready /\ ~lapse => Told(rows, Pending, items, badge, marks)

BoxInv == RowTypes /\ ListTypes /\ ReadTypes /\ MarkTypes /\ ScreenTrue

\* What the lemmas about values ask for.
LEMMA BoxFits ==
  ASSUME RowTypes, ListTypes, MarkTypes
  PROVE  /\ Fit(rows, items, marks) /\ DOMAIN rows = Ids /\ Ids \subseteq 1..MaxNotes
         /\ Pending = posted \cup On(events) /\ Pending \subseteq Ids
<1>1. items \in [DOMAIN items -> BOOLEAN]
  BY FlagsAre DEF ListTypes
<1>2. DOMAIN rows = Ids /\ Ids \subseteq 1..MaxNotes /\ Len(rows) \in Nat
  BY InboxAssumption DEF RowTypes, Ids
<1>3. Pending = posted \cup On(events)
  BY DEF Pending, On
<1>4. QED
  BY <1>1, <1>2, <1>3 DEF Fit, RowTypes, MarkTypes

\* The bound on what a user does.
LEMMA SpendBounded ==
  ASSUME ListTypes, Spend
  PROVE  taps' \in 0..MaxTaps
BY InboxAssumption DEF ListTypes, Spend

\* Rows are a sequence of their length.
LEMMA LenOfRows ==
  ASSUME NEW n \in Nat, NEW rs \in [1..n -> BOOLEAN]
  PROVE  rs \in Seq(BOOLEAN) /\ Len(rs) = n
<1>1. rs \in Seq(BOOLEAN)
  OBVIOUS
<1>2. DOMAIN rs = 1..Len(rs) /\ Len(rs) \in Nat /\ DOMAIN rs = 1..n
  BY <1>1, LenProperties
<1>3. QED
  BY <1>1, <1>2

\* More rows do no harm to the types.
LEMMA TypesLast ==
  ASSUME ReadTypes, MarkTypes, Ids \subseteq Ids', UNCHANGED <<read, marks>>
  PROVE  ReadTypes' /\ MarkTypes'
<1>1. ReadTypes'
  BY DEF ReadTypes, Flags
<1>2. MarkTypes'
  BY DEF MarkTypes, MarkRecord, MarkFits, Flags
<1>3. QED
  BY <1>1, <1>2

\* Each action keeps the invariant of the notifications, conjunct by conjunct.
LEMMA NotifyKeepsBox ==
  ASSUME BoxInv, Notify
  PROVE  BoxInv'
<1>. RowTypes /\ ListTypes /\ ReadTypes /\ MarkTypes /\ ScreenTrue /\ MaxNotes \in Nat
  BY InboxAssumption DEF BoxInv
<1>1. rows \in [1..Len(rows) -> BOOLEAN] /\ Len(rows) \in Nat
  BY DEF RowTypes
<1>2. /\ rows \in Seq(BOOLEAN) /\ Len(rows) + 1 \in 0..MaxNotes
      /\ rows' = Append(rows, FALSE) /\ posted' = posted \cup {Len(rows) + 1}
      /\ UNCHANGED <<events, link, ready, items, badge, read, marks, lapse, taps>>
  <2>1. rows \in Seq(BOOLEAN)
    BY <1>1, LenOfRows
  <2>2. QED
    BY <1>1, <2>1 DEF Notify
<1>3. /\ rows' \in Seq(BOOLEAN) /\ Len(rows') = Len(rows) + 1
      /\ \A i \in 1..Len(rows) : rows'[i] = rows[i]
      /\ rows'[Len(rows) + 1] = FALSE
  BY <1>2, AppendProperties
<1>4. rows' \in [1..Len(rows) + 1 -> BOOLEAN] /\ Len(rows') \in 0..MaxNotes
  <2>1. rows' \in [1..Len(rows') -> BOOLEAN]
    BY <1>3, LenProperties
  <2>2. QED
    BY <1>2, <1>3, <2>1
<1>5. Ids' = Ids \cup {Len(rows) + 1} /\ Ids = 1..Len(rows)
  BY <1>1, <1>3 DEF Ids
<1>6. RowTypes'
  <2>1. posted' \subseteq Ids' /\ On(events') \subseteq Ids' /\ events' \in Seq(1..MaxNotes)
    BY <1>2, <1>5 DEF RowTypes
  <2>2. rows' \in [1..Len(rows') -> BOOLEAN]
    BY <1>3, <1>4
  <2>3. QED
    BY <1>4, <2>1, <2>2 DEF RowTypes
<1>7. ListTypes'
  BY <1>2, <1>5 DEF ListTypes, Flags
<1>8. ReadTypes' /\ MarkTypes'
  BY <1>2, <1>5, TypesLast
<1>9. ScreenTrue'
  <2>1. SUFFICES ASSUME ready, ~lapse
                 PROVE  Told(rows', Pending', items, badge, marks)
    BY <1>2 DEF ScreenTrue
  <2>2. Fit(rows, items, marks)
    BY BoxFits
  <2>3. Told(rows, Pending, items, badge, marks)
    BY <2>1 DEF ScreenTrue
  <2>4. Pending' = Pending \cup {Len(rows) + 1}
    BY <1>2 DEF Pending
  <2>5. Told(rows', Pending \cup {Len(rows) + 1}, items, badge, marks)
    BY <1>3, <1>4, <2>2, <2>3, NewRowKeeps
  <2>6. QED
    BY <2>4, <2>5
<1>10. QED
  BY <1>6, <1>7, <1>8, <1>9 DEF BoxInv

LEMMA EmitKeepsBox ==
  ASSUME BoxInv, NEW i \in Ids, EmitNote(i)
  PROVE  BoxInv'
<1>. RowTypes /\ ListTypes /\ ReadTypes /\ MarkTypes /\ ScreenTrue /\ MaxNotes \in Nat
  BY InboxAssumption DEF BoxInv
<1>1. /\ i \in posted /\ posted' = posted \ {i} /\ Ids' = Ids
      /\ UNCHANGED <<rows, link, ready, items, badge, read, marks, taps>>
      /\ \/ events' = Append(events, i) /\ lapse' = lapse
         \/ lapse' = (lapse \/ i \notin DOMAIN items) /\ events' = events
  BY DEF EmitNote, Ids
<1>2. i \in 1..MaxNotes
  BY BoxFits
<1>3. /\ Append(events, i) \in Seq(1..MaxNotes)
      /\ On(Append(events, i)) = On(events) \cup {i}
  BY <1>2, QueueGrows DEF RowTypes
<1>4. RowTypes'
  BY <1>1, <1>3 DEF RowTypes
<1>5. lapse' \in BOOLEAN
  BY <1>1 DEF ListTypes
<1>6. ListTypes'
  BY <1>1, <1>5 DEF ListTypes, Flags
<1>7. ReadTypes' /\ MarkTypes'
  BY <1>1, TypesLast
<1>8. ScreenTrue'
  <2>1. SUFFICES ASSUME ready, ~lapse'
                 PROVE  Told(rows, Pending', items, badge, marks)
    BY <1>1 DEF ScreenTrue
  <2>2. Fit(rows, items, marks) /\ Pending = posted \cup On(events)
    BY BoxFits
  <2>3. Told(rows, Pending, items, badge, marks)
    <3>1. ~lapse
      BY <1>1, <2>1
    <3>2. QED
      BY <2>1, <3>1 DEF ScreenTrue
  <2>4. Pending' = posted' \cup On(events')
    BY DEF Pending, On
  <2>5. Pending' \in SUBSET Pending /\ Pending \ Pending' \subseteq DOMAIN items
    BY <1>1, <1>3, <2>1, <2>2, <2>4
  <2>6. QED
    BY <2>2, <2>3, <2>5, SettledKeeps
<1>9. QED
  BY <1>4, <1>6, <1>7, <1>8 DEF BoxInv

LEMMA ElsewhereKeepsBox ==
  ASSUME BoxInv, NEW i \in Ids, MarkElsewhere(i)
  PROVE  BoxInv'
<1>. RowTypes /\ ListTypes /\ ReadTypes /\ MarkTypes /\ ScreenTrue /\ MaxNotes \in Nat
  BY InboxAssumption DEF BoxInv
<1>1. /\ rows' = [rows EXCEPT ![i] = TRUE] /\ lapse' = TRUE
      /\ UNCHANGED <<posted, events, link, ready, items, badge, read, marks>>
  BY DEF MarkElsewhere
<1>2. rows' \in [1..Len(rows) -> BOOLEAN] /\ Len(rows') = Len(rows)
  <2>1. rows \in [1..Len(rows) -> BOOLEAN] /\ Len(rows) \in Nat
    BY DEF RowTypes
  <2>2. \A n : rows \in [1..n -> BOOLEAN] => rows' \in [1..n -> BOOLEAN]
    BY <1>1
  <2>3. QED
    BY <2>1, <2>2, LenOfRows
<1>3. Ids' = Ids
  BY <1>2 DEF Ids
<1>4. RowTypes'
  BY <1>1, <1>2, <1>3 DEF RowTypes
<1>5. ListTypes'
  BY <1>3, SpendBounded DEF ListTypes, MarkElsewhere
<1>6. ReadTypes' /\ MarkTypes'
  BY <1>1, <1>3, TypesLast
<1>7. ScreenTrue'
  BY <1>1 DEF ScreenTrue
<1>8. QED
  BY <1>4, <1>5, <1>6, <1>7 DEF BoxInv

LEMMA OnRealtimeKeepsBox ==
  ASSUME BoxInv, OnRealtime
  PROVE  BoxInv'
<1>. RowTypes /\ ListTypes /\ ReadTypes /\ MarkTypes /\ ScreenTrue /\ MaxNotes \in Nat
  BY InboxAssumption DEF BoxInv
<1>. DEFINE i == Head(events)
<1>1. /\ events # <<>> /\ events' = Tail(events) /\ Ids' = Ids
      /\ UNCHANGED <<rows, posted, link, ready, marks, lapse, taps>>
  BY DEF OnRealtime, Ids
<1>2. \/ /\ ready /\ i \notin DOMAIN items
         /\ items' = [j \in DOMAIN items \cup {i} |-> j # i /\ items[j]]
         /\ badge' = badge + 1 /\ read' = read
      \/ ready /\ i \in DOMAIN items /\ UNCHANGED <<items, badge, read>>
      \/ ~ready /\ read' = Requested /\ UNCHANGED <<items, badge>>
  BY DEF OnRealtime
<1>3. /\ events' \in Seq(1..MaxNotes) /\ i \in On(events) /\ i \in 1..MaxNotes
      /\ On(events') \subseteq On(events) /\ On(events) \ {i} \subseteq On(events')
  BY <1>1, QueueShrinks DEF RowTypes
<1>. HIDE DEF i
<1>4. i \in Ids
  BY <1>3 DEF RowTypes
<1>5. RowTypes'
  BY <1>1, <1>3 DEF RowTypes
<1>6. ListTypes'
  <2>1. CASE UNCHANGED <<items, badge>>
    BY <1>1, <2>1 DEF ListTypes, Flags
  <2>2. CASE items' = [j \in DOMAIN items \cup {i} |-> j # i /\ items[j]] /\ badge' = badge + 1
    <3>1. items' \in [DOMAIN items \cup {i} -> BOOLEAN]
      BY <2>2
    <3>2. DOMAIN items' = DOMAIN items \cup {i} /\ DOMAIN items \subseteq 1..MaxNotes
      BY <2>2, FlagsAre DEF ListTypes
    <3>3. items' \in Flags
      BY <1>3, <3>1, <3>2, FlagsAre
    <3>4. badge' \in Nat
      BY <2>2 DEF ListTypes
    <3>5. QED
      BY <1>1, <1>4, <3>2, <3>3, <3>4 DEF ListTypes
  <2>3. QED
    BY <1>2, <2>1, <2>2
<1>7. ReadTypes'
  BY <1>1, <1>2 DEF ReadTypes, Requested, NoRead
<1>8. MarkTypes'
  BY <1>1 DEF MarkTypes, MarkRecord, MarkFits, Flags
<1>9. ScreenTrue'
  <2>1. SUFFICES ASSUME ready, ~lapse
                 PROVE  Told(rows, Pending', items', badge', marks)
    BY <1>1 DEF ScreenTrue
  <2>2. Fit(rows, items, marks) /\ Pending = posted \cup On(events)
    BY BoxFits
  <2>3. Told(rows, Pending, items, badge, marks)
    BY <2>1 DEF ScreenTrue
  <2>4. Pending' = posted \cup On(events')
    BY <1>1 DEF Pending, On
  <2>5. Pending' \in SUBSET Pending /\ Pending \ {i} \subseteq Pending' /\ i \in Pending
    BY <1>3, <2>2, <2>4
  <2>6. CASE i \in DOMAIN items
    <3>1. UNCHANGED <<items, badge>> /\ Pending \ Pending' \subseteq DOMAIN items
      BY <1>2, <2>1, <2>5, <2>6
    <3>2. Told(rows, Pending', items, badge, marks)
      BY <2>2, <2>3, <2>5, <3>1, SettledKeeps
    <3>3. QED
      BY <3>1, <3>2
  <2>7. CASE i \notin DOMAIN items
    <3>1. items' = [j \in DOMAIN items \cup {i} |-> j # i /\ items[j]] /\ badge' = badge + 1
      BY <1>2, <2>1, <2>7
    <3>2. badge \in Nat
      BY DEF ListTypes
    <3>3. PICK its2 : its2 = items'
      OBVIOUS
    <3>4. Told(rows, Pending', its2, badge + 1, marks)
      <4>1. its2 = [j \in DOMAIN items \cup {i} |-> j # i /\ items[j]]
        BY <3>1, <3>3
      <4>2. PICK pd2 : pd2 = Pending'
        OBVIOUS
      <4>3. pd2 \in SUBSET Pending /\ Pending \ {i} \subseteq pd2 /\ i \in Pending
        BY <2>5, <4>2
      <4>4. Told(rows, pd2, its2, badge + 1, marks)
        BY <2>2, <2>3, <2>7, <3>2, <4>1, <4>3, ArrivalKeeps
      <4>5. QED
        BY <4>2, <4>4
    <3>5. QED
      BY <3>1, <3>3, <3>4
  <2>8. QED
    BY <2>6, <2>7
<1>10. QED
  BY <1>5, <1>6, <1>7, <1>8, <1>9 DEF BoxInv

LEMMA LinkDownKeepsBox ==
  ASSUME BoxInv, LinkDown
  PROVE  BoxInv'
<1>. RowTypes /\ ListTypes /\ ReadTypes /\ MarkTypes /\ ScreenTrue
  BY DEF BoxInv
<1>1. /\ events' = <<>> /\ link' = "down" /\ Ids' = Ids
      /\ UNCHANGED <<rows, posted, ready, items, badge, read, marks>>
      /\ lapse' = (lapse \/ \E k \in DOMAIN events : events[k] \notin DOMAIN items)
  BY DEF LinkDown, Ids
<1>2. events' \in Seq(1..MaxNotes) /\ On(events') = {}
  BY <1>1 DEF On
<1>3. RowTypes'
  BY <1>1, <1>2 DEF RowTypes
<1>4. ListTypes'
  <2>1. lapse' \in BOOLEAN
    BY <1>1 DEF ListTypes
  <2>2. taps' \in 0..MaxTaps
    BY SpendBounded DEF LinkDown
  <2>3. QED
    BY <1>1, <2>1, <2>2 DEF ListTypes, Flags
<1>5. ReadTypes' /\ MarkTypes'
  BY <1>1, TypesLast
<1>6. ScreenTrue'
  <2>1. SUFFICES ASSUME ready, ~lapse'
                 PROVE  Told(rows, Pending', items, badge, marks)
    BY <1>1 DEF ScreenTrue
  <2>2. ~lapse /\ \A k \in DOMAIN events : events[k] \in DOMAIN items
    BY <1>1, <2>1
  <2>3. Fit(rows, items, marks) /\ Pending = posted \cup On(events)
    BY BoxFits
  <2>4. Told(rows, Pending, items, badge, marks)
    BY <2>1, <2>2 DEF ScreenTrue
  <2>5. Pending' = posted
    <3>1. Pending' = posted' \cup On(events')
      BY DEF Pending, On
    <3>2. QED
      BY <1>1, <1>2, <3>1
  <2>6. On(events) \subseteq DOMAIN items
    BY <2>2 DEF On
  <2>7. Told(rows, posted, items, badge, marks)
    BY <2>3, <2>4, <2>6, SettledKeeps
  <2>8. QED
    BY <2>5, <2>7
<1>7. QED
  BY <1>3, <1>4, <1>5, <1>6 DEF BoxInv

\* A read that is asked for, runs or fails changes nothing on the screen.
LEMMA OnlyReads ==
  ASSUME BoxInv, ReadTypes', taps' \in 0..MaxTaps, link' \in {"up", "down"},
         UNCHANGED <<rows, posted, events, ready, items, badge, marks, lapse>>
  PROVE  BoxInv'
<1>1. Ids' = Ids /\ Pending' = Pending
  BY DEF Ids, Pending
<1>2. RowTypes'
  BY <1>1 DEF BoxInv, RowTypes
<1>3. ListTypes'
  BY <1>1 DEF BoxInv, ListTypes, Flags
<1>4. MarkTypes'
  BY <1>1 DEF BoxInv, MarkTypes
<1>5. ScreenTrue'
  BY <1>1 DEF BoxInv, ScreenTrue
<1>6. QED
  BY <1>2, <1>3, <1>4, <1>5 DEF BoxInv

\* What a read of the rows brings.
LEMMA NewestIsFlags ==
  ASSUME RowTypes
  PROVE  /\ Newest(rows) \in Flags /\ DOMAIN Newest(rows) \subseteq Ids
         /\ Total(rows) \in 0..MaxNotes
<1>. DEFINE top == {j \in 1..Len(rows) : j > Len(rows) - PageSize}
<1>. /\ rows \in [1..Len(rows) -> BOOLEAN] /\ Len(rows) \in Nat /\ MaxNotes \in Nat
     /\ Len(rows) <= MaxNotes
  BY InboxAssumption DEF RowTypes
<1>1. top \subseteq 1..Len(rows) /\ Newest(rows) = [i \in top |-> rows[i]]
  BY DEF Newest
<1>. HIDE DEF top
<1>2. DOMAIN Newest(rows) = top /\ Newest(rows) \in [top -> BOOLEAN]
  BY <1>1
<1>3. top \subseteq 1..MaxNotes
  BY <1>1
<1>4. Newest(rows) \in Flags
  BY <1>2, <1>3 DEF Flags
<1>5. Total(rows) \in 0..MaxNotes
  <2>1. IsFiniteSet(1..Len(rows)) /\ Cardinality(1..Len(rows)) = Len(rows)
    <3>1. PICK n \in Nat : n = Len(rows)
      OBVIOUS
    <3>2. IsFiniteSet(1..n)
      BY FS_Interval
    <3>3. Cardinality(1..n) = IF 1 > n THEN 0 ELSE n - 1 + 1
      <4>1. \A a, c \in Int : Cardinality(a..c) = IF a > c THEN 0 ELSE c - a + 1
        BY FS_Interval, Zenon
      <4>2. QED
        BY <4>1
    <3>4. QED
      BY <3>1, <3>2, <3>3
  <2>2. Unread(rows) \subseteq 1..Len(rows)
    BY DEF Unread
  <2>3. IsFiniteSet(Unread(rows)) /\ Cardinality(Unread(rows)) <= Len(rows)
    BY <2>1, <2>2, FS_Subset
  <2>4. Cardinality(Unread(rows)) \in Nat
    BY <2>3, FS_CardinalityType
  <2>5. QED
    BY <2>3, <2>4 DEF Total
<1>6. QED
  BY <1>1, <1>2, <1>4, <1>5 DEF Ids

LEMMA RequestsKeepBox ==
  ASSUME BoxInv, LinkUp \/ AskPage \/ ReadFails
  PROVE  BoxInv'
<1>1. /\ read' \in {NoRead, Requested}
      /\ UNCHANGED <<rows, posted, events, ready, items, badge, marks, lapse>>
      /\ taps' = taps \/ Spend
      /\ link' = link \/ link' = "up"
  BY DEF LinkUp, AskPage, ReadFails
<1>2. ReadTypes'
  <2>1. read'.at \in {"idle", "asked"} /\ read'.list = <<>> /\ read'.count = <<>>
        /\ read' = [at |-> read'.at, list |-> <<>>, count |-> <<>>]
    BY <1>1 DEF NoRead, Requested
  <2>2. QED
    BY <2>1 DEF ReadTypes
<1>3. taps' \in 0..MaxTaps
  BY <1>1, SpendBounded DEF BoxInv, ListTypes
<1>4. link' \in {"up", "down"}
  BY <1>1 DEF BoxInv, ListTypes
<1>5. QED
  BY <1>1, <1>2, <1>3, <1>4, OnlyReads

LEMMA ReadRunsKeepsBox ==
  ASSUME BoxInv, ReadRuns
  PROVE  BoxInv'
<1>. RowTypes /\ ListTypes /\ ReadTypes
  BY DEF BoxInv
<1>1. /\ UNCHANGED <<rows, posted, events, ready, items, badge, marks, lapse, taps, link>>
      /\ \/ read' = [read EXCEPT !.list = <<Newest(rows)>>]
         \/ read' = [read EXCEPT !.count = <<Total(rows)>>]
  BY DEF ReadRuns
<1>2. Ids' = Ids
  BY <1>1 DEF Ids
<1>3. PICK p \in Flags : p = Newest(rows) /\ DOMAIN p \subseteq Ids
  BY NewestIsFlags
<1>4. PICK n \in 0..MaxNotes : n = Total(rows)
  BY NewestIsFlags
<1>5. ReadTypes'
  <2>1. read' = [read EXCEPT !.list = <<p>>] \/ read' = [read EXCEPT !.count = <<n>>]
    BY <1>1, <1>3, <1>4
  <2>2. /\ read' \in [at : {"idle", "asked"}, list : {<<>>} \cup {<<q>> : q \in Flags},
                      count : {<<>>} \cup {<<k>> : k \in 0..MaxNotes}]
        /\ read'.list = read.list \/ read'.list = <<p>>
    BY <2>1 DEF ReadTypes
  <2>3. read'.list # <<>> => DOMAIN read'.list[1] \subseteq Ids
    BY <1>3, <2>2 DEF ReadTypes
  <2>4. QED
    BY <1>2, <2>2, <2>3 DEF ReadTypes, Flags
<1>6. taps' \in 0..MaxTaps /\ link' \in {"up", "down"}
  BY <1>1 DEF ListTypes
<1>7. QED
  BY <1>1, <1>5, <1>6, OnlyReads

LEMMA ReadArrivesKeepsBox ==
  ASSUME BoxInv, ReadArrives
  PROVE  BoxInv'
<1>. RowTypes /\ ListTypes /\ ReadTypes /\ MarkTypes
  BY DEF BoxInv
<1>1. /\ read.list # <<>> /\ read.count # <<>>
      /\ items' = read.list[1] /\ badge' = read.count[1] /\ ready' = TRUE
      /\ lapse' = ~UpToDate(items', badge')
      /\ read' = NoRead /\ UNCHANGED <<rows, posted, events, link, marks, taps>>
      /\ Ids' = Ids /\ Pending' = Pending
  BY DEF ReadArrives, Ids, Pending
<1>2. items' \in Flags /\ DOMAIN items' \subseteq Ids /\ badge' \in 0..MaxNotes
  <2>1. \E p \in Flags : read.list = <<p>>
    BY <1>1 DEF ReadTypes
  <2>2. \E n \in 0..MaxNotes : read.count = <<n>>
    BY <1>1 DEF ReadTypes
  <2>3. QED
    BY <1>1, <2>1, <2>2 DEF ReadTypes
<1>3. RowTypes'
  BY <1>1 DEF RowTypes
<1>4. ListTypes'
  <2>1. badge' \in Nat /\ lapse' \in BOOLEAN /\ ready' \in BOOLEAN
    BY <1>1, <1>2
  <2>2. QED
    BY <1>1, <1>2, <2>1 DEF ListTypes, Flags
<1>5. ReadTypes'
  BY <1>1 DEF ReadTypes, NoRead
<1>6. MarkTypes'
  BY <1>1 DEF MarkTypes, MarkRecord, MarkFits, Flags
<1>7. ScreenTrue'
  <2>1. SUFFICES ASSUME ~lapse'
                 PROVE  Told(rows, Pending, items', badge', marks)
    BY <1>1 DEF ScreenTrue
  <2>2. PICK its, b : its = items' /\ b = badge'
    OBVIOUS
  <2>3. UpToDate(its, b)
    BY <1>1, <2>1, <2>2
  <2>4. PICK n \in 0..Len(rows) :
          /\ its = Newest(SubSeq(rows, 1, n)) /\ b = Total(SubSeq(rows, 1, n))
          /\ n + 1 .. Len(rows) \subseteq Pending \cap Unread(rows)
          /\ Pending \cap 1..n \subseteq DOMAIN its
    BY <2>3 DEF UpToDate
  <2>5. \A m \in Mark : marks[m] = Unused
    BY <2>3 DEF UpToDate
  <2>6. /\ \A i \in n + 1 .. Len(rows) : i \in Pending /\ ~rows[i]
        /\ \A i \in Pending : i \in 1..n => i \in DOMAIN its
    BY <2>4 DEF Unread
  <2>7. /\ rows \in [1..Len(rows) -> BOOLEAN] /\ Len(rows) \in Nat
        /\ Pending \subseteq DOMAIN rows
    BY BoxFits DEF RowTypes
  <2>8. Told(rows, Pending, its, b, marks)
    BY <2>4, <2>5, <2>6, <2>7, AnswerIsSound
  <2>9. QED
    BY <2>2, <2>8
<1>8. QED
  BY <1>3, <1>4, <1>5, <1>6, <1>7 DEF BoxInv

LEMMA TapKeepsBox ==
  ASSUME BoxInv, NEW m \in Mark, NEW kind \in {"one", "home", "all"}, NEW ids,
         TapMark(m, kind, ids), kind = "home" => ids \cap Foreign = {}
  PROVE  BoxInv'
<1>. RowTypes /\ ListTypes /\ ReadTypes /\ MarkTypes /\ ScreenTrue
  BY DEF BoxInv
<1>. DEFINE new == [op |-> kind, ids |-> ids, items |-> items, badge |-> badge, done |-> FALSE]
<1>1. /\ ready /\ marks[m] = Unused
      /\ ids # {} /\ ids \subseteq {j \in DOMAIN items : ~items[j]}
      /\ items' = AsRead(items, ids) /\ badge' = Left(kind, badge, ids)
      /\ marks' = [marks EXCEPT ![m] = new]
      /\ UNCHANGED <<rows, posted, events, link, ready, read, lapse>>
      /\ Ids' = Ids /\ Pending' = Pending
  BY DEF TapMark, Ids, Pending
<1>2. /\ items \in Flags /\ badge \in Nat /\ ids \in SUBSET (1..MaxNotes)
      /\ DOMAIN items \subseteq Ids /\ ids \subseteq Ids
      /\ items \in [DOMAIN items -> BOOLEAN] /\ DOMAIN items \subseteq 1..MaxNotes
  BY <1>1, FlagsAre DEF ListTypes
<1>3. /\ new \in MarkRecord /\ new.op = kind /\ new.ids = ids /\ new.items = items
      /\ new.badge = badge /\ new.done = FALSE
  BY <1>2 DEF MarkRecord
<1>. HIDE DEF new
<1>4. MarkFits(new)
  BY <1>1, <1>3 DEF MarkFits
<1>5. RowTypes'
  BY <1>1 DEF RowTypes
<1>6. ListTypes'
  <2>1. items' \in [DOMAIN items -> BOOLEAN]
    BY <1>1, <1>2 DEF AsRead
  <2>2. items' \in Flags /\ DOMAIN items' \subseteq Ids
    BY <1>2, <2>1, FlagsAre
  <2>3. badge' \in Nat
    <3>1. IsFiniteSet(1..MaxNotes)
      BY FS_Interval, InboxAssumption
    <3>2. Cardinality(ids) \in Nat
      BY <1>2, <3>1, FS_Subset, FS_CardinalityType
    <3>3. QED
      BY <1>1, <1>2, <3>2 DEF Left
  <2>4. taps' \in 0..MaxTaps
    BY SpendBounded DEF TapMark
  <2>5. QED
    BY <1>1, <2>2, <2>3, <2>4 DEF ListTypes
<1>7. ReadTypes'
  BY <1>1 DEF ReadTypes, Flags
<1>8. MarkTypes'
  <2>1. marks' \in [Mark -> MarkRecord]
    BY <1>1, <1>3 DEF MarkTypes
  <2>2. \A x \in Mark : MarkFits(marks'[x]) /\ marks'[x].ids \subseteq Ids
                        /\ DOMAIN marks'[x].items \subseteq Ids
    BY <1>1, <1>2, <1>3, <1>4 DEF MarkTypes
  <2>3. QED
    BY <1>1, <2>1, <2>2 DEF MarkTypes
<1>9. ScreenTrue'
  <2>1. SUFFICES ASSUME ready, ~lapse
                 PROVE  Told(rows, Pending, items', badge', marks')
    BY <1>1 DEF ScreenTrue
  <2>2. PICK its2, b2, ms2 : its2 = items' /\ b2 = badge' /\ ms2 = marks'
    OBVIOUS
  <2>3. /\ its2 = AsRead(items, ids) /\ b2 = Left(kind, badge, ids)
        /\ ms2 = [marks EXCEPT ![m] = new]
    BY <1>1, <2>2
  <2>4. Fit(rows, items, marks) /\ Told(rows, Pending, items, badge, marks)
    BY <2>1, BoxFits DEF ScreenTrue
  <2>5. marks[m].op = "none"
    BY <1>1 DEF Unused
  <2>6. Told(rows, Pending, its2, b2, ms2)
    BY <1>1, <1>2, <1>3, <1>4, <2>3, <2>4, <2>5, TapKeeps
  <2>7. QED
    BY <2>2, <2>6
<1>10. QED
  BY <1>5, <1>6, <1>7, <1>8, <1>9 DEF BoxInv

LEMMA TapsKeepBox ==
  ASSUME BoxInv, NEW m \in Mark, TapOne(m) \/ TapAll(m)
  PROVE  BoxInv'
<1>1. CASE TapOne(m)
  <2>1. PICK i \in DOMAIN items : TapMark(m, "one", {i})
    BY <1>1 DEF TapOne
  <2>2. QED
    BY <2>1, TapKeepsBox
<1>2. CASE TapAll(m)
  <2>1. PICK kind \in {"home", "all"} :
          TapMark(m, kind, {j \in MarkScope(kind, DOMAIN items) : ~items[j]})
    BY <1>2 DEF TapAll
  <2>. DEFINE ids == {j \in MarkScope(kind, DOMAIN items) : ~items[j]}
  <2>2. kind = "home" => ids \cap Foreign = {}
    BY DEF MarkScope
  <2>3. TapMark(m, kind, ids) /\ kind \in {"one", "home", "all"}
    BY <2>1
  <2>. HIDE DEF ids
  <2>4. QED
    BY <2>2, <2>3, TapKeepsBox
<1>3. QED
  BY <1>1, <1>2

LEMMA MarkActsKeepsBox ==
  ASSUME BoxInv, NEW m \in Mark, MarkActs(m)
  PROVE  BoxInv'
<1>. RowTypes /\ ListTypes /\ ReadTypes /\ MarkTypes /\ ScreenTrue
  BY DEF BoxInv
<1>. DEFINE reach == IF marks[m].op = "one" THEN marks[m].ids ELSE MarkScope(marks[m].op, Ids)
<1>1. /\ marks[m].op # "none" /\ ~marks[m].done
      /\ rows' = AsRead(rows, reach)
      /\ lapse' = (lapse \/ ~(reach \cap Unread(rows) \subseteq marks[m].ids))
      /\ marks' = [marks EXCEPT ![m].done = TRUE]
      /\ UNCHANGED <<posted, events, link, ready, items, badge, read, taps>>
  BY DEF MarkActs
<1>2. DOMAIN rows = Ids /\ rows \in [1..Len(rows) -> BOOLEAN] /\ Len(rows) \in Nat
  BY BoxFits DEF RowTypes
<1>3. /\ marks[m].op = "one" => reach = marks[m].ids
      /\ marks[m].op # "one" => reach = MarkScope(marks[m].op, DOMAIN rows)
  BY <1>2
<1>. HIDE DEF reach
<1>4. rows' \in [1..Len(rows) -> BOOLEAN] /\ Len(rows') = Len(rows)
  <2>1. rows' \in [1..Len(rows) -> BOOLEAN]
    BY <1>1, <1>2 DEF AsRead
  <2>2. QED
    BY <1>2, <2>1, LenOfRows
<1>5. Ids' = Ids /\ Pending' = Pending
  BY <1>1, <1>4 DEF Ids, Pending
<1>6. RowTypes'
  BY <1>1, <1>4, <1>5 DEF RowTypes
<1>7. ListTypes'
  <2>1. lapse' \in BOOLEAN
    BY <1>1 DEF ListTypes
  <2>2. QED
    BY <1>1, <1>5, <2>1 DEF ListTypes, Flags
<1>8. ReadTypes'
  BY <1>1, <1>5 DEF ReadTypes, Flags
<1>9. MarkTypes'
  <2>1. PICK ms2 : ms2 = marks'
    OBVIOUS
  <2>2. /\ marks \in [Mark -> MarkRecord] /\ ms2 = [marks EXCEPT ![m].done = TRUE]
    BY <1>1, <2>1 DEF MarkTypes
  <2>3. ms2[m] = [marks[m] EXCEPT !.done = TRUE] /\ \A x \in Mark \ {m} : ms2[x] = marks[x]
    BY <2>2
  <2>4. /\ ms2[m] \in MarkRecord /\ ms2[m].ids = marks[m].ids
        /\ ms2[m].items = marks[m].items /\ ms2[m].op = marks[m].op
    BY <2>2, <2>3 DEF MarkRecord
  <2>5. ms2 \in [Mark -> MarkRecord]
    BY <2>2, <2>3, <2>4
  <2>6. \A x \in Mark : MarkFits(ms2[x]) /\ ms2[x].ids \subseteq Ids
                        /\ DOMAIN ms2[x].items \subseteq Ids
    BY <2>3, <2>4 DEF MarkTypes, MarkFits
  <2>7. QED
    BY <1>5, <2>1, <2>5, <2>6 DEF MarkTypes
<1>10. ScreenTrue'
  <2>1. SUFFICES ASSUME ready, ~lapse'
                 PROVE  Told(rows', Pending, items, badge, marks')
    BY <1>1, <1>5 DEF ScreenTrue
  <2>2. ~lapse /\ reach \cap Unread(rows) \subseteq marks[m].ids
    BY <1>1, <2>1
  <2>3. \A i \in reach : i \in DOMAIN rows /\ ~rows[i] => i \in marks[m].ids
    BY <1>2, <2>2 DEF Unread
  <2>4. Fit(rows, items, marks) /\ Told(rows, Pending, items, badge, marks) /\ badge \in Nat
    BY <2>1, <2>2, BoxFits DEF ScreenTrue, ListTypes
  <2>5. m \in Undone(marks)
    BY <1>1 DEF Undone, Flying
  <2>6. PICK rs2, ms2 : rs2 = rows' /\ ms2 = marks'
    OBVIOUS
  <2>7. /\ rs2 = AsRead(rows, reach) /\ Len(rs2) = Len(rows)
        /\ ms2 = [marks EXCEPT ![m].done = TRUE]
    BY <1>1, <1>4, <2>6
  <2>8. Told(rs2, Pending, items, badge, ms2)
    BY <1>3, <2>3, <2>4, <2>5, <2>7, ActKeeps
  <2>9. QED
    BY <2>6, <2>8
<1>11. QED
  BY <1>6, <1>7, <1>8, <1>9, <1>10 DEF BoxInv

\* No mark is a mark, too.
LEMMA UnusedIsRecord ==
  Unused \in MarkRecord /\ MarkFits(Unused) /\ Unused.ids = {} /\ DOMAIN Unused.items = {}
<1>1. <<>> \in Flags
  <2>1. <<>> \in [{} -> BOOLEAN]
    OBVIOUS
  <2>2. QED
    BY <2>1 DEF Flags
<1>2. QED
  BY <1>1 DEF Unused, MarkRecord, MarkFits

\* A mark that is over.
LEMMA OverTypes ==
  ASSUME MarkTypes, NEW m \in Mark, marks' = [marks EXCEPT ![m] = Unused], Ids' = Ids
  PROVE  MarkTypes'
<1>1. marks' \in [Mark -> MarkRecord]
  BY UnusedIsRecord DEF MarkTypes
<1>2. \A x \in Mark : MarkFits(marks'[x]) /\ marks'[x].ids \subseteq Ids
                      /\ DOMAIN marks'[x].items \subseteq Ids
  BY UnusedIsRecord DEF MarkTypes
<1>3. QED
  BY <1>1, <1>2 DEF MarkTypes

LEMMA MarkAnsweredKeepsBox ==
  ASSUME BoxInv, NEW m \in Mark, MarkAnswered(m)
  PROVE  BoxInv'
<1>. RowTypes /\ ListTypes /\ ReadTypes /\ MarkTypes /\ ScreenTrue
  BY DEF BoxInv
<1>1. /\ marks[m].done /\ marks' = [marks EXCEPT ![m] = Unused]
      /\ UNCHANGED <<rows, posted, events, link, ready, items, badge, read, lapse, taps>>
      /\ Ids' = Ids /\ Pending' = Pending
  BY DEF MarkAnswered, Ids, Pending
<1>2. RowTypes' /\ ListTypes' /\ ReadTypes'
  BY <1>1 DEF RowTypes, ListTypes, ReadTypes, Flags
<1>3. MarkTypes'
  BY <1>1, OverTypes
<1>4. ScreenTrue'
  <2>1. SUFFICES ASSUME ready, ~lapse
                 PROVE  Told(rows, Pending, items, badge, marks')
    BY <1>1 DEF ScreenTrue
  <2>2. Fit(rows, items, marks) /\ Told(rows, Pending, items, badge, marks)
    BY <2>1, BoxFits DEF ScreenTrue
  <2>3. PICK ms2 : ms2 = marks'
    OBVIOUS
  <2>4. marks[m].done = TRUE
    <3>1. marks[m].done \in BOOLEAN
      BY RecordFits DEF MarkTypes
    <3>2. QED
      BY <1>1, <3>1
  <2>5. Told(rows, Pending, items, badge, ms2)
    BY <1>1, <2>2, <2>3, <2>4, AnswerKeeps
  <2>6. QED
    BY <2>3, <2>5
<1>5. QED
  BY <1>2, <1>3, <1>4 DEF BoxInv

LEMMA MarkFailsKeepsBox ==
  ASSUME BoxInv, NEW m \in Mark, MarkFails(m)
  PROVE  BoxInv'
<1>. RowTypes /\ ListTypes /\ ReadTypes /\ MarkTypes /\ ScreenTrue
  BY DEF BoxInv
<1>1. /\ marks[m].op # "none" /\ marks' = [marks EXCEPT ![m] = Unused]
      /\ items' = marks[m].items /\ badge' = marks[m].badge
      /\ lapse' = (lapse \/ marks[m].done \/ ~Untouched(marks[m]))
      /\ UNCHANGED <<rows, posted, events, link, ready, read>>
      /\ Ids' = Ids /\ Pending' = Pending
  BY DEF MarkFails, Ids, Pending
<1>2. marks[m].items \in Flags /\ marks[m].badge \in Nat /\ marks[m].done \in BOOLEAN
      /\ DOMAIN marks[m].items \subseteq Ids
  BY DEF MarkTypes, MarkRecord
<1>3. RowTypes' /\ ReadTypes'
  BY <1>1 DEF RowTypes, ReadTypes, Flags
<1>4. ListTypes'
  <2>1. lapse' \in BOOLEAN
    BY <1>1, <1>2 DEF ListTypes, Untouched
  <2>2. taps' \in 0..MaxTaps
    BY SpendBounded DEF MarkFails
  <2>3. QED
    BY <1>1, <1>2, <2>2 DEF ListTypes
<1>5. MarkTypes'
  BY <1>1, OverTypes
<1>6. ScreenTrue'
  <2>1. SUFFICES ASSUME ready, ~lapse'
                 PROVE  Told(rows, Pending, items', badge', marks')
    BY <1>1 DEF ScreenTrue
  <2>2. ~lapse /\ ~marks[m].done /\ Untouched(marks[m])
    BY <1>1, <1>2, <2>1 DEF ListTypes
  <2>3. items = After(marks[m]) /\ m \in Undone(marks)
    BY <1>1, <2>2 DEF Untouched, After, Undone, Flying
  <2>4. Fit(rows, items, marks) /\ Told(rows, Pending, items, badge, marks)
    BY <2>1, <2>2, BoxFits DEF ScreenTrue
  <2>5. PICK ms2 : ms2 = marks'
    OBVIOUS
  <2>6. Told(rows, Pending, marks[m].items, marks[m].badge, ms2)
    BY <1>1, <2>3, <2>4, <2>5, RollbackKeeps
  <2>7. QED
    BY <1>1, <2>5, <2>6
<1>7. QED
  BY <1>3, <1>4, <1>5, <1>6 DEF BoxInv

\* A step of the notifications.
LEMMA BoxStep ==
  ASSUME BoxInv, InboxNext
  PROVE  BoxInv'
<1>1. CASE Notify
  BY <1>1, NotifyKeepsBox
<1>2. CASE OnRealtime
  BY <1>2, OnRealtimeKeepsBox
<1>3. CASE LinkDown
  BY <1>3, LinkDownKeepsBox
<1>4. CASE LinkUp \/ AskPage \/ ReadFails
  BY <1>4, RequestsKeepBox
<1>5. CASE \E i \in Ids : EmitNote(i) \/ MarkElsewhere(i)
  BY <1>5, EmitKeepsBox, ElsewhereKeepsBox
<1>6. CASE ReadRuns
  BY <1>6, ReadRunsKeepsBox
<1>7. CASE ReadArrives
  BY <1>7, ReadArrivesKeepsBox
<1>8. ASSUME NEW m \in Mark,
             TapOne(m) \/ TapAll(m) \/ MarkActs(m) \/ MarkAnswered(m) \/ MarkFails(m)
      PROVE  BoxInv'
  BY <1>8, TapsKeepBox, MarkActsKeepsBox, MarkAnsweredKeepsBox, MarkFailsKeepsBox
<1>9. QED
  BY <1>1, <1>2, <1>3, <1>4, <1>5, <1>6, <1>7, <1>8 DEF InboxNext

\* A step of another part.
LEMMA BoxStutter ==
  ASSUME BoxInv, UNCHANGED inboxVars
  PROVE  BoxInv'
<1>1. UNCHANGED <<rows, posted, events, link, ready, items, badge, read, marks, lapse, taps>>
  BY DEF inboxVars
<1>2. Ids' = Ids
  BY <1>1 DEF Ids
<1>3. ReadTypes' /\ taps' \in 0..MaxTaps /\ link' \in {"up", "down"}
  BY <1>1, <1>2 DEF BoxInv, ReadTypes, ListTypes
<1>4. QED
  BY <1>1, <1>3, OnlyReads

\* The shell has just been entered.
LEMMA BoxStarts ==
  ASSUME InboxInit
  PROVE  BoxInv
<1>1. /\ rows \in [1..MaxNotes - 1 -> BOOLEAN] /\ MaxNotes \in Nat \ {0} /\ MaxTaps \in Nat
      /\ posted = {} /\ events = <<>> /\ link = "up" /\ ready = FALSE /\ items = <<>>
      /\ badge = 0 /\ read = Requested /\ marks = [m \in Mark |-> Unused]
      /\ lapse = FALSE /\ taps = 0
  BY InboxAssumption DEF InboxInit
<1>2. Len(rows) = MaxNotes - 1 /\ Len(rows) \in 0..MaxNotes
  <2>1. MaxNotes - 1 \in Nat
    BY <1>1
  <2>2. Len(rows) = MaxNotes - 1
    BY <1>1, <2>1, LenOfRows
  <2>3. QED
    BY <1>1, <2>2
<1>3. RowTypes
  <2>1. events \in Seq(1..MaxNotes) /\ On(events) = {}
    BY <1>1 DEF On
  <2>2. QED
    BY <1>1, <1>2, <2>1 DEF RowTypes
<1>4. ListTypes
  <2>1. items = Unused.items /\ items \in Flags /\ DOMAIN items = {}
    BY <1>1, UnusedIsRecord DEF Unused, MarkRecord
  <2>2. DOMAIN items \subseteq Ids /\ badge \in Nat /\ taps \in 0..MaxTaps
    BY <1>1, <2>1
  <2>3. ready \in BOOLEAN /\ lapse \in BOOLEAN /\ link \in {"up", "down"}
    BY <1>1
  <2>4. QED
    BY <2>1, <2>2, <2>3 DEF ListTypes
<1>5. ReadTypes
  BY <1>1 DEF ReadTypes, Requested, NoRead
<1>6. MarkTypes
  BY <1>1, UnusedIsRecord DEF MarkTypes
<1>7. QED
  BY <1>1, <1>3, <1>4, <1>5, <1>6 DEF BoxInv, ScreenTrue

\* With nothing on its way and no mark under way, the list has the newest rows
\* with their flags, and the badge counts all that is unread.
LEMMA BoxSound ==
  ASSUME BoxInv
  PROVE  InboxTypeOK /\ InboxAgrees
<1>. RowTypes /\ ListTypes /\ ReadTypes /\ MarkTypes /\ ScreenTrue
  BY DEF BoxInv
<1>1. /\ rows \in [1..Len(rows) -> BOOLEAN] /\ Len(rows) \in 0..MaxNotes
      /\ DOMAIN rows = 1..Len(rows) /\ Pending \subseteq Ids /\ Fit(rows, items, marks)
  BY BoxFits DEF RowTypes
<1>2. InboxTypeOK
  <2>1. rows \in UNION {[1..n -> BOOLEAN] : n \in 0..MaxNotes}
    BY <1>1
  <2>2. ASSUME NEW m \in Mark
        PROVE  /\ marks[m].op \in {"none", "one", "home", "all"} /\ marks[m].done \in BOOLEAN
               /\ marks[m].ids \subseteq Ids /\ marks[m].items \in Flags
               /\ marks[m].badge \in Nat
    BY DEF MarkTypes, MarkRecord
  <2>3. {ready, lapse} \subseteq BOOLEAN /\ link \in {"up", "down"} /\ items \in Flags
        /\ badge \in Nat /\ taps \in 0..MaxTaps
    BY DEF ListTypes
  <2>4. read \in [at : {"idle", "asked"}, list : {<<>>} \cup {<<p>> : p \in Flags},
                  count : {<<>>} \cup {<<n>> : n \in 0..MaxNotes}]
    BY DEF ReadTypes
  <2>5. QED
    BY <1>1, <2>2, <2>3, <2>4 DEF InboxTypeOK
<1>3. ASSUME Pending = {}, \A m \in Mark : marks[m] = Unused, ready, ~lapse
      PROVE  Agrees
  <2>1. /\ Mirrors(rows, {}, items, marks) /\ Reaches(rows, {}, items)
        /\ Badges(rows, {}, items, badge, marks)
    BY <1>3 DEF ScreenTrue, Told
  <2>2. Undone(marks) = {} /\ Alls(marks) = {}
    BY <1>3 DEF Undone, Flying, Alls, Unused
  <2>3. items \in [DOMAIN items -> BOOLEAN] /\ DOMAIN items \subseteq DOMAIN rows
    BY <1>1, <2>1 DEF Fit, Mirrors
  <2>4. \A i \in DOMAIN items : items[i] <=> rows[i]
    BY <2>1, <2>2 DEF Mirrors
  <2>5. \A i \in DOMAIN items : items[i] = rows[i]
    <3>1. ASSUME NEW i \in DOMAIN items
          PROVE  items[i] = rows[i]
      <4>1. items[i] \in BOOLEAN /\ rows[i] \in BOOLEAN /\ (items[i] <=> rows[i])
        BY <1>1, <2>3, <2>4
      <4>2. QED
        BY <4>1
    <3>2. QED
      BY <3>1
  <2>6. DOMAIN Newest(rows) \subseteq DOMAIN items
    BY <1>1, <2>1 DEF Reaches, Newest
  <2>7. Uncounted(rows, {}, items) = Unread(rows)
    BY <1>1, <2>3, <2>4 DEF Uncounted, Unread
  <2>8. badge = Total(rows)
    BY <2>1, <2>2, <2>7 DEF Badges, Counts, Total
  <2>9. QED
    BY <2>5, <2>6, <2>8 DEF Agrees
<1>4. QED
  BY <1>2, <1>3 DEF InboxAgrees

-----------------------------------------------------------------------------
(***************************************************************************)
(* All of them                                                             *)
(***************************************************************************)
ClientsInv == PortalInv /\ PictureInv /\ BoxInv

\* The invariant holds at first,
LEMMA ClientsStart ==
  ASSUME ClientsInit
  PROVE  ClientsInv
BY PortalStarts, PictureStarts, BoxStarts DEF ClientsInit, ClientsInv

\* and a step of one part leaves those of the others alone.
LEMMA ClientsStep ==
  ASSUME ClientsInv, [ClientsNext]_clientVars
  PROVE  ClientsInv'
<1>. PortalInv /\ PictureInv /\ BoxInv
  BY DEF ClientsInv
<1>1. CASE In("tokens", Next) \/ UNCHANGED clientVars
  <2>1. UNCHANGED portalVars /\ UNCHANGED liveVars /\ UNCHANGED inboxVars
    BY <1>1 DEF In, clientVars
  <2>2. QED
    BY <2>1, PortalStutter, PictureStutter, BoxStutter DEF ClientsInv
<1>2. CASE In("picture", HomeLiveNext)
  <2>1. HomeLiveNext /\ UNCHANGED portalVars /\ UNCHANGED inboxVars
    BY <1>2 DEF In
  <2>2. QED
    BY <2>1, PortalStutter, PictureStep, BoxStutter DEF ClientsInv
<1>3. CASE In("inbox", InboxNext)
  <2>1. InboxNext /\ UNCHANGED portalVars /\ UNCHANGED liveVars
    BY <1>3 DEF In
  <2>2. QED
    BY <2>1, PortalStutter, PictureStutter, BoxStep DEF ClientsInv
<1>4. CASE In("portal", PortalNext)
  <2>1. PortalNext /\ UNCHANGED liveVars /\ UNCHANGED inboxVars
    BY <1>4 DEF In
  <2>2. QED
    BY <2>1, PortalStep, PictureStutter, BoxStutter DEF ClientsInv
<1>5. QED
  BY <1>1, <1>2, <1>3, <1>4 DEF ClientsNext

\* Whatever the order of answers, events and requests, the screen shows no
\* picture of another source than the one selected, the list and the badge are
\* the server's once nothing is on its way, and the portal's cookie is its
\* user's (ScreensAgree).
THEOREM ClientsAgree == ClientsSpec => []ScreensAgree
<1>1. ClientsInit => ClientsInv
  BY ClientsStart
<1>2. ClientsInv /\ [ClientsNext]_clientVars => ClientsInv'
  BY ClientsStep
<1>3. ClientsInv => ScreensAgree
  BY PortalSound, PictureSound, BoxSound DEF ClientsInv, ScreensAgree
<1>4. QED
  BY <1>1, <1>2, <1>3, PTL DEF ClientsSpec
=============================================================================
