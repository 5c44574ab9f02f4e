---------------------------- MODULE PortalSession ----------------------------
(***************************************************************************)
(* The session of one browser tab of the web portals: AuthProvider.tsx     *)
(* with its guards, the redirecting proxy in front of the pages            *)
(* (proxy.ts), the cookie jar, and the answers of the backend in any       *)
(* order (auth.cookies.ts and auth.middleware.ts).                         *)
(*                                                                         *)
(* A cookie stands for the login that set it.  Pages are of three kinds:   *)
(* "home" (any private page), "login", and "reauth" (the login page with   *)
(* ?reauth=...).  The code runs to its next await in one step, which       *)
(* begins with what the answer does to the jar.                            *)
(***************************************************************************)
EXTENDS Integers, FiniteSets

CONSTANTS
  MaxLogins,  \* bound: successful logins
  MaxVisits,  \* bound: what the user does, what the network and others do
  DataCall    \* requests of the pages that can be under way at once

ASSUME PortalAssumption ==
  /\ {MaxLogins, MaxVisits} \subseteq Nat
  /\ DataCall \cap {"me", "login", "logout", "clear", "refresh"} = {}

VARIABLES
  jar,       \* the login whose cookie the browser holds, 0 for none
  standing,  \* of each login: "ok", "locked" (403) or "void" (401)
  user,      \* the login `user' is of, 0 for null
  loading,
  page,      \* what is shown
  nav,       \* where router.replace is going, or "none"
  expiring,  \* expiringRef
  calls,     \* requests of this document
  astray,    \* history: the cookie was changed behind the tab's back, or a
             \* late refreshUser brought back a user who had gone; a login ends
             \* that, unless a logout of either kind is still under way
  visits

portalVars == <<jar, standing, user, loading, page, nav, expiring, calls, astray, visits>>

Login == 1..Cardinality(DOMAIN standing)
Page == {"home", "login", "reauth"}

\* Requests: GET /me of the start, login or register, the logout of the button,
\* the one of clearServerCookie (pendingLogoutRef), refreshUser's, the pages'.
CallName == {"me", "login", "logout", "clear", "refresh"} \cup DataCall

\* A request is sent with the cookie of that moment.
NoCall == [at |-> "none", with |-> 0, answer |-> "none"]
Sent == [at |-> "sent", with |-> jar, answer |-> "none"]
Free(c) == calls[c] = NoCall
Answered(c) == calls[c].at = "answered"
Answer(c) == calls[c].answer

PortalTypeOK ==
  /\ standing \in UNION {[1..n -> {"ok", "locked", "void"}] : n \in 0..MaxLogins}
  /\ {jar, user} \subseteq Login \cup {0}
  /\ {loading, expiring, astray} \subseteq BOOLEAN
  /\ page \in Page /\ nav \in Page \cup {"none"}
  /\ calls \in [CallName -> [at : {"none", "sent", "answered"}, with : Login \cup {0},
                answer : {"none", "ok", "locked", "void", "empty", "lost"}]]
  /\ visits \in 0..MaxVisits

\* The browser has no cookie and no page yet but the login page.
PortalInit ==
  /\ jar = 0 /\ standing = <<>> /\ user = 0
  /\ loading = FALSE /\ page = "login" /\ nav = "none"
  /\ expiring = FALSE /\ astray = FALSE /\ visits = 0
  /\ calls = [c \in CallName |-> NoCall]

Visit == visits < MaxVisits /\ visits' = visits + 1

-----------------------------------------------------------------------------
(***************************************************************************)
(* Pages                                                                   *)
(***************************************************************************)
\* Faulty variant: the proxy goes by the cookie alone.
MutProxy(target) ==
  CASE target = "home" -> IF jar = 0 THEN "login" ELSE "home"
    [] target \in {"login", "reauth"} -> IF jar = 0 THEN target ELSE "home"

\* createSessionProxy
Proxy(target) ==
  CASE target = "home" -> IF jar = 0 THEN "login" ELSE "home"
    [] target = "login" -> IF jar = 0 THEN "login" ELSE "home"
    [] target = "reauth" -> "reauth"

\* A page is loaded: all that ran in the old document is gone.
Load(target) ==
  /\ Visit
  /\ page' = Proxy(target) /\ nav' = "none"
  /\ user' = 0 /\ loading' = TRUE /\ expiring' = FALSE
  /\ calls' = [c \in CallName |-> IF c = "me" THEN Sent ELSE NoCall]
  /\ astray' = FALSE
  /\ UNCHANGED <<jar, standing>>

\* AuthGuard on private pages, GuestGuard on those for guests.
Guard ==
  /\ nav = "none" /\ ~loading
  /\ \/ page = "home" /\ user = 0 /\ nav' = "reauth"
     \/ page # "home" /\ user # 0 /\ nav' = "home"
  /\ UNCHANGED <<jar, standing, user, loading, page, expiring, calls, astray, visits>>

\* The router arrives, by way of the proxy.
Navigate ==
  /\ nav # "none"
  /\ page' = Proxy(nav) /\ nav' = "none"
  /\ UNCHANGED <<jar, standing, user, loading, expiring, calls, astray, visits>>

-----------------------------------------------------------------------------
(***************************************************************************)
(* The backend and the network                                             *)
(***************************************************************************)
AnsweredBy(c, answer) ==
  [calls EXCEPT ![c] = [at |-> "answered", with |-> calls[c].with, answer |-> answer]]

\* The handler answers; a login gets a number when it succeeds.
Serve(c) ==
  /\ calls[c].at = "sent"
  /\ \/ /\ c = "login" /\ Cardinality(Login) < MaxLogins
        /\ standing' = [l \in Login \cup {Cardinality(Login) + 1} |->
                          IF l \in Login THEN standing[l] ELSE "ok"]
        /\ calls' = [calls EXCEPT ![c] =
             [at |-> "answered", with |-> Cardinality(Login) + 1, answer |-> "ok"]]
     \/ /\ c = "login"
        /\ calls' = AnsweredBy(c, "void")
        /\ UNCHANGED standing
     \/ /\ c \in {"logout", "clear"}
        /\ calls' = AnsweredBy(c, "ok")
        /\ UNCHANGED standing
     \/ /\ c \in {"me", "refresh"} \cup DataCall
        /\ calls' = AnsweredBy(c, IF calls[c].with = 0 THEN "empty"
                                 ELSE standing[calls[c].with])
        /\ UNCHANGED standing
  /\ UNCHANGED <<jar, user, loading, page, nav, expiring, astray, visits>>

\* No answer gets through (FetchError with status 0).
Lose(c) ==
  /\ Visit
  /\ calls[c].at # "none" /\ Answer(c) # "lost"
  /\ calls' = AnsweredBy(c, "lost")
  /\ UNCHANGED <<jar, standing, user, loading, page, nav, expiring, astray>>

\* The account is locked, or its password or role changed.
Revoke(l) ==
  /\ Visit
  /\ l \in Login /\ standing[l] = "ok"
  /\ \E s \in {"locked", "void"} : standing' = [standing EXCEPT ![l] = s]
  /\ UNCHANGED <<jar, user, loading, page, nav, expiring, calls, astray>>

\* The cookie comes to its maxAge, or another tab of the portal logs out.
TakeCookie ==
  /\ Visit
  /\ jar # 0 /\ jar' = 0
  /\ astray' = TRUE
  /\ UNCHANGED <<standing, user, loading, page, nav, expiring, calls>>

-----------------------------------------------------------------------------
(***************************************************************************)
(* AuthProvider                                                            *)
(***************************************************************************)
\* clearServerCookie
Clearing == [calls EXCEPT !["clear"] = Sent]
Done(c) == [calls EXCEPT ![c] = NoCall]

\* The answer to a logout, of the button or clearServerCookie's, empties the
\* jar, whatever is in it.
Cleared(c) == jar' = IF Answer(c) = "ok" THEN 0 ELSE jar

ClearArrives ==
  /\ Answered("clear") /\ Cleared("clear")
  /\ calls' = Done("clear")
  /\ UNCHANGED <<standing, user, loading, page, nav, expiring, astray, visits>>

\* The start: GET /me decides who is logged in; a refused cookie is cleared.
MeArrives ==
  /\ Answered("me")
  /\ loading' = FALSE
  /\ user' = IF Answer("me") = "ok" THEN calls["me"].with ELSE 0
  /\ expiring' = (expiring /\ Answer("me") # "ok")
  /\ calls' = [c \in CallName |->
       IF c = "clear" /\ Answer("me") \in {"locked", "void"} THEN Sent ELSE Done("me")[c]]
  /\ UNCHANGED <<jar, standing, page, nav, astray, visits>>

\* Faulty variant: a login does not wait for the logout that clears the cookie.
MutSignIn ==
  /\ Visit
  /\ page # "home" /\ user = 0 /\ ~loading /\ nav = "none"
  /\ Free("login")
  /\ calls' = [calls EXCEPT !["login"] = Sent]
  /\ UNCHANGED <<jar, standing, user, loading, page, nav, expiring, astray>>

\* login and register, once pendingLogoutRef is settled.
SignIn ==
  /\ Visit
  /\ page # "home" /\ user = 0 /\ ~loading /\ nav = "none"
  /\ Free("login") /\ Free("clear")
  /\ calls' = [calls EXCEPT !["login"] = Sent]
  /\ UNCHANGED <<jar, standing, user, loading, page, nav, expiring, astray>>

SignedIn ==
  /\ Answered("login")
  /\ IF Answer("login") = "ok"
     THEN /\ jar' = calls["login"].with /\ user' = jar'
          /\ expiring' = FALSE /\ nav' = "home"
          /\ astray' = (astray /\ ~(Free("logout") /\ Free("clear")))
     ELSE UNCHANGED <<jar, user, expiring, nav, astray>>
  /\ calls' = Done("login")
  /\ UNCHANGED <<standing, loading, page, visits>>

\* logout, to its await: answers of 401 are ignored from here on,
SignOut ==
  /\ Visit
  /\ page = "home" /\ user # 0 /\ Free("logout")
  /\ expiring' = TRUE
  /\ calls' = [calls EXCEPT !["logout"] = Sent]
  /\ UNCHANGED <<jar, standing, user, loading, page, nav, astray>>

\* and after it, with or without an answer.
SignedOut ==
  /\ Answered("logout") /\ Cleared("logout")
  /\ user' = 0 /\ nav' = "reauth"
  /\ calls' = Done("logout")
  /\ UNCHANGED <<standing, loading, page, expiring, astray, visits>>

\* A page asks for data: polls, and what the user does.
AskData(d) ==
  /\ page = "home" /\ user # 0 /\ Free(d)
  /\ calls' = [calls EXCEPT ![d] = Sent]
  /\ UNCHANGED <<jar, standing, user, loading, page, nav, expiring, astray, visits>>

\* api() and expireSession: the first 401 ends the session.
DataArrives(d) ==
  /\ Answered(d)
  /\ IF Answer(d) \in {"void", "empty"} /\ ~expiring
     THEN /\ expiring' = TRUE /\ user' = 0 /\ nav' = "reauth"
          /\ calls' = [c \in CallName |-> IF c = "clear" THEN Sent ELSE Done(d)[c]]
     ELSE calls' = Done(d) /\ UNCHANGED <<expiring, user, nav>>
  /\ UNCHANGED <<jar, standing, loading, page, astray, visits>>

\* refreshUser, after the profile was saved.
RefreshUser ==
  /\ Visit
  /\ page = "home" /\ user # 0 /\ Free("refresh")
  /\ calls' = [calls EXCEPT !["refresh"] = Sent]
  /\ UNCHANGED <<jar, standing, user, loading, page, nav, expiring, astray>>

UserRefreshed ==
  /\ Answered("refresh")
  /\ IF Answer("refresh") = "ok"
     THEN /\ user' = calls["refresh"].with
          /\ astray' = (astray \/ user' # user)
     ELSE UNCHANGED <<user, astray>>
  /\ calls' = Done("refresh")
  /\ UNCHANGED <<jar, standing, loading, page, nav, expiring, visits>>

Arrives ==
  \/ ClearArrives \/ MeArrives \/ SignedIn \/ SignedOut \/ UserRefreshed
  \/ \E d \in DataCall : DataArrives(d)

PortalNext ==
  \/ \E target \in Page : Load(target)
  \/ Guard \/ Navigate \/ Arrives
  \/ \E c \in CallName : Serve(c) \/ Lose(c)
  \/ \E l \in Login : Revoke(l)
  \/ TakeCookie \/ SignIn \/ SignOut \/ RefreshUser
  \/ \E d \in DataCall : AskData(d)

PortalFairness ==
  /\ WF_portalVars(Guard) /\ WF_portalVars(Navigate)
  /\ \A c \in CallName : WF_portalVars(Serve(c))
  /\ WF_portalVars(ClearArrives) /\ WF_portalVars(MeArrives)
  /\ WF_portalVars(SignedIn) /\ WF_portalVars(SignedOut) /\ WF_portalVars(UserRefreshed)
  /\ \A d \in DataCall : WF_portalVars(DataArrives(d))

-----------------------------------------------------------------------------
(***************************************************************************)
(* Properties                                                              *)
(***************************************************************************)
\* A tab that has a user holds the cookie of that very login: no answer of an
\* earlier session takes it away (what pendingLogoutRef is for), unless the
\* cookie expired or another tab removed it, or a late refreshUser brought the
\* user of an earlier session back (who may then log out, or be logged out,
\* while the login that was waited for is still under way).
CookieIsUsers == user # 0 /\ ~astray => jar = user

\* The guards, which go by the user, and the proxy, which goes by the cookie,
\* come to an agreement: in the end the tab shows a private page to a user or
\* the login form to a guest, and is not sent back and forth.
AtRest == ~loading /\ nav = "none" /\ (page = "home" <=> user # 0)
ComesToRest == <>[](AtRest \/ astray)
=============================================================================
