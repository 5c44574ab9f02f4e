---------------------------- MODULE MobileSession ----------------------------
(***************************************************************************)
(* The mobile app's session (api_client.dart, auth_remote_repository.dart) *)
(* on top of RefreshTokens: what each device keeps in memory and in its    *)
(* secure storage while requests are answered, fail, or get no answer.     *)
(***************************************************************************)
EXTENDS RefreshTokens

CONSTANT
  Device,
  Acts  \* what happens beside login and refresh: "logout", "change",
        \* "lost" (no answer), "disk" (storage fails), "kill" (app restarts)

ASSUME ActsAssumption ==
  Acts \subseteq {"logout", "change", "lost", "disk", "kill"}

VARIABLES
  mem,      \* _tokens: the refresh token in memory
  disk,     \* the one in secure storage
  flight,   \* _refreshing: the refresh all callers wait for
  entering, \* a login under way
  leaving,  \* a logout under way
  calm      \* history: none of Acts has happened yet

clientVars == <<mem, disk, flight, entering, leaving, calm>>
vars == <<serverVars, clientVars>>

ClientInit ==
  /\ Init
  /\ mem = [d \in Device |-> None]
  /\ disk = [d \in Device |-> None]
  /\ flight = [d \in Device |-> None]
  /\ entering = [d \in Device |-> None]
  /\ leaving = [d \in Device |-> None]
  /\ calm = TRUE

\* saveSession, clearSession, _expire: memory first, then storage, which may
\* fail.
Store(d, t) ==
  /\ mem' = [mem EXCEPT ![d] = t]
  /\ \/ disk' = [disk EXCEPT ![d] = t] /\ UNCHANGED calm
     \/ "disk" \in Acts /\ UNCHANGED disk /\ calm' = FALSE

StartLogin(d, c) ==
  /\ mem[d] = None /\ entering[d] = None /\ leaving[d] = None
  /\ Ask(c, "login", None)
  /\ entering' = [entering EXCEPT ![d] = c]
  /\ UNCHANGED <<mem, disk, flight, leaving, calm>>

FinishLogin(d) ==
  LET c == entering[d] IN
  /\ c # None
  /\ pc[c] = "answered"
  /\ \/ out[c] = "ok" /\ Store(d, got[c])
     \/ out[c] # "ok" /\ UNCHANGED <<mem, disk, calm>>
  /\ entering' = [entering EXCEPT ![d] = None]
  /\ UNCHANGED <<serverVars, flight, leaving>>

\* Faulty variant: a refresh in flight is not shared.
MutStartRefresh(d, c) ==
  /\ mem[d] # None
  /\ Ask(c, "refresh", mem[d])
  /\ flight' = [flight EXCEPT ![d] = c]
  /\ UNCHANGED <<mem, disk, entering, leaving, calm>>

\* refreshSession, after any answer that refused the access token: one request
\* in flight, for the token in memory.
StartRefresh(d, c) ==
  /\ mem[d] # None
  /\ flight[d] = None
  /\ Ask(c, "refresh", mem[d])
  /\ flight' = [flight EXCEPT ![d] = c]
  /\ UNCHANGED <<mem, disk, entering, leaving, calm>>

\* Faulty variant: the access token is replaced, the refresh token is not.
MutFinishRefresh(d) ==
  LET c == flight[d] IN
  /\ c # None
  /\ pc[c] = "answered"
  /\ IF out[c] \in {"reused", "expired"} THEN Store(d, None)
     ELSE UNCHANGED <<mem, disk, calm>>
  /\ flight' = [flight EXCEPT ![d] = None]
  /\ UNCHANGED <<serverVars, entering, leaving>>

\* _doRefresh: a refusal ends the session; a 500 leaves it alone.
FinishRefresh(d) ==
  LET c == flight[d] IN
  /\ c # None
  /\ pc[c] = "answered"
  /\ \/ out[c] = "ok" /\ Store(d, got[c])
     \/ out[c] \in {"reused", "expired"} /\ Store(d, None)
     \/ out[c] = "error" /\ UNCHANGED <<mem, disk, calm>>
  /\ flight' = [flight EXCEPT ![d] = None]
  /\ UNCHANGED <<serverVars, entering, leaving>>

\* The request or its answer is lost, or the client's timeout fires.
RefreshUnanswered(d) ==
  /\ "lost" \in Acts
  /\ flight[d] # None
  /\ flight' = [flight EXCEPT ![d] = None]
  /\ calm' = FALSE
  /\ UNCHANGED <<serverVars, mem, disk, entering, leaving>>

\* logout: tell the backend, then wipe the device whatever it said.
StartLogout(d, c) ==
  /\ "logout" \in Acts
  /\ mem[d] # None /\ leaving[d] = None
  /\ Ask(c, "logout", mem[d])
  /\ leaving' = [leaving EXCEPT ![d] = c]
  /\ calm' = FALSE
  /\ UNCHANGED <<mem, disk, flight, entering>>

FinishLogout(d) ==
  /\ leaving[d] # None
  /\ pc[leaving[d]] = "answered" \/ "lost" \in Acts
  /\ Store(d, None)
  /\ leaving' = [leaving EXCEPT ![d] = None]
  /\ UNCHANGED <<serverVars, flight, entering>>

\* The app is killed and starts again from its storage (readSession).
Relaunch(d) ==
  /\ "kill" \in Acts
  /\ mem' = [mem EXCEPT ![d] = disk[d]]
  /\ flight' = [flight EXCEPT ![d] = None]
  /\ entering' = [entering EXCEPT ![d] = None]
  /\ leaving' = [leaving EXCEPT ![d] = None]
  /\ calm' = FALSE
  /\ UNCHANGED <<serverVars, disk>>

\* The customer changes the password, or logs out, in the web portal.
Portal(c) ==
  /\ "change" \in Acts
  /\ \E o \in {"change", "everywhere"} : Ask(c, o, None)
  /\ calm' = FALSE
  /\ UNCHANGED <<mem, disk, flight, entering, leaving>>

DeviceStep(d) ==
  \/ \E c \in Call :
       StartLogin(d, c) \/ StartRefresh(d, c) \/ StartLogout(d, c)
  \/ FinishLogin(d)
  \/ FinishRefresh(d)
  \/ RefreshUnanswered(d)
  \/ FinishLogout(d)
  \/ Relaunch(d)

ClientNext ==
  \/ \E d \in Device : DeviceStep(d)
  \/ \E c \in Call : Portal(c)
  \/ \E c \in Call : (CallStep(c) \/ QueryError(c)) /\ UNCHANGED clientVars
  \/ \E t \in Token : Expire(t) /\ UNCHANGED clientVars

ClientSpec == ClientInit /\ [][ClientNext]_vars

-----------------------------------------------------------------------------
(***************************************************************************)
(* Properties                                                              *)
(***************************************************************************)
ClientTypeOK ==
  /\ TypeOK
  /\ {mem, disk} \subseteq [Device -> Token \cup {None}]
  /\ {flight, entering, leaving} \subseteq [Device -> Call \cup {None}]
  /\ calm \in BOOLEAN

\* As long as nothing but logins, refreshes and errors happens, a device holds
\* the live token of its login between refreshes, in memory and in storage.
HeldIsLive ==
  calm => \A d \in Device : mem[d] # None /\ flight[d] = None =>
    mem[d] \in Live /\ disk[d] = mem[d]

\* Nor is an app that shares one refresh among its callers ever taken for
\* someone who uses a token twice (refreshMobileSession asks for single flight).
SingleFlightSuffices == calm => \A c \in Call : out[c] # "reused"

\* Two devices never hold tokens of the same login, in memory or in storage: one
\* would use up the other's.
NoSharedLogin ==
  \A d, e \in Device : d # e =>
    \A t \in {mem[d], disk[d]} \ {None}, u \in {mem[e], disk[e]} \ {None} :
      fam[t] # fam[u]

\* A device holds a login of its own, and keeps it.
LoginIsKept == HeldIsLive /\ SingleFlightSuffices /\ NoSharedLogin
=============================================================================
