-------------------------------- MODULE WsHub --------------------------------
(***************************************************************************)
(* The realtime hub, wsHub.ts, on top of the members of one home: every    *)
(* connection keeps a copy of what its user may see there, and events are  *)
(* filtered with that copy.                                                *)
(*                                                                         *)
(* Code between two awaits is one step.  Loading a user's homes is split   *)
(* into the database's reading and the assignment that follows it.         *)
(***************************************************************************)
EXTENDS Members

CONSTANTS
  Conn,          \* WebSocket connections, each opened once
  MaxUnauth,     \* MAX_UNAUTH_PER_IP; all connections come from one address
  MaxAuth,       \* MAX_AUTH_PER_USER
  MaxRevocations \* bound: so often a user's sessions are revoked

ASSUME WsHubAssumption ==
  /\ MaxUnauth \in Nat /\ MaxAuth \in Nat /\ MaxRevocations \in Nat
  /\ None \notin Conn /\ IsFiniteSet(Conn)

VARIABLES
  conn,     \* the connections
  version,  \* users.token_version; locking an account counts as a change
  asking,   \* handlers of home_changed that wait for the list of members,
            \* each the set of connections that held the home when it began
  checking  \* connections closeRevokedSessions still has to look at

hubVars == <<conn, version, asking, checking>>
rightsVars == <<membersVars, hubVars>>

\* What a connection may hear of the home.
Scope == [in : BOOLEAN, devices : SUBSET Device]
Outside == [in |-> FALSE, devices |-> {}]

\* A run of loadHomes: whether it is in flight, and what the database said.
Load == [on : BOOLEAN, got : Scope \cup {None}]
NoLoad == [on |-> FALSE, got |-> None]
Loading == [on |-> TRUE, got |-> None]

\* `stage` is where handleAuthFrame is; user and version are set when the
\* token has been verified.
Connection ==
  [st : {"new", "open", "closing", "gone"},
   stage : {"waiting", "verifying", "loading", "ready", "failed"},
   token : User \cup {None}, user : User \cup {None}, version : 0..MaxRevocations,
   homes : Scope, first : Load, refresh : Load,
   authTimer : BOOLEAN, expiryTimer : BOOLEAN]

NewConnection ==
  [st |-> "new", stage |-> "waiting", token |-> None, user |-> None, version |-> 0,
   homes |-> Outside, first |-> NoLoad, refresh |-> NoLoad,
   authTimer |-> FALSE, expiryTimer |-> FALSE]

HubTypeOK ==
  /\ conn \in [Conn -> Connection]
  /\ version \in [User -> 0..MaxRevocations]
  /\ asking \subseteq SUBSET Conn
  /\ checking \subseteq Conn

HubInit ==
  /\ conn = [c \in Conn |-> NewConnection]
  /\ version = [u \in User |-> 0]
  /\ asking = {}
  /\ checking = {}

\* The set `connections`: what was admitted and has not seen its close event.
Connected == {c \in Conn : conn[c].st \in {"open", "closing"}}

Authed == {c \in Connected : conn[c].user # None}

\* getEffectiveMemberAccess, as loadHomes keeps it.
ScopeOf(u) ==
  IF IsMember(u) THEN [in |-> TRUE, devices |-> GuestDevices(MemberOf(u))]
  ELSE Outside

\* The listeners of device_state and telemetry: who is told of device d.
Hears(c, d) == conn[c].homes.in /\ d \in conn[c].homes.devices

MaySee(u, d) == IsMember(u) /\ d \in GuestDevices(MemberOf(u))

\* refreshHomes for each connection of cs: one that is in flight is joined.
Refreshed(cs) ==
  [c \in Conn |-> IF c \in cs \cap Authed /\ ~ conn[c].refresh.on
                  THEN [conn[c] EXCEPT !.refresh = Loading] ELSE conn[c]]

-----------------------------------------------------------------------------
(***************************************************************************)
(* One connection                                                          *)
(***************************************************************************)

\* onConnection: too many unauthenticated connections are turned away.
Connect(c) ==
  LET unauth == {k \in Connected : conn[k].user = None} IN
  /\ conn[c].st = "new"
  /\ \/ /\ Cardinality(unauth) < MaxUnauth
        /\ conn' = [conn EXCEPT ![c].st = "open", ![c].authTimer = TRUE]
     \/ /\ Cardinality(unauth) >= MaxUnauth
        /\ conn' = [conn EXCEPT ![c].st = "gone"]
  /\ UNCHANGED <<version, asking, checking>>

\* The first frame names a token of u; anything else closes the connection.
FirstFrame(c) ==
  /\ conn[c].st = "open" /\ conn[c].stage = "waiting"
  /\ \/ \E u \in User :
          conn' = [conn EXCEPT ![c].stage = "verifying", ![c].token = u,
                               ![c].version = version[u]]
     \/ conn' = [conn EXCEPT ![c].stage = "failed", ![c].st = "closing"]
  /\ UNCHANGED <<version, asking, checking>>

\* Faulty variant: only connections that are ready are counted.
MutConnectionsOf(u) == {k \in Authed : conn[k].user = u /\ conn[k].stage = "ready"}

ConnectionsOf(u) == {k \in Authed : conn[k].user = u}

\* authenticateAccessToken has answered: the token is still good or not.
Verified(c) ==
  LET u == conn[c].token
      good == version[u] = conn[c].version
      room == Cardinality(ConnectionsOf(u)) < MaxAuth
  IN
  /\ conn[c].stage = "verifying"
  /\ \/ /\ conn[c].st = "open" /\ good /\ room
        /\ conn' = [conn EXCEPT ![c].stage = "loading", ![c].user = u,
                                ![c].first = Loading]
     \/ /\ conn[c].st = "open" /\ ~ (good /\ room)
        /\ conn' = [conn EXCEPT ![c].stage = "failed", ![c].st = "closing"]
     \/ /\ conn[c].st # "open"
        /\ conn' = [conn EXCEPT ![c].stage = "failed"]
  /\ UNCHANGED <<version, asking, checking>>

\* The database answers loadHomes: the first one, or that of a refresh.  One
\* read stands for listEffectiveHomeIds and a query for every home it names; a
\* home that is lost between them is skipped in the code as well.
ReadHomes(c) ==
  /\ \/ /\ conn[c].first = Loading
        /\ conn' = [conn EXCEPT ![c].first.got = ScopeOf(conn[c].user)]
     \/ /\ conn[c].refresh = Loading
        /\ conn' = [conn EXCEPT ![c].refresh.got = ScopeOf(conn[c].user)]
  /\ UNCHANGED <<version, asking, checking>>

\* Faulty variant: the socket's state is not looked at again after loadHomes.
MutHomesLoaded(c) ==
  /\ conn[c].stage = "loading" /\ conn[c].first.got # None
  /\ conn' = [conn EXCEPT ![c].homes = conn[c].first.got, ![c].first = NoLoad,
                 ![c].stage = "ready", ![c].authTimer = FALSE,
                 ![c].expiryTimer = TRUE]
  /\ UNCHANGED <<version, asking, checking>>

\* The first homes are here: the timer of the token replaces that of the
\* authentication, unless the socket was closed meanwhile.
HomesLoaded(c) ==
  LET open == conn[c].st = "open" IN
  /\ conn[c].stage = "loading" /\ conn[c].first.got # None
  /\ conn' = [conn EXCEPT ![c] =
       [@ EXCEPT !.homes = conn[c].first.got, !.first = NoLoad, !.stage = "ready",
                 !.authTimer = IF open THEN FALSE ELSE conn[c].authTimer,
                 !.expiryTimer = IF open THEN TRUE ELSE conn[c].expiryTimer]]
  /\ UNCHANGED <<version, asking, checking>>

\* Faulty variant: the homes are assigned before they are known.
MutRefreshDone(c) ==
  /\ conn[c].refresh.on
  /\ conn' = [conn EXCEPT ![c].homes = conn[c].refresh.got, ![c].refresh = NoLoad]
  /\ UNCHANGED <<version, asking, checking>>

\* refreshHomes, once the homes are known.
RefreshDone(c) ==
  /\ conn[c].refresh.got # None
  /\ conn' = [conn EXCEPT ![c].homes = conn[c].refresh.got, ![c].refresh = NoLoad]
  /\ UNCHANGED <<version, asking, checking>>

\* A timer fires (10 s without authentication, the token's end), the client
\* leaves, or a ping finds it dead.
CloseConnection(c) ==
  /\ conn[c].st = "open"
  /\ conn' = [conn EXCEPT ![c].st = "closing"]
  /\ UNCHANGED <<version, asking, checking>>

\* The close event: clearTimers, and the connection is forgotten.
ClosedEvent(c) ==
  /\ conn[c].st = "closing"
  /\ conn' = [conn EXCEPT ![c].st = "gone", ![c].authTimer = FALSE,
                          ![c].expiryTimer = FALSE]
  /\ checking' = checking \ {c}
  /\ UNCHANGED <<version, asking>>

-----------------------------------------------------------------------------
(***************************************************************************)
(* Events and timers                                                       *)
(***************************************************************************)

\* handleHomeChanged up to its await, for all events of a call. An event for
\* named users refreshes them; one for all members notes who holds the home
\* and asks the database who they are.
Dispatch(tells) ==
  LET named == UNION (tells \ {{None}})
      holders == {c \in Authed : conn[c].homes.in}
  IN
  /\ conn' = Refreshed({c \in Authed : conn[c].user \in named})
  /\ asking' = IF {None} \in tells THEN asking \cup {holders} ELSE asking
  /\ UNCHANGED <<version, checking>>

\* ... and after it: who holds the home and who is a member now is refreshed.
\* The answer is used as soon as it is read: it only chooses whom to refresh.
MembersKnown(holders) ==
  /\ holders \in asking
  /\ conn' = Refreshed(holders \cup {c \in Authed : conn[c].user \in MemberUsers})
  /\ asking' = asking \ {holders}
  /\ UNCHANGED <<version, checking>>

\* Faulty variant: the timer looks for revoked sessions only.
MutHubTick ==
  /\ checking' = checking \cup Authed
  /\ UNCHANGED <<conn, version, asking>>

\* The timer of 60 s: closeRevokedSessions begins, and everybody is refreshed.
HubTick ==
  /\ checking' = checking \cup Authed
  /\ conn' = Refreshed(Authed)
  /\ UNCHANGED <<version, asking>>

\* Faulty variant: the version that the token was verified with is not compared.
MutCheckSession(c) ==
  /\ c \in checking
  /\ checking' = checking \ {c}
  /\ UNCHANGED <<conn, version, asking>>

\* closeRevokedSessions for one connection.  A query that fails leaves the user's
\* connections to the next check, and is left out.
CheckSession(c) ==
  LET revoked == version[conn[c].user] # conn[c].version IN
  /\ c \in checking
  /\ checking' = checking \ {c}
  /\ conn' = [conn EXCEPT ![c].st = IF revoked /\ @ = "open" THEN "closing" ELSE @]
  /\ UNCHANGED <<version, asking>>

\* Logout everywhere, change of password, a locked account.
Revoke(u) ==
  /\ version[u] < MaxRevocations
  /\ version' = [version EXCEPT ![u] = @ + 1]
  /\ UNCHANGED <<conn, asking, checking>>

\* A query fails: a first load closes the connection, a refresh leaves what
\* was known, a handler of home_changed refreshes nobody.
HubQueryFails ==
  /\ \/ \E c \in Conn :
          /\ conn[c].first.on
          /\ conn' = [conn EXCEPT ![c].first = NoLoad, ![c].stage = "failed",
                         ![c].st = IF @ = "open" THEN "closing" ELSE @]
          /\ UNCHANGED asking
     \/ \E c \in Conn :
          conn[c].refresh.on /\ conn' = [conn EXCEPT ![c].refresh = NoLoad] /\ UNCHANGED asking
     \/ \E h \in asking : asking' = asking \ {h} /\ UNCHANGED conn
  /\ UNCHANGED <<version, checking>>

-----------------------------------------------------------------------------
HubWork(c) == Verified(c) \/ ReadHomes(c) \/ HomesLoaded(c) \/ RefreshDone(c)

HubNext ==
  \/ \E c \in Conn :
       \/ Connect(c) \/ FirstFrame(c) \/ HubWork(c)
       \/ CloseConnection(c) \/ ClosedEvent(c) \/ CheckSession(c)
  \/ \E h \in asking : MembersKnown(h)
  \/ \E u \in User : Revoke(u)
  \/ HubTick

\* The parts together: what a call announces is dispatched in the same step,
\* because the bus calls its listeners synchronously.
RightsNext ==
  \/ \E r \in Request :
       \/ (Start(r) \/ Work(r)) /\ UNCHANGED hubVars
       \/ FinishCall(r) /\ Dispatch(Announced(r))
  \/ Disturb /\ UNCHANGED hubVars
  \/ HubNext /\ UNCHANGED membersVars
  \/ HubQueryFails /\ Happens
       /\ UNCHANGED <<issued, rows, homeDevices, suspended, lock, call>>

RightsInit == MembersInit /\ HubInit

\* The event loop resumes what can go on, PostgreSQL answers, timers fire.
HubFairness ==
  /\ \A c \in Conn :
       /\ WF_rightsVars(ReadHomes(c) /\ UNCHANGED membersVars)
       /\ WF_rightsVars(HomesLoaded(c) /\ UNCHANGED membersVars)
       /\ WF_rightsVars(RefreshDone(c) /\ UNCHANGED membersVars)
       /\ WF_rightsVars(CheckSession(c) /\ UNCHANGED membersVars)
  /\ WF_rightsVars(HubTick /\ UNCHANGED membersVars)

RightsSpec == RightsInit /\ [][RightsNext]_rightsVars /\ HubFairness

-----------------------------------------------------------------------------
\* A user never has more than MAX_AUTH_PER_USER authenticated connections,
\* although a connection is authenticated across two awaits (handleAuthFrame).
AuthLimit ==
  \A u \in User :
    Cardinality({c \in Connected : conn[c].user = u /\ conn[c].stage # "failed"}) <= MaxAuth

\* No timer outlives its connection, wherever the close event falls between the
\* awaits of handleAuthFrame (clearTimers).
NoTimerLeft ==
  \A c \in Conn : conn[c].st = "gone" => ~ conn[c].authTimer /\ ~ conn[c].expiryTimer

\* Connections and timers are bounded.
ConnectionsBounded == AuthLimit /\ NoTimerLeft

\* Whatever events are lost, joined to an older refresh or overtaken by the
\* first load: while what its user may see does not change, an authenticated
\* connection comes back to hearing exactly that (refreshHomes, the timer of 60 s).
CopyFollows ==
  \A c \in Conn :
    \/ []<><<ScopeOf(conn[c].token)' # ScopeOf(conn[c].token)>>_rightsVars
    \/ []<>(\/ conn[c].st # "open" \/ conn[c].stage # "ready"
           \/ \A d \in Device : Hears(c, d) = MaySee(conn[c].user, d))

\* A connection whose session was revoked does not stay open
\* (closeRevokedSessions).
RevokedIsClosed ==
  \A c \in Conn :
    (conn[c].user # None /\ version[conn[c].user] # conn[c].version)
      ~> conn[c].st # "open"
=============================================================================
