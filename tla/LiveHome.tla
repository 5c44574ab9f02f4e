------------------------------- MODULE LiveHome -------------------------------
(***************************************************************************)
(* The mobile app's live picture of one relay: realtime_source.dart (the   *)
(* WebSocket), realtime_controller.dart (events, and polling while the     *)
(* socket is down) and homes_providers.dart (the picture, and optimistic   *)
(* switching), against a backend that changes the relay and tells of it.   *)
(*                                                                         *)
(* Each start() is a generation; code between two awaits is one step.      *)
(* stop() counts a generation too in the code: here a generation is        *)
(* current while the shell is built and no later one has started.          *)
(***************************************************************************)
EXTENDS Integers, Sequences, FiniteSets

CONSTANT
  MaxTurns  \* bound: how often in all the shell is entered, someone switches
            \* the relay, a page is opened, or the network fails

ASSUME LiveHomeAssumption == MaxTurns \in Nat

VARIABLES
  built,    \* the controller is built, and the source running
  gen,      \* _generation
  phase,    \* what the chain of calls of each generation waits for
  channel,  \* _channel: the generation it belongs to, 0 for null
  status,   \* _status
  refusals, \* _authFailures, up to 2
  stopping, \* calls of stop() whose last line is still to run
  polling,  \* the 15 s timer
  peer,     \* the server's end of the current generation's socket
  wire,     \* what that socket carries to the phone
  hist,     \* power_state: every value so far, the last one the present
  due,      \* changes whose event has still to read the row
  told,     \* events with the version they read, still to be emitted
  fetch,    \* the REST reads under way: the timer's, the catch-up, and the
            \* one of the device's page
  cmd,      \* the phone's command
  shown,    \* the device's power in state.value
  base,     \* history: the version shown is taken from,
  peak,     \* and the newest that reached the phone
  undone,   \* history: a rollback put back a value that something else had set
  missed,   \* history: the last catch-up failed
  blocked,  \* the network lets no WebSocket through
  turns     \* what has happened so far, see MaxTurns

sourceVars == <<gen, phase, channel, refusals, stopping>>
backendVars == <<hist, due, told>>
pictureVars == <<shown, base, peak, undone>>
liveVars == <<built, sourceVars, status, polling, peer, wire, backendVars, fetch,
              cmd, pictureVars, missed, blocked, turns>>

Generation == 1..MaxTurns
Version == 1..(1 + MaxTurns)
Slot == {"poll", "sync", "page"}
Present == Len(hist)
Message == [t : {"auth_ok", "bye", "refused"}, i : {0}] \cup [t : {"state"}, i : Version]
Plain(t) == [t |-> t, i |-> 0]
Idle == [st |-> "idle", i |-> 0]
Asked == [st |-> "asked", i |-> 0]

LiveTypeOK ==
  /\ {built, polling, blocked, undone, missed} \subseteq BOOLEAN
  /\ gen \in 0..MaxTurns /\ channel \in 0..MaxTurns
  /\ phase \in [Generation -> {"none", "token", "opening", "greeting", "live",
                               "dead", "recovering", "waiting", "over"}]
  /\ status \in {"disconnected", "connecting", "connected"}
  /\ refusals \in 0..2 /\ stopping \in 0..MaxTurns
  /\ peer \in {"none", "open", "ready", "gone"}
  /\ wire \in Seq(Message)
  /\ hist \in Seq(BOOLEAN) /\ Present \in Version
  /\ due \subseteq Version /\ told \subseteq Version \X Version
  /\ fetch \in [Slot -> [st : {"idle", "asked", "read"}, i : Version \cup {0}]]
  /\ cmd \in [at : {"none", "asked", "acked", "refused", "answered"},
              pending : BOOLEAN, touched : BOOLEAN, want : BOOLEAN,
              n : Version \cup {0}, i : Version \cup {0}]
  /\ shown \in BOOLEAN /\ {base, peak} \subseteq Version
  /\ turns \in 0..MaxTurns

HomeLiveInit ==
  /\ built = FALSE /\ polling = FALSE
  /\ blocked \in BOOLEAN
  /\ gen = 0 /\ channel = 0 /\ refusals = 0 /\ stopping = 0
  /\ phase = [g \in Generation |-> "none"]
  /\ status = "disconnected"
  /\ peer = "none" /\ wire = <<>>
  /\ hist = <<FALSE>> /\ due = {} /\ told = {}
  /\ fetch = [s \in Slot |-> Idle]
  /\ cmd = [at |-> "none", pending |-> FALSE, touched |-> FALSE, want |-> FALSE,
            n |-> 0, i |-> 0]
  /\ shown = FALSE /\ base = 1 /\ peak = 1 /\ undone = FALSE /\ missed = FALSE
  /\ turns = 0

Current(g) == built /\ g = gen

Turn == turns < MaxTurns /\ turns' = turns + 1

\* A failure of the socket: free where sockets are blocked, bounded elsewhere.
Trouble ==
  \/ blocked /\ UNCHANGED turns
  \/ ~blocked /\ Turn

-----------------------------------------------------------------------------
(***************************************************************************)
(* The source and the controller                                           *)
(***************************************************************************)
Goes(g, p) == phase' = [phase EXCEPT ![g] = p]

\* _setStatus, and the controller's _onStatus when it changes something.
SetStatus(s) ==
  /\ status' = s
  /\ polling' = IF built /\ s # status THEN s # "connected" ELSE polling

\* Faulty variant: whether to poll is decided before start() is called.
MutBuild ==
  /\ ~built /\ Turn
  /\ built' = TRUE
  /\ gen' = gen + 1
  /\ Goes(gen', "token")
  /\ refusals' = 0
  /\ status' = "connecting"
  /\ polling' = (status # "connected")
  /\ UNCHANGED <<channel, stopping, peer, wire, backendVars, fetch, cmd,
                 pictureVars, missed, blocked>>

\* build: the shell is entered, and start() runs to its first await.
Build ==
  /\ ~built /\ Turn
  /\ built' = TRUE
  /\ gen' = gen + 1
  /\ Goes(gen', "token")
  /\ refusals' = 0
  /\ status' = "connecting"
  /\ polling' = TRUE
  /\ UNCHANGED <<channel, stopping, peer, wire, backendVars, fetch, cmd,
                 pictureVars, missed, blocked>>

\* _teardown, and stop() to its first await; a timer or a socket does not call
\* back afterwards, a call that is awaited does.
Teardown ==
  /\ built
  /\ built' = FALSE /\ polling' = FALSE
  /\ IF phase[gen] \in {"token", "opening", "recovering"} THEN UNCHANGED phase
     ELSE Goes(gen, "over")
  /\ channel' = 0
  /\ stopping' = stopping + 1
  /\ peer' = "none" /\ wire' = <<>>
  /\ UNCHANGED <<gen, status, refusals, backendVars, fetch, cmd,
                 pictureVars, missed, blocked, turns>>

\* stop() after its awaits: it does not ask whether another start() has run.
StopEnds ==
  /\ stopping > 0
  /\ stopping' = stopping - 1
  /\ SetStatus("disconnected")
  /\ UNCHANGED <<built, gen, phase, channel, refusals, peer, wire,
                 backendVars, fetch, cmd, pictureVars, missed, blocked, turns>>

\* _scheduleRetry
Retry(g) == Goes(g, "waiting") /\ SetStatus("disconnected")

\* _connect, begun anew.
Connect(g) == Goes(g, "token") /\ SetStatus("connecting")

\* A call returns to a generation that is no longer current.
Abandon(g) == Goes(g, "over") /\ UNCHANGED <<status, polling>>

\* readAccessToken answers.
TokenRead(g) ==
  /\ phase[g] = "token"
  /\ \/ ~Current(g) /\ Abandon(g) /\ UNCHANGED <<channel, turns>>
     \/ /\ Current(g)
        /\ Goes(g, "opening")
        /\ channel' = g
        /\ UNCHANGED <<status, polling, turns>>
     \/ Current(g) /\ Turn /\ Retry(g) /\ UNCHANGED channel
  /\ UNCHANGED <<built, gen, refusals, stopping, peer, wire, backendVars,
                 fetch, cmd, pictureVars, missed, blocked>>

\* channel.ready completes: the token is sent and the socket listened to.
Opened(g) ==
  /\ phase[g] = "opening"
  /\ \/ ~Current(g) /\ Abandon(g) /\ UNCHANGED peer
     \/ /\ Current(g)
        /\ Goes(g, "greeting")
        /\ peer' = "open"
        /\ UNCHANGED <<status, polling>>
  /\ UNCHANGED <<built, gen, channel, refusals, stopping, wire, backendVars,
                 fetch, cmd, pictureVars, missed, blocked, turns>>

\* channel.ready fails: _channel is forgotten, whoever's it is by now.
OpenFails(g) ==
  /\ phase[g] = "opening"
  /\ channel' = 0
  /\ \/ ~Current(g) /\ Abandon(g) /\ UNCHANGED turns
     \/ Current(g) /\ Trouble /\ Retry(g)
  /\ UNCHANGED <<built, gen, refusals, stopping, peer, wire, backendVars, fetch, cmd,
                 pictureVars, missed, blocked>>

\* Faulty variant: after a second refusal nothing is scheduled.
MutRecovered(g) ==
  /\ phase[g] = "recovering"
  /\ \/ ~Current(g) /\ Abandon(g)
     \/ Current(g) /\ refusals <= 1 /\ Connect(g)
  /\ UNCHANGED <<built, gen, channel, refusals, stopping, peer, wire,
                 backendVars, fetch, cmd, pictureVars, missed, blocked, turns>>

\* refreshSession answers after a 4401: reconnect at once, but only once in a
\* row.
Recovered(g) ==
  /\ phase[g] = "recovering"
  /\ \/ ~Current(g) /\ Abandon(g)
     \/ Current(g) /\ refusals <= 1 /\ Connect(g)
     \/ Current(g) /\ Retry(g)
  /\ UNCHANGED <<built, gen, channel, refusals, stopping, peer, wire,
                 backendVars, fetch, cmd, pictureVars, missed, blocked, turns>>

RetryTimer(g) ==
  /\ phase[g] = "waiting" /\ Current(g)
  /\ Connect(g)
  /\ UNCHANGED <<built, gen, channel, refusals, stopping, peer, wire,
                 backendVars, fetch, cmd, pictureVars, missed, blocked, turns>>

\* _authTimer: the phone closes its socket.
AuthTimeout(g) ==
  /\ phase[g] = "greeting" /\ Current(g)
  /\ peer \in {"open", "ready"} /\ status # "connected"
  /\ peer' = "gone"
  /\ wire' = Append(wire, Plain("bye"))
  /\ Trouble
  /\ UNCHANGED <<built, sourceVars, status, polling, backendVars, fetch, cmd,
                 pictureVars, missed, blocked>>

SourceStep(g) ==
  \/ TokenRead(g) \/ Opened(g) \/ OpenFails(g) \/ Recovered(g) \/ RetryTimer(g)
  \/ AuthTimeout(g)

-----------------------------------------------------------------------------
(***************************************************************************)
(* The picture                                                             *)
(***************************************************************************)
Reached(i) == peak' = IF i > peak THEN i ELSE peak

\* What is shown is replaced by version i.
Picture(i) ==
  /\ shown' = hist[i]
  /\ base' = i
  /\ Reached(i)
  /\ undone' = FALSE

\* While a command is pending, its rollback no longer knows what it undoes.
Touch == cmd' = [cmd EXCEPT !.touched = cmd.pending]

\* Faulty variant: a new connection does not catch up.
MutAccepted ==
  /\ wire # <<>> /\ Head(wire).t = "auth_ok"
  /\ fetch["sync"] = Idle
  /\ wire' = Tail(wire)
  /\ Goes(gen, "live")
  /\ refusals' = 0
  /\ SetStatus("connected")
  /\ UNCHANGED <<built, gen, channel, stopping, peer, backendVars, fetch, cmd,
                 pictureVars, missed, blocked, turns>>

\* _onData with auth_ok; the controller stops polling and catches up.  (Bound:
\* not before the last catch-up is over.)
Accepted ==
  /\ wire # <<>> /\ Head(wire).t = "auth_ok"
  /\ fetch["sync"] = Idle
  /\ wire' = Tail(wire)
  /\ Goes(gen, "live")
  /\ refusals' = 0
  /\ SetStatus("connected")
  /\ fetch' = [fetch EXCEPT !["sync"] = Asked]
  /\ missed' = FALSE
  /\ UNCHANGED <<built, gen, channel, stopping, peer, backendVars, cmd,
                 pictureVars, blocked, turns>>

\* _onData with an event, and applyDeviceState.
EventArrives ==
  /\ wire # <<>> /\ Head(wire).t = "state"
  /\ wire' = Tail(wire)
  /\ IF status = "connected" THEN Picture(Head(wire).i) /\ Touch
     ELSE UNCHANGED <<pictureVars, cmd>>
  /\ UNCHANGED <<built, sourceVars, status, polling, peer, backendVars, fetch,
                 missed, blocked, turns>>

\* _onClosed: nobody listens if the channel has been forgotten.
Closed ==
  /\ wire # <<>> /\ Head(wire).t \in {"bye", "refused"}
  /\ wire' = <<>> /\ peer' = "none"
  /\ \/ /\ channel # gen
        /\ Goes(gen, "dead")
        /\ UNCHANGED <<channel, refusals, status, polling>>
     \/ /\ channel = gen /\ Head(wire).t = "bye"
        /\ channel' = 0
        /\ Retry(gen)
        /\ UNCHANGED refusals
     \/ /\ channel = gen /\ Head(wire).t = "refused"
        /\ channel' = 0
        /\ Goes(gen, "recovering") /\ SetStatus("disconnected")
        /\ refusals' = IF refusals = 2 THEN 2 ELSE refusals + 1
  /\ UNCHANGED <<built, gen, stopping, backendVars, fetch, cmd, pictureVars,
                 missed, blocked, turns>>

Deliver == Accepted \/ EventArrives \/ Closed

\* The timer of the controller, or the page of the device, asks the backend.
Request(s) ==
  /\ fetch[s] = Idle
  /\ \/ s = "poll" /\ polling /\ UNCHANGED turns
     \/ s = "page" /\ built /\ Turn
  /\ fetch' = [fetch EXCEPT ![s] = Asked]
  /\ UNCHANGED <<built, sourceVars, status, polling, peer, wire, backendVars, cmd,
                 pictureVars, missed, blocked>>

FetchReads(s) ==
  /\ fetch[s].st = "asked"
  /\ fetch' = [fetch EXCEPT ![s] = [st |-> "read", i |-> Present]]
  /\ UNCHANGED <<built, sourceVars, status, polling, peer, wire, backendVars, cmd,
                 pictureVars, missed, blocked, turns>>

\* Faulty variant: a poll keeps a switch that is no longer pending.
MutFetchArrives(s) ==
  /\ fetch[s].st = "read"
  /\ fetch' = [fetch EXCEPT ![s] = Idle]
  /\ IF cmd.at # "none" /\ s # "page"
     THEN Reached(fetch[s].i) /\ UNCHANGED <<shown, base, undone>>
     ELSE Picture(fetch[s].i)
  /\ Touch
  /\ UNCHANGED <<built, sourceVars, status, polling, peer, wire, backendVars,
                 missed, blocked, turns>>

\* refresh keeps a pending switch (_keepPending); refreshDevice does not.
FetchArrives(s) ==
  /\ fetch[s].st = "read"
  /\ fetch' = [fetch EXCEPT ![s] = Idle]
  /\ IF cmd.pending /\ s # "page"
     THEN Reached(fetch[s].i) /\ UNCHANGED <<shown, base, undone>>
     ELSE Picture(fetch[s].i)
  /\ Touch
  /\ UNCHANGED <<built, sourceVars, status, polling, peer, wire, backendVars,
                 missed, blocked, turns>>

\* A failed read is not tried again.
FetchFails(s) ==
  /\ fetch[s].st # "idle"
  /\ Turn
  /\ fetch' = [fetch EXCEPT ![s] = Idle]
  /\ missed' = (missed \/ s = "sync")
  /\ UNCHANGED <<built, sourceVars, status, polling, peer, wire, backendVars, cmd,
                 pictureVars, blocked>>

\* setPower: the switch flips at once.  (Bound: not while the backend is still
\* busy with the one before.)
Tap ==
  /\ Turn /\ built /\ ~cmd.pending
  /\ cmd.at \in {"none", "refused", "answered"}
  /\ cmd' = [at |-> "asked", pending |-> TRUE, touched |-> FALSE, want |-> ~shown,
             n |-> 0, i |-> 0]
  /\ shown' = ~shown
  /\ UNCHANGED <<built, sourceVars, status, polling, peer, wire, backendVars, fetch,
                 base, peak, undone, missed, blocked>>

TapAnswered ==
  /\ cmd.pending /\ cmd.at = "answered"
  /\ Picture(cmd.i)
  /\ cmd' = [cmd EXCEPT !.pending = FALSE]
  /\ UNCHANGED <<built, sourceVars, status, polling, peer, wire, backendVars, fetch,
                 missed, blocked, turns>>

\* An error, or no answer within 8 s: back, unless something has changed it.
TapFails ==
  /\ cmd.pending
  /\ cmd' = [cmd EXCEPT !.pending = FALSE]
  /\ IF shown = cmd.want
     THEN /\ shown' = ~cmd.want
          /\ undone' = (undone \/ cmd.touched)
     ELSE UNCHANGED <<shown, undone>>
  /\ UNCHANGED <<built, sourceVars, status, polling, peer, wire, backendVars, fetch,
                 base, peak, missed, blocked, turns>>

-----------------------------------------------------------------------------
(***************************************************************************)
(* The backend                                                             *)
(***************************************************************************)
\* Verified, and its homes loaded: the socket is told of events from now on.
Greets ==
  /\ peer = "open" /\ ~blocked
  /\ peer' = "ready"
  /\ wire' = Append(wire, Plain("auth_ok"))
  /\ UNCHANGED <<built, sourceVars, status, polling, backendVars, fetch, cmd,
                 pictureVars, missed, blocked, turns>>

\* The socket breaks, with or without what was under way, or the backend
\* refuses the token (4401).
Breaks ==
  /\ peer \in {"open", "ready"}
  /\ Trouble
  /\ peer' = "gone"
  /\ \E t \in {"bye", "refused"} :
       wire' \in {Append(wire, Plain(t)), <<Plain("bye")>>}
  /\ UNCHANGED <<built, sourceVars, status, polling, backendVars, fetch, cmd,
                 pictureVars, missed, blocked>>

Switch(v) ==
  /\ hist' = Append(hist, v)
  /\ due' = due \cup {Present + 1}

\* Someone else switches the relay.
Change ==
  /\ Turn
  /\ Switch(~hist[Present])
  /\ UNCHANGED <<built, sourceVars, status, polling, peer, wire, told, fetch, cmd,
                 pictureVars, missed, blocked>>

\* The relay confirms the phone's command, or it is refused.
CommandActs ==
  /\ cmd.at = "asked"
  /\ \/ /\ Switch(cmd.want)
        /\ cmd' = [cmd EXCEPT !.at = "acked", !.n = Present + 1]
     \/ /\ cmd' = [cmd EXCEPT !.at = "refused"]
        /\ UNCHANGED <<hist, due>>
  /\ UNCHANGED <<built, sourceVars, status, polling, peer, wire, told, fetch,
                 pictureVars, missed, blocked, turns>>

\* After its UPDATE a handler reads the row again,
RowRead ==
  /\ \E n \in due : due' = due \ {n} /\ told' = told \cup {<<n, Present>>}
  /\ UNCHANGED <<built, sourceVars, status, polling, peer, wire, hist, fetch,
                 cmd, pictureVars, missed, blocked, turns>>

\* and emits what it read; a command's answer carries the same row.
Emit ==
  /\ \E e \in told :
       /\ told' = told \ {e}
       /\ wire' = IF peer = "ready" THEN Append(wire, [t |-> "state", i |-> e[2]])
                  ELSE wire
       /\ cmd' = IF cmd.at = "acked" /\ cmd.n = e[1]
                 THEN [cmd EXCEPT !.at = "answered", !.i = e[2]] ELSE cmd
  /\ UNCHANGED <<built, sourceVars, status, polling, peer, hist, due, fetch,
                 pictureVars, missed, blocked, turns>>

HomeLiveNext ==
  \/ Build \/ Teardown \/ StopEnds
  \/ \E g \in Generation : SourceStep(g)
  \/ Deliver
  \/ \E s \in Slot : Request(s) \/ FetchReads(s) \/ FetchArrives(s) \/ FetchFails(s)
  \/ Tap \/ TapAnswered \/ TapFails
  \/ Greets \/ Breaks \/ Change \/ CommandActs \/ RowRead \/ Emit

HomeLiveFairness ==
  /\ WF_liveVars(StopEnds)
  /\ \A g \in Generation : WF_liveVars(SourceStep(g))
  /\ WF_liveVars(Deliver)
  /\ WF_liveVars(Request("poll"))
  /\ \A s \in Slot : WF_liveVars(FetchReads(s) \/ FetchArrives(s))
  /\ WF_liveVars(TapAnswered \/ TapFails)
  /\ WF_liveVars(Greets)
  /\ WF_liveVars(CommandActs \/ RowRead \/ Emit)

LiveHomeSpec == HomeLiveInit /\ [][HomeLiveNext]_liveVars /\ HomeLiveFairness

-----------------------------------------------------------------------------
(***************************************************************************)
(* Properties                                                              *)
(***************************************************************************)
\* The socket will bring what happens, or the news that it is closed.
CanHear ==
  /\ status = "connected" /\ channel = gen
  /\ peer = "ready" \/ \E k \in DOMAIN wire : wire[k].t \in {"bye", "refused"}

\* The exception: a failed attempt of an earlier generation has made the source
\* forget the channel in use, whose end will go unnoticed.
Forgotten == phase[gen] \in {"greeting", "live", "dead"} /\ channel # gen

\* While the shell is open the app polls or can hear, whatever comes late: the
\* end of stop(), attempts of earlier generations, timers (realtime_source.dart
\* :49 and realtime_controller.dart:44 promise it).
NeverDeaf == built => polling \/ CanHear \/ Forgotten

SourceSound == LiveTypeOK /\ NeverDeaf

Right == shown = hist[Present]

\* In the end the app is connected again unless sockets are blocked, no switch
\* stays pending, and the relay is shown as it is: always while the app polls;
\* while it is connected unless the picture was taken from older news than had
\* reached the phone, put back by a rollback after something else had changed
\* it, or left by a catch-up that failed.
PictureSettles ==
  <>[](built => /\ ~cmd.pending
                /\ ~blocked => phase[gen] \in {"live", "dead"}
                /\ polling => Right
                /\ Right \/ base < peak \/ undone \/ missed \/ Forgotten)
=============================================================================
