------------------------------ MODULE MCClients ------------------------------
(***************************************************************************)
(* The phone and the portals against the backend on small instances, one   *)
(* part per behaviour:                                                     *)
(*   tokens   the requests about refresh tokens, RefreshTokens; as many    *)
(*            tokens as calls, so that no call lacks a fresh one;          *)
(*   picture  one device on the screen, LiveHome;                          *)
(*   inbox    the notifications on the screen, Inbox;                      *)
(*   portal   one tab of a web portal, PortalSession.                      *)
(***************************************************************************)
EXTENDS RefreshTokens, LiveHome, Inbox, PortalSession

VARIABLE scene

clientVars == <<serverVars, liveVars, inboxVars, portalVars, scene>>

Scene == {"tokens", "picture", "inbox", "portal"}

\* In one scene the variables of the others stand still.
In(s, A) ==
  /\ scene = s /\ A
  /\ s # "tokens" => UNCHANGED serverVars
  /\ s # "picture" => UNCHANGED liveVars
  /\ s # "inbox" => UNCHANGED inboxVars
  /\ s # "portal" => UNCHANGED portalVars
  /\ UNCHANGED scene

ClientsInit ==
  /\ scene \in Scene
  /\ Init /\ HomeLiveInit /\ InboxInit /\ PortalInit
  /\ scene # "picture" => blocked
  /\ scene # "inbox" => \A i \in Ids : rows[i]

ClientsNext ==
  \/ In("tokens", Next)
  \/ In("picture", HomeLiveNext)
  \/ In("inbox", InboxNext)
  \/ In("portal", PortalNext)

\* The fairness of LiveSpec, HomeLiveFairness, InboxFairness and PortalFairness,
\* each in its scene.
ClientsFairness ==
  /\ \A c \in Call : WF_clientVars(In("tokens", CallStep(c)))
  /\ WF_clientVars(In("picture", StopEnds))
  /\ \A g \in Generation : WF_clientVars(In("picture", SourceStep(g)))
  /\ WF_clientVars(In("picture", Deliver))
  /\ WF_clientVars(In("picture", Request("poll")))
  /\ \A s \in Slot : WF_clientVars(In("picture", FetchReads(s) \/ FetchArrives(s)))
  /\ WF_clientVars(In("picture", TapAnswered \/ TapFails))
  /\ WF_clientVars(In("picture", Greets))
  /\ WF_clientVars(In("picture", CommandActs \/ RowRead \/ Emit))
  /\ WF_clientVars(In("inbox", OnRealtime))
  /\ WF_clientVars(In("inbox", AskPage /\ UNCHANGED taps))
  /\ WF_clientVars(In("inbox", \E i \in Ids : EmitNote(i)))
  /\ WF_clientVars(In("inbox", ReadRuns \/ ReadArrives))
  /\ \A m \in Mark : WF_clientVars(In("inbox", MarkActs(m) \/ MarkAnswered(m)))
  /\ WF_clientVars(In("portal", Guard)) /\ WF_clientVars(In("portal", Navigate))
  /\ \A c \in CallName : WF_clientVars(In("portal", Serve(c)))
  /\ WF_clientVars(In("portal", ClearArrives)) /\ WF_clientVars(In("portal", MeArrives))
  /\ WF_clientVars(In("portal", SignedIn)) /\ WF_clientVars(In("portal", SignedOut))
  /\ WF_clientVars(In("portal", UserRefreshed))
  /\ \A d \in DataCall : WF_clientVars(In("portal", DataArrives(d)))

ClientsSpec == ClientsInit /\ [][ClientsNext]_clientVars /\ ClientsFairness

-----------------------------------------------------------------------------
\* What the clients show and hold fits what the server told them, whatever the
\* order of answers and events (see the parts).
ScreensAgree ==
  /\ SourceSound
  /\ InboxTypeOK /\ InboxAgrees
  /\ PortalTypeOK /\ CookieIsUsers

\* Once the world leaves them alone, the screens come to the server's state and
\* the tab to a page that fits its user (see the parts).
ScreensSettle == PictureSettles /\ InboxSettles /\ ComesToRest
=============================================================================
