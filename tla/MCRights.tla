------------------------------ MODULE MCRights ------------------------------
(***************************************************************************)
(* Members and WsHub on small instances.  Not everything has to happen in  *)
(* one behaviour: an instance is one of the scenes                         *)
(*   invitations  two rows to be made, nobody's role or end is edited;     *)
(*   edits        one guest, edited, removed and leaving;                  *)
(*   connected    one row to be made, a connection, one call at a time;    *)
(*   revoked      connections and revoked sessions of one user.            *)
(* Time, devices and failures disturb the first; failing queries the last  *)
(* two.                                                                    *)
(***************************************************************************)
EXTENDS WsHub, TLC

CONSTANT Guest  \* the guest of the scene "edits"

ASSUME SceneAssumption == Guest \in User \ {Owner} /\ MaxRow > 1

VARIABLE scene

MCVars == <<rightsVars, scene>>

OwnerRow == [user |-> Owner, email |-> None, role |-> "OWNER",
             invite |-> "none", ends |-> "never", devices |-> {}]

GuestRow == [OwnerRow EXCEPT !.user = Guest, !.role = "GUEST",
                             !.ends = "future", !.devices = Device]

MCRightsInit ==
  /\ scene \in {"invitations", "edits", "connected", "revoked"}
  /\ issued = CASE scene = "invitations" -> 1
                [] scene = "edits" -> MaxRow
                [] OTHER -> MaxRow - 1
  /\ events = IF scene = "edits" THEN MaxEvents ELSE 0
  /\ rows = [m \in Row |-> CASE m = 1 -> OwnerRow
                             [] m = MaxRow /\ scene = "edits" -> GuestRow
                             [] OTHER -> None]
  /\ homeDevices = Device /\ suspended = FALSE
  /\ lock = [m \in Row |-> None]
  /\ call = [r \in Request |-> NoCall]
  /\ version = [u \in User |-> 0] /\ asking = {} /\ checking = {}
  /\ conn = [c \in Conn |-> [NewConnection EXCEPT
               !.st = IF scene \in {"connected", "revoked"} THEN "new" ELSE "gone"]]

\* The calls and disturbances of the scene.
InScene ==
  /\ scene' = scene
  /\ \A r \in Request : call'[r] # NoCall =>
       CASE scene = "invitations" -> call'[r].in.kind # "patch"
         [] scene = "edits" -> call'[r].in.kind \in {"patch", "remove", "leave"}
         [] scene = "revoked" -> FALSE
         [] OTHER -> /\ call'[r].in.kind \in {"invite", "accept", "remove", "leave"}
                     /\ \A q \in Request \ {r} : call'[q] = NoCall
  /\ scene = "connected" => /\ version' = version
                            /\ events' # events => HubQueryFails
                            /\ Cardinality({c \in Conn : conn'[c].st # "new"}) <= 1
  /\ scene = "revoked" => /\ UNCHANGED membersVars
                          /\ \A u \in User \ {Owner} : version'[u] = 0
                          /\ \A c \in Conn : conn'[c].token \in {None, Owner}

\* The states of members and connections have their types.
RightsTypeOK == MembersTypeOK /\ HubTypeOK

MCRightsSpec ==
  MCRightsInit /\ [][RightsNext /\ InScene]_MCVars /\ HubFairness
=============================================================================
