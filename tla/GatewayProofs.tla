---------------------------- MODULE GatewayProofs ----------------------------
(***************************************************************************)
(* The theorems of Inventory and GatewayNode, for any numbers of homes,    *)
(* rooms, devices and requests.  A request writes what it read some steps  *)
(* ago: RequestFits says what of that still holds while no rival is about. *)
(***************************************************************************)
EXTENDS MCGateway, FiniteSetTheorems, TLAPS

HubsIn(h) == ThingsIn(h) \cap Hub

\* A row that is not in the table is empty, and rows belong to homes that exist.
RowsFit ==
  \A t \in Thing :
    /\ ~InTable(t) => devices[t].home = None /\ devices[t].room = None /\ devices[t].gateway = None
    /\ devices[t].home \in built \cup {None}

\* Requests that overlap on one device, or on two gateways, are on record.
RivalsCross ==
  \A e, f \in Edit : e # f /\ edit[e].thing # None /\ edit[f].thing # None =>
    /\ edit[e].thing = edit[f].thing => edit[e].thing \in crossed
    /\ edit[e].thing \in Hub /\ edit[f].thing \in Hub => edit[e].thing \in crossed

\* What a request says of its target.
RequestIsSound(q) ==
  /\ q.pc = "idle" <=> q.thing = None
  /\ q.pc = "idle" => q = NoEdit
  /\ q.pc # "idle" => q.home \in built \cup {None} /\ devices[q.thing].status # "absent"
  /\ q.pc \in {"check", "find"} => q.patch = "home" /\ q.home # None /\ q.gateway = None
  /\ q.pc = "check" => q.thing \in Hub
  /\ q.pc = "find" => q.thing \in Node
  /\ q.pc = "delete" => q.patch = "none"
  /\ q.patch # "none" => RoomFits(q.thing, q.home, q.room)
  /\ q.patch = "home" => q.from # q.home
  /\ q.pc = "write" /\ q.patch = "home" /\ q.thing \in Node /\ q.home \notin wandered \cup {None}
       => q.gateway # None /\ devices[q.gateway].home = q.home

\* What it has read is still so if it has no rival.
ReadingHolds(q) ==
  q.pc \in {"check", "find", "write", "delete"} /\ q.thing \in Settled =>
    /\ InTable(q.thing) /\ devices[q.thing].home = q.from
    /\ q.patch = "room" => q.home = q.from
    /\ q.pc = "write" /\ q.patch = "home" /\ q.thing \in Hub /\ q.home # None => HubsIn(q.home) = {}

RequestFits == \A e \in Edit : RequestIsSound(edit[e]) /\ ReadingHolds(edit[e])

\* A home that has neither got, given nor lost a gateway has the one of its kit.
KitStays == \A h \in built \ wandered : \E g \in Hub : HubsIn(h) = {g}

\* Its nodes hang on that one, also those that requests have crossed on.
AllNodesFollow ==
  \A n \in Node :
    devices[n].home \notin wandered \cup {None} =>
      devices[n].gateway # None /\ devices[devices[n].gateway].home = devices[n].home

\* Clients know where a device is but for what is just to be announced.
AllTold ==
  \A t \in Settled, h \in Home :
    \/ t \in told[h] <=> devices[t].home = h
    \/ \E e \in EditsOf(t) : edit[e].pc = "announce" /\ h \in ToTell(edit[e])

InventoryInv ==
  /\ InventoryTypeOK /\ RowsFit /\ RivalsCross /\ RequestFits /\ KitStays /\ AllNodesFollow
  /\ AllTold /\ RoomsAgree /\ OneGatewayEach

-----------------------------------------------------------------------------
(***************************************************************************)
(* Types.                                                                  *)
(***************************************************************************)
EditRow == [pc : {"idle", "check", "find", "write", "delete", "announce"},
            thing : Thing \cup {None}, from : Home \cup {None},
            home : Home \cup {None}, room : Room \cup {None},
            gateway : Hub \cup {None}, patch : {"none", "room", "home"}]

LEMMA NoneIsNone == /\ None \notin Home /\ None \notin Room /\ None \notin Thing /\ Keep \notin Home
                    /\ Keep \notin Room /\ Node \cap Hub = {} /\ HomeOf \in [Room -> Home]
  BY InventoryAssumption DEF Thing

LEMMA NoRowFits == /\ NoRow \in DeviceRow /\ NoRow.home = None /\ NoRow.room = None
                   /\ NoRow.gateway = None /\ NoRow.status = "absent"
  BY DEF NoRow, DeviceRow

LEMMA NoEditFits == NoEdit \in EditRow /\ NoEdit.pc = "idle" /\ NoEdit.thing = None
                    /\ NoEdit.home = None /\ NoEdit.patch = "none"
  BY DEF NoEdit, EditRow

LEMMA TypesFold ==
  InventoryTypeOK <=> /\ built \subseteq Home /\ devices \in [Thing -> DeviceRow]
                      /\ edit \in [Edit -> EditRow] /\ told \in [Home -> SUBSET Thing]
                      /\ crossed \subseteq Thing /\ wandered \subseteq Home
  BY DEF InventoryTypeOK, EditRow

LEMMA KitHub ==
  ASSUME NEW h
  PROVE  [NoRow EXCEPT !.home = h, !.status = "active"]
           = [home |-> h, room |-> None, gateway |-> None, status |-> "active"]
<1> DEFINE one == [NoRow EXCEPT !.home = h]
<1>1. one = [home |-> h, room |-> None, gateway |-> None, status |-> "absent"]
  BY DEF NoRow
<1>2. [NoRow EXCEPT !.home = h, !.status = "active"] = [one EXCEPT !.status = "active"]
  BY Zenon
<1> HIDE DEF one
<1>3. [one EXCEPT !.status = "active"]
        = [home |-> h, room |-> None, gateway |-> None, status |-> "active"]
  BY <1>1
<1> QED BY <1>2, <1>3

\* The row that a kit gives a device.
LEMMA KitRows ==
  ASSUME NEW g \in Hub, NEW nodes \in SUBSET Node, NEW h \in Home,
         NEW place \in [nodes -> {r \in Room : HomeOf[r] = h}],
         devices \in [Thing -> DeviceRow]
  PROVE  LET placed == WithKit(h, g, nodes, place) IN
         /\ placed \in [Thing -> DeviceRow]
         /\ placed[g] = [home |-> h, room |-> None, gateway |-> None, status |-> "active"]
         /\ \A t \in nodes :
              /\ placed[t] = [home |-> h, room |-> place[t], gateway |-> g, status |-> "active"]
              /\ place[t] \in Room /\ HomeOf[place[t]] = h
         /\ \A t \in Thing \ (nodes \cup {g}) : placed[t] = devices[t]
<1> DEFINE hubRow == [NoRow EXCEPT !.home = h, !.status = "active"]
<1> DEFINE nodeRow(t) == [home |-> h, room |-> place[t], gateway |-> g, status |-> "active"]
<1> DEFINE row(t) == CASE t = g -> hubRow [] t \in nodes -> nodeRow(t) [] OTHER -> devices[t]
<1>0. /\ g \in Thing /\ g \notin nodes /\ \A t \in nodes : t \in Thing /\ t # g
      /\ \A t \in nodes : place[t] \in Room /\ HomeOf[place[t]] = h
  BY NoneIsNone DEF Thing
<1>1. hubRow = [home |-> h, room |-> None, gateway |-> None, status |-> "active"]
  BY KitHub
<1> DEFINE placed == WithKit(h, g, nodes, place)
<1>5. placed = [t \in Thing |-> row(t)]
  BY DEF WithKit
<1>6. hubRow \in DeviceRow /\ \A t \in nodes : nodeRow(t) \in DeviceRow
  BY <1>0, <1>1 DEF DeviceRow
<1> HIDE DEF hubRow, nodeRow
<1>2. row(g) = hubRow
  BY <1>0
<1>3. \A t \in nodes : row(t) = nodeRow(t)
  <2>1. ASSUME NEW t \in nodes, t # g PROVE row(t) = nodeRow(t)
    BY <2>1
  <2> QED BY <1>0, <2>1
<1>4. \A t \in Thing \ (nodes \cup {g}) : row(t) = devices[t]
  <2>1. ASSUME NEW t, t # g, t \notin nodes PROVE row(t) = devices[t]
    BY <2>1
  <2> QED BY <2>1
<1> HIDE DEF row
<1>8. \A t \in Thing : row(t) \in DeviceRow
  BY <1>2, <1>3, <1>4, <1>6
<1> HIDE DEF placed
<1>9. /\ placed[g] = hubRow /\ \A t \in nodes : placed[t] = nodeRow(t)
      /\ \A t \in Thing \ (nodes \cup {g}) : placed[t] = devices[t]
  BY <1>0, <1>2, <1>3, <1>4, <1>5
<1>10. placed \in [Thing -> DeviceRow]
  BY <1>5, <1>8
<1> USE DEF nodeRow
<1> SUFFICES /\ placed \in [Thing -> DeviceRow]
             /\ placed[g] = [home |-> h, room |-> None, gateway |-> None, status |-> "active"]
             /\ \A t \in nodes :
                  /\ placed[t] = [home |-> h, room |-> place[t], gateway |-> g, status |-> "active"]
                  /\ place[t] \in Room /\ HomeOf[place[t]] = h
             /\ \A t \in Thing \ (nodes \cup {g}) : placed[t] = devices[t]
  BY DEF placed
<1> QED BY <1>0, <1>1, <1>9, <1>10


-----------------------------------------------------------------------------
(***************************************************************************)
(* The steps of the inventory.                                             *)
(***************************************************************************)
LEMMA NoEditIsSound == RequestIsSound(NoEdit) /\ ReadingHolds(NoEdit)
  BY DEF RequestIsSound, ReadingHolds, NoEdit

LEMMA RequestsFit ==
  ASSUME \A e \in Edit : \A q : q = edit'[e] => RequestIsSound(q)' /\ ReadingHolds(q)'
  PROVE  RequestFits'
BY DEF RequestFits, RequestIsSound, ReadingHolds

\* A step that changes only whether one device is active.
LEMMA StatusStep ==
  ASSUME InventoryInv, NEW t \in Thing, NEW s \in {"inactive", "active"},
         devices' = [devices EXCEPT ![t].status = s],
         UNCHANGED <<built, edit, told, crossed, wandered>>
  PROVE  InventoryInv'
<1>0. built \subseteq Home /\ devices \in [Thing -> DeviceRow] /\ edit \in [Edit -> EditRow]
  BY TypesFold DEF InventoryInv
<1>1. \A u \in Thing :
        /\ devices'[u] \in DeviceRow /\ devices'[u].home = devices[u].home
        /\ devices'[u].room = devices[u].room /\ devices'[u].gateway = devices[u].gateway
        /\ InTable(u) => InTable(u)'
        /\ devices[u].status # "absent" => devices'[u].status # "absent"
  BY <1>0 DEF DeviceRow, InTable
<1>2. InventoryTypeOK'
  <2>1. devices' \in [Thing -> DeviceRow]
    BY <1>0, <1>1
  <2> QED BY <2>1 DEF InventoryInv, InventoryTypeOK
<1>3. RowsFit' /\ RoomsAgree' /\ OneGatewayEach' /\ RivalsCross'
  BY <1>1 DEF InventoryInv, RowsFit, RoomsAgree, OneGatewayEach, RivalsCross, Settled, Thing
<1>4. \A h : HubsIn(h)' = HubsIn(h)
  BY <1>1 DEF HubsIn, ThingsIn
<1>5. RequestFits'
  <2> SUFFICES ASSUME NEW e \in Edit, NEW q, q = edit[e]
               PROVE  RequestIsSound(q)' /\ ReadingHolds(q)'
    BY RequestsFit
  <2>1. /\ RequestIsSound(q) /\ ReadingHolds(q) /\ q \in EditRow
        /\ q.gateway \in Hub \cup {None} /\ q.thing \in Thing \cup {None}
    BY <1>0 DEF InventoryInv, RequestFits, EditRow
  <2>2. RequestIsSound(q)'
    BY <1>1, <2>1 DEF RequestIsSound, Thing
  <2>3. ReadingHolds(q)'
    BY <1>1, <1>4, <2>1 DEF ReadingHolds, Settled
  <2> QED BY <2>2, <2>3
<1>6. KitStays'
  BY <1>4 DEF InventoryInv, KitStays
<1>7. AllNodesFollow'
  BY <1>0, <1>1 DEF InventoryInv, AllNodesFollow, Thing, DeviceRow
<1>8. AllTold'
  BY <1>1 DEF InventoryInv, AllTold, Settled, EditsOf, ToTell
<1> QED BY <1>2, <1>3, <1>5, <1>6, <1>7, <1>8 DEF InventoryInv


\* A step that changes only a request that has nothing to announce yet: what
\* it is now is sound and holds, and those it gets in the way of are on record.
LEMMA RequestStep ==
  ASSUME InventoryInv, NEW e \in Edit, NEW q \in EditRow,
         edit[e].pc # "announce", edit' = [edit EXCEPT ![e] = q],
         UNCHANGED <<built, devices, told, wandered>>,
         crossed \subseteq crossed', crossed' \subseteq Thing,
         RequestIsSound(q), ReadingHolds(q),
         \A f \in Edit \ {e} : q.thing # None /\ edit[f].thing # None =>
           /\ q.thing = edit[f].thing => q.thing \in crossed'
           /\ q.thing \in Hub /\ edit[f].thing \in Hub => {q.thing, edit[f].thing} \subseteq crossed'
  PROVE  InventoryInv'
<1>0. edit \in [Edit -> EditRow]
  BY TypesFold DEF InventoryInv
<1>1. edit'[e] = q /\ \A f \in Edit \ {e} : edit'[f] = edit[f]
  BY <1>0
<1>2. InventoryTypeOK'
  <2>1. edit' \in [Edit -> EditRow]
    BY <1>0
  <2> QED BY <2>1 DEF InventoryInv, InventoryTypeOK, EditRow
<1>3. /\ RowsFit' /\ RoomsAgree' /\ OneGatewayEach' /\ KitStays' /\ AllNodesFollow'
      /\ \A h : HubsIn(h)' = HubsIn(h)
      /\ Settled' \subseteq Settled
  BY DEF InventoryInv, RowsFit, RoomsAgree, OneGatewayEach, KitStays, AllNodesFollow, HubsIn,
         ThingsIn, InTable, Settled
<1>4. RivalsCross'
  <2> SUFFICES ASSUME NEW f \in Edit, NEW k \in Edit, f # k,
                      edit'[f].thing # None, edit'[k].thing # None
               PROVE  /\ edit'[f].thing = edit'[k].thing => edit'[f].thing \in crossed'
                      /\ edit'[f].thing \in Hub /\ edit'[k].thing \in Hub
                           => edit'[f].thing \in crossed'
    BY DEF RivalsCross
  <2>1. CASE f = e
    BY <1>1, <2>1
  <2>2. CASE k = e
    BY <1>1, <2>2
  <2>3. CASE e \notin {f, k}
    BY <1>1, <2>3 DEF InventoryInv, RivalsCross
  <2> QED BY <2>1, <2>2, <2>3
<1>5. RequestFits'
  <2>1. \A f \in Edit : RequestIsSound(edit'[f]) /\ ReadingHolds(edit'[f])
    BY <1>1 DEF InventoryInv, RequestFits
  <2> SUFFICES ASSUME NEW f \in Edit, NEW r, r = edit'[f]
               PROVE  RequestIsSound(r)' /\ ReadingHolds(r)'
    BY RequestsFit
  <2>2. RequestIsSound(r) /\ ReadingHolds(r)
    BY <2>1
  <2> QED BY <1>3, <2>2 DEF RequestIsSound, ReadingHolds, InTable
<1>6. AllTold'
  <2> SUFFICES ASSUME NEW t \in Settled', NEW h \in Home, ~(t \in told'[h] <=> devices'[t].home = h)
               PROVE  \E f \in EditsOf(t)' : edit'[f].pc = "announce" /\ h \in ToTell(edit'[f])
    BY DEF AllTold, ToTell
  <2>1. PICK f \in EditsOf(t) : edit[f].pc = "announce" /\ h \in ToTell(edit[f])
    BY <1>3 DEF InventoryInv, AllTold
  <2> QED BY <1>1, <2>1 DEF EditsOf
<1> QED BY <1>2, <1>3, <1>4, <1>5, <1>6 DEF InventoryInv

\* A request that has read its device joins the others.
LEMMA BeginStep ==
  ASSUME InventoryInv, NEW e \in Edit, NEW q \in EditRow, q.thing \in Thing,
         BeginEdit(e, q), UNCHANGED <<built, devices, told, wandered>>,
         RequestIsSound(q), ReadingHolds(q)
  PROVE  InventoryInv'
<1>0. /\ edit \in [Edit -> EditRow] /\ crossed \subseteq Thing
      /\ \A f \in Edit : edit[f].thing \in Thing \cup {None}
  BY TypesFold DEF InventoryInv, EditRow
<1>1. edit[e].pc # "announce" /\ edit' = [edit EXCEPT ![e] = q] /\ crossed \subseteq crossed'
  BY NoEditFits DEF BeginEdit
<1>2. Rivals(q.thing) \subseteq Thing
  BY <1>0 DEF Rivals, EditsOf, Thing
<1>3. crossed' \subseteq Thing
  BY <1>0, <1>2 DEF BeginEdit
<1>4. ASSUME NEW f \in Edit \ {e}, edit[f].thing = q.thing
      PROVE  q.thing \in crossed'
  BY <1>4 DEF BeginEdit, Rivals, EditsOf
<1>5. ASSUME NEW f \in Edit \ {e}, q.thing \in Hub, edit[f].thing \in Hub
      PROVE  {q.thing, edit[f].thing} \subseteq crossed'
  BY <1>5 DEF BeginEdit, Rivals
<1> QED BY <1>1, <1>3, <1>4, <1>5, RequestStep


LEMMA AssignStep ==
  ASSUME InventoryInv, NEW e \in Edit, AssignDevice(e)
  PROVE  InventoryInv'
<1>1. PICK t \in Thing, toHome \in built \cup {None, Keep}, toRoom \in Room \cup {None, Keep} :
        LET changed == toHome # Keep /\ toHome # devices[t].home
            home == IF toHome = Keep THEN devices[t].home ELSE toHome
            room == IF toRoom # Keep THEN toRoom
                    ELSE IF changed THEN None ELSE devices[t].room
        IN /\ InTable(t) /\ RoomFits(t, home, room)
           /\ BeginEdit(e,
                [pc |-> IF ~changed \/ home = None THEN "write"
                        ELSE IF t \in Hub THEN "check" ELSE "find",
                 thing |-> t, from |-> devices[t].home, home |-> home, room |-> room,
                 gateway |-> None,
                 patch |-> IF changed THEN "home" ELSE IF toRoom # Keep THEN "room" ELSE "none"])
           /\ UNCHANGED <<built, devices, told, wandered>>
  BY DEF AssignDevice
<1> DEFINE changed == toHome # Keep /\ toHome # devices[t].home
           home == IF toHome = Keep THEN devices[t].home ELSE toHome
           room == IF toRoom # Keep THEN toRoom ELSE IF changed THEN None ELSE devices[t].room
           q == [pc |-> IF ~changed \/ home = None THEN "write"
                        ELSE IF t \in Hub THEN "check" ELSE "find",
                 thing |-> t, from |-> devices[t].home, home |-> home, room |-> room,
                 gateway |-> None,
                 patch |-> IF changed THEN "home" ELSE IF toRoom # Keep THEN "room" ELSE "none"]
<1>2. /\ InTable(t) /\ RoomFits(t, home, room) /\ BeginEdit(e, q)
      /\ UNCHANGED <<built, devices, told, wandered>>
  BY <1>1
<1>3. /\ built \subseteq Home /\ devices[t] \in DeviceRow /\ devices[t].home \in built \cup {None}
  BY TypesFold DEF InventoryInv, RowsFit
<1>4. /\ home \in built \cup {None} /\ home \in Home \cup {None} /\ room \in Room \cup {None}
      /\ changed <=> home # devices[t].home
      /\ None \notin Thing
  BY <1>3, NoneIsNone DEF DeviceRow
<1> HIDE DEF home, room, changed
<1>5. /\ q.thing = t /\ q.from = devices[t].home /\ q.home = home /\ q.room = room
      /\ q.gateway = None
      /\ changed => q.patch = "home"
      /\ ~changed => q.patch \in {"none", "room"} /\ q.pc = "write"
      /\ home = None => q.pc = "write"
      /\ changed /\ home # None => q.pc = IF t \in Hub THEN "check" ELSE "find"
      /\ q.pc \in {"write", "check", "find"}
  OBVIOUS
<1>6. q \in EditRow
  BY <1>3, <1>4 DEF EditRow, DeviceRow
<1> HIDE DEF q
<1>7. RequestIsSound(q)
  BY <1>2, <1>3, <1>4, <1>5, NoneIsNone DEF RequestIsSound, InTable, Thing
<1>8. ReadingHolds(q)
  BY <1>2, <1>4, <1>5 DEF ReadingHolds
<1>9. PICK r : r = q
  OBVIOUS
<1> QED BY <1>2, <1>5, <1>6, <1>7, <1>8, <1>9, BeginStep

LEMMA RemoveStep ==
  ASSUME InventoryInv, NEW e \in Edit, RemoveDevice(e)
  PROVE  InventoryInv'
<1>1. PICK t \in Thing :
        /\ InTable(t)
        /\ BeginEdit(e, [NoEdit EXCEPT !.pc = "delete", !.thing = t, !.from = devices[t].home])
        /\ UNCHANGED <<built, devices, told, wandered>>
  BY DEF RemoveDevice
<1>2. PICK q : q = [NoEdit EXCEPT !.pc = "delete", !.thing = t, !.from = devices[t].home]
  OBVIOUS
<1>3. devices[t] \in DeviceRow
  BY TypesFold DEF InventoryInv
<1>4. q = [pc |-> "delete", thing |-> t, from |-> devices[t].home, home |-> None,
           room |-> None, gateway |-> None, patch |-> "none"]
  <2> DEFINE one == [NoEdit EXCEPT !.pc = "delete"]
             two == [one EXCEPT !.thing = t]
  <2>1. q = [two EXCEPT !.from = devices[t].home]
    BY <1>2, Zenon
  <2>2. one = [pc |-> "delete", thing |-> None, from |-> None, home |-> None,
               room |-> None, gateway |-> None, patch |-> "none"]
    BY DEF NoEdit
  <2> HIDE DEF one
  <2>3. two = [pc |-> "delete", thing |-> t, from |-> None, home |-> None,
               room |-> None, gateway |-> None, patch |-> "none"]
    BY <2>2
  <2> HIDE DEF two
  <2> QED BY <2>1, <2>3
<1>5. q \in EditRow
  BY <1>3, <1>4 DEF EditRow, DeviceRow
<1>6. RequestIsSound(q) /\ ReadingHolds(q)
  BY <1>1, <1>4, NoneIsNone DEF RequestIsSound, ReadingHolds, InTable
<1> QED BY <1>1, <1>2, <1>4, <1>5, <1>6, BeginStep

LEMMA CheckStep ==
  ASSUME InventoryInv, NEW e \in Edit, CheckGateway(e)
  PROVE  InventoryInv'
<1>0. edit \in [Edit -> EditRow]
  BY TypesFold DEF InventoryInv
<1>1. PICK q \in EditRow, existing \in FindHomeGatewayId(edit[e].home) :
        /\ q = edit[e] /\ q.pc = "check" /\ RequestIsSound(q) /\ ReadingHolds(q)
        /\ edit' = [edit EXCEPT ![e] = IF HomeIsFree(q.thing, existing)
                                       THEN [q EXCEPT !.pc = "write"] ELSE NoEdit]
        /\ UNCHANGED <<built, devices, told, crossed, wandered>>
  BY <1>0 DEF CheckGateway, InventoryInv, RequestFits
<1>2. \A f \in Edit \ {e} : q.thing # None /\ edit[f].thing # None =>
        /\ q.thing = edit[f].thing => q.thing \in crossed'
        /\ q.thing \in Hub /\ edit[f].thing \in Hub => {q.thing, edit[f].thing} \subseteq crossed'
  BY <1>1 DEF InventoryInv, RivalsCross
<1>3. /\ edit[e].pc # "announce" /\ crossed \subseteq crossed' /\ crossed' \subseteq Thing
      /\ UNCHANGED <<built, devices, told, wandered>>
  BY <1>1 DEF InventoryInv, InventoryTypeOK
<1>4. CASE ~HomeIsFree(q.thing, existing)
  <2>1. edit' = [edit EXCEPT ![e] = NoEdit]
    BY <1>1, <1>4
  <2> QED BY <1>3, <2>1, NoEditFits, NoEditIsSound, RequestStep
<1>5. CASE HomeIsFree(q.thing, existing)
  <2>1. PICK r : r = [q EXCEPT !.pc = "write"]
    OBVIOUS
  <2>2. /\ r \in EditRow /\ r.pc = "write" /\ r.thing = q.thing /\ r.from = q.from
        /\ r.home = q.home /\ r.room = q.room /\ r.gateway = q.gateway /\ r.patch = q.patch
    BY <2>1, <1>1 DEF EditRow
  <2>3. edit' = [edit EXCEPT ![e] = r]
    BY <1>1, <1>5, <2>1
  <2>4. RequestIsSound(r)
    BY <1>1, <2>2, NoneIsNone DEF RequestIsSound
  <2>5. ReadingHolds(r)
    <3>1. CASE q.thing \in Settled
      <4>1. devices[q.thing].home # q.home
        BY <1>1, <3>1 DEF ReadingHolds, RequestIsSound
      <4>2. existing # q.thing
        BY <1>1, <4>1, NoneIsNone DEF FindHomeGatewayId, ThingsIn, RequestIsSound, Thing
      <4>3. HubsIn(q.home) = {}
        BY <1>1, <1>5, <4>2, NoneIsNone DEF FindHomeGatewayId, HubsIn, HomeIsFree, Thing
      <4> QED BY <1>1, <2>2, <3>1, <4>3 DEF ReadingHolds
    <3>2. CASE q.thing \notin Settled
      BY <2>2, <3>2 DEF ReadingHolds
    <3> QED BY <3>1, <3>2
  <2>6. \A f \in Edit \ {e} : r.thing # None /\ edit[f].thing # None =>
          /\ r.thing = edit[f].thing => r.thing \in crossed'
          /\ r.thing \in Hub /\ edit[f].thing \in Hub => {r.thing, edit[f].thing} \subseteq crossed'
    BY <1>2, <2>2
  <2> QED BY <1>3, <2>2, <2>3, <2>4, <2>5, <2>6, RequestStep
<1> QED BY <1>4, <1>5

LEMMA FindStep ==
  ASSUME InventoryInv, NEW e \in Edit, FindGateway(e)
  PROVE  InventoryInv'
<1>0. edit \in [Edit -> EditRow]
  BY TypesFold DEF InventoryInv
<1>1. PICK q \in EditRow, g \in FindHomeGatewayId(edit[e].home) :
        /\ q = edit[e] /\ q.pc = "find" /\ RequestIsSound(q) /\ ReadingHolds(q)
        /\ edit' = [edit EXCEPT ![e].gateway = g, ![e].pc = "write"]
        /\ UNCHANGED <<built, devices, told, crossed, wandered>>
  BY <1>0 DEF FindGateway, InventoryInv, RequestFits
<1>2. \A f \in Edit \ {e} : q.thing # None /\ edit[f].thing # None =>
        /\ q.thing = edit[f].thing => q.thing \in crossed'
        /\ q.thing \in Hub /\ edit[f].thing \in Hub => {q.thing, edit[f].thing} \subseteq crossed'
  BY <1>1 DEF InventoryInv, RivalsCross
<1>3. /\ edit[e].pc # "announce" /\ crossed \subseteq crossed' /\ crossed' \subseteq Thing
      /\ UNCHANGED <<built, devices, told, wandered>>
  BY <1>1 DEF InventoryInv, InventoryTypeOK
<1>4. g \in Hub \cup {None}
  BY DEF FindHomeGatewayId, ThingsIn
<1>5. PICK r : r = [q EXCEPT !.gateway = g, !.pc = "write"]
  OBVIOUS
<1>6. /\ r \in EditRow /\ r.pc = "write" /\ r.thing = q.thing /\ r.from = q.from
      /\ r.home = q.home /\ r.room = q.room /\ r.gateway = g /\ r.patch = q.patch
  BY <1>5, <1>1, <1>4 DEF EditRow
<1>7. edit' = [edit EXCEPT ![e] = r]
  BY <1>0, <1>1, <1>5
<1>8. RequestIsSound(r)
  <2>1. ASSUME q.home \notin wandered \cup {None}
        PROVE  g # None /\ devices[g].home = q.home
    <3>1. PICK k \in Hub : HubsIn(q.home) = {k}
      BY <1>1, <2>1 DEF InventoryInv, KitStays, RequestIsSound
    <3>2. g = k
      BY <1>1, <3>1 DEF FindHomeGatewayId, HubsIn
    <3> QED BY <3>1, <3>2, NoneIsNone DEF HubsIn, ThingsIn, Thing
  <2> QED BY <1>1, <1>6, <2>1, NoneIsNone DEF RequestIsSound
<1>9. ReadingHolds(r)
  BY <1>1, <1>6, NoneIsNone DEF ReadingHolds, RequestIsSound
<1>10. \A f \in Edit \ {e} : r.thing # None /\ edit[f].thing # None =>
        /\ r.thing = edit[f].thing => r.thing \in crossed'
        /\ r.thing \in Hub /\ edit[f].thing \in Hub => {r.thing, edit[f].thing} \subseteq crossed'
  BY <1>2, <1>6
<1> QED BY <1>3, <1>6, <1>7, <1>8, <1>9, <1>10, RequestStep


LEMMA AnnounceStep ==
  ASSUME InventoryInv, NEW e \in Edit, AnnounceHomes(e)
  PROVE  InventoryInv'
<1>0. /\ edit \in [Edit -> EditRow] /\ told \in [Home -> SUBSET Thing]
      /\ devices \in [Thing -> DeviceRow]
  BY TypesFold DEF InventoryInv
<1>1. /\ edit'[e] = NoEdit /\ \A f \in Edit \ {e} : edit'[f] = edit[f]
      /\ told' = [h \in Home |-> IF h \in ToTell(edit[e]) THEN ThingsIn(h) ELSE told[h]]
      /\ UNCHANGED <<built, devices, crossed, wandered>>
  BY <1>0 DEF AnnounceHomes
<1>2. InventoryTypeOK'
  <2>1. edit' \in [Edit -> EditRow]
    BY <1>0, NoEditFits DEF AnnounceHomes
  <2>2. told' \in [Home -> SUBSET Thing]
    BY <1>0, <1>1 DEF ThingsIn
  <2> QED BY <1>1, <2>1, <2>2 DEF InventoryInv, InventoryTypeOK, EditRow
<1>3. /\ RowsFit' /\ RoomsAgree' /\ OneGatewayEach' /\ KitStays' /\ AllNodesFollow'
      /\ \A h : HubsIn(h)' = HubsIn(h)
      /\ Settled' = Settled
  BY <1>1 DEF InventoryInv, RowsFit, RoomsAgree, OneGatewayEach, KitStays, AllNodesFollow,
     HubsIn, ThingsIn, InTable, Settled
<1>4. RivalsCross'
  BY <1>1, NoEditFits DEF InventoryInv, RivalsCross
<1>5. RequestFits'
  <2> SUFFICES ASSUME NEW f \in Edit, NEW r, r = edit'[f]
               PROVE  RequestIsSound(r)' /\ ReadingHolds(r)'
    BY RequestsFit
  <2>1. RequestIsSound(r) /\ ReadingHolds(r)
    BY <1>1, NoEditIsSound DEF InventoryInv, RequestFits
  <2> QED BY <1>1, <1>3, <2>1 DEF RequestIsSound, ReadingHolds, InTable
<1>6. AllTold'
  <2> SUFFICES ASSUME NEW t \in Settled, NEW h \in Home, ~(t \in told'[h] <=> devices[t].home = h)
               PROVE  \E f \in EditsOf(t)' : edit'[f].pc = "announce" /\ h \in ToTell(edit'[f])
    BY <1>1, <1>3 DEF AllTold, ToTell
  <2>1. h \notin ToTell(edit[e])
    BY <1>1 DEF ThingsIn, Settled
  <2>2. PICK f \in EditsOf(t) : edit[f].pc = "announce" /\ h \in ToTell(edit[f])
    BY <1>1, <2>1 DEF InventoryInv, AllTold
  <2> QED BY <1>1, <2>1, <2>2 DEF EditsOf
<1> QED BY <1>2, <1>3, <1>4, <1>5, <1>6 DEF InventoryInv

LEMMA RestartStep ==
  ASSUME InventoryInv, ConsoleRestart
  PROVE  InventoryInv'
<1>1. /\ \A e \in Edit : edit'[e] = NoEdit
      /\ \A h \in Home : told'[h] = ThingsIn(h)
      /\ UNCHANGED <<built, devices, crossed, wandered>>
  BY DEF ConsoleRestart
<1>2. InventoryTypeOK'
  <2>1. edit' \in [Edit -> EditRow] /\ told' \in [Home -> SUBSET Thing]
    BY NoEditFits DEF ConsoleRestart, ThingsIn
  <2> QED BY <1>1, <2>1 DEF InventoryInv, InventoryTypeOK, EditRow
<1>3. RowsFit' /\ RoomsAgree' /\ OneGatewayEach' /\ KitStays' /\ AllNodesFollow'
  BY <1>1 DEF InventoryInv, RowsFit, RoomsAgree, OneGatewayEach, KitStays, AllNodesFollow,
     HubsIn, ThingsIn, InTable, Settled
<1>4. RivalsCross'
  BY <1>1, NoEditFits DEF RivalsCross
<1>5. RequestFits'
  <2> SUFFICES ASSUME NEW r, r = NoEdit PROVE RequestIsSound(r)' /\ ReadingHolds(r)'
    BY <1>1, RequestsFit
  <2> QED BY NoEditFits DEF RequestIsSound, ReadingHolds, NoEdit
<1>6. AllTold'
  BY <1>1 DEF AllTold, ThingsIn, Settled
<1> QED BY <1>2, <1>3, <1>4, <1>5, <1>6 DEF InventoryInv


LEMMA PatchedFits ==
  ASSUME NEW row \in DeviceRow, NEW q \in EditRow
  PROVE  /\ Patched(row, q) \in DeviceRow /\ Patched(row, q).status = row.status
         /\ Patched(row, q).home = IF q.patch = "home" THEN q.home ELSE row.home
         /\ Patched(row, q).room = IF q.patch = "none" THEN row.room ELSE q.room
         /\ Patched(row, q).gateway = IF q.patch = "home" THEN q.gateway ELSE row.gateway
<1> DEFINE a == [row EXCEPT !.home = q.home]
           b == [a EXCEPT !.room = q.room]
           c == [b EXCEPT !.gateway = q.gateway]
           d == [row EXCEPT !.room = q.room]
<1>1. /\ a \in DeviceRow /\ a.home = q.home /\ a.status = row.status
      /\ q.room \in Room \cup {None} /\ q.gateway \in Hub \cup {None}
  BY DEF DeviceRow, EditRow
<1>2. d \in DeviceRow /\ d.room = q.room /\ d.status = row.status /\ d.home = row.home
      /\ d.gateway = row.gateway
  BY DEF DeviceRow, EditRow
<1>3. CASE q.patch = "home"
  <2>1. Patched(row, q) = c
    BY <1>3, Zenon DEF Patched
  <2> HIDE DEF a
  <2>2. b \in DeviceRow /\ b.home = q.home /\ b.room = q.room /\ b.status = row.status
    BY <1>1 DEF DeviceRow
  <2> HIDE DEF b
  <2>3. c \in DeviceRow /\ c.home = q.home /\ c.room = q.room /\ c.status = row.status
        /\ c.gateway = q.gateway
    BY <1>1, <2>2 DEF DeviceRow
  <2> HIDE DEF c
  <2> QED BY <1>3, <2>1, <2>3
<1>4. CASE q.patch = "room"
  <2>1. Patched(row, q) = d
    BY <1>4, Zenon DEF Patched
  <2> HIDE DEF d
  <2> QED BY <1>2, <1>4, <2>1
<1>5. CASE q.patch = "none"
  <2>1. Patched(row, q) = row
    BY <1>5, Zenon DEF Patched
  <2> QED BY <1>5, <2>1
<1> QED BY <1>3, <1>4, <1>5 DEF EditRow

\* The UPDATE goes through: what it has written is what it was to write, and a
\* gateway it moved takes the history of both homes along.
LEMMA UpdateStep ==
  ASSUME InventoryInv, NEW e \in Edit, NEW q \in EditRow, q = edit[e], q.pc = "write",
         InTable(q.thing), q.thing \in Thing,
         edit' = [edit EXCEPT ![e].pc = "announce"],
         devices' = [devices EXCEPT ![q.thing] = Patched(devices[q.thing], q)],
         Leaves(q.thing, {devices[q.thing].home, devices'[q.thing].home}),
         UNCHANGED <<built, told, crossed>>
  PROVE  InventoryInv'
<1> DEFINE t == q.thing
<1>0. /\ edit \in [Edit -> EditRow] /\ devices \in [Thing -> DeviceRow] /\ built \subseteq Home
      /\ wandered \subseteq Home /\ None \notin Home
      /\ RequestIsSound(q) /\ ReadingHolds(q)
  BY TypesFold, NoneIsNone DEF InventoryInv, RequestFits
<1>1. PICK row \in DeviceRow :
        /\ devices'[t] = row /\ row.status = devices[t].status
        /\ row.home = IF q.patch = "home" THEN q.home ELSE devices[t].home
        /\ row.room = IF q.patch = "none" THEN devices[t].room ELSE q.room
        /\ row.gateway = IF q.patch = "home" THEN q.gateway ELSE devices[t].gateway
  BY <1>0, PatchedFits
<1>2. \A u \in Thing \ {t} : devices'[u] = devices[u]
  BY <1>0
<1>3. PICK r : r = [q EXCEPT !.pc = "announce"]
  OBVIOUS
<1>4. /\ r \in EditRow /\ r.pc = "announce" /\ r.thing = t /\ r.from = q.from
      /\ r.home = q.home /\ r.room = q.room /\ r.patch = q.patch
      /\ edit'[e] = r /\ \A f \in Edit \ {e} : edit'[f] = edit[f]
  <2>1. edit'[e] = r /\ \A f \in Edit \ {e} : edit'[f] = edit[f]
    BY <1>0, <1>3
  <2> QED BY <1>3, <2>1 DEF EditRow
<1>5. /\ wandered \subseteq wandered' /\ wandered' \subseteq Home
      /\ t \in Hub => {devices[t].home, row.home} \ {None} \subseteq wandered'
      /\ t \notin Hub => wandered' = wandered
  BY <1>0, <1>1 DEF Leaves, DeviceRow
<1>6. ASSUME NEW f \in Edit \ {e}, edit[f].thing \in Settled
      PROVE  edit[f].thing # t /\ (edit[f].thing \in Hub => t \notin Hub)
  BY <1>6, NoneIsNone DEF InventoryInv, RivalsCross, Settled
<1>7. \A u \in Thing : devices'[u].status = devices[u].status /\ (InTable(u)' <=> InTable(u))
  BY <1>1, <1>2 DEF InTable
<1> HIDE DEF t
<1>8. InventoryTypeOK'
  <2>1. edit' \in [Edit -> EditRow]
    BY <1>0, <1>4
  <2>2. devices' \in [Thing -> DeviceRow]
    BY <1>0, <1>1, <1>2
  <2> QED BY <1>5, <2>1, <2>2 DEF InventoryInv, InventoryTypeOK, EditRow
<1>9. RowsFit'
  <2>1. InTable(t)
    BY DEF t
  <2>2. row.home \in built \cup {None}
    BY <1>0, <1>1 DEF InventoryInv, RowsFit, RequestIsSound, t
  <2> QED BY <1>1, <1>2, <1>7, <2>1, <2>2 DEF InventoryInv, RowsFit
<1>10. RivalsCross'
  <2>1. \A f \in Edit : edit'[f].thing = edit[f].thing
    BY <1>4 DEF t
  <2> QED BY <2>1 DEF InventoryInv, RivalsCross
<1>11. t \notin Hub => \A h \in Home : HubsIn(h)' = HubsIn(h)
  BY <1>2 DEF HubsIn, ThingsIn
<1>12. \A h \in Home : h \notin wandered' => HubsIn(h)' = HubsIn(h)
  <2>1. CASE t \in Hub
    BY <1>0, <1>1, <1>2, <1>5, <2>1 DEF HubsIn, ThingsIn, DeviceRow
  <2> QED BY <1>11, <2>1
<1>13. RequestFits'
  <2> SUFFICES ASSUME NEW f \in Edit, NEW p, p = edit'[f]
               PROVE  RequestIsSound(p)' /\ ReadingHolds(p)'
    BY RequestsFit
  <2>1. CASE f = e
    <3>1. p = r
      BY <1>4, <2>1
    <3> QED BY <1>0, <1>1, <1>2, <1>4, <1>7, <3>1 DEF RequestIsSound, ReadingHolds, t
  <2>2. CASE f # e
    <3>1. /\ p = edit[f] /\ RequestIsSound(p) /\ ReadingHolds(p) /\ p \in EditRow
          /\ p.thing \in Thing \cup {None} /\ p.gateway \in Hub \cup {None}
          /\ p.home \in Home \cup {None}
      BY <1>0, <1>4, <2>2 DEF InventoryInv, RequestFits, EditRow
    <3>2. ASSUME p.home \notin wandered' \cup {None}, p.gateway # None, devices[p.gateway].home = p.home
          PROVE  devices'[p.gateway].home = p.home
      BY <1>2, <1>5, <3>1, <3>2 DEF Thing
    <3>3. RequestIsSound(p)'
      BY <1>5, <1>7, <3>1, <3>2 DEF RequestIsSound
    <3>4. ReadingHolds(p)'
      BY <1>2, <1>6, <1>7, <1>11, <2>2, <3>1 DEF ReadingHolds, Settled
    <3> QED BY <3>3, <3>4
  <2> QED BY <2>1, <2>2
<1>14. KitStays'
  BY <1>0, <1>5, <1>12 DEF InventoryInv, KitStays
<1>15. AllNodesFollow'
  <2> SUFFICES ASSUME NEW n \in Node, devices'[n].home \notin wandered' \cup {None}
               PROVE  /\ devices'[n].gateway # None
                      /\ devices'[devices'[n].gateway].home = devices'[n].home
    BY DEF AllNodesFollow
  <2>1. devices'[n].gateway # None /\ devices[devices'[n].gateway].home = devices'[n].home
    <3>1. CASE n = t /\ q.patch = "home"
      BY <1>0, <1>1, <1>5, <3>1, NoneIsNone DEF RequestIsSound, t
    <3>2. CASE n = t /\ q.patch # "home"
      BY <1>0, <1>1, <1>5, <3>2 DEF InventoryInv, AllNodesFollow
    <3>3. CASE n # t
      BY <1>2, <1>5, <3>3 DEF InventoryInv, AllNodesFollow, Thing
    <3> QED BY <3>1, <3>2, <3>3
  <2>2. devices'[n].gateway \in Hub
    BY <1>0, <1>1, <1>2, <2>1 DEF Thing, DeviceRow
  <2> QED BY <1>2, <1>5, <2>1, <2>2 DEF Thing
<1>16. AllTold'
  <2> SUFFICES ASSUME NEW u \in Settled, NEW h \in Home, ~(u \in told[h] <=> devices'[u].home = h)
               PROVE  \E f \in Edit : /\ edit'[f].thing = u /\ edit'[f].pc = "announce"
                                      /\ h \in {edit'[f].from, edit'[f].home}
    BY DEF AllTold, ToTell, EditsOf, Settled
  <2>1. CASE u \in told[h] <=> devices[u].home = h
    <3>1. u = t /\ devices[t].home # row.home /\ h \in {devices[t].home, row.home}
      BY <1>1, <1>2, <2>1 DEF Settled
    <3>2. h \in {r.from, r.home}
      BY <1>0, <1>1, <1>4, <3>1 DEF ReadingHolds, t
    <3> QED BY <1>4, <3>1, <3>2
  <2>2. CASE ~(u \in told[h] <=> devices[u].home = h)
    <3>1. PICK f \in EditsOf(u) : edit[f].pc = "announce" /\ h \in ToTell(edit[f])
      BY <2>2 DEF InventoryInv, AllTold
    <3> QED BY <1>4, <3>1 DEF EditsOf, ToTell
  <2> QED BY <2>1, <2>2
<1>17. RoomsAgree'
  <2>1. CASE t \in Settled
    <3>1. ASSUME row.room # None PROVE t \in Node /\ HomeOf[row.room] = row.home
      <4>1. CASE q.patch = "none"
        BY <1>1, <2>1, <3>1, <4>1 DEF InventoryInv, RoomsAgree
      <4>2. CASE q.patch # "none"
        BY <1>0, <1>1, <2>1, <3>1, <4>2 DEF RequestIsSound, ReadingHolds, RoomFits, Settled,
           Thing, t, EditRow
      <4> QED BY <4>1, <4>2
    <3> QED BY <1>1, <1>2, <3>1 DEF InventoryInv, RoomsAgree, Settled
  <2>2. CASE t \notin Settled
    BY <1>2, <2>2 DEF InventoryInv, RoomsAgree, Settled
  <2> QED BY <2>1, <2>2
<1>18. OneGatewayEach'
  <2>1. ASSUME t \in Settled \cap Hub, NEW k \in Settled \cap Hub, k # t, row.home # None,
               row.home = devices[k].home
        PROVE  FALSE
    <3>1. CASE q.patch = "home"
      BY <1>0, <1>1, <2>1, <3>1 DEF ReadingHolds, HubsIn, ThingsIn, Settled, t
    <3>2. CASE q.patch # "home"
      BY <1>1, <2>1, <3>2 DEF InventoryInv, OneGatewayEach
    <3> QED BY <3>1, <3>2
  <2> QED BY <1>1, <1>2, <2>1 DEF InventoryInv, OneGatewayEach, Settled
<1> QED BY <1>8, <1>9, <1>10, <1>13, <1>14, <1>15, <1>16, <1>17, <1>18 DEF InventoryInv


LEMMA WriteStep ==
  ASSUME InventoryInv, NEW e \in Edit, WriteRow(e)
  PROVE  InventoryInv'
<1>0. /\ edit \in [Edit -> EditRow] /\ devices \in [Thing -> DeviceRow] /\ None \notin Thing
      /\ crossed \subseteq Thing
  BY TypesFold, NoneIsNone DEF InventoryInv
<1>1. PICK q \in EditRow : q = edit[e] /\ q.pc = "write" /\ RequestIsSound(q) /\ ReadingHolds(q)
  BY <1>0 DEF WriteRow, InventoryInv, RequestFits
<1>2. q.thing \in Thing
  BY <1>1 DEF RequestIsSound, EditRow
<1>3. UNCHANGED <<built, told, crossed>>
  BY DEF WriteRow
<1>4. CASE InTable(q.thing) /\ q.gateway # None /\ ~InTable(q.gateway)
  <2>1. edit' = [edit EXCEPT ![e] = NoEdit] /\ UNCHANGED <<devices, wandered>>
    BY <1>1, <1>4 DEF WriteRow
  <2>2. edit[e].pc # "announce" /\ crossed \subseteq crossed' /\ crossed' \subseteq Thing
    BY <1>0, <1>1, <1>3
  <2> QED BY <1>3, <2>1, <2>2, NoEditFits, NoEditIsSound, RequestStep
<1>5. CASE ~(InTable(q.thing) /\ q.gateway # None /\ ~InTable(q.gateway))
  <2>1. /\ edit' = [edit EXCEPT ![e].pc = "announce"]
        /\ devices' = [devices EXCEPT
             ![q.thing] = IF InTable(q.thing) THEN Patched(devices[q.thing], q) ELSE devices[q.thing]]
        /\ Leaves(q.thing, {devices[q.thing].home, devices'[q.thing].home})
    BY <1>1, <1>5 DEF WriteRow
  <2>2. CASE InTable(q.thing)
    <3>1. devices' = [devices EXCEPT ![q.thing] = Patched(devices[q.thing], q)]
      BY <2>1, <2>2
    <3> QED BY <1>1, <1>2, <1>3, <2>1, <2>2, <3>1, UpdateStep
  <2>3. CASE ~InTable(q.thing)
    <3>1. devices' = devices /\ devices[q.thing].home = None
      BY <1>0, <1>2, <2>1, <2>3 DEF InventoryInv, RowsFit
    <3>2. wandered' = wandered
      BY <2>1, <3>1 DEF Leaves
    <3>3. PICK r : r = [q EXCEPT !.pc = "announce"]
      OBVIOUS
    <3>4. /\ r \in EditRow /\ r.pc = "announce" /\ r.thing = q.thing /\ r.from = q.from
          /\ r.home = q.home /\ r.room = q.room /\ r.patch = q.patch
      BY <3>3 DEF EditRow
    <3>5. edit' = [edit EXCEPT ![e] = r]
      BY <1>0, <1>1, <2>1, <3>3
    <3>6. RequestIsSound(r) /\ ReadingHolds(r)
      BY <1>1, <3>4 DEF RequestIsSound, ReadingHolds
    <3>7. \A f \in Edit \ {e} : r.thing # None /\ edit[f].thing # None =>
            /\ r.thing = edit[f].thing => r.thing \in crossed'
            /\ r.thing \in Hub /\ edit[f].thing \in Hub => {r.thing, edit[f].thing} \subseteq crossed'
      BY <1>1, <1>3, <3>4 DEF InventoryInv, RivalsCross
    <3>8. edit[e].pc # "announce" /\ crossed \subseteq crossed' /\ crossed' \subseteq Thing
      BY <1>0, <1>1, <1>3
    <3> QED BY <1>3, <3>1, <3>2, <3>4, <3>5, <3>6, <3>7, <3>8, RequestStep
  <2> QED BY <2>2, <2>3
<1> QED BY <1>4, <1>5

LEMMA DeleteStep ==
  ASSUME InventoryInv, NEW e \in Edit, DeleteDeviceRow(e)
  PROVE  InventoryInv'
<1>0. /\ edit \in [Edit -> EditRow] /\ devices \in [Thing -> DeviceRow] /\ None \notin Thing
      /\ wandered \subseteq Home /\ None \notin Home /\ built \subseteq Home
  BY TypesFold, NoneIsNone DEF InventoryInv
<1>1. PICK q \in EditRow : q = edit[e] /\ q.pc = "delete" /\ RequestIsSound(q) /\ ReadingHolds(q)
  BY <1>0 DEF DeleteDeviceRow, InventoryInv, RequestFits
<1> DEFINE t == q.thing
<1>2. t \in Thing
  BY <1>1 DEF RequestIsSound, EditRow
<1>3. /\ UNCHANGED <<built, told, crossed>> /\ edit' = [edit EXCEPT ![e].pc = "announce"]
      /\ devices' = [s \in Thing |->
           IF s = t THEN [NoRow EXCEPT !.status = "deleted"]
           ELSE [devices[s] EXCEPT !.gateway = IF devices[s].gateway = t THEN None
                                               ELSE devices[s].gateway]]
      /\ Leaves(t, {devices[t].home})
  BY <1>1 DEF DeleteDeviceRow
<1>4. PICK r : r = [q EXCEPT !.pc = "announce"]
  OBVIOUS
<1>5. /\ r \in EditRow /\ r.pc = "announce" /\ r.thing = t /\ r.from = q.from
      /\ r.home = q.home /\ r.room = q.room /\ r.patch = q.patch
      /\ edit'[e] = r /\ \A f \in Edit \ {e} : edit'[f] = edit[f]
  <2>1. edit'[e] = r /\ \A f \in Edit \ {e} : edit'[f] = edit[f]
    BY <1>0, <1>1, <1>3, <1>4
  <2> QED BY <1>4, <2>1 DEF EditRow
<1>6. /\ devices'[t] \in DeviceRow /\ devices'[t].home = None /\ devices'[t].room = None
      /\ devices'[t].gateway = None /\ devices'[t].status = "deleted"
  <2>1. devices'[t] = [NoRow EXCEPT !.status = "deleted"]
    BY <1>2, <1>3
  <2> QED BY <2>1 DEF NoRow, DeviceRow
<1>7. ASSUME NEW s \in Thing \ {t}
      PROVE  /\ devices'[s] \in DeviceRow /\ devices'[s].home = devices[s].home
             /\ devices'[s].room = devices[s].room /\ devices'[s].status = devices[s].status
             /\ devices'[s].gateway = IF devices[s].gateway = t THEN None ELSE devices[s].gateway
  <2>1. devices'[s] = [devices[s] EXCEPT !.gateway = IF devices[s].gateway = t THEN None
                                                     ELSE devices[s].gateway]
    BY <1>3
  <2>2. devices[s] \in DeviceRow
    BY <1>0
  <2> QED BY <2>1, <2>2 DEF DeviceRow
<1>8. /\ wandered \subseteq wandered' /\ wandered' \subseteq Home
      /\ t \in Hub => {devices[t].home} \ {None} \subseteq wandered'
  BY <1>0, <1>2, <1>3 DEF Leaves, DeviceRow
<1>9. ASSUME NEW f \in Edit \ {e}, edit[f].thing \in Settled
      PROVE  edit[f].thing # t
  BY <1>1, <1>2, <1>9, NoneIsNone DEF InventoryInv, RivalsCross, Settled
<1> HIDE DEF t
<1>10. InventoryTypeOK'
  <2>1. edit' \in [Edit -> EditRow]
    BY <1>0, <1>3, <1>5
  <2>2. devices' \in [Thing -> DeviceRow]
    BY <1>3, <1>6, <1>7
  <2> QED BY <1>3, <1>8, <2>1, <2>2 DEF InventoryInv, InventoryTypeOK, EditRow
<1>11. RowsFit'
  BY <1>3, <1>6, <1>7 DEF InventoryInv, RowsFit, InTable
<1>12. RivalsCross'
  <2>1. \A f \in Edit : edit'[f].thing = edit[f].thing
    BY <1>1, <1>5 DEF t
  <2> QED BY <1>3, <2>1 DEF InventoryInv, RivalsCross
<1>13. \A h \in Home : /\ HubsIn(h)' \subseteq HubsIn(h)
                       /\ h \notin wandered' => HubsIn(h)' = HubsIn(h)
  BY <1>0, <1>6, <1>7, <1>8 DEF HubsIn, ThingsIn
<1>14. RequestFits'
  <2> SUFFICES ASSUME NEW f \in Edit, NEW p, p = edit'[f]
               PROVE  RequestIsSound(p)' /\ ReadingHolds(p)'
    BY RequestsFit
  <2>1. CASE f = e
    <3>1. p = r
      BY <1>5, <2>1
    <3> QED BY <1>0, <1>1, <1>3, <1>5, <1>6, <3>1 DEF RequestIsSound, ReadingHolds, t
  <2>2. CASE f # e
    <3>1. /\ p = edit[f] /\ RequestIsSound(p) /\ ReadingHolds(p) /\ p \in EditRow
          /\ p.thing \in Thing \cup {None} /\ p.gateway \in Hub \cup {None}
          /\ p.home \in Home \cup {None}
      BY <1>0, <1>5, <2>2 DEF InventoryInv, RequestFits, EditRow
    <3>2. ASSUME p.home \notin wandered' \cup {None}, p.gateway # None, devices[p.gateway].home = p.home
          PROVE  devices'[p.gateway].home = p.home
      BY <1>7, <1>8, <3>1, <3>2 DEF Thing
    <3>3. p.thing # None => devices'[p.thing].status = devices[p.thing].status \/ p.thing = t
      BY <1>7, <3>1
    <3>4. RequestIsSound(p)'
      BY <1>3, <1>6, <1>8, <3>1, <3>2, <3>3 DEF RequestIsSound
    <3>5. ReadingHolds(p)'
      BY <1>0, <1>3, <1>7, <1>9, <1>13, <2>2, <3>1 DEF ReadingHolds, Settled, InTable
    <3> QED BY <3>4, <3>5
  <2> QED BY <2>1, <2>2
<1>15. KitStays'
  BY <1>0, <1>3, <1>8, <1>13 DEF InventoryInv, KitStays
<1>16. AllNodesFollow'
  <2> SUFFICES ASSUME NEW n \in Node, devices'[n].home \notin wandered' \cup {None}
               PROVE  /\ devices'[n].gateway # None
                      /\ devices'[devices'[n].gateway].home = devices'[n].home
    BY DEF AllNodesFollow
  <2>1. n \in Thing \ {t}
    BY <1>6 DEF Thing
  <2>2. PICK g \in Hub : g = devices[n].gateway /\ devices[g].home = devices[n].home
    BY <1>0, <1>7, <1>8, <2>1 DEF InventoryInv, AllNodesFollow, DeviceRow
  <2>3. g # t
    BY <1>7, <1>8, <2>1, <2>2
  <2> QED BY <1>0, <1>7, <2>1, <2>2, <2>3 DEF Thing
<1>17. AllTold'
  <2> SUFFICES ASSUME NEW u \in Settled, NEW h \in Home, ~(u \in told[h] <=> devices'[u].home = h)
               PROVE  \E f \in Edit : /\ edit'[f].thing = u /\ edit'[f].pc = "announce"
                                      /\ h \in {edit'[f].from, edit'[f].home}
    BY <1>3 DEF AllTold, ToTell, EditsOf, Settled
  <2>1. CASE u \in told[h] <=> devices[u].home = h
    <3>1. u = t /\ devices[t].home = h
      BY <1>0, <1>6, <1>7, <2>1 DEF Settled
    <3>2. h = r.from
      BY <1>1, <1>5, <3>1 DEF ReadingHolds, t
    <3> QED BY <1>5, <3>1, <3>2
  <2>2. CASE ~(u \in told[h] <=> devices[u].home = h)
    <3>1. PICK f \in EditsOf(u) : edit[f].pc = "announce" /\ h \in ToTell(edit[f])
      BY <2>2 DEF InventoryInv, AllTold
    <3> QED BY <1>1, <1>5, <3>1 DEF EditsOf, ToTell
  <2> QED BY <2>1, <2>2
<1>18. RoomsAgree' /\ OneGatewayEach'
  BY <1>3, <1>6, <1>7 DEF InventoryInv, RoomsAgree, OneGatewayEach, Settled
<1> QED BY <1>10, <1>11, <1>12, <1>14, <1>15, <1>16, <1>17, <1>18 DEF InventoryInv


LEMMA KitStep ==
  ASSUME InventoryInv, NEW h \in Home, CreateKitHome(h)
  PROVE  InventoryInv'
<1>0. /\ edit \in [Edit -> EditRow] /\ devices \in [Thing -> DeviceRow] /\ None \notin Thing
      /\ told \in [Home -> SUBSET Thing] /\ None \notin Home /\ built \subseteq Home
  BY TypesFold, NoneIsNone DEF InventoryInv
<1>a. PICK g \in Hub, nodes \in SUBSET Node :
        /\ \A t \in nodes \cup {g} : devices[t].status = "absent"
        /\ \E place \in [nodes -> {r \in Room : HomeOf[r] = h}] :
             devices' = WithKit(h, g, nodes, place)
        /\ told' = [told EXCEPT ![h] = nodes \cup {g}]
  BY DEF CreateKitHome
<1>b. PICK place \in [nodes -> {r \in Room : HomeOf[r] = h}] : devices' = WithKit(h, g, nodes, place)
  BY <1>a, Zenon
<1>1. /\ \A t \in nodes \cup {g} : devices[t].status = "absent"
      /\ told' = [told EXCEPT ![h] = nodes \cup {g}]
  BY <1>a, Zenon
<1>2. h \notin built /\ built' = built \cup {h} /\ UNCHANGED <<edit, crossed, wandered>>
  BY DEF CreateKitHome
<1>3. /\ devices' \in [Thing -> DeviceRow]
      /\ devices'[g] = [home |-> h, room |-> None, gateway |-> None, status |-> "active"]
      /\ \A t \in nodes : /\ devices'[t] = [home |-> h, room |-> place[t], gateway |-> g,
                                            status |-> "active"]
                          /\ place[t] \in Room /\ HomeOf[place[t]] = h
      /\ \A t \in Thing \ (nodes \cup {g}) : devices'[t] = devices[t]
  <2>1. PICK placed : placed = WithKit(h, g, nodes, place)
    OBVIOUS
  <2>2. /\ placed \in [Thing -> DeviceRow]
        /\ placed[g] = [home |-> h, room |-> None, gateway |-> None, status |-> "active"]
        /\ \A t \in nodes :
             /\ placed[t] = [home |-> h, room |-> place[t], gateway |-> g, status |-> "active"]
             /\ place[t] \in Room /\ HomeOf[place[t]] = h
        /\ \A t \in Thing \ (nodes \cup {g}) : placed[t] = devices[t]
    BY <1>0, <2>1, KitRows
  <2>3. placed = devices'
    BY <1>b, <2>1
  <2> QED BY <2>2, <2>3
<1>5. ASSUME NEW t \in nodes
      PROVE  /\ devices'[t].home = h /\ devices'[t].status = "active"
             /\ devices'[t].gateway = g /\ devices'[t].room = place[t]
             /\ place[t] \in Room /\ HomeOf[place[t]] = h
  <2>1. /\ devices'[t] = [home |-> h, room |-> place[t], gateway |-> g, status |-> "active"]
        /\ place[t] \in Room /\ HomeOf[place[t]] = h
    BY <1>3, Zenon
  <2> QED BY <2>1
<1>6. devices'[g].room = None /\ devices'[g].home = h /\ devices'[g].status = "active"
  <2>1. devices'[g] = [home |-> h, room |-> None, gateway |-> None, status |-> "active"]
    BY <1>3, Zenon
  <2> QED BY <2>1
<1> DEFINE kit == nodes \cup {g}
<1>c. devices' \in [Thing -> DeviceRow] /\ \A t \in Thing \ kit : devices'[t] = devices[t]
  BY <1>3, Zenon
<1>4. /\ kit \subseteq Thing
      /\ \A t \in kit : /\ devices[t].status = "absent" /\ devices[t].home = None
                        /\ devices'[t].home = h /\ devices'[t].status = "active"
  <2>1. kit \subseteq Thing
    BY DEF Thing
  <2>2. \A t \in kit : devices[t].status = "absent" /\ devices[t].home = None
    BY <1>1, <2>1 DEF InventoryInv, RowsFit, InTable
  <2>3. \A t \in kit : devices'[t].home = h /\ devices'[t].status = "active"
    BY <1>5, <1>6
  <2> QED BY <2>1, <2>2, <2>3
<1>7. \A t \in Thing : devices[t].home # h
  BY <1>0, <1>2 DEF InventoryInv, RowsFit
<1>8. \A t \in kit : t \notin Hub \/ t = g
  BY NoneIsNone
<1>9. ASSUME NEW f \in Edit, edit[f].thing # None
      PROVE  edit[f].thing \in Thing \ kit
  <2>1. edit[f].thing \in Thing /\ RequestIsSound(edit[f])
    BY <1>0, <1>9 DEF EditRow, InventoryInv, RequestFits
  <2> QED BY <1>4, <1>9, <2>1 DEF RequestIsSound
<1>10. InventoryTypeOK'
  <2>1. told' \in [Home -> SUBSET Thing]
    BY <1>0, <1>1, <1>4
  <2> QED BY <1>2, <1>c, <2>1 DEF InventoryInv, InventoryTypeOK
<1>11. RowsFit'
  BY <1>2, <1>c, <1>4 DEF InventoryInv, RowsFit, InTable
<1>12. RivalsCross'
  BY <1>2 DEF InventoryInv, RivalsCross
<1>13. \A k \in Home \ {h} : HubsIn(k)' = HubsIn(k)
  BY <1>0, <1>c, <1>4 DEF HubsIn, ThingsIn
<1>14. HubsIn(h)' = {g}
  BY <1>c, <1>4, <1>7, <1>8 DEF HubsIn, ThingsIn, Thing
<1>15. RequestFits'
  <2> SUFFICES ASSUME NEW f \in Edit, NEW p, p = edit[f]
               PROVE  RequestIsSound(p)' /\ ReadingHolds(p)'
    BY <1>2, RequestsFit
  <2>1. /\ RequestIsSound(p) /\ ReadingHolds(p) /\ p \in EditRow
        /\ p.gateway \in Hub \cup {None} /\ (p.home \in built \cup {None} \/ p.pc = "idle")
        /\ p.thing # None => devices'[p.thing] = devices[p.thing]
    BY <1>0, <1>c, <1>9 DEF InventoryInv, RequestFits, EditRow, RequestIsSound
  <2>2. p.pc # "idle" /\ p.home # None => p.home \in Home \ {h}
    BY <1>0, <1>2, <2>1 DEF RequestIsSound
  <2>3. ASSUME p.gateway # None, p.home # None, devices[p.gateway].home = p.home
        PROVE  devices'[p.gateway].home = p.home
    <3>1. p.gateway \in Thing \ kit
      BY <1>4, <2>1, <2>3 DEF Thing, EditRow
    <3> QED BY <1>c, <2>3, <3>1
  <2>4. RequestIsSound(p)'
    BY <1>2, <2>1, <2>3 DEF RequestIsSound
  <2>5. ReadingHolds(p)'
    BY <1>2, <1>13, <2>1, <2>2 DEF ReadingHolds, Settled, InTable, RequestIsSound
  <2> QED BY <2>4, <2>5
<1>16. KitStays'
  <2> SUFFICES ASSUME NEW k \in built', k \notin wandered PROVE \E x \in Hub : HubsIn(k)' = {x}
    BY <1>2 DEF KitStays
  <2>1. CASE k = h
    BY <1>14, <2>1
  <2>2. CASE k # h
    BY <1>0, <1>2, <1>13, <2>2 DEF InventoryInv, KitStays
  <2> QED BY <2>1, <2>2
<1>17. AllNodesFollow'
  <2> SUFFICES ASSUME NEW n \in Node, devices'[n].home \notin wandered \cup {None}
               PROVE  /\ devices'[n].gateway # None
                      /\ devices'[devices'[n].gateway].home = devices'[n].home
    BY <1>2 DEF AllNodesFollow
  <2>1. CASE n \in kit
    BY <1>0, <1>4, <1>5, <2>1, NoneIsNone DEF Thing
  <2>2. CASE n \notin kit
    <3>1. devices'[n] = devices[n]
      BY <1>c, <2>2 DEF Thing
    <3>2. PICK k \in Hub : k = devices[n].gateway /\ devices[k].home = devices[n].home
      BY <1>0, <3>1 DEF InventoryInv, AllNodesFollow, DeviceRow, Thing
    <3>3. k \notin kit
      BY <1>4, <3>1, <3>2
    <3> QED BY <1>0, <1>c, <3>1, <3>2, <3>3 DEF Thing
  <2> QED BY <2>1, <2>2
<1>18. AllTold'
  <2> SUFFICES ASSUME NEW u \in Settled, NEW k \in Home, ~(u \in told'[k] <=> devices'[u].home = k)
               PROVE  \E f \in EditsOf(u) : edit[f].pc = "announce" /\ k \in ToTell(edit[f])
    BY <1>2 DEF AllTold, ToTell, EditsOf, Settled
  <2>1. k # h
    BY <1>0, <1>1, <1>c, <1>4, <1>7 DEF Settled
  <2>2. told'[k] = told[k]
    BY <1>0, <1>1, <2>1
  <2>3. CASE u \in kit
    <3>1. u \in told[k] /\ devices[u].home = None
      BY <1>4, <2>1, <2>2, <2>3
    <3> QED BY <1>0, <3>1 DEF InventoryInv, AllTold
  <2>4. CASE u \notin kit
    BY <1>c, <2>2, <2>4 DEF InventoryInv, AllTold, Settled
  <2> QED BY <2>3, <2>4
<1>19. RoomsAgree'
  BY <1>2, <1>c, <1>4, <1>5, <1>6 DEF InventoryInv, RoomsAgree, Settled
<1>20. OneGatewayEach'
  BY <1>2, <1>c, <1>4, <1>7, <1>8 DEF InventoryInv, OneGatewayEach, Settled
<1> QED BY <1>10, <1>11, <1>12, <1>15, <1>16, <1>17, <1>18, <1>19, <1>20 DEF InventoryInv

LEMMA InventoryStep ==
  ASSUME InventoryInv, InventoryNext
  PROVE  InventoryInv'
<1>1. ASSUME NEW t \in Thing, RegisterDevice(t) PROVE InventoryInv'
  BY <1>1, StatusStep DEF RegisterDevice
<1>2. ASSUME NEW t \in Thing, SetDeviceStatus(t) PROVE InventoryInv'
  <2>1. PICK s \in {"inactive", "active"} : devices' = [devices EXCEPT ![t].status = s]
    <3>1. devices \in [Thing -> DeviceRow]
      BY TypesFold DEF InventoryInv
    <3>2. CASE devices[t].status = "active"
      BY <1>2, <3>1, <3>2 DEF SetDeviceStatus
    <3>3. CASE devices[t].status # "active"
      BY <1>2, <3>1, <3>3 DEF SetDeviceStatus
    <3> QED BY <3>2, <3>3
  <2> QED BY <1>2, <2>1, StatusStep DEF SetDeviceStatus
<1> QED BY <1>1, <1>2, KitStep, AssignStep, CheckStep, FindStep, WriteStep, AnnounceStep,
           RemoveStep, DeleteStep, RestartStep DEF InventoryNext

LEMMA InventoryStays ==
  ASSUME InventoryInv, UNCHANGED inventoryVars
  PROVE  InventoryInv'
BY DEF inventoryVars, InventoryInv, InventoryTypeOK, RowsFit, RivalsCross, RequestFits,
       RequestIsSound, ReadingHolds, KitStays, AllNodesFollow, AllTold, RoomsAgree, OneGatewayEach,
       Settled, InTable, ThingsIn, HubsIn, EditsOf


-----------------------------------------------------------------------------
(***************************************************************************)
(* The steps of the firmware.                                              *)
(***************************************************************************)
LEMMA FetchTypes ==
  ASSUME GatewayTypeOK, FetchSensorList
  PROVE  /\ fetched' \in BOOLEAN /\ registry' \subseteq Node /\ Cardinality(registry') <= RegistryMax
         /\ age' \in 0..Lifetime /\ outages' \in 0..MaxOutages
<1>0. Lifetime \in Nat \ {0} /\ MaxOutages \in Nat
  BY GatewayAssumption
<1>1. CASE FetchSucceeds
  BY <1>0, <1>1 DEF FetchSucceeds, GatewayTypeOK, Listed
<1>2. CASE FetchRefused
  BY <1>0, <1>2 DEF FetchRefused, GatewayTypeOK, Outage
<1>3. CASE FetchGarbled
  BY <1>0, <1>3 DEF FetchGarbled, GatewayTypeOK, Outage, registryVars
<1> QED BY <1>1, <1>2, <1>3 DEF FetchSensorList

LEMMA FirmwareTypes ==
  ASSUME GatewayTypeOK, GatewayNext
  PROVE  GatewayTypeOK'
<1>0. Lifetime \in Nat \ {0} /\ MaxOutages \in Nat /\ RegistryMax \in Nat
  BY GatewayAssumption
<1> USE DEF GatewayTypeOK
<1>1. CASE RefreshRegistry
  BY <1>1, FetchTypes DEF RefreshRegistry, networkVars
<1>2. CASE ConnectSub
  <2>1. linked' /\ wifi /\ ~linked /\ subscribed' \in BOOLEAN
    BY <1>2, Zenon DEF ConnectSub
  <2>2. mailbox = {}
    BY <2>1
  <2>3. outages' \in 0..MaxOutages
    BY <1>0, <1>2 DEF ConnectSub, Outage
  <2> QED BY <1>2, <2>1, <2>2, <2>3 DEF ConnectSub, registryVars
<1>9. CASE ConnectPub
  BY <1>9 DEF ConnectPub, registryVars
<1>10. CASE WifiReconnects
  <2>1. wifi' /\ wifi' \in BOOLEAN
    BY <1>10, Zenon DEF WifiReconnects
  <2> QED BY <1>10, <2>1 DEF WifiReconnects, registryVars
<1>3. CASE LoseConnection
  <2>1. /\ wifi' \in BOOLEAN /\ linked' \in BOOLEAN /\ subscribed' \in BOOLEAN
        /\ upstream' \in BOOLEAN
    BY <1>3, Zenon DEF LoseConnection
  <2>2. /\ mailbox' \subseteq Node /\ (mailbox' # {} => subscribed')
        /\ (subscribed' => linked') /\ (linked' => wifi')
    BY <1>3 DEF LoseConnection
  <2>3. outages' \in 0..MaxOutages
    BY <1>0, <1>3 DEF LoseConnection, Outage
  <2> QED BY <1>3, <2>1, <2>2, <2>3 DEF LoseConnection, registryVars
<1>4. CASE PowerCycle
  <2>1. Cardinality({}) <= RegistryMax
    BY <1>0, FS_EmptySet
  <2>2. /\ {wifi', synced', linked', subscribed', upstream', fetched'} \subseteq BOOLEAN
        /\ ~linked' /\ ~subscribed'
    BY <1>4, Zenon DEF PowerCycle
  <2>3. outages' \in 0..MaxOutages
    BY <1>0, <1>4 DEF PowerCycle, Outage
  <2>4. registry' = {} /\ age' = 0 /\ mailbox' = {} /\ heard' \subseteq Node
    BY <1>4 DEF PowerCycle
  <2> QED BY <1>0, <2>1, <2>2, <2>3, <2>4
<1>5. CASE PassTime
  BY <1>0, <1>5 DEF PassTime, networkVars
<1>6. ASSUME NEW n \in Node, ForwardSensorData(n)
      PROVE  GatewayTypeOK'
  <2>1. /\ fetched' \in BOOLEAN /\ registry' \subseteq Node /\ Cardinality(registry') <= RegistryMax
        /\ age' \in 0..Lifetime /\ outages' \in 0..MaxOutages
    BY <1>6, FetchTypes DEF ForwardSensorData, registryVars
  <2>2. mailbox' \subseteq Node /\ heard' \subseteq Node /\ subscribed
    BY <1>6 DEF ForwardSensorData
  <2> QED BY <1>6, <2>1, <2>2 DEF ForwardSensorData, networkVars
<1>7. ASSUME NEW n \in Node, SensorSends(n)
      PROVE  GatewayTypeOK'
  BY <1>7 DEF SensorSends, networkVars, registryVars
<1>8. CASE UNCHANGED gatewayVars
  BY <1>8 DEF gatewayVars
<1> QED BY <1>1, <1>2, <1>3, <1>4, <1>5, <1>6, <1>7, <1>8, <1>9, <1>10 DEF GatewayNext, LoopStep

\* A step of the firmware leaves the inventory alone.
LEMMA GatewayStep ==
  ASSUME InventoryInv, GatewayNext
  PROVE  InventoryInv'
<1>1. InventoryNext \/ UNCHANGED inventoryVars
  BY DEF GatewayNext, LoopStep, RefreshRegistry, ConnectSub, ConnectPub, WifiReconnects,
         LoseConnection, PowerCycle, PassTime, ForwardSensorData, SensorSends
<1> QED BY <1>1, InventoryStep, InventoryStays

LEMMA GatewayTypesStart == GatewayInit => GatewayTypeOK
<1> SUFFICES ASSUME GatewayInit PROVE GatewayTypeOK
  OBVIOUS
<1>0. Lifetime \in Nat \ {0} /\ MaxOutages \in Nat /\ RegistryMax \in Nat
  BY GatewayAssumption
<1>1. Cardinality({}) <= RegistryMax
  BY <1>0, FS_EmptySet
<1>2. {wifi, synced, linked, subscribed, upstream, fetched} \subseteq BOOLEAN
  BY Zenon DEF GatewayInit
<1>3. /\ registry = {} /\ age = 0 /\ outages = 0 /\ mailbox = {} /\ heard = {}
      /\ ~linked /\ ~subscribed
  BY DEF GatewayInit
<1> QED BY <1>0, <1>1, <1>2, <1>3 DEF GatewayTypeOK

LEMMA InventoryStarts == InventoryInit => InventoryInv
<1> SUFFICES ASSUME InventoryInit PROVE InventoryInv
  OBVIOUS
<1>1. /\ \A t \in Thing : devices[t] = NoRow
      /\ \A e \in Edit : edit[e] = NoEdit
      /\ built = {} /\ \A h \in Home : told[h] = {}
      /\ crossed = {} /\ wandered = {}
  BY DEF InventoryInit
<1>2. InventoryTypeOK
  BY NoRowFits, NoEditFits DEF InventoryInit, InventoryTypeOK, EditRow
<1>3. RequestFits
  BY <1>1, NoEditIsSound DEF RequestFits
<1>4. RowsFit /\ RoomsAgree /\ OneGatewayEach /\ KitStays /\ AllNodesFollow
  BY <1>1, NoRowFits DEF RowsFit, RoomsAgree, OneGatewayEach, KitStays, AllNodesFollow, Settled,
     Thing
<1>5. RivalsCross
  BY <1>1, NoEditFits DEF RivalsCross
<1>6. AllTold
  BY <1>1, NoRowFits, NoneIsNone DEF AllTold, Settled
<1> QED BY <1>2, <1>3, <1>4, <1>5, <1>6 DEF InventoryInv

LEMMA InventoryInvAgrees == InventoryInv => InventoryAgrees
  BY NoneIsNone DEF InventoryInv, InventoryAgrees, AllNodesFollow, NodesFollow, AllTold,
     BothHomesAreTold, Settled

-----------------------------------------------------------------------------
(***************************************************************************)
(* The theorems.                                                           *)
(***************************************************************************)
\* However requests for devices overlap, rows, homes, gateways and what the
\* clients were told agree as InventoryAgrees says, and the firmware's registry
\* never outgrows its array (devices.service.ts:101-211, sensor_registry.cpp).
THEOREM GatewaySeesAgreement == GatewaySpec => []HouseAgrees
<1>1. InventoryInit /\ GatewayInit => InventoryInv /\ GatewayTypeOK
  BY InventoryStarts, GatewayTypesStart
<1>2. InventoryInv /\ GatewayTypeOK /\ [GatewayNext]_<<inventoryVars, gatewayVars>>
        => (InventoryInv /\ GatewayTypeOK)'
  <2>1. ASSUME InventoryInv, GatewayTypeOK, UNCHANGED <<inventoryVars, gatewayVars>>
        PROVE  InventoryInv' /\ GatewayTypeOK'
    <3>1. UNCHANGED inventoryVars /\ UNCHANGED gatewayVars
      BY <2>1
    <3> QED BY <2>1, <3>1, InventoryStays DEF gatewayVars, GatewayTypeOK
  <2> QED BY <2>1, GatewayStep, FirmwareTypes
<1>3. InventoryInv /\ GatewayTypeOK => HouseAgrees
  BY InventoryInvAgrees DEF HouseAgrees, InventoryInv
<1> QED BY <1>1, <1>2, <1>3, PTL DEF GatewaySpec

\* The rows of the house that the run starts from.
LEMMA KitRowFits ==
  ASSUME NEW t \in Thing
  PROVE  /\ KitRow(t) \in DeviceRow
         /\ t = Self => KitRow(t).home = HomeA /\ KitRow(t).room = None
                        /\ KitRow(t).gateway = None /\ KitRow(t).status = "active"
         /\ t = OtherHub => KitRow(t).home = HomeB /\ KitRow(t).room = None
                            /\ KitRow(t).gateway = None /\ KitRow(t).status = "active"
         /\ t \in MoreThings => KitRow(t) = NoRow
         /\ t \notin {Self, OtherHub} \cup MoreThings =>
              KitRow(t) = [home |-> HomeA, room |-> RoomA, gateway |-> Self, status |-> "active"]
<1>0. /\ HomeA \in Home /\ HomeB \in Home /\ RoomA \in Room /\ Self \in Hub
      /\ Self # OtherHub /\ Self \notin MoreThings /\ OtherHub \notin MoreThings
  BY HouseAssumption, GatewayAssumption
<1>1. CASE t = Self
  <2>1. KitRow(t) = [NoRow EXCEPT !.home = HomeA, !.status = "active"]
    BY <1>0, <1>1, Zenon DEF KitRow
  <2> QED BY <1>0, <1>1, <2>1, KitHub DEF DeviceRow
<1>2. CASE t = OtherHub
  <2>1. KitRow(t) = [NoRow EXCEPT !.home = HomeB, !.status = "active"]
    BY <1>0, <1>2, Zenon DEF KitRow
  <2> QED BY <1>0, <1>2, <2>1, KitHub DEF DeviceRow
<1>3. CASE t \in MoreThings
  <2>1. KitRow(t) = NoRow
    BY <1>0, <1>3, Zenon DEF KitRow
  <2> QED BY <1>0, <1>3, <2>1, NoRowFits
<1>4. CASE t \notin {Self, OtherHub} \cup MoreThings
  <2>1. t # Self /\ t # OtherHub /\ t \notin MoreThings
    BY <1>4
  <2>2. KitRow(t) = [home |-> HomeA, room |-> RoomA, gateway |-> Self, status |-> "active"]
    BY <2>1, Zenon DEF KitRow
  <2> QED BY <1>0, <2>1, <2>2 DEF DeviceRow
<1> QED BY <1>1, <1>2, <1>3, <1>4

LEMMA HouseStarts == HouseInit => InventoryInv /\ GatewayTypeOK
<1> SUFFICES ASSUME HouseInit PROVE InventoryInv
  BY GatewayTypesStart DEF HouseInit
<1>0. /\ \A e \in Edit : edit[e] = NoEdit
      /\ \A h \in Home : told[h] = ThingsIn(h)
      /\ crossed = {} /\ wandered = {}
  BY DEF HouseInit
<1>1. \/ built = {} /\ \A t \in Thing : devices[t] = NoRow
      \/ built = Home /\ \A t \in Thing : devices[t] = KitRow(t)
  BY DEF HouseInit
<1>2. InventoryTypeOK
  <2>1. devices \in [Thing -> DeviceRow]
    BY <1>1, KitRowFits, NoRowFits DEF HouseInit
  <2>2. told \in [Home -> SUBSET Thing] /\ edit \in [Edit -> EditRow]
    BY NoEditFits DEF HouseInit, ThingsIn
  <2> QED BY <1>0, <1>1, <2>1, <2>2 DEF InventoryTypeOK, EditRow
<1>3. RequestFits
  BY <1>0, NoEditIsSound DEF RequestFits
<1>4. RivalsCross
  BY <1>0, NoEditFits DEF RivalsCross
<1>5. AllTold
  BY <1>0 DEF AllTold, ThingsIn, Settled
<1>6. CASE built = {} /\ \A t \in Thing : devices[t] = NoRow
  <2>1. RowsFit /\ RoomsAgree /\ OneGatewayEach /\ KitStays /\ AllNodesFollow
    BY <1>6, NoRowFits DEF RowsFit, RoomsAgree, OneGatewayEach, KitStays, AllNodesFollow,
       Settled, Thing
  <2> QED BY <1>2, <1>3, <1>4, <1>5, <2>1 DEF InventoryInv
<1>7. CASE built = Home /\ \A t \in Thing : devices[t] = KitRow(t)
  <2>0. /\ Self \in Hub /\ OtherHub \in Hub /\ Self # OtherHub /\ HomeA # HomeB
        /\ Home = {HomeA, HomeB} /\ None \notin Home /\ None \notin Thing
        /\ Hub \subseteq {Self, OtherHub} \cup MoreThings
        /\ HomeOf[RoomA] = HomeA
    BY HouseAssumption, GatewayAssumption, NoneIsNone
  <2>1. \A t \in Thing :
          /\ t = Self => devices[t].home = HomeA /\ devices[t].room = None
                         /\ devices[t].gateway = None /\ devices[t].status = "active"
          /\ t = OtherHub => devices[t].home = HomeB /\ devices[t].room = None
                             /\ devices[t].gateway = None /\ devices[t].status = "active"
          /\ t \in MoreThings => /\ devices[t].home = None /\ devices[t].room = None
                                 /\ devices[t].gateway = None
          /\ t \notin {Self, OtherHub} \cup MoreThings =>
               /\ devices[t].home = HomeA /\ devices[t].room = RoomA
               /\ devices[t].gateway = Self /\ devices[t].status = "active"
    BY <1>7, KitRowFits, NoRowFits
  <2>2. RowsFit
    BY <1>7, <2>0, <2>1 DEF RowsFit, InTable
  <2>3. KitStays
    <3>1. HubsIn(HomeA) = {Self}
      BY <2>0, <2>1 DEF HubsIn, ThingsIn, Thing
    <3>2. HubsIn(HomeB) = {OtherHub}
      BY <2>0, <2>1 DEF HubsIn, ThingsIn, Thing
    <3> QED BY <2>0, <1>7, <3>1, <3>2 DEF KitStays
  <2>4. AllNodesFollow
    BY <2>0, <2>1, NoneIsNone DEF AllNodesFollow, Thing
  <2>5. RoomsAgree
    BY <2>0, <2>1 DEF RoomsAgree, Settled, Thing
  <2>6. OneGatewayEach
    BY <2>0, <2>1 DEF OneGatewayEach, Settled, Thing
  <2> QED BY <1>2, <1>3, <1>4, <1>5, <2>2, <2>3, <2>4, <2>5, <2>6 DEF InventoryInv
<1> QED BY <1>1, <1>6, <1>7

\* The same for the house of the run, whatever happens in its three scenes.
THEOREM HouseAlwaysAgrees == HouseSpec => []HouseAgrees
<1>1. HouseInit => InventoryInv /\ GatewayTypeOK
  BY HouseStarts
<1>2. InventoryInv /\ GatewayTypeOK /\ [HouseNext]_houseVars => (InventoryInv /\ GatewayTypeOK)'
  <2>1. ASSUME InventoryInv, GatewayTypeOK, UNCHANGED inventoryVars, UNCHANGED gatewayVars
        PROVE  InventoryInv' /\ GatewayTypeOK'
    BY <2>1, InventoryStays DEF gatewayVars, GatewayTypeOK
  <2>2. ASSUME InventoryInv, GatewayTypeOK, InventoryNext, UNCHANGED gatewayVars
        PROVE  InventoryInv' /\ GatewayTypeOK'
    BY <2>2, InventoryStep DEF gatewayVars, GatewayTypeOK
  <2>3. HouseNext => \/ UNCHANGED inventoryVars /\ UNCHANGED gatewayVars
                     \/ InventoryNext /\ UNCHANGED gatewayVars
                     \/ GatewayNext
    BY DEF HouseNext, CommandScene, InventoryScene, GatewayScene
  <2>4. UNCHANGED houseVars => UNCHANGED inventoryVars /\ UNCHANGED gatewayVars
    BY DEF houseVars
  <2> QED BY <2>1, <2>2, <2>3, <2>4, GatewayStep, FirmwareTypes
<1>3. InventoryInv /\ GatewayTypeOK => HouseAgrees
  BY InventoryInvAgrees DEF HouseAgrees, InventoryInv
<1> QED BY <1>1, <1>2, <1>3, PTL DEF HouseSpec
=============================================================================
