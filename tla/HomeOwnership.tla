---------------------------- MODULE HomeOwnership ----------------------------
(***************************************************************************)
(* What claiming promises, without codes, locks or logs: a home is given   *)
(* away once and for good, and a call that is told it won did give the     *)
(* home to its user.  A call may also never be told anything, or be told   *)
(* of an internal error, which says nothing about the home.  HomeClaim     *)
(* implements this specification.                                          *)
(***************************************************************************)
CONSTANTS Home, User, Call, Nobody

VARIABLES
  owner,  \* the owner of each home
  wants,  \* the user each call is to make an owner
  told    \* what each call was told: "nothing", "won" or "lost"

vars == <<owner, wants, told>>

Init ==
  /\ owner = [h \in Home |-> Nobody]
  /\ wants \in [Call -> User]
  /\ told = [a \in Call |-> "nothing"]

\* A free home gets its owner.
Give(h, u) ==
  /\ owner[h] = Nobody
  /\ owner' = [owner EXCEPT ![h] = u]

\* A call that is told it won made its user the owner of a home, in this very
\* step; one that is told it lost has changed nothing by being told so.
Win(a) ==
  /\ told[a] = "nothing"
  /\ \E h \in Home : Give(h, wants[a])
  /\ UNCHANGED wants
  /\ told' = [told EXCEPT ![a] = "won"]

Lose(a) ==
  /\ told[a] = "nothing"
  /\ told' = [told EXCEPT ![a] = "lost"]
  /\ UNCHANGED <<owner, wants>>

\* The home is given away, but the call never learns of it.
WinUnheard ==
  /\ \E h \in Home, u \in User : Give(h, u)
  /\ UNCHANGED <<wants, told>>

Next ==
  \/ \E a \in Call : Win(a) \/ Lose(a)
  \/ WinUnheard

Spec == Init /\ [][Next]_vars
=============================================================================
