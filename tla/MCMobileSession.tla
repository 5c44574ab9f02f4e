--------------------------- MODULE MCMobileSession ---------------------------
(***************************************************************************)
(* MobileSession on small instances.                                       *)
(***************************************************************************)
EXTENDS MobileSession, TLC

Symmetry ==
  Permutations(Token) \cup Permutations(Call) \cup Permutations(Device)
=============================================================================
