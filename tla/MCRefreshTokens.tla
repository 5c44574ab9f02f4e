--------------------------- MODULE MCRefreshTokens ---------------------------
(***************************************************************************)
(* RefreshTokens on small instances; as many tokens as calls, so that no   *)
(* call lacks a fresh one.  Symmetry is for the run without liveness.      *)
(***************************************************************************)
EXTENDS RefreshTokens, TLC

Symmetry == Permutations(Token) \cup Permutations(Call)
=============================================================================
