----------------------------- MODULE MCHomeClaim -----------------------------
(***************************************************************************)
(* HomeClaim on small instances.  Users, calls and codes are               *)
(* interchangeable in the runs without liveness properties.                *)
(***************************************************************************)
EXTENDS HomeClaim, TLC

Symmetry == Permutations(User) \cup Permutations(Call) \cup Permutations(Code)
=============================================================================
