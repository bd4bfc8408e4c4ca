---------------------------- MODULE MCLogoutFlow ----------------------------
(* LogoutFlow on small instances. *)
EXTENDS LogoutFlow, TLC

Symmetry == Permutations(Items)
=============================================================================
