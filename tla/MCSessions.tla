----------------------------- MODULE MCSessions -----------------------------
(***************************************************************************)
(* Instances of Sessions for TLC.                                          *)
(***************************************************************************)
EXTENDS Sessions, TLC

Perms == Permutations(Conns) \cup Permutations(Fetches)
=============================================================================
