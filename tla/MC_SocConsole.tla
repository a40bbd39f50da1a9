---------------------------- MODULE MC_SocConsole ----------------------------
(***************************************************************************)
(* Two alerts and two PATCH requests; a list of three and a load of one.   *)
(***************************************************************************)
EXTENDS SocConsole, TLC

Symmetry == Permutations(Alert) \cup Permutations(Triage)
=============================================================================
