----------------------------- MODULE MCJsonTree -----------------------------
(***************************************************************************)
(* Instances of JsonTree for TLC.                                          *)
(***************************************************************************)
EXTENDS JsonTree, TLC

(* Items and names are told apart by identity only. *)
Symmetry == Permutations(Nodes) \cup Permutations(Names)
=============================================================================
