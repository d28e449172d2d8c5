-------------------------- MODULE MCStudentNetwork --------------------------
(***************************************************************************)
(* Instances of StudentNetwork for TLC: a vnet per row id, as the default  *)
(* prefix "s" and eight characters give.                                   *)
(***************************************************************************)
EXTENDS StudentNetwork, TLC

VnetPerId == [i \in 1 .. MaxId |-> i]
NetworkSymmetry == Permutations(Users) \cup Permutations(Workers)
=============================================================================
