------------------------------ MODULE MCDsync -------------------------------
(* Small instances of Dsync. *)
EXTENDS Dsync, TLC

NodeSymmetry == Permutations(Nodes)
=============================================================================
