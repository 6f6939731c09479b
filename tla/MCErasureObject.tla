-------------------------- MODULE MCErasureObject ---------------------------
(* ErasureObject for TLC.                                                     *)
EXTENDS ErasureObject, TLC

DriveSymmetry == Permutations(Disks)
Symmetry == Permutations(Disks) \cup Permutations(Procs)
=============================================================================
