---------------------------- MODULE MCUpdateLock ----------------------------
(* UpdateLock on small sets of launchers; the model values are in the .cfg *)
(* files.  Launchers are interchangeable, so runs of safety properties may *)
(* identify states that differ by a permutation of them.                   *)
EXTENDS UpdateLock, TLC

Symmetry == Permutations(Launchers)
=============================================================================
