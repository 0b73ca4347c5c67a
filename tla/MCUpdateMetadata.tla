-------------------------- MODULE MCUpdateMetadata --------------------------
(* A small instance of UpdateMetadata with two channels.                   *)
EXTENDS UpdateMetadata, TLC

CONSTANTS stable, beta

Symmetry == Permutations(Channels)
=============================================================================
