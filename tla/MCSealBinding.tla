--------------------------- MODULE MCSealBinding ---------------------------
(* Small instances of SealBinding for TLC. *)
EXTENDS SealBinding, SealVault, TLC

CONSTANTS r1, r2

Symmetry == Permutations(Keys) \cup Permutations(Inodes) \cup Permutations(Readers)
=============================================================================
