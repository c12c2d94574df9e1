------------------------------- MODULE MCSeal -------------------------------
(* Small instances of Seal for TLC. *)
EXTENDS SealInv, TLC

CONSTANTS r1, r2, r3

Symmetry == Permutations({r2, r3} \cap Records) \cup Permutations(Writers)
                \cup Permutations(Inodes) \cup Permutations(Procs)
=============================================================================
