---------------------------- MODULE MCDecisions ----------------------------
(* Small instances of Decisions for TLC: each store has a session of its own. *)
EXTENDS Decisions, TLC

SessionOfStore == [s \in Stores |-> s]
Symmetry == Permutations(Hashes) \cup Permutations(Stores) \cup Permutations(Subjects)
=============================================================================
