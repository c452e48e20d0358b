----------------------------- MODULE MCMidTimer -----------------------------
(* Small instances of MidTimer for TLC. *)
EXTENDS MidTimer

\* Nodes are interchangeable: the pool is a set and no action names one.
NodeSymmetry == Permutations(Node)
=============================================================================
