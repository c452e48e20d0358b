---------------------------- MODULE MCUpgrade ----------------------------
(* A small instance of Upgrade for TLC. *)
EXTENDS Upgrade, TLC

CONSTANTS u1, u2, u3

\* Last blocks of one byte and of two, and an image of full blocks only.
SmallSize == (u1 :> 4) @@ (u2 :> 6) @@ (u3 :> 5)
=============================================================================
