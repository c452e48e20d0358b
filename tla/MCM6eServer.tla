---------------------------- MODULE MCM6eServer ----------------------------
(* Small instances of M6eServer for TLC. *)
EXTENDS M6eServer, TLC

\* No action names a send thread or a connection: hosts are told apart by the order
\* of accept only.
Symmetry == Permutations(Sender) \cup Permutations(Conn)
=============================================================================
