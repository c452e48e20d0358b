--------------------------- MODULE MCSerialFrame ---------------------------
(* A small instance of SerialFrame for TLC. *)
EXTENDS SerialFrame

Bytes(n, len, soh) == [bytes |-> n, len |-> len, soh |-> soh]

\* Whole frames without a body and with one; cut in the header, and right behind
\* the length; cut in the body; too long for the buffer; a length that is too small.
Kinds == {Bytes(3, 0, {}), Bytes(5, 2, {5}), Bytes(1, 2, {}), Bytes(2, 3, {}),
          Bytes(4, 2, {}), Bytes(8, 5, {6}), Bytes(5, 1, {})}
=============================================================================
