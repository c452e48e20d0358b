----------------------------- MODULE FrameLink -----------------------------
(***************************************************************************)
(* What the serial line is taken for by those that call receiveMessage:    *)
(* frames arrive in the order in which they were sent, each once and as a  *)
(* whole.  Behind a frame that was damaged on the way others may be lost,  *)
(* until one is received again.                                            *)
(***************************************************************************)
EXTENDS Integers, Sequences, FiniteSets

CONSTANTS
    Frame,     \* frames, each with a field ok: it is not damaged
    MaxLost    \* how many undamaged ones are lost at once

VARIABLES
    air,       \* frames on their way
    given,     \* frames received
    astray     \* since the last one received, one was lost

Init == air = <<>> /\ given = <<>> /\ astray = FALSE

Send == \E f \in Frame : air' = Append(air, f) /\ UNCHANGED <<given, astray>>

Deliver ==
    /\ air # <<>> /\ Head(air).ok
    /\ air' = Tail(air) /\ given' = Append(given, Head(air))
    /\ astray' = FALSE

Lose ==
    /\ air # <<>> /\ (astray \/ ~Head(air).ok)
    /\ \E k \in 1..Len(air) :
         /\ Cardinality({j \in 1..k : air[j].ok}) <= MaxLost
         /\ air' = SubSeq(air, k + 1, Len(air))
    /\ astray' = TRUE
    /\ UNCHANGED given

Next == Send \/ Deliver \/ Lose

Spec == Init /\ [][Next]_<<air, given, astray>>
=============================================================================
