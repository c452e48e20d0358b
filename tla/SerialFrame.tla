---------------------------- MODULE SerialFrame ----------------------------
(***************************************************************************)
(* receiveMessage of serialM6E.c, in the loop of the thread that calls it: *)
(* the serial line carries bytes, and the frames in them have to be found. *)
(* Noise comes between frames; a frame may be cut, or the byte that says   *)
(* its length be another.                                                  *)
(*                                                                         *)
(* A byte is the frame it is of and its position in it; the first is the   *)
(* start byte 0xFF, and others may have this value too; noise has not.     *)
(* The bytes of a frame come without a pause as long as the timeout.       *)
(***************************************************************************)
EXTENDS Integers, Sequences, FiniteSets

CONSTANTS
    Header,    \* bytes read at first: 7
    MsgSize,   \* bytes of the buffer of the caller: 256
    Tries,     \* reads without a start byte before it gives up: 10
    Kind,      \* frames the module sends: bytes that come, the length they say, and
               \* where behind the length there are bytes 0xFF
    MaxFrame,  \* bound: how many
    MaxNoise   \* bound: bytes of noise

ASSUME FrameAssumption ==
    /\ Header \in Nat /\ Header >= 2 /\ MsgSize \in Nat /\ MsgSize > Header
    /\ Tries \in Nat \ {0} /\ MaxFrame \in Nat /\ MaxNoise \in Nat
    /\ Kind \subseteq [bytes : Nat \ {0}, len : Nat, soh : SUBSET (Nat \ 0..2)]

VARIABLES
    line,      \* bytes that have come and were not read
    sent,      \* the frames sent, noise apart
    noise,     \* how many bytes of noise were sent
    message,   \* what receiveMessage has read
    reading,   \* header or body
    left,      \* bytes the present read still waits for
    tries,     \* retryCount
    given,     \* history: the undamaged frames returned
    astray     \* history: since the last one a frame was not

history == <<given, astray>>
vars == <<line, sent, noise, message, reading, left, tries, history>>

-----------------------------------------------------------------------------
\* The line.

Byte(f, k) == [of |-> f, pos |-> k]
Noise == Byte(0, 0)
IsFirst(b) == b.pos = 1
IsSoh(b) == IsFirst(b) \/ (b # Noise /\ b.pos \in sent[b.of].soh)

\* The frame that the module sent f-th, undamaged or not.  One that is too long for
\* the buffer is as good as damaged.
AFrame(f) == [id |-> f, ok |-> sent[f].bytes = Header + sent[f].len
                               /\ sent[f].bytes <= MsgSize]

SendFrame ==
    /\ Len(sent) < MaxFrame
    /\ \E kind \in Kind :
         /\ sent' = Append(sent, kind)
         /\ line' = line \o [k \in 1..kind.bytes |-> Byte(Len(sent) + 1, k)]
    /\ UNCHANGED <<noise, message, reading, left, tries, history>>

SendNoise ==
    /\ noise < MaxNoise /\ noise' = noise + 1
    /\ line' = Append(line, Noise)
    /\ UNCHANGED <<sent, message, reading, left, tries, history>>

-----------------------------------------------------------------------------
\* receiveMessage.

\* It is called again.
Restarted == message' = <<>> /\ reading' = "header" /\ left' = Header /\ tries' = 1

Init ==
    /\ line = <<>> /\ sent = <<>> /\ noise = 0 /\ given = <<>> /\ astray = FALSE
    /\ message = <<>> /\ reading = "header" /\ left = Header /\ tries = 1

\* s_receiveBytes: read returns what has come, as far as it is asked for.
Read ==
    /\ left > 0 /\ line # <<>>
    /\ \E n \in 1..Len(line) :
         /\ n <= left
         /\ message' = message \o SubSeq(line, 1, n)
         /\ line' = SubSeq(line, n + 1, Len(line))
         /\ left' = left - n
    /\ UNCHANGED <<sent, noise, reading, tries, history>>

\* The message is forgotten, and the frames that begin in it with it.
Drop ==
    /\ astray' = (astray \/ \E k \in 1..Len(message) : IsFirst(message[k]))
    /\ UNCHANGED given

\* What is returned: a frame as it was sent, or something else.
IsWhole ==
    LET f == message[1].of IN
    /\ AFrame(f).ok /\ message = [k \in 1..sent[f].bytes |-> Byte(f, k)]

Return ==
    IF IsWhole THEN given' = Append(given, AFrame(message[1].of)) /\ astray' = FALSE
    ELSE Drop

\* select finds nothing for the whole timeout: what was read of a header is
\* forgotten; of a body that is cut, receiveMessage returns what there is.
Timeout ==
    /\ left > 0 /\ line = <<>>
    /\ IF reading = "header" THEN Drop ELSE Return
    /\ Restarted
    /\ UNCHANGED <<line, sent, noise>>

Starts == {k \in 2..Header : IsSoh(message[k])}

\* What is kept of the header when it does not begin with a start byte.
\* A slip: it is moved one byte too far.
KeptShort(k) == SubSeq(message, k + 1, Header)
Kept(k) == SubSeq(message, k, Header)

HeaderRead == reading = "header" /\ left = 0

\* A start byte stands later in the header: it is moved to the front.
MoveHeader ==
    /\ HeaderRead /\ ~IsSoh(message[1])
    /\ \E k \in Starts :
         /\ \A j \in Starts : k <= j
         /\ message' = Kept(k)
         /\ left' = Header - Len(Kept(k))
    /\ tries' = tries + 1
    /\ UNCHANGED <<line, sent, noise, reading, history>>

\* There is none: the header is read again, or given up.
SkipHeader ==
    /\ HeaderRead /\ ~IsSoh(message[1]) /\ Starts = {}
    /\ message' = <<>> /\ left' = Header
    /\ tries' = IF tries < Tries THEN tries + 1 ELSE 1
    /\ UNCHANGED <<line, sent, noise, reading, history>>

\* The values the second byte may have: a start byte is more than any length.
Lengths ==
    CASE IsSoh(message[2]) -> {MsgSize}
      [] message[2].pos = 2 -> {sent[message[2].of].len}
      [] OTHER -> 0..MsgSize - 1

\* A slip: the length is trusted.
TooBigNever(len) == FALSE
TooBig(len) == MsgSize - Header < len

\* The length is refused, there is no body, or the body is read.
EndHeader ==
    /\ HeaderRead /\ IsSoh(message[1])
    /\ \E len \in Lengths :
         IF TooBig(len) THEN Restarted /\ Drop
         ELSE IF len = 0 THEN Restarted /\ Return
         ELSE reading' = "body" /\ left' = len /\ UNCHANGED <<message, tries, history>>
    /\ UNCHANGED <<line, sent, noise>>

EndBody ==
    /\ reading = "body" /\ left = 0
    /\ Return /\ Restarted
    /\ UNCHANGED <<line, sent, noise>>

-----------------------------------------------------------------------------
Receiver ==
    Read \/ Timeout \/ MoveHeader \/ SkipHeader \/ EndHeader \/ EndBody

Next == SendFrame \/ SendNoise \/ Receiver

Spec == Init /\ [][Next]_vars

\* The thread runs, and calls receiveMessage again whatever it returned.
FairSpec == Spec /\ WF_vars(Receiver)
-----------------------------------------------------------------------------
\* Properties.

ABytes == [of : 0..MaxFrame, pos : Nat]

\* The type invariant: what is read, and what is still asked for, fits the buffer.
TypeOK ==
    /\ line \in Seq(ABytes) /\ message \in Seq(ABytes)
    /\ sent \in Seq(Kind) /\ noise \in 0..MaxNoise
    /\ reading \in {"header", "body"} /\ tries \in Nat
    /\ left \in Nat /\ Len(message) + left <= MsgSize

\* The frames whose first byte is still to come, or is being dealt with: as bytes
\* come in order, they are the last ones sent.
Begun == {f \in 1..Len(sent) : \E k \in 1..Len(message \o line) :
                                  (message \o line)[k] = Byte(f, 1)}
Air == LET n == Cardinality(Begun) IN [k \in 1..n |-> AFrame(Len(sent) - n + k)]

\* receiveMessage makes the line a link of frames: an undamaged one is returned as
\* it was sent, in order and once, wherever noise and pieces of others lie.  Only
\* behind a damaged one are others lost, of those that begin in one buffer of bytes
\* taken for a frame; the next one returned ends this.
Link == INSTANCE FrameLink
    WITH Frame <- [id : 1..MaxFrame, ok : BOOLEAN], air <- Air,
         MaxLost <- 1 + (MsgSize - 2) \div Header
LinkOfFrames == Link!Spec

\* A frame is returned in the end if neither it nor one since the last one returned
\* is damaged: noise does not keep the thread from it.
FrameArrives ==
    \A f \in 1..MaxFrame :
        ~astray /\ (\E k \in DOMAIN Air : Air[k].id = f /\ \A j \in 1..k : Air[j].ok)
        ~> (\E k \in DOMAIN given : given[k].id = f)
=============================================================================
