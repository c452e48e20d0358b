------------------------- MODULE SerialFrameProofs -------------------------
(***************************************************************************)
(* Proofs about SerialFrame, for all sizes of buffers and headers and all  *)
(* frames and noise: receiveMessage never reads past the caller's buffer.  *)
(***************************************************************************)
EXTENDS SerialFrame, SequenceTheorems, TLAPS

\* The bytes of noise and of the frames sent so far.
Known == {b \in ABytes : b = Noise \/ b.of \in 1..Len(sent)}

\* A header that is read has Header bytes in all, and a body what its length says
\* and the buffer has room for.
ReadInv ==
    /\ line \in Seq(Known) /\ message \in Seq(Known)
    /\ sent \in Seq(Kind) /\ Len(sent) <= MaxFrame /\ noise \in 0..MaxNoise
    /\ reading \in {"header", "body"} /\ tries \in Nat /\ left \in Nat
    /\ reading = "header" => Len(message) + left = Header
    /\ reading = "body" => Len(message) + left <= MsgSize

\* The initial state.
LEMMA ReadInit == Init => ReadInv
<1> SUFFICES ASSUME Init PROVE ReadInv
    OBVIOUS
<1>1. line \in Seq(Known) /\ message \in Seq(Known) /\ sent \in Seq(Kind)
      /\ Len(message) = 0 /\ Len(sent) = 0
    BY EmptySeq DEF Init
<1>2. Header \in Nat /\ MaxFrame \in Nat /\ 0 \in 0..MaxNoise
    BY FrameAssumption
<1> QED
    BY <1>1, <1>2 DEF Init, ReadInv

\* A frame's bytes.
LEMMA FrameBytes ==
    ASSUME NEW S, NEW f, NEW n \in Nat, \A k \in 1..n : Byte(f, k) \in S
    PROVE  [k \in 1..n |-> Byte(f, k)] \in Seq(S)
    OBVIOUS

\* Every step keeps it.
LEMMA ReadNext == ReadInv /\ [Next]_vars => ReadInv'
<1> SUFFICES ASSUME ReadInv, [Next]_vars PROVE ReadInv'
    OBVIOUS
<1>0. /\ Header \in Nat /\ Header >= 2 /\ MsgSize \in Nat /\ MsgSize > Header
      /\ Tries \in Nat /\ MaxFrame \in Nat /\ MaxNoise \in Nat
    BY FrameAssumption
<1>1. /\ line \in Seq(Known) /\ message \in Seq(Known) /\ sent \in Seq(Kind)
      /\ Len(line) \in Nat /\ Len(message) \in Nat /\ Len(sent) \in Nat
    BY LenProperties DEF ReadInv
<1>2. Restarted => message' \in Seq(Known) /\ reading' = "header" /\ left' \in Nat
                   /\ tries' \in Nat /\ Len(message') + left' = Header
    BY <1>0, EmptySeq DEF Restarted
<1>3. CASE SendFrame
    <2>1. PICK kind \in Kind :
            /\ sent' = Append(sent, kind)
            /\ line' = line \o [k \in 1..kind.bytes |-> Byte(Len(sent) + 1, k)]
        BY <1>3 DEF SendFrame
    <2>2. kind.bytes \in Nat
        BY FrameAssumption
    <2>3. Len(sent) + 1 \in 0..MaxFrame
        BY <1>0, <1>1, <1>3 DEF SendFrame
    <2>4. sent' \in Seq(Kind) /\ Len(sent') = Len(sent) + 1
        BY <1>1, <2>1
    <2> DEFINE now == Known'
               frame == [k \in 1..kind.bytes |-> Byte(Len(sent) + 1, k)]
    <2>5. Known \subseteq now
        BY <1>1, <2>4 DEF Known, ABytes, Noise
    <2>6. \A k \in 1..kind.bytes : Byte(Len(sent) + 1, k) \in now
        BY <1>1, <2>2, <2>3, <2>4 DEF Known, ABytes, Byte
    <2> HIDE DEF now
    <2>7. frame \in Seq(now)
        BY <2>2, <2>6, FrameBytes
    <2>8. line \in Seq(now) /\ message \in Seq(now)
        BY <1>1, <2>5, SeqMonotonic
    <2> HIDE DEF frame
    <2>9. line \o frame \in Seq(now)
        BY <2>7, <2>8, ConcatProperties
    <2>10. line' \in Seq(now) /\ message' \in Seq(now)
        BY <1>3, <2>1, <2>8, <2>9 DEF SendFrame, frame
    <2> QED
        BY <1>0, <1>1, <1>3, <2>3, <2>4, <2>10 DEF SendFrame, ReadInv, now
<1>4. CASE SendNoise
    <2>1. Noise \in Known
        BY <1>0 DEF Noise, Byte, ABytes, Known
    <2>2. line' \in Seq(Known) /\ Known' = Known
        BY <1>1, <1>4, <2>1 DEF SendNoise, Known
    <2> QED
        BY <1>0, <1>4, <2>2 DEF SendNoise, ReadInv
<1>5. sent' = sent => Known' = Known
    BY DEF Known
<1>6. CASE Read
    <2>1. PICK n \in 1..Len(line) :
            /\ n <= left
            /\ message' = message \o SubSeq(line, 1, n)
            /\ line' = SubSeq(line, n + 1, Len(line))
            /\ left' = left - n
        BY <1>6 DEF Read
    <2>2. /\ SubSeq(line, 1, n) \in Seq(Known) /\ Len(SubSeq(line, 1, n)) = n
          /\ SubSeq(line, n + 1, Len(line)) \in Seq(Known)
        BY <1>1
    <2>3. message' \in Seq(Known) /\ Len(message') = Len(message) + n
        BY <1>1, <2>1, <2>2, ConcatProperties
    <2> QED
        BY <1>1, <1>6, <1>5, <2>1, <2>2, <2>3 DEF Read, ReadInv
<1>7. CASE Timeout
    BY <1>2, <1>7, <1>5 DEF Timeout, ReadInv
<1>8. CASE MoveHeader
    <2>1. PICK k \in Starts : message' = Kept(k) /\ left' = Header - Len(Kept(k))
        BY <1>8 DEF MoveHeader
    <2>2. Len(message) = Header /\ k \in 2..Header
        BY <1>0, <1>1, <1>8, <2>1 DEF MoveHeader, HeaderRead, ReadInv, Starts
    <2>3. Kept(k) \in Seq(Known) /\ Len(Kept(k)) = Header - k + 1
        BY <1>0, <1>1, <2>2 DEF Kept
    <2> QED
        BY <1>0, <1>8, <1>5, <2>1, <2>2, <2>3 DEF MoveHeader, HeaderRead, ReadInv
<1>9. CASE SkipHeader
    <2>1. message' \in Seq(Known) /\ Len(message') = 0
        BY <1>9, EmptySeq DEF SkipHeader
    <2> QED
        BY <1>0, <1>9, <1>5, <2>1 DEF SkipHeader, HeaderRead, ReadInv
<1>10. CASE EndHeader
    <2>1. PICK len \in Lengths :
            \/ Restarted
            \/ ~TooBig(len) /\ reading' = "body" /\ left' = len /\ UNCHANGED <<message, tries>>
        BY <1>10 DEF EndHeader, history
    <2>3. Len(message) = Header
        BY <1>0, <1>1, <1>10 DEF EndHeader, HeaderRead, ReadInv
    <2>2. len \in Nat
        <3>1. message[2] \in Known
            BY <1>0, <1>1, <2>3
        <3>2. CASE message[2].pos = 2
            <4>1. message[2].of \in 1..Len(sent)
                BY <3>1, <3>2 DEF Known, Noise, Byte
            <4>2. sent[message[2].of].len \in Nat
                BY <1>1, <4>1, FrameAssumption
            <4> QED
                BY <1>0, <2>1, <3>2, <4>2 DEF Lengths
        <3>3. CASE message[2].pos # 2
            BY <1>0, <2>1, <3>3 DEF Lengths
        <3> QED
            BY <3>2, <3>3
    <2>4. CASE Restarted
        BY <1>2, <1>10, <1>5, <2>4 DEF EndHeader, ReadInv
    <2>5. CASE ~TooBig(len) /\ reading' = "body" /\ left' = len /\ UNCHANGED <<message, tries>>
        BY <1>0, <1>1, <1>10, <1>5, <2>2, <2>3, <2>5 DEF EndHeader, TooBig, ReadInv
    <2> QED
        BY <2>1, <2>4, <2>5
<1>11. CASE EndBody
    BY <1>2, <1>11, <1>5 DEF EndBody, ReadInv
<1>12. CASE UNCHANGED vars
    BY <1>12, <1>5 DEF vars, history, ReadInv
<1> QED
    BY <1>3, <1>4, <1>6, <1>7, <1>8, <1>9, <1>10, <1>11, <1>12 DEF Next, Receiver

\* Every reachable state satisfies the invariant.
THEOREM ReadInvariant == Spec => []ReadInv
    BY ReadInit, ReadNext, PTL DEF Spec

\* What is read and what is still asked for fit the buffer of the caller, for all
\* lengths that come over the line.
THEOREM BufferIsNotLeft == Spec => []TypeOK
<1>1. ReadInv => TypeOK
    <2> SUFFICES ASSUME ReadInv PROVE TypeOK
        OBVIOUS
    <2>1. Known \subseteq ABytes
        BY DEF Known
    <2>2. line \in Seq(ABytes) /\ message \in Seq(ABytes)
        BY <2>1, SeqMonotonic DEF ReadInv
    <2>3. Len(message) + left <= MsgSize
        BY FrameAssumption DEF ReadInv
    <2> QED
        BY <2>2, <2>3 DEF ReadInv, TypeOK
<1> QED
    BY <1>1, ReadInvariant, PTL
=============================================================================
