-------------------------- MODULE SerialLinkProofs --------------------------
(***************************************************************************)
(* receiveMessage makes the serial line a link of frames: SerialFrame      *)
(* implements FrameLink, for all sizes, all frames and all noise.  What is *)
(* read and still to be read is one sequence of bytes, at whose end the    *)
(* module adds and from whose front receiveMessage takes.                  *)
(***************************************************************************)
EXTENDS SerialFrameProofs, SeqFacts, FiniteSetTheorems

-----------------------------------------------------------------------------
(* Bytes q of the frames s: each byte is of a frame, at its place in it, or *)
(* noise; every frame of which a byte is there goes on to its end; frames   *)
(* stand in the order in which they were sent, and none behind the first    *)
(* that begins in q is missing.                                             *)

BytesOf(q, s) ==
    /\ q \in Seq([of : 0..Len(s), pos : Nat])
    /\ \A k \in 1..Len(q) : IF q[k].of = 0 THEN q[k].pos = 0
                            ELSE q[k].pos \in 1..s[q[k].of].bytes

\* Where the frame of the k-th byte begins: one byte behind this, in q or before it.
At(q, k) == k - q[k].pos

Together(q, s) ==
    \A k \in 1..Len(q) : q[k].of # 0 =>
        /\ At(q, k) + s[q[k].of].bytes <= Len(q)
        /\ \A j \in 1..Len(q) : At(q, k) < j /\ j <= At(q, k) + s[q[k].of].bytes =>
                                    q[j] = Byte(q[k].of, j - At(q, k))

InOrder(q) ==
    \A j, k \in 1..Len(q) : j < k /\ q[j].of # 0 /\ q[k].of # 0 =>
        q[j].of < q[k].of \/ (q[j].of = q[k].of /\ At(q, j) = At(q, k))

Begin(q, s) == {f \in 1..Len(s) : \E k \in 1..Len(q) : q[k] = Byte(f, 1)}

NoneMissing(q, s) ==
    \A f \in Begin(q, s) : \A h \in 1..Len(s) : f <= h => h \in Begin(q, s)

Stream(q, s) == BytesOf(q, s) /\ Together(q, s) /\ InOrder(q) /\ NoneMissing(q, s)

\* What is known of a frame.
LEMMA FrameSent ==
    ASSUME NEW s \in Seq(Kind), NEW f \in 1..Len(s)
    PROVE  /\ s[f] \in Kind /\ s[f].bytes \in Nat /\ s[f].bytes >= 1
           /\ s[f].len \in Nat /\ s[f].soh \subseteq Nat \ 0..2
<1>1. s[f] \in Kind
    BY ElementOfSeq
<1> QED
    BY <1>1, FrameAssumption

\* Taking bytes from the front leaves such a sequence.
LEMMA StreamDrop ==
    ASSUME NEW s \in Seq(Kind), NEW q, Stream(q, s), NEW d \in 0..Len(q)
    PROVE  Stream(SubSeq(q, d + 1, Len(q)), s)
<1> DEFINE r == SubSeq(q, d + 1, Len(q))
           all == Len(q)
           size == Len(r)
<1>1. q \in Seq([of : 0..Len(s), pos : Nat]) /\ Len(s) \in Nat /\ all \in Nat
    BY LenProperties DEF Stream, BytesOf
<1>2. r \in Seq([of : 0..Len(s), pos : Nat])
    BY <1>1, Rest
<1>3. size = all - d /\ \A k \in 1..size : r[k] = q[k + d]
    BY <1>1, Rest
<1>4. d \in Nat /\ d <= all
    <2> HIDE DEF all
    <2> QED
        BY <1>1 DEF all
<1> HIDE DEF r, size, all
<1>5. size \in Nat /\ \A k \in 1..size : k + d \in 1..all
    BY <1>1, <1>3, <1>4
<1>6. \A k \in 1..size : r[k] \in [of : 0..Len(s), pos : Nat]
    BY <1>2, ElementOfSeq DEF size
<1>7. BytesOf(r, s)
    <2>1. \A k \in 1..all : IF q[k].of = 0 THEN q[k].pos = 0
                            ELSE q[k].pos \in 1..s[q[k].of].bytes
        BY DEF Stream, BytesOf, all
    <2> QED
        BY <1>2, <1>3, <1>5, <2>1 DEF BytesOf, size
<1>8. \A k \in 1..size : At(r, k) = At(q, k + d) - d /\ At(q, k + d) \in Int
    BY <1>3, <1>4, <1>5, <1>6 DEF At
<1>9. Together(r, s)
    <2> SUFFICES ASSUME NEW k \in 1..size, r[k].of # 0
                 PROVE  /\ At(r, k) + s[r[k].of].bytes <= size
                        /\ \A j \in 1..size :
                             At(r, k) < j /\ j <= At(r, k) + s[r[k].of].bytes =>
                                 r[j] = Byte(r[k].of, j - At(r, k))
        BY DEF Together, size
    <2>1. r[k] = q[k + d] /\ k + d \in 1..all /\ r[k].of \in 1..Len(s)
        BY <1>1, <1>3, <1>5, <1>6
    <2> DEFINE n == s[r[k].of].bytes
    <2>2. n \in Nat
        BY <2>1, FrameSent
    <2>3. /\ At(q, k + d) + s[r[k].of].bytes <= all
          /\ \A j \in 1..all :
               At(q, k + d) < j /\ j <= At(q, k + d) + s[r[k].of].bytes =>
                   q[j] = Byte(r[k].of, j - At(q, k + d))
        BY <2>1 DEF Stream, Together, all
    <2> HIDE DEF n
    <2>4. At(r, k) = At(q, k + d) - d /\ At(q, k + d) \in Int
        BY <1>8
    <2>5. ASSUME NEW j \in 1..size, At(r, k) < j, j <= At(r, k) + n
          PROVE  r[j] = Byte(r[k].of, j - At(r, k))
        <3>1. At(q, k + d) < j + d /\ j + d <= At(q, k + d) + n
              /\ (j + d) - At(q, k + d) = j - At(r, k)
            BY <1>4, <1>5, <2>2, <2>4, <2>5
        <3>2. q[j + d] = Byte(r[k].of, (j + d) - At(q, k + d))
            BY <1>5, <2>3, <3>1 DEF n
        <3> QED
            BY <1>3, <3>1, <3>2
    <2>6. At(r, k) + n <= size
        <3>1. At(q, k + d) + n <= all
            BY <2>3 DEF n
        <3> QED
            BY <1>1, <1>3, <1>4, <2>2, <2>4, <3>1
    <2> QED
        BY <2>5, <2>6 DEF n
<1>10. InOrder(r)
    <2> SUFFICES ASSUME NEW j \in 1..size, NEW k \in 1..size,
                        j < k, r[j].of # 0, r[k].of # 0
                 PROVE  r[j].of < r[k].of \/ (r[j].of = r[k].of /\ At(r, j) = At(r, k))
        BY DEF InOrder, size
    <2>1. j + d \in 1..all /\ k + d \in 1..all
        BY <1>5
    <2>2. j \in Nat /\ k \in Nat /\ d \in Nat
        BY <1>4, <1>5
    <2>3. j + d < k + d
        BY <2>2
    <2>4. q[j + d].of < q[k + d].of
          \/ (q[j + d].of = q[k + d].of /\ At(q, j + d) = At(q, k + d))
        BY <1>3, <2>1, <2>3 DEF Stream, InOrder, all
    <2> QED
        BY <1>3, <1>8, <2>4
<1>11. NoneMissing(r, s)
    <2> SUFFICES ASSUME NEW f \in Begin(r, s), NEW h \in 1..Len(s), f <= h
                 PROVE  h \in Begin(r, s)
        BY DEF NoneMissing
    <2>1. PICK k \in 1..size : r[k] = Byte(f, 1)
        BY DEF Begin, size
    <2>2. q[k + d] = Byte(f, 1) /\ k + d \in 1..all /\ f \in 1..Len(s)
        BY <1>3, <1>5, <2>1 DEF Begin
    <2>3. h \in Begin(q, s)
        BY <2>2 DEF Begin, Stream, NoneMissing, all
    <2>4. PICK m \in 1..all : q[m] = Byte(h, 1)
        BY <2>3 DEF Begin, all
    <2>5. CASE f = h
        BY <2>5 DEF Begin
    <2>6. CASE f # h
        <3>1. /\ q[m].of = h /\ q[k + d].of = f /\ h # 0 /\ f # 0 /\ f < h
              /\ f \in Nat /\ h \in Nat
            BY <1>1, <2>2, <2>4, <2>6 DEF Byte
        <3>2. ~(m < k + d)
            <4>1. ~(q[m].of < q[k + d].of) /\ q[m].of # q[k + d].of
                BY <3>1
            <4> QED
                BY <2>2, <3>1, <4>1 DEF Stream, InOrder, all
        <3>3. m # k + d
            BY <3>1
        <3>4. m - d \in 1..size /\ (m - d) + d = m
            <4>1. m \in Nat /\ k \in Nat /\ k >= 1 /\ m <= all
                BY <1>1, <1>5
            <4> QED
                BY <1>1, <1>3, <1>4, <3>2, <3>3, <4>1
        <3>5. r[m - d] = Byte(h, 1)
            BY <1>3, <2>4, <3>4
        <3> QED
            BY <3>4, <3>5 DEF Begin, size
    <2> QED
        BY <2>5, <2>6
<1> QED
    BY <1>7, <1>9, <1>10, <1>11 DEF Stream, r, all

\* The module sends a frame.
LEMMA StreamSend ==
    ASSUME NEW s \in Seq(Kind), NEW q, Stream(q, s), NEW kind \in Kind
    PROVE  LET t == Append(s, kind)
               r == q \o [k \in 1..kind.bytes |-> Byte(Len(s) + 1, k)]
           IN  Stream(r, t) /\ Begin(r, t) = Begin(q, s) \cup {Len(s) + 1}
<1> DEFINE last == Len(s)
           n == kind.bytes
           t == Append(s, kind)
           b == [k \in 1..n |-> Byte(last + 1, k)]
           r == q \o b
           all == Len(q)
           size == Len(r)
           S == [of : 0..Len(t), pos : Nat]
<1>1. n \in Nat /\ n >= 1
    BY FrameAssumption
<1>2. q \in Seq([of : 0..last, pos : Nat]) /\ last \in Nat /\ all \in Nat
    BY LenProperties DEF Stream, BytesOf
<1>3. /\ t \in Seq(Kind) /\ Len(t) = last + 1 /\ t[last + 1] = kind
      /\ \A f \in 1..last : t[f] = s[f]
    BY AppendProperties
<1> HIDE DEF t, n, last, all
<1>4. b \in Seq(S) /\ Len(b) = n /\ \A k \in 1..n : b[k] = Byte(last + 1, k)
    <2>1. \A k \in 1..n : Byte(last + 1, k) \in S
        BY <1>1, <1>2, <1>3 DEF Byte
    <2> QED
        BY <1>1, <2>1, FrameBytes
<1>5. q \in Seq(S)
    <2>1. [of : 0..last, pos : Nat] \subseteq S
        BY <1>2, <1>3
    <2> QED
        BY <1>2, <2>1, SeqMonotonic
<1> HIDE DEF b
<1>6. /\ r \in Seq(S) /\ size = all + n
      /\ \A k \in 1..all + n : r[k] = IF k <= all THEN q[k] ELSE b[k - all]
    BY <1>4, <1>5, ConcatProperties DEF all
<1> HIDE DEF r, size, S
<1>7. \A k \in 1..size : /\ k <= all => k \in 1..all /\ r[k] = q[k]
                         /\ ~(k <= all) => r[k] = Byte(last + 1, k - all) /\ k - all \in 1..n
    BY <1>1, <1>2, <1>4, <1>6
<1>8. \A k \in 1..all : k \in 1..size /\ k <= all /\ q[k].of \in 0..last /\ q[k].pos \in Nat
    <2>1. \A k \in 1..all : k \in 1..size /\ k <= all
        BY <1>1, <1>2, <1>6
    <2>2. \A k \in 1..all : q[k] \in [of : 0..last, pos : Nat]
        BY <1>2, ElementOfSeq DEF all
    <2> QED
        BY <2>1, <2>2
<1>9. \A k \in 1..size : /\ k <= all => At(r, k) = At(q, k)
                         /\ ~(k <= all) => At(r, k) = all /\ r[k].of = last + 1
    <2> SUFFICES ASSUME NEW k \in 1..size
                 PROVE  /\ k <= all => At(r, k) = At(q, k)
                        /\ ~(k <= all) => At(r, k) = all /\ r[k].of = last + 1
        OBVIOUS
    <2>1. k \in Nat
        BY <1>1, <1>2, <1>6
    <2>2. CASE k <= all
        <3>1. r[k] = q[k]
            BY <1>7, <2>2
        <3> QED
            BY <2>2, <3>1 DEF At
    <2>3. CASE ~(k <= all)
        <3>1. r[k] = Byte(last + 1, k - all)
            BY <1>7, <2>3
        <3>2. r[k].of = last + 1 /\ r[k].pos = k - all
            BY <3>1 DEF Byte
        <3> QED
            BY <1>2, <2>1, <2>3, <3>2 DEF At
    <2> QED
        BY <2>2, <2>3
<1>10. BytesOf(r, t)
    <2> SUFFICES ASSUME NEW k \in 1..size
                 PROVE  IF r[k].of = 0 THEN r[k].pos = 0 ELSE r[k].pos \in 1..t[r[k].of].bytes
        BY <1>6 DEF BytesOf, size, S
    <2>1. CASE k <= all
        <3>1. IF q[k].of = 0 THEN q[k].pos = 0 ELSE q[k].pos \in 1..s[q[k].of].bytes
            BY <1>7, <2>1 DEF Stream, BytesOf, all
        <3>2. q[k].of # 0 => q[k].of \in 1..last
            BY <1>2, <1>7, <1>8, <2>1
        <3> QED
            BY <1>3, <1>7, <2>1, <3>1, <3>2
    <2>2. CASE ~(k <= all)
        <3>1. r[k] = Byte(last + 1, k - all) /\ k - all \in 1..n
            BY <1>7, <2>2
        <3>2. r[k].of = last + 1 /\ r[k].pos \in 1..n
            BY <3>1 DEF Byte
        <3>3. last + 1 # 0
            BY <1>2
        <3> QED
            BY <1>3, <3>2, <3>3 DEF n
    <2> QED
        BY <2>1, <2>2
<1>11. Together(r, t)
    <2> SUFFICES ASSUME NEW k \in 1..size, r[k].of # 0
                 PROVE  /\ At(r, k) + t[r[k].of].bytes <= size
                        /\ \A j \in 1..size :
                             At(r, k) < j /\ j <= At(r, k) + t[r[k].of].bytes =>
                                 r[j] = Byte(r[k].of, j - At(r, k))
        BY DEF Together, size
    <2>1. CASE k <= all
        <3> DEFINE m == s[q[k].of].bytes
        <3>1. q[k].of \in 1..last /\ k \in 1..all
            BY <1>2, <1>7, <1>8, <2>1
        <3>2. /\ r[k].of = q[k].of /\ t[r[k].of].bytes = m /\ At(r, k) = At(q, k)
            BY <1>3, <1>7, <1>9, <2>1, <3>1
        <3>3. /\ At(q, k) + m <= all
              /\ \A j \in 1..all : At(q, k) < j /\ j <= At(q, k) + m =>
                                       q[j] = Byte(q[k].of, j - At(q, k))
            BY <3>1 DEF Stream, Together, all
        <3>4. m \in Nat /\ At(q, k) \in Int
            BY <1>8, <3>1, FrameSent DEF last, At
        <3> HIDE DEF m
        <3>5. ASSUME NEW j \in 1..size, At(q, k) < j, j <= At(q, k) + m
              PROVE  r[j] = Byte(q[k].of, j - At(q, k))
            <4>1. j \in 1..all /\ j <= all
                BY <1>1, <1>2, <1>6, <3>3, <3>4, <3>5
            <4> QED
                BY <1>7, <3>3, <3>5, <4>1
        <3>6. At(q, k) + m <= size
            BY <1>1, <1>2, <1>6, <3>3, <3>4
        <3> QED
            BY <3>2, <3>5, <3>6
    <2>2. CASE ~(k <= all)
        <3>1. At(r, k) = all /\ r[k].of = last + 1 /\ t[r[k].of].bytes = n
            BY <1>3, <1>9, <2>2 DEF n
        <3>2. ASSUME NEW j \in 1..size, all < j
              PROVE  r[j] = Byte(last + 1, j - all)
            <4>1. ~(j <= all)
                BY <1>2, <3>2
            <4> QED
                BY <1>7, <4>1
        <3> QED
            BY <1>1, <1>2, <1>6, <3>1, <3>2
    <2> QED
        BY <2>1, <2>2
<1>12. InOrder(r)
    <2> SUFFICES ASSUME NEW j \in 1..size, NEW k \in 1..size,
                        j < k, r[j].of # 0, r[k].of # 0
                 PROVE  r[j].of < r[k].of \/ (r[j].of = r[k].of /\ At(r, j) = At(r, k))
        BY DEF InOrder, size
    <2>1. j \in Nat /\ k \in Nat /\ all \in Nat
        BY <1>1, <1>2, <1>6
    <2>2. CASE k <= all
        <3>1. j <= all
            BY <2>1, <2>2
        <3>2. j \in 1..all /\ k \in 1..all /\ r[j] = q[j] /\ r[k] = q[k]
              /\ At(r, j) = At(q, j) /\ At(r, k) = At(q, k)
            BY <1>7, <1>9, <2>2, <3>1
        <3> QED
            BY <3>2 DEF Stream, InOrder, all
    <2>3. CASE ~(k <= all) /\ j <= all
        <3>1. r[j].of \in 0..last /\ r[k].of = last + 1
            BY <1>7, <1>8, <1>9, <2>3
        <3> QED
            BY <1>2, <3>1
    <2>4. CASE ~(k <= all) /\ ~(j <= all)
        BY <1>9, <2>4
    <2> QED
        BY <2>2, <2>3, <2>4
<1>13. Begin(r, t) = Begin(q, s) \cup {last + 1}
    <2>1. ASSUME NEW f \in Begin(r, t)
          PROVE  f \in Begin(q, s) \cup {last + 1}
        <3>1. PICK k \in 1..size : r[k] = Byte(f, 1)
            BY DEF Begin, size
        <3>2. f \in 1..last + 1
            BY <1>3 DEF Begin
        <3>3. CASE k <= all
            <4>1. k \in 1..all /\ q[k] = Byte(f, 1)
                BY <1>7, <3>1, <3>3
            <4>2. f \in 0..last
                BY <1>8, <4>1 DEF Byte
            <4>3. f \in 1..last
                BY <1>2, <3>2, <4>2
            <4> QED
                BY <4>1, <4>3 DEF Begin, all, last
        <3>4. CASE ~(k <= all)
            BY <1>9, <3>1, <3>4 DEF Byte
        <3> QED
            BY <3>3, <3>4
    <2>2. ASSUME NEW f \in Begin(q, s)
          PROVE  f \in Begin(r, t)
        <3>1. PICK k \in 1..all : q[k] = Byte(f, 1)
            BY DEF Begin, all
        <3>2. k \in 1..size /\ r[k] = Byte(f, 1)
            BY <1>7, <1>8, <3>1
        <3>3. f \in 1..Len(t)
            BY <1>2, <1>3 DEF Begin, last
        <3> QED
            BY <3>2, <3>3 DEF Begin, size
    <2>3. last + 1 \in Begin(r, t)
        <3>1. all + 1 \in 1..size /\ ~(all + 1 <= all) /\ (all + 1) - all = 1
            BY <1>1, <1>2, <1>6
        <3>2. r[all + 1] = Byte(last + 1, 1)
            BY <1>7, <3>1
        <3>3. last + 1 \in 1..Len(t)
            BY <1>2, <1>3
        <3> QED
            BY <3>1, <3>2, <3>3 DEF Begin, size
    <2> QED
        BY <2>1, <2>2, <2>3
<1>14. NoneMissing(r, t)
    <2> SUFFICES ASSUME NEW f \in Begin(r, t), NEW h \in 1..Len(t), f <= h
                 PROVE  h \in Begin(r, t)
        BY DEF NoneMissing
    <2>1. CASE h = last + 1
        BY <1>13, <2>1
    <2>2. CASE h # last + 1
        <3>1. h \in 1..last /\ f # last + 1
            BY <1>2, <1>3, <2>2
        <3>2. f \in Begin(q, s)
            BY <1>13, <3>1
        <3> QED
            BY <1>13, <3>1, <3>2 DEF Stream, NoneMissing, last
    <2> QED
        BY <2>1, <2>2
<1> QED
    BY <1>10, <1>11, <1>12, <1>13, <1>14 DEF Stream, r, t, b, last, n

\* Noise comes.
LEMMA StreamNoise ==
    ASSUME NEW s \in Seq(Kind), NEW q, Stream(q, s)
    PROVE  Stream(Append(q, Noise), s) /\ Begin(Append(q, Noise), s) = Begin(q, s)
<1> DEFINE r == Append(q, Noise)
           all == Len(q)
           size == Len(r)
           S == [of : 0..Len(s), pos : Nat]
<1>1. q \in Seq(S) /\ all \in Nat /\ Len(s) \in Nat
    BY LenProperties DEF Stream, BytesOf
<1>2. Noise \in S
    BY <1>1 DEF Noise, Byte
<1> HIDE DEF all, S
<1>3. r \in Seq(S) /\ size = all + 1 /\ r[all + 1] = Noise /\ \A k \in 1..all : r[k] = q[k]
    BY <1>1, <1>2, AppendProperties DEF all
<1> HIDE DEF r, size
<1>4. \A k \in 1..size : k \in 1..all \/ (k = all + 1 /\ r[k] = Noise)
    BY <1>1, <1>3
<1>5. \A k \in 1..all : k \in 1..size /\ At(r, k) = At(q, k) /\ r[k] = q[k]
    BY <1>1, <1>3 DEF At
<1>6. Noise.of = 0 /\ Noise.pos = 0
    BY DEF Noise, Byte
<1>7. BytesOf(r, s)
    <2>1. \A k \in 1..all : IF q[k].of = 0 THEN q[k].pos = 0
                            ELSE q[k].pos \in 1..s[q[k].of].bytes
        BY DEF Stream, BytesOf, all
    <2> QED
        BY <1>3, <1>4, <1>5, <1>6, <2>1 DEF BytesOf, size, S
<1>8. Together(r, s)
    <2> SUFFICES ASSUME NEW k \in 1..size, r[k].of # 0
                 PROVE  /\ At(r, k) + s[r[k].of].bytes <= size
                        /\ \A j \in 1..size :
                             At(r, k) < j /\ j <= At(r, k) + s[r[k].of].bytes =>
                                 r[j] = Byte(r[k].of, j - At(r, k))
        BY DEF Together, size
    <2> DEFINE m == s[q[k].of].bytes
    <2>1. k \in 1..all /\ r[k] = q[k] /\ At(r, k) = At(q, k)
        BY <1>4, <1>5, <1>6
    <2>2. /\ At(q, k) + m <= all
          /\ \A j \in 1..all : At(q, k) < j /\ j <= At(q, k) + m =>
                                   q[j] = Byte(q[k].of, j - At(q, k))
        BY <2>1 DEF Stream, Together, all
    <2>3. q[k] \in S
        BY <1>1, <2>1, ElementOfSeq DEF all
    <2>4. q[k].of \in 0..Len(s) /\ q[k].pos \in Nat
        BY <2>3 DEF S
    <2>5. q[k].of \in 1..Len(s)
        BY <1>1, <2>1, <2>4
    <2>6. m \in Nat /\ At(q, k) \in Int
        BY <1>1, <2>1, <2>4, <2>5, FrameSent DEF At
    <2> HIDE DEF m
    <2>7. At(q, k) + m <= size
        BY <1>1, <1>3, <2>2, <2>6
    <2>8. ASSUME NEW j \in 1..size, At(q, k) < j, j <= At(q, k) + m
          PROVE  r[j] = Byte(q[k].of, j - At(q, k))
        <3>1. j \in 1..all
            BY <1>1, <1>3, <2>2, <2>6, <2>8
        <3> QED
            BY <1>5, <2>2, <2>8, <3>1
    <2> QED
        BY <2>1, <2>7, <2>8 DEF m
<1>9. InOrder(r)
    <2> SUFFICES ASSUME NEW j \in 1..size, NEW k \in 1..size,
                        j < k, r[j].of # 0, r[k].of # 0
                 PROVE  r[j].of < r[k].of \/ (r[j].of = r[k].of /\ At(r, j) = At(r, k))
        BY DEF InOrder, size
    <2>1. j \in 1..all /\ k \in 1..all
        BY <1>4, <1>6
    <2> QED
        BY <1>5, <2>1 DEF Stream, InOrder, all
<1>10. Begin(r, s) = Begin(q, s)
    <2>1. ASSUME NEW f, NEW k \in 1..size, r[k] = Byte(f, 1)
          PROVE  k \in 1..all /\ q[k] = Byte(f, 1)
        BY <1>4, <1>5, <1>6, <2>1 DEF Byte
    <2> QED
        BY <1>5, <2>1 DEF Begin, size, all
<1>11. NoneMissing(r, s)
    BY <1>10 DEF Stream, NoneMissing
<1> QED
    BY <1>7, <1>8, <1>9, <1>10, <1>11 DEF Stream, r

-----------------------------------------------------------------------------
(* The frames that begin in the bytes are the last ones sent. *)

LEMMA LastSent ==
    ASSUME NEW s \in Seq(Kind), NEW q, NoneMissing(q, s)
    PROVE  \E g \in 0..Len(s) : /\ Begin(q, s) = g + 1..Len(s)
                                /\ Cardinality(Begin(q, s)) = Len(s) - g
<1> DEFINE n == Len(s)
           T == {g \in 0..n : g + 1..n \subseteq Begin(q, s)}
<1>1. n \in Nat
    BY LenProperties
<1>2. Begin(q, s) \subseteq 1..n
    BY DEF Begin
<1>3. n \in T
    <2>1. n + 1..n = {}
        BY <1>1
    <2> QED
        BY <1>1, <2>1
<1>4. PICK g \in T : \A j \in T : g <= j
    <2>1. T \subseteq Nat
        BY <1>1
    <2> HIDE DEF T
    <2> QED
        BY <1>3, <2>1, LeastOfNat
<1>5. g \in 0..n /\ g \in Nat /\ g + 1..n \subseteq Begin(q, s)
    BY <1>1
<1>6. ASSUME NEW f \in Begin(q, s) PROVE f \in g + 1..n
    <2>1. f \in 1..n /\ f \in Nat /\ f >= 1
        BY <1>1, <1>2, <1>6
    <2>2. CASE f <= g
        <3>1. f - 1 \in 0..n /\ (f - 1) + 1 = f
            BY <1>1, <2>1
        <3>2. f..n \subseteq Begin(q, s)
            BY <1>1, <1>6, <2>1 DEF NoneMissing
        <3>3. f - 1 \in T
            BY <3>1, <3>2
        <3>4. g <= f - 1
            BY <1>4, <3>3
        <3> QED
            BY <1>5, <2>1, <2>2, <3>4
    <2> QED
        BY <1>5, <2>1, <2>2
<1>7. Begin(q, s) = g + 1..n
    BY <1>5, <1>6
<1>8. Cardinality(g + 1..n) = n - g
    <2>1. g + 1 \in Int /\ n \in Int
        BY <1>1, <1>5
    <2>2. Cardinality(g + 1..n) = IF g + 1 > n THEN 0 ELSE n - (g + 1) + 1
        BY <2>1, FS_Interval
    <2> QED
        BY <1>1, <1>5, <2>2
<1> QED
    BY <1>5, <1>7, <1>8

\* Of them those whose first byte is taken from the front are no longer among them.
LEMMA BeginDrop ==
    ASSUME NEW s \in Seq(Kind), NEW q, Stream(q, s), NEW d \in 0..Len(q),
           NEW g \in 0..Len(s), Begin(q, s) = g + 1..Len(s),
           NEW h \in 0..Len(s), Begin(SubSeq(q, d + 1, Len(q)), s) = h + 1..Len(s)
    PROVE  /\ g <= h
           /\ \A f \in g + 1..h : \E k \in 1..d : q[k] = Byte(f, 1)
           /\ \A k \in 1..d : q[k].pos = 1 =>
                  q[k].of \in g + 1..h /\ q[k] = Byte(q[k].of, 1)
<1> DEFINE r == SubSeq(q, d + 1, Len(q))
           all == Len(q)
           size == Len(r)
           n == Len(s)
<1>1. q \in Seq([of : 0..n, pos : Nat]) /\ n \in Nat /\ all \in Nat
    BY LenProperties DEF Stream, BytesOf
<1>2. size = all - d /\ \A k \in 1..size : r[k] = q[k + d] /\ k + d \in 1..all
    BY <1>1, Rest
<1>3. d \in Nat /\ d <= all /\ g \in Nat /\ h \in Nat /\ g <= n /\ h <= n
    <2> HIDE DEF all, n
    <2> QED
        BY <1>1 DEF all, n
<1> HIDE DEF r, size, all, n
<1>4. Begin(q, s) = g + 1..n /\ Begin(r, s) = h + 1..n
    BY Zenon DEF r, n
<1>5. \A k \in 1..all : q[k] \in [of : 0..n, pos : Nat]
    BY <1>1, ElementOfSeq DEF all
<1>6. Begin(r, s) \subseteq Begin(q, s)
    BY <1>2 DEF Begin, all, size
<1>7. g <= h
    <2>1. CASE h = n
        BY <1>3, <2>1
    <2>2. CASE h # n
        <3>1. h + 1 \in h + 1..n
            BY <1>1, <1>3, <2>2
        <3>2. h + 1 \in g + 1..n
            BY <1>4, <1>6, <3>1
        <3> QED
            BY <1>1, <1>3, <3>2
    <2> QED
        BY <2>1, <2>2
<1>8. ASSUME NEW f \in g + 1..h PROVE \E k \in 1..d : q[k] = Byte(f, 1)
    <2>1. f \in g + 1..n /\ ~(f \in h + 1..n) /\ f \in 1..n
        BY <1>1, <1>3
    <2>2. PICK k \in 1..all : q[k] = Byte(f, 1)
        BY <1>4, <2>1 DEF Begin, all
    <2>3. CASE k <= d
        BY <1>1, <1>3, <2>2, <2>3
    <2>4. CASE ~(k <= d)
        <3>1. k - d \in 1..size /\ (k - d) + d = k
            BY <1>1, <1>2, <1>3, <2>4
        <3>2. r[k - d] = Byte(f, 1)
            BY <1>2, <2>2, <3>1
        <3>3. f \in Begin(r, s)
            BY <2>1, <3>1, <3>2 DEF Begin, size, n
        <3> QED
            BY <1>4, <2>1, <3>3
    <2> QED
        BY <2>3, <2>4
<1>9. ASSUME NEW k \in 1..d, q[k].pos = 1
      PROVE  q[k].of \in g + 1..h /\ q[k] = Byte(q[k].of, 1)
    <2> DEFINE f == q[k].of
    <2>1. k \in 1..all
        BY <1>1, <1>3
    <2>2. q[k] = Byte(f, 1)
        <3>1. q[k] \in [of : 0..n, pos : Nat]
            BY <1>5, <2>1
        <3> QED
            BY <1>9, <3>1 DEF Byte
    <2>3. f # 0 /\ f \in 0..n
        BY <1>5, <1>9, <2>1 DEF Stream, BytesOf, all
    <2> HIDE DEF f
    <2>4. f \in 1..n
        BY <1>1, <2>3
    <2>5. f \in g + 1..n
        BY <1>4, <2>1, <2>2, <2>4 DEF Begin, all, n
    <2>6. ~(f \in Begin(r, s))
        <3> SUFFICES ASSUME NEW m \in 1..size, r[m] = Byte(f, 1)
                     PROVE  FALSE
            BY DEF Begin, size
        <3>1. m + d \in 1..all /\ q[m + d] = Byte(f, 1)
            BY <1>2
        <3>2. m \in Nat /\ m >= 1 /\ k \in Nat /\ k <= d
            <4>1. size \in Int /\ d \in Nat
                BY <1>1, <1>2, <1>3
            <4> QED
                BY <4>1
        <3>3. k < m + d
            BY <1>3, <3>2
        <3>4. /\ q[k].of = f /\ q[m + d].of = f /\ q[k].pos = 1 /\ q[m + d].pos = 1
            BY <2>2, <3>1 DEF Byte
        <3>5. ~(f < f)
            BY <1>1, <2>3
        <3>6. At(q, k) = At(q, m + d)
            BY <2>1, <2>3, <3>1, <3>3, <3>4, <3>5 DEF Stream, InOrder, all
        <3> QED
            BY <1>3, <3>3, <3>4, <3>6, <3>2 DEF At
    <2>7. ~(f \in h + 1..n)
        BY <1>4, <2>6
    <2>8. f \in g + 1..h
        BY <1>1, <1>3, <2>5, <2>7
    <2> QED
        BY <2>2, <2>8 DEF f
<1> QED
    BY <1>7, <1>8, <1>9

-----------------------------------------------------------------------------
(* How many undamaged frames begin in one buffer of bytes. *)

\* A frame that receiveMessage can return.
Ok(s, f) == s[f].bytes = Header + s[f].len /\ s[f].bytes <= MsgSize

LEMMA Quotient ==
    ASSUME NEW n \in Nat, NEW a \in Nat, n >= 1
    PROVE  a \div n \in Nat /\ n * (a \div n) <= a /\ a < n * (a \div n) + n
    OBVIOUS

LEMMA TimesMonotonic ==
    ASSUME NEW n \in Nat, NEW a \in Nat, NEW b \in Nat, a <= b
    PROVE  n * a <= n * b
    OBVIOUS

\* Numbers at least n apart have different quotients, and the quotient grows.
LEMMA QuotientGrows ==
    ASSUME NEW n \in Nat, NEW a \in Nat, NEW b \in Nat, n >= 1
    PROVE  /\ a + n <= b => a \div n < b \div n
           /\ a <= b => a \div n <= b \div n
<1> DEFINE u == a \div n
           v == b \div n
<1>1. /\ u \in Nat /\ n * u <= a /\ a < n * u + n
      /\ v \in Nat /\ n * v <= b /\ b < n * v + n
    BY Quotient
<1> HIDE DEF u, v
<1>2. n * u \in Nat /\ n * v \in Nat /\ n * (v + 1) = n * v + n
    BY <1>1
<1>3. ASSUME a + n <= b PROVE u < v
    <2>1. v <= u => n * v <= n * u
        BY <1>1, TimesMonotonic
    <2> QED
        BY <1>1, <1>2, <1>3, <2>1
<1>4. ASSUME a <= b PROVE u <= v
    <2>1. v + 1 <= u => n * (v + 1) <= n * u
        BY <1>1, TimesMonotonic
    <2> QED
        BY <1>1, <1>2, <1>4, <2>1
<1> QED
    BY <1>3, <1>4 DEF u, v

\* Where an undamaged frame begins the next Header bytes are its own.
LEMMA OkApart ==
    ASSUME NEW s \in Seq(Kind), NEW q, Stream(q, s),
           NEW e \in 1..Len(s), NEW f \in 1..Len(s), e < f, Ok(s, e),
           NEW j \in 1..Len(q), q[j] = Byte(e, 1), NEW k \in 1..Len(q), q[k] = Byte(f, 1)
    PROVE  j + Header <= k
<1> DEFINE all == Len(q)
           m == s[e].bytes
<1>1. all \in Nat /\ Len(s) \in Nat
    BY LenProperties DEF Stream, BytesOf
<1>2. m \in Nat /\ m >= Header /\ Header \in Nat
    <2>1. s[e].bytes \in Nat /\ s[e].len \in Nat
        BY FrameSent
    <2> QED
        BY <2>1, FrameAssumption DEF Ok
<1>3. q[j].of = e /\ q[j].pos = 1 /\ q[k].of = f /\ q[k].pos = 1
    BY DEF Byte
<1> HIDE DEF all, m
<1>4. j \in 1..all /\ k \in 1..all /\ j \in Nat /\ k \in Nat
    BY <1>1 DEF all
<1>5. e \in Nat /\ f \in Nat /\ e # 0 /\ f # 0 /\ e # f /\ ~(f < e)
    BY <1>1
<1>6. ~(k < j)
    BY <1>3, <1>4, <1>5 DEF Stream, InOrder, all
<1>7. At(q, j) = j - 1
    BY <1>3 DEF At
<1>8. ASSUME j <= k, k < j + Header PROVE FALSE
    <2>1. At(q, j) < k /\ k <= At(q, j) + m
        BY <1>2, <1>4, <1>7, <1>8
    <2>2. q[k] = Byte(e, k - At(q, j))
        BY <1>3, <1>4, <1>5, <2>1 DEF Stream, Together, all, m
    <2> QED
        BY <1>3, <1>5, <2>2 DEF Byte
<1> QED
    BY <1>2, <1>4, <1>6, <1>8

LEMMA OkCount ==
    ASSUME NEW s \in Seq(Kind), NEW q, Stream(q, s), NEW d \in 0..Len(q), d <= MsgSize,
           NEW g \in 0..Len(s), NEW h \in 0..Len(s),
           \A f \in g + 1..h : \E k \in 1..d : q[k] = Byte(f, 1),
           \A k \in 1..d : q[k].pos = 1 /\ Ok(s, q[k].of) => k >= 2
    PROVE  Cardinality({j \in 1..h - g : Ok(s, g + j)}) <= 1 + (MsgSize - 2) \div Header
<1> DEFINE J == {j \in 1..h - g : Ok(s, g + j)}
           all == Len(q)
           n == Len(s)
           spot(j) == CHOOSE k \in 1..d : q[k] = Byte(g + j, 1)
           v == (MsgSize - 2) \div Header
           F == [j \in J |-> (spot(j) - 2) \div Header]
<1>1. all \in Nat /\ n \in Nat
    BY LenProperties DEF Stream, BytesOf
<1>2. Header \in Nat /\ Header >= 1 /\ MsgSize - 2 \in Nat /\ MsgSize \in Nat
    BY FrameAssumption
<1>3. d \in Nat /\ d <= all /\ g \in Nat /\ h \in Nat /\ g <= n /\ h <= n
    <2> HIDE DEF all, n
    <2> QED
        BY <1>1 DEF all, n
<1>4. \A j \in J : j \in Nat /\ g + j \in g + 1..h /\ g + j \in 1..n /\ Ok(s, g + j)
    <2> HIDE DEF n
    <2> QED
        BY <1>1, <1>3
<1>5. \A j \in J : spot(j) \in 1..d /\ q[spot(j)] = Byte(g + j, 1)
    BY <1>4
<1> HIDE DEF J, all, n, spot, v
<1>6. \A j \in J : spot(j) \in Nat /\ spot(j) \in 1..all /\ spot(j) >= 2 /\ spot(j) <= d
    <2> SUFFICES ASSUME NEW j \in J
                 PROVE  /\ spot(j) \in Nat /\ spot(j) \in 1..all
                        /\ spot(j) >= 2 /\ spot(j) <= d
        OBVIOUS
    <2> DEFINE x == spot(j)
    <2>1. x \in 1..d
        BY <1>5
    <2> HIDE DEF x
    <2>2. x \in Nat /\ x \in 1..all /\ x <= d
        BY <1>1, <1>3, <2>1
    <2>3. spot(j) \in Nat /\ spot(j) \in 1..all /\ spot(j) <= d
        BY <2>2 DEF x
    <2>4. q[spot(j)] = Byte(g + j, 1)
        BY <1>5
    <2>5. q[spot(j)].pos = 1 /\ q[spot(j)].of = g + j
        BY <2>4 DEF Byte
    <2>6. spot(j) >= 2
        BY <1>4, <1>5, <2>5
    <2> QED
        BY <2>3, <2>6
<1>7. \A i, j \in J : i < j => spot(i) + Header <= spot(j)
    <2> SUFFICES ASSUME NEW i \in J, NEW j \in J, i < j
                 PROVE  spot(i) + Header <= spot(j)
        OBVIOUS
    <2>1. g + i < g + j
        BY <1>3, <1>4
    <2> QED
        BY <1>4, <1>5, <1>6, <2>1, OkApart DEF all, n
<1>8. v \in Nat
    BY <1>2, Quotient DEF v
<1>9. \A j \in J : (spot(j) - 2) \div Header \in 0..v
    <2> SUFFICES ASSUME NEW j \in J
                 PROVE  (spot(j) - 2) \div Header \in 0..v
        OBVIOUS
    <2> DEFINE a == spot(j) - 2
    <2>1. a \in Nat /\ a <= MsgSize - 2
        BY <1>2, <1>3, <1>6
    <2> HIDE DEF a
    <2>2. a \div Header \in Nat /\ a \div Header <= (MsgSize - 2) \div Header
        BY <1>2, <2>1, Quotient, QuotientGrows
    <2>3. a \div Header \in 0..v
        BY <1>8, <2>2 DEF v
    <2> QED
        BY <2>3 DEF a
<1>10. \A i, j \in J : i < j => (spot(i) - 2) \div Header < (spot(j) - 2) \div Header
    <2> SUFFICES ASSUME NEW i \in J, NEW j \in J, i < j
                 PROVE  (spot(i) - 2) \div Header < (spot(j) - 2) \div Header
        OBVIOUS
    <2> DEFINE a == spot(i) - 2
               b == spot(j) - 2
    <2>1. a \in Nat /\ b \in Nat /\ a + Header <= b
        BY <1>2, <1>6, <1>7
    <2> HIDE DEF a, b
    <2>2. a \div Header < b \div Header
        BY <1>2, <2>1, QuotientGrows
    <2> QED
        BY <2>2 DEF a, b
<1>11. F \in Injection(J, 0..v)
    <2>1. F \in [J -> 0..v]
        BY <1>9
    <2>2. \A i, j \in J : F[i] = F[j] => i = j
        <3> SUFFICES ASSUME NEW i \in J, NEW j \in J, F[i] = F[j], i # j
                     PROVE  FALSE
            OBVIOUS
        <3>1. F[i] \in Int /\ F[j] \in Int /\ i \in Nat /\ j \in Nat
            BY <1>4, <1>8, <1>9
        <3>2. i < j \/ j < i
            BY <3>1
        <3>3. F[i] < F[j] \/ F[j] < F[i]
            BY <1>10, <3>2
        <3> QED
            BY <3>1, <3>3
    <2> HIDE DEF F
    <2> QED
        BY <2>1, <2>2 DEF Injection, IsInjective
<1> HIDE DEF F
<1>12. IsFiniteSet(0..v) /\ Cardinality(0..v) = v + 1
    <2>1. Cardinality(0..v) = IF 0 > v THEN 0 ELSE v - 0 + 1
        BY <1>8, FS_Interval
    <2> QED
        BY <1>8, <2>1, FS_Interval
<1>13. Cardinality(J) <= Cardinality(0..v)
    BY <1>11, <1>12, FS_Injection
<1> QED
    BY <1>8, <1>12, <1>13 DEF J, v

-----------------------------------------------------------------------------
(* How far back the first bytes reach. *)

\* Every byte of a frame comes behind the place its frame begins at.
Grounded(q) == \A k \in 1..Len(q) : q[k].pos <= k

\* The bytes of a frame, from where it begins up to any of them.
LEMMA FirstHere ==
    ASSUME NEW s \in Seq(Kind), NEW q, Stream(q, s), NEW k \in 1..Len(q), q[k].of # 0,
           NEW m \in Int, m >= 1, At(q, k) < m, m <= k
    PROVE  q[m] = Byte(q[k].of, m - At(q, k))
<1> DEFINE all == Len(q)
           n == s[q[k].of].bytes
<1>1. q \in Seq([of : 0..Len(s), pos : Nat]) /\ Len(s) \in Nat /\ all \in Nat
    BY LenProperties DEF Stream, BytesOf
<1>2. q[k] \in [of : 0..Len(s), pos : Nat] /\ q[k].pos \in 1..n
    BY <1>1, ElementOfSeq DEF Stream, BytesOf
<1>3. n \in Nat
    <2>1. q[k].of \in 1..Len(s)
        BY <1>1, <1>2
    <2> QED
        BY <2>1, FrameSent
<1> HIDE DEF all, n
<1>4. k \in 1..all /\ k \in Nat
    BY <1>1 DEF all
<1>5. m \in 1..all
    BY <1>1, <1>4
<1>6. At(q, k) = k - q[k].pos /\ q[k].pos \in Nat /\ q[k].pos <= n
    BY <1>2, <1>3 DEF At
<1>7. m <= At(q, k) + n
    BY <1>3, <1>4, <1>6
<1> QED
    BY <1>4, <1>5, <1>7 DEF Stream, Together, all, n

\* It stays so when no frame begins in what is taken.
LEMMA GroundedDrop ==
    ASSUME NEW s \in Seq(Kind), NEW q, Stream(q, s), NEW d \in 0..Len(q), Grounded(q),
           \A k \in 1..d : q[k].pos # 1
    PROVE  Grounded(SubSeq(q, d + 1, Len(q)))
<1> DEFINE r == SubSeq(q, d + 1, Len(q))
           all == Len(q)
           size == Len(r)
           n == Len(s)
<1>1. q \in Seq([of : 0..n, pos : Nat]) /\ n \in Nat /\ all \in Nat
    BY LenProperties DEF Stream, BytesOf
<1>2. size = all - d /\ \A k \in 1..size : r[k] = q[k + d] /\ k + d \in 1..all
    BY <1>1, Rest
<1>3. d \in Nat /\ d <= all
    <2> HIDE DEF all
    <2> QED
        BY <1>1 DEF all
<1> HIDE DEF r, size, all, n
<1> SUFFICES ASSUME NEW k \in 1..size, ~(r[k].pos <= k)
             PROVE  FALSE
    BY DEF Grounded, r, size
<1>4. k + d \in 1..all /\ r[k] = q[k + d] /\ k \in Nat
    <2>1. size \in Int
        BY <1>1, <1>2, <1>3
    <2> QED
        BY <1>2, <2>1
<1>5. q[k + d].pos <= k + d
    BY <1>4 DEF Grounded, all
<1>6. At(q, k + d) \in Int /\ q[k + d].of # 0
      /\ At(q, k + d) >= 0 /\ At(q, k + d) < d
    <2>1. q[k + d] \in [of : 0..n, pos : Nat]
        BY <1>1, <1>4, ElementOfSeq DEF all
    <2>2. q[k + d].of = 0 => q[k + d].pos = 0
        BY <1>4 DEF Stream, BytesOf, all
    <2> QED
        BY <1>3, <1>4, <1>5, <2>1, <2>2 DEF At
<1> DEFINE m == At(q, k + d) + 1
<1>7. m \in 1..d /\ m - At(q, k + d) = 1 /\ m >= 1 /\ m \in Int
      /\ At(q, k + d) < m /\ m <= k + d
    BY <1>3, <1>4, <1>6
<1>8. q[m] = Byte(q[k + d].of, m - At(q, k + d))
    BY <1>1, <1>3, <1>4, <1>6, <1>7, FirstHere DEF all
<1> HIDE DEF m
<1>9. q[m].pos = 1
    BY <1>7, <1>8 DEF Byte
<1> QED
    BY <1>7, <1>9

\* It is so when one whole frame was taken.
LEMMA GroundedWhole ==
    ASSUME NEW s \in Seq(Kind), NEW q, Stream(q, s), NEW d \in 1..Len(q), NEW f,
           d = s[f].bytes, \A k \in 1..d : q[k] = Byte(f, k)
    PROVE  Grounded(SubSeq(q, d + 1, Len(q)))
<1> DEFINE r == SubSeq(q, d + 1, Len(q))
           all == Len(q)
           size == Len(r)
           n == Len(s)
<1>1. q \in Seq([of : 0..n, pos : Nat]) /\ n \in Nat /\ all \in Nat
    BY LenProperties DEF Stream, BytesOf
<1>2. d \in 0..Len(q) /\ d \in Nat /\ d >= 1 /\ d <= all
    <2> HIDE DEF all
    <2> QED
        BY <1>1 DEF all
<1>3. size = all - d /\ \A k \in 1..size : r[k] = q[k + d] /\ k + d \in 1..all
    BY <1>2, <1>1, Rest
<1> HIDE DEF r, size, all, n
<1> SUFFICES ASSUME NEW k \in 1..size, ~(r[k].pos <= k)
             PROVE  FALSE
    BY DEF Grounded, r, size
<1>4. k + d \in 1..all /\ r[k] = q[k + d] /\ k \in Nat /\ k >= 1
    <2>1. size \in Int
        BY <1>2, <1>1, <1>3
    <2> QED
        BY <1>3, <2>1
<1> DEFINE b == q[k + d]
<1>5. b \in [of : 0..n, pos : Nat]
    BY <1>1, <1>4, ElementOfSeq DEF all
<1>6. IF b.of = 0 THEN b.pos = 0 ELSE b.pos \in 1..s[b.of].bytes
    BY <1>4 DEF Stream, BytesOf, all
<1>7. At(q, k + d) = (k + d) - b.pos
    BY DEF At
<1>8. ~(b.pos <= k)
    BY <1>4
<1> HIDE DEF b
<1>9. b.of # 0 /\ b.pos \in Nat /\ At(q, k + d) \in Int /\ At(q, k + d) < d
    <2>1. b.pos \in Nat /\ (b.of = 0 => b.pos = 0)
        BY <1>5, <1>6
    <2>2. b.of # 0
        BY <1>4, <1>8, <2>1
    <2> QED
        BY <1>2, <1>4, <1>7, <1>8, <2>1, <2>2
<1> DEFINE m == IF At(q, k + d) >= 0 THEN At(q, k + d) + 1 ELSE 1
<1>10. m \in 1..d /\ At(q, k + d) < m /\ m <= k + d /\ m \in Int /\ m >= 1
    BY <1>2, <1>4, <1>9
<1> HIDE DEF m
<1>11. q[m] = Byte(b.of, m - At(q, k + d))
    <2>1. k + d \in 1..Len(q) /\ q[k + d].of # 0
        BY <1>4, <1>9 DEF all, b
    <2>2. q[m] = Byte(q[k + d].of, m - At(q, k + d))
        BY <2>1, <1>10, FirstHere
    <2> QED
        BY <2>2 DEF b
<1>12. q[m] = Byte(f, m)
    BY <1>10
<1>13. b.of = f /\ m - At(q, k + d) = m
    BY <1>11, <1>12 DEF Byte
<1>14. At(q, k + d) = 0
    BY <1>9, <1>10, <1>13
<1>15. b.pos = k + d
    BY <1>2, <1>4, <1>7, <1>9, <1>14
<1> QED
    BY <1>2, <1>4, <1>6, <1>9, <1>13, <1>15

-----------------------------------------------------------------------------
(* The frames on their way. *)

Sent(s, f) == [id |-> f, ok |-> Ok(s, f)]

AirOf(q, s) ==
    LET n == Cardinality(Begin(q, s)) IN [k \in 1..n |-> Sent(s, Len(s) - n + k)]

LEMMA SentOk == \A s, f : Sent(s, f).ok = Ok(s, f) /\ Ok(s, f) \in BOOLEAN
    BY DEF Sent, Ok

LEMMA AirIs ==
    ASSUME NEW s \in Seq(Kind), NEW q, NoneMissing(q, s)
    PROVE  \E g \in 0..Len(s) : /\ Begin(q, s) = g + 1..Len(s)
                                /\ AirOf(q, s) = [k \in 1..Len(s) - g |-> Sent(s, g + k)]
<1> DEFINE n == Len(s)
<1>1. PICK g \in 0..n : Begin(q, s) = g + 1..n /\ Cardinality(Begin(q, s)) = n - g
    BY LastSent
<1>2. n \in Nat
    BY LenProperties
<1>3. AirOf(q, s) = [k \in 1..n - g |-> Sent(s, (n - (n - g)) + k)]
    BY <1>1 DEF AirOf
<1> HIDE DEF n
<1>4. n - (n - g) = g
    BY <1>2
<1> QED
    BY <1>1, <1>3, <1>4 DEF n

\* As many frames as begin in the bytes taken are taken from it.
LEMMA AirDrop ==
    ASSUME NEW s \in Seq(Kind), NEW q, Stream(q, s), NEW d \in 0..Len(q)
    PROVE  LET air == AirOf(q, s)
               rest == AirOf(SubSeq(q, d + 1, Len(q)), s)
           IN  \E g, k \in 0..Len(s) :
                 /\ g + k <= Len(s) /\ k <= Len(air)
                 /\ air \in Seq([id : 1..Len(s), ok : BOOLEAN])
                 /\ \A j \in 1..Len(air) : air[j] = Sent(s, g + j)
                 /\ rest = SubSeq(air, k + 1, Len(air))
                 /\ \A f \in g + 1..g + k : \E i \in 1..d : q[i] = Byte(f, 1)
                 /\ \A i \in 1..d : q[i].pos = 1 =>
                       q[i].of \in g + 1..g + k /\ q[i] = Byte(q[i].of, 1)
<1> DEFINE r == SubSeq(q, d + 1, Len(q))
           n == Len(s)
           air == AirOf(q, s)
           rest == AirOf(r, s)
           S == [id : 1..n, ok : BOOLEAN]
<1>1. n \in Nat
    BY LenProperties
<1>2. Stream(r, s)
    BY StreamDrop
<1>3. PICK g \in 0..n : Begin(q, s) = g + 1..n /\ air = [k \in 1..n - g |-> Sent(s, g + k)]
    BY AirIs DEF Stream
<1>4. PICK h \in 0..n : Begin(r, s) = h + 1..n /\ rest = [k \in 1..n - h |-> Sent(s, h + k)]
    BY <1>2, AirIs DEF Stream
<1>5. Begin(q, s) = g + 1..n /\ Begin(r, s) = h + 1..n
    BY <1>3, <1>4
<1>6. /\ g <= h
      /\ \A f \in g + 1..h : \E i \in 1..d : q[i] = Byte(f, 1)
      /\ \A i \in 1..d : q[i].pos = 1 =>
             q[i].of \in g + 1..h /\ q[i] = Byte(q[i].of, 1)
    <2> HIDE DEF air, rest
    <2> QED
        BY <1>5, BeginDrop
<1> HIDE DEF r, n, air, rest
<1>7. g <= h
    BY <1>6
<1>8. g \in Nat /\ h \in Nat /\ g <= n /\ h <= n /\ n - g \in Nat /\ n - h \in Nat
    BY <1>1
<1>9. \A f \in 1..n : Sent(s, f) \in S
    BY DEF Sent, Ok
<1>10. \A k \in 1..n - g : Sent(s, g + k) \in S
    BY <1>1, <1>8, <1>9
<1> HIDE DEF S
<1>11. air \in Seq(S) /\ Len(air) = n - g /\ \A k \in 1..n - g : air[k] = Sent(s, g + k)
    BY <1>3, <1>8, <1>10
<1>12. \A k \in 1..n - h : Sent(s, h + k) \in S
    BY <1>1, <1>8, <1>9
<1>13. rest \in Seq(S) /\ Len(rest) = n - h /\ \A k \in 1..n - h : rest[k] = Sent(s, h + k)
    BY <1>4, <1>8, <1>12
<1> DEFINE k == h - g
           cut == SubSeq(air, k + 1, Len(air))
<1>14. Len(air) = n - g
    BY <1>11
<1>15. k \in 0..n /\ k \in 0..Len(air) /\ g + k = h
    BY <1>1, <1>8, <1>7, <1>14
<1>16. cut \in Seq(S) /\ Len(cut) = Len(air) - k /\ \A j \in 1..Len(cut) : cut[j] = air[j + k]
    BY <1>11, <1>15, Rest
<1>17. rest = cut
    <2> HIDE DEF cut
    <2>1. Len(cut) = (n - g) - (h - g)
        BY <1>16, <1>14
    <2>2. Len(cut) = n - h
        BY <1>1, <1>8, <2>1
    <2>3. ASSUME NEW j \in 1..n - h PROVE rest[j] = cut[j]
        <3>1. j + (h - g) \in 1..n - g /\ g + (j + (h - g)) = h + j
            BY <1>1, <1>8, <1>7
        <3>2. cut[j] = air[j + (h - g)]
            BY <1>16, <2>2
        <3> QED
            BY <1>11, <1>13, <3>1, <3>2
    <2> QED
        BY <1>13, <1>16, <2>2, <2>3, SeqEqual
<1>18. k <= Len(air) /\ g + k <= n
    BY <1>1, <1>8, <1>7, <1>14
<1> HIDE DEF k
<1>19. /\ \A f \in g + 1..g + k : \E i \in 1..d : q[i] = Byte(f, 1)
       /\ \A i \in 1..d : q[i].pos = 1 =>
             q[i].of \in g + 1..g + k /\ q[i] = Byte(q[i].of, 1)
    BY <1>6, <1>15
<1> QED
    BY <1>11, <1>15, <1>17, <1>18, <1>19 DEF n, S, air, rest, r

\* Nothing is taken from it when no frame begins in them.
LEMMA AirSame ==
    ASSUME NEW s \in Seq(Kind), NEW q, Stream(q, s), NEW d \in 0..Len(q),
           \A i \in 1..d : q[i].pos # 1
    PROVE  AirOf(SubSeq(q, d + 1, Len(q)), s) = AirOf(q, s)
<1> DEFINE air == AirOf(q, s)
           rest == AirOf(SubSeq(q, d + 1, Len(q)), s)
<1>1. PICK g, k \in 0..Len(s) :
        /\ g + k <= Len(s) /\ k <= Len(air)
        /\ air \in Seq([id : 1..Len(s), ok : BOOLEAN])
        /\ \A j \in 1..Len(air) : air[j] = Sent(s, g + j)
        /\ rest = SubSeq(air, k + 1, Len(air))
        /\ \A f \in g + 1..g + k : \E i \in 1..d : q[i] = Byte(f, 1)
        /\ \A i \in 1..d : q[i].pos = 1 =>
              q[i].of \in g + 1..g + k /\ q[i] = Byte(q[i].of, 1)
    BY AirDrop
<1>2. k = 0
    <2>1. Len(s) \in Nat
        BY LenProperties
    <2>2. g \in Nat /\ k \in Nat
        <3> DEFINE n == Len(s)
        <3>1. n \in Nat /\ g \in 0..n /\ k \in 0..n
            BY <2>1
        <3> HIDE DEF n
        <3> QED
            BY <3>1
    <2>3. k # 0 => g + 1 \in g + 1..g + k
        BY <2>2
    <2>4. \A i \in 1..d : q[i] # Byte(g + 1, 1)
        BY DEF Byte
    <2> QED
        BY <1>1, <2>3, <2>4
<1> HIDE DEF air, rest
<1>3. rest = air
    BY <1>1, <1>2, SubSeqFull
<1> QED
    BY <1>3 DEF air, rest

-----------------------------------------------------------------------------
(* The invariant.  A body that is read begins with a start byte; if this is *)
(* the first byte of an undamaged frame, the rest of it is asked for.       *)

All == message \o line

LinkInv ==
    /\ ReadInv
    /\ Stream(All, sent)
    /\ astray \in BOOLEAN
    /\ astray \/ Grounded(All)
    /\ reading = "body" =>
         /\ Len(message) >= Header
         /\ astray \/ IsFirst(message[1])
         /\ IsFirst(message[1]) /\ Ok(sent, message[1].of) =>
               Len(message) + left = sent[message[1].of].bytes

\* A step of FrameLink, or none.
LinkStep == [Link!Next]_<<Air, given, astray>>

LEMMA AirNow == Air = AirOf(All, sent) /\ Air' = AirOf(All', sent')
    BY DEF Air, Begun, AFrame, AirOf, Begin, Sent, Ok, All

LEMMA AllFacts ==
    ASSUME ReadInv
    PROVE  /\ line \in Seq(Known) /\ message \in Seq(Known) /\ sent \in Seq(Kind)
           /\ Len(line) \in Nat /\ Len(message) \in Nat /\ Len(sent) \in Nat
           /\ All \in Seq(Known) /\ Len(All) = Len(message) + Len(line)
           /\ \A k \in 1..Len(message) : All[k] = message[k] /\ k \in 1..Len(All)
<1>1. /\ line \in Seq(Known) /\ message \in Seq(Known) /\ sent \in Seq(Kind)
      /\ Len(line) \in Nat /\ Len(message) \in Nat /\ Len(sent) \in Nat
    BY LenProperties DEF ReadInv
<1>2. /\ All \in Seq(Known) /\ Len(All) = Len(message) + Len(line)
      /\ \A k \in 1..Len(message) + Len(line) :
            All[k] = IF k <= Len(message) THEN message[k] ELSE line[k - Len(message)]
    BY <1>1, ConcatProperties DEF All
<1> QED
    BY <1>1, <1>2

LEMMA Restarting ==
    ASSUME ReadInv, Restarted, line' = line
    PROVE  All' = SubSeq(All, Len(message) + 1, Len(All))
<1>1. /\ line \in Seq(Known) /\ message \in Seq(Known)
      /\ Len(message) \in Nat
    BY AllFacts
<1>2. SubSeq(message, Len(message) + 1, Len(message)) = <<>>
    BY <1>1, SubSeqEmpty
<1>3. SubSeq(message, Len(message) + 1, Len(message)) \o line
        = SubSeq(message \o line, Len(message) + 1, Len(message \o line))
    BY <1>1, FrontTaken
<1>4. All' = <<>> \o line
    BY DEF Restarted, All
<1> QED
    BY <1>2, <1>3, <1>4 DEF All

\* Bytes in which no frame begins are forgotten.
LEMMA QuietDrop ==
    ASSUME LinkInv, ReadInv', NEW d \in 0..Len(message),
           message' = SubSeq(message, d + 1, Len(message)), reading' = "header",
           \A k \in 1..d : ~IsFirst(message[k]),
           UNCHANGED <<line, sent, given, astray>>
    PROVE  LinkInv' /\ UNCHANGED <<Air, given, astray>>
<1>1. ReadInv
    BY DEF LinkInv
<1>2. All' = SubSeq(All, d + 1, Len(All))
    <2>1. line \in Seq(Known) /\ message \in Seq(Known)
        BY <1>1, AllFacts
    <2> QED
        BY <2>1, FrontTaken DEF All
<1>3. d \in 0..Len(All) /\ \A k \in 1..d : All[k].pos # 1
    <2>1. \A k \in 1..d : k \in 1..Len(message)
        BY <1>1, AllFacts
    <2>2. \A k \in 1..d : All[k] = message[k]
        BY <1>1, <2>1, AllFacts
    <2>3. d \in 0..Len(All)
        BY <1>1, AllFacts
    <2> QED
        BY <2>2, <2>3 DEF IsFirst
<1>4. sent \in Seq(Kind) /\ sent' = sent /\ Stream(All, sent)
    BY <1>1 DEF LinkInv, ReadInv
<1>5. Stream(All', sent')
    BY <1>2, <1>3, <1>4, StreamDrop
<1>6. (astray \/ Grounded(All))'
    <2>1. Grounded(All) => Grounded(SubSeq(All, d + 1, Len(All)))
        BY <1>3, <1>4, GroundedDrop
    <2> QED
        BY <1>2, <2>1 DEF LinkInv
<1>7. Air' = Air
    <2>1. AirOf(SubSeq(All, d + 1, Len(All)), sent) = AirOf(All, sent)
        BY <1>3, <1>4, AirSame
    <2> QED
        BY <1>2, <1>4, <2>1, AirNow
<1> QED
    BY <1>5, <1>6, <1>7 DEF LinkInv

\* What is forgotten without being returned is lost, and may be: no undamaged frame
\* begins in it, or it begins with a damaged frame or with none, and the latter only
\* behind a frame that was lost.
LEMMA ForgottenIsLost ==
    ASSUME LinkInv, ReadInv', Drop, Restarted, UNCHANGED <<line, sent>>,
           \/ \A k \in 1..Len(message) : IsFirst(message[k]) => ~Ok(sent, message[k].of)
           \/ /\ message # <<>>
              /\ astray \/ IsFirst(message[1])
              /\ ~(IsFirst(message[1]) /\ Ok(sent, message[1].of))
    PROVE  LinkInv' /\ LinkStep
<1> DEFINE d == Len(message)
           q == All
           r == SubSeq(q, d + 1, Len(q))
           air == AirOf(q, sent)
<1>1. ReadInv /\ Stream(q, sent) /\ sent' = sent
    BY DEF LinkInv
<1>2. /\ sent \in Seq(Kind) /\ d \in Nat /\ d \in 0..Len(q) /\ Len(sent) \in Nat
      /\ message \in Seq(Known)
      /\ \A k \in 1..d : q[k] = message[k] /\ k \in 1..Len(q)
    BY <1>1, AllFacts
<1>3. All' = r
    BY <1>1, Restarting
<1>4. d <= MsgSize
    <2>1. left \in Nat /\ d + left <= MsgSize
        BY <1>2, FrameAssumption DEF ReadInv, LinkInv
    <2> QED
        BY <1>2, <2>1, FrameAssumption
<1>5. Stream(All', sent')
    BY <1>1, <1>2, <1>3, StreamDrop
<1>6. reading' = "header" /\ given' = given
      /\ astray' = (astray \/ \E k \in 1..d : IsFirst(message[k]))
    BY DEF Restarted, Drop
<1> HIDE DEF q, d
<1>7. PICK g, n \in 0..Len(sent) :
        /\ g + n <= Len(sent) /\ n <= Len(air)
        /\ air \in Seq([id : 1..Len(sent), ok : BOOLEAN])
        /\ \A j \in 1..Len(air) : air[j] = Sent(sent, g + j)
        /\ AirOf(r, sent) = SubSeq(air, n + 1, Len(air))
        /\ \A f \in g + 1..g + n : \E i \in 1..d : q[i] = Byte(f, 1)
        /\ \A i \in 1..d : q[i].pos = 1 =>
              q[i].of \in g + 1..g + n /\ q[i] = Byte(q[i].of, 1)
    <2>1. sent \in Seq(Kind) /\ Stream(q, sent) /\ d \in 0..Len(q)
        BY <1>1, <1>2
    <2> QED
        BY <2>1, AirDrop DEF r, air
<1>8. Air = air /\ Air' = AirOf(r, sent)
    BY <1>1, <1>3, AirNow DEF q
<1> HIDE DEF r, air
<1>9. g \in Nat /\ n \in Nat /\ Len(air) \in Nat
    <2> DEFINE last == Len(sent)
    <2>1. g \in 0..last /\ n \in 0..last /\ last \in Nat
        BY <1>2
    <2> HIDE DEF last
    <2>2. g \in Nat /\ n \in Nat
        BY <2>1
    <2> QED
        BY <1>7, <2>2, LenProperties
<1>10. CASE n = 0
    <2>1. g + 1..g + n = {}
        BY <1>9, <1>10
    <2>2. \A k \in 1..d : q[k].pos # 1
        BY <1>7, <2>1
    <2>3. \A k \in 1..d : ~IsFirst(message[k])
        BY <1>2, <2>2 DEF IsFirst
    <2>4. astray' = astray
        BY <1>6, <2>3 DEF LinkInv
    <2>5. Air' = Air
        BY <1>7, <1>8, <1>10, SubSeqFull
    <2>6. (astray \/ Grounded(All))'
        <3>1. Grounded(q) => Grounded(r)
            BY <1>1, <1>2, <2>2, GroundedDrop DEF r
        <3> QED
            BY <1>3, <2>4, <3>1 DEF LinkInv, q
    <2> QED
        BY <1>5, <1>6, <2>4, <2>5, <2>6 DEF LinkInv, LinkStep
<1>11. CASE n # 0
    <2>1. g + 1 \in g + 1..g + n /\ 1 \in 1..Len(air)
        BY <1>7, <1>9, <1>11
    <2>2. PICK i \in 1..d : q[i] = Byte(g + 1, 1)
        BY <1>7, <2>1
    <2>3. IsFirst(message[i]) /\ message[i] = Byte(g + 1, 1)
        BY <1>2, <2>2 DEF IsFirst, Byte
    <2>4. astray' = TRUE
        BY <1>6, <2>3
    <2>5. Air # <<>> /\ Head(Air) = Sent(sent, g + 1)
        <3>1. air # <<>>
            BY <2>1
        <3>2. Head(air) = air[1]
            BY <3>1, <1>7
        <3> QED
            BY <1>7, <1>8, <2>1, <3>1, <3>2
    <2>6. astray \/ ~Ok(sent, g + 1)
        <3>1. CASE \A k \in 1..d : IsFirst(message[k]) => ~Ok(sent, message[k].of)
            BY <2>2, <2>3, <3>1 DEF Byte
        <3>2. CASE /\ message # <<>>
                   /\ astray \/ IsFirst(message[1])
                   /\ ~(IsFirst(message[1]) /\ Ok(sent, message[1].of))
            <4> SUFFICES ASSUME ~astray PROVE ~Ok(sent, g + 1)
                OBVIOUS
            <4>1. 1 \in 1..d
                BY <1>2, <3>2, EmptySeq DEF d
            <4>2. message[1] = q[1] /\ q[1].pos = 1 /\ ~Ok(sent, q[1].of) /\ 1 \in 1..Len(q)
                BY <1>2, <3>2, <4>1 DEF IsFirst
            <4>3. q[1].of \in g + 1..g + n
                BY <1>7, <4>1, <4>2
            <4>4. q[1].of = g + 1
                <5>1. q[i].of = g + 1 /\ q[i].of # 0 /\ q[1].of # 0 /\ q[1].of \in Int
                      /\ ~(q[1].of < g + 1)
                    BY <1>9, <2>2, <4>3 DEF Byte
                <5>2. i = 1 \/ 1 < i
                    BY <1>2
                <5>3. i \in 1..Len(q)
                    BY <1>2
                <5>4. 1 < i => q[1].of < q[i].of \/ q[1].of = q[i].of
                    BY <1>1, <4>2, <5>1, <5>3 DEF Stream, InOrder
                <5> QED
                    BY <5>1, <5>2, <5>4
            <4> QED
                BY <4>2, <4>4
        <3> QED
            BY <3>1, <3>2 DEF d
    <2>7. \A k \in 1..d : q[k].pos = 1 /\ Ok(sent, q[k].of) => k >= 2
        <3> SUFFICES ASSUME NEW k \in 1..d, q[k].pos = 1, Ok(sent, q[k].of)
                     PROVE  k >= 2
            OBVIOUS
        <3>1. IsFirst(message[k]) /\ Ok(sent, message[k].of)
            BY <1>2 DEF IsFirst
        <3>2. k # 1
            BY <3>1 DEF d
        <3> QED
            BY <1>2, <3>2
    <2>8. Cardinality({j \in 1..n : Air[j].ok}) <= 1 + (MsgSize - 2) \div Header
        <3> DEFINE h == g + n
        <3>1. h \in 0..Len(sent) /\ h - g = n
            BY <1>2, <1>7, <1>9
        <3>2. \A f \in g + 1..h : \E k \in 1..d : q[k] = Byte(f, 1)
            BY <1>7
        <3> HIDE DEF h
        <3>3. d \in 0..Len(q) /\ g \in 0..Len(sent) /\ h \in 0..Len(sent) /\ sent \in Seq(Kind)
            BY <1>2, <3>1
        <3>4. Cardinality({j \in 1..h - g : Ok(sent, g + j)}) <= 1 + (MsgSize - 2) \div Header
            <4> HIDE DEF LinkInv
            <4> QED
                BY <1>1, <1>4, <2>7, <3>2, <3>3, OkCount
        <3>5. \A j \in 1..n : Air[j].ok <=> Ok(sent, g + j)
            <4>1. \A j \in 1..n : j \in 1..Len(air)
                BY <1>7, <1>9
            <4>2. \A j \in 1..n : Air[j] = Sent(sent, g + j)
                BY <1>7, <1>8, <4>1
            <4> QED
                BY <4>2, SentOk
        <3>6. {j \in 1..n : Air[j].ok} = {j \in 1..n : Ok(sent, g + j)}
            BY <3>5
        <3> QED
            BY <3>1, <3>4, <3>6
    <2>9. n \in 1..Len(Air) /\ Air' = SubSeq(Air, n + 1, Len(Air))
        <3>1. n \in 1..Len(air)
            BY <1>7, <1>9, <1>11
        <3> QED
            BY <1>7, <1>8, <3>1
    <2>10. \A S : Link!Cardinality(S) = Cardinality(S)
        BY Zenon DEF Link!Cardinality, Cardinality
    <2>11. Link!Lose
        <3>1. astray \/ ~Head(Air).ok
            BY <2>5, <2>6, SentOk
        <3>2. \E k \in 1..Len(Air) :
                /\ Cardinality({j \in 1..k : Air[j].ok}) <= 1 + (MsgSize - 2) \div Header
                /\ Air' = SubSeq(Air, k + 1, Len(Air))
            BY <2>8, <2>9
        <3> QED
            BY <1>6, <2>4, <2>5, <2>10, <3>1, <3>2 DEF Link!Lose
    <2> QED
        BY <1>5, <1>6, <2>4, <2>11 DEF LinkInv, LinkStep, Link!Next
<1> QED
    BY <1>10, <1>11

\* An undamaged frame that is returned is the next of those on their way.
LEMMA WholeIsDelivered ==
    ASSUME LinkInv, ReadInv', message # <<>>, IsWhole, Restarted, UNCHANGED <<line, sent>>,
           given' = Append(given, AFrame(message[1].of)), astray' = FALSE
    PROVE  LinkInv' /\ LinkStep
<1> DEFINE d == Len(message)
           q == All
           r == SubSeq(q, d + 1, Len(q))
           air == AirOf(q, sent)
           f == message[1].of
<1>1. ReadInv /\ Stream(q, sent) /\ sent' = sent
    BY DEF LinkInv
<1>2. /\ sent \in Seq(Kind) /\ d \in Nat /\ d \in 0..Len(q) /\ Len(sent) \in Nat
      /\ message \in Seq(Known) /\ Len(q) \in Nat
      /\ \A k \in 1..d : q[k] = message[k] /\ k \in 1..Len(q)
    <2>1. Len(q) \in Nat
        BY <1>1, AllFacts
    <2> QED
        BY <1>1, <2>1, AllFacts
<1>3. All' = r
    BY <1>1, Restarting
<1>4. Stream(All', sent')
    BY <1>1, <1>2, <1>3, StreamDrop
<1>5. reading' = "header"
    BY DEF Restarted
<1> HIDE DEF q, d
<1>6. PICK g, n \in 0..Len(sent) :
        /\ g + n <= Len(sent) /\ n <= Len(air)
        /\ air \in Seq([id : 1..Len(sent), ok : BOOLEAN])
        /\ \A j \in 1..Len(air) : air[j] = Sent(sent, g + j)
        /\ AirOf(r, sent) = SubSeq(air, n + 1, Len(air))
        /\ \A e \in g + 1..g + n : \E i \in 1..d : q[i] = Byte(e, 1)
        /\ \A i \in 1..d : q[i].pos = 1 =>
              q[i].of \in g + 1..g + n /\ q[i] = Byte(q[i].of, 1)
    <2>1. sent \in Seq(Kind) /\ Stream(q, sent) /\ d \in 0..Len(q)
        BY <1>1, <1>2
    <2> QED
        BY <2>1, AirDrop DEF r, air
<1>7. Air = air /\ Air' = AirOf(r, sent)
    BY <1>1, <1>3, AirNow DEF q
<1> HIDE DEF r, air
<1>8. g \in Nat /\ n \in Nat /\ Len(air) \in Nat
    <2> DEFINE last == Len(sent)
    <2>1. g \in 0..last /\ n \in 0..last /\ last \in Nat
        BY <1>2
    <2> HIDE DEF last
    <2>2. g \in Nat /\ n \in Nat
        BY <2>1
    <2> QED
        BY <1>6, <2>2, LenProperties
<1>9. 1 \in 1..d /\ d >= 1
    BY <1>2, EmptySeq DEF d
<1>10. /\ message = [k \in 1..sent[f].bytes |-> Byte(f, k)] /\ AFrame(f).ok
    BY DEF IsWhole
<1> HIDE DEF f
<1>11. \A k \in 1..d : k \in 1..sent[f].bytes
    <2>1. DOMAIN message = 1..d
        BY <1>2, LenProperties DEF d
    <2>2. DOMAIN message = 1..sent[f].bytes
        BY <1>10
    <2> QED
        BY <2>1, <2>2
<1>12. \A k \in 1..d : q[k] = Byte(f, k)
    BY <1>2, <1>10, <1>11
<1>13. q[1].pos = 1 /\ q[1].of = f
    <2>1. q[1] = Byte(f, 1)
        BY <1>9, <1>12
    <2> QED
        BY <2>1 DEF Byte
<1>14. f \in g + 1..g + n
    BY <1>6, <1>9, <1>13
<1>15. \A e \in g + 1..g + n : e = f
    <2> SUFFICES ASSUME NEW e \in g + 1..g + n PROVE e = f
        OBVIOUS
    <2>1. PICK i \in 1..d : q[i] = Byte(e, 1)
        BY <1>6
    <2>2. q[i] = Byte(f, i)
        BY <1>12
    <2> QED
        BY <2>1, <2>2 DEF Byte
<1>16. n = 1 /\ f = g + 1
    <2>1. n >= 1
        BY <1>8, <1>14
    <2>2. g + 1 \in g + 1..g + n /\ g + n \in g + 1..g + n
        BY <1>8, <2>1
    <2>3. g + 1 = f /\ g + n = f
        BY <1>15, <2>2
    <2> QED
        BY <1>8, <2>3
<1>17. Grounded(All')
    <2>1. f \in 1..Len(sent)
        BY <1>2, <1>6, <1>8, <1>16
    <2>2. sent[f].bytes \in Nat
        BY <1>2, <2>1, FrameSent
    <2>3. d = sent[f].bytes
        <3>1. Len(message) = sent[f].bytes
            BY <1>10, <2>2
        <3> QED
            BY <3>1 DEF d
    <2>4. d \in 1..Len(q)
        BY <1>2, <1>9
    <2> QED
        BY <1>1, <1>2, <1>3, <1>12, <2>3, <2>4, GroundedWhole DEF r
<1>18. Air # <<>> /\ Head(Air) = AFrame(f) /\ Air' = Tail(Air)
    <2>1. 1 \in 1..Len(air)
        BY <1>6, <1>8, <1>16
    <2>2. air # <<>>
        BY <2>1
    <2>3. Head(air) = air[1] /\ Tail(air) = SubSeq(air, 2, Len(air))
        BY <1>6, <2>2, TailIsSubSeq
    <2>4. air[1] = Sent(sent, f)
        BY <1>6, <1>16, <2>1
    <2>5. Sent(sent, f) = AFrame(f)
        BY DEF Sent, Ok, AFrame
    <2>6. AirOf(r, sent) = SubSeq(air, 2, Len(air))
        BY <1>6, <1>16
    <2> QED
        BY <1>7, <2>2, <2>3, <2>4, <2>5, <2>6
<1>19. Link!Deliver
    BY <1>10, <1>18 DEF Link!Deliver, f
<1> QED
    BY <1>4, <1>5, <1>17, <1>19 DEF LinkInv, LinkStep, Link!Next

\* What is returned is the next frame, or is lost as what is forgotten is.
LEMMA ReturnedIsLinked ==
    ASSUME LinkInv, ReadInv', message # <<>>, Return, Restarted, UNCHANGED <<line, sent>>,
           astray \/ IsFirst(message[1]),
           IsFirst(message[1]) /\ Ok(sent, message[1].of) => IsWhole
    PROVE  LinkInv' /\ LinkStep
<1>1. CASE IsWhole
    BY <1>1, WholeIsDelivered DEF Return
<1>2. CASE ~IsWhole
    BY <1>2, ForgottenIsLost DEF Return
<1> QED
    BY <1>1, <1>2

\* The first byte of a frame, at the front of what is read, is followed by the others.
LEMMA FrontIsFrame ==
    ASSUME LinkInv, message # <<>>, IsFirst(message[1])
    PROVE  /\ message[1].of \in 1..Len(sent) /\ sent[message[1].of].bytes \in Nat
           /\ sent[message[1].of].bytes <= Len(All)
           /\ \A k \in 1..Len(message) : k <= sent[message[1].of].bytes =>
                  message[k] = Byte(message[1].of, k)
<1> DEFINE f == message[1].of
           n == sent[f].bytes
           all == Len(All)
<1>1. ReadInv /\ Stream(All, sent)
    BY DEF LinkInv
<1>2. /\ message \in Seq(Known) /\ sent \in Seq(Kind) /\ all \in Nat /\ Len(sent) \in Nat
      /\ \A k \in 1..Len(message) : All[k] = message[k] /\ k \in 1..all
      /\ Len(message) \in Nat
    <2>1. Len(All) \in Nat
        BY <1>1, AllFacts
    <2> QED
        BY <1>1, <2>1, AllFacts
<1>3. 1 \in 1..Len(message)
    BY <1>2, EmptySeq
<1>4. All[1].of = f /\ All[1].pos = 1 /\ 1 \in 1..all
    BY <1>2, <1>3 DEF IsFirst
<1> HIDE DEF f, all
<1>5. f # 0 /\ f \in 0..Len(sent)
    <2>1. All \in Seq([of : 0..Len(sent), pos : Nat])
        BY <1>1 DEF Stream, BytesOf
    <2>2. All[1] \in [of : 0..Len(sent), pos : Nat]
        BY <1>4, <2>1, ElementOfSeq DEF all
    <2>3. f = 0 => All[1].pos = 0
        BY <1>1, <1>4 DEF Stream, BytesOf, all
    <2> QED
        BY <1>4, <2>2, <2>3
<1>6. f \in 1..Len(sent)
    BY <1>2, <1>5
<1>7. n \in Nat
    BY <1>2, <1>6, FrameSent
<1>8. At(All, 1) = 0
    BY <1>4 DEF At
<1>9. 0 + n <= all /\ \A j \in 1..all : 0 < j /\ j <= 0 + n => All[j] = Byte(f, j - 0)
    <2>1. At(All, 1) + n <= all
          /\ \A j \in 1..all : At(All, 1) < j /\ j <= At(All, 1) + n =>
                                   All[j] = Byte(f, j - At(All, 1))
        BY <1>1, <1>4, <1>5 DEF Stream, Together, all
    <2> QED
        BY <1>8, <2>1
<1> HIDE DEF n
<1>10. ASSUME NEW k \in 1..Len(message), k <= n PROVE message[k] = Byte(f, k)
    <2>1. k \in 1..all /\ k \in Nat /\ 0 < k /\ k <= 0 + n /\ k - 0 = k
        BY <1>2, <1>7, <1>10
    <2>2. All[k] = Byte(f, k - 0)
        BY <1>9, <2>1
    <2> QED
        BY <1>2, <2>1, <2>2
<1>11. n <= all
    BY <1>2, <1>7, <1>9
<1> QED
    BY <1>6, <1>7, <1>10, <1>11 DEF n, f, all

\* It is whole when as many bytes are read as it has.
LEMMA FrontIsWhole ==
    ASSUME LinkInv, message # <<>>, IsFirst(message[1]), Ok(sent, message[1].of),
           Len(message) = sent[message[1].of].bytes
    PROVE  IsWhole
<1> DEFINE f == message[1].of
           n == sent[f].bytes
<1>1. /\ f \in 1..Len(sent) /\ n \in Nat
      /\ \A k \in 1..Len(message) : k <= n => message[k] = Byte(f, k)
    BY FrontIsFrame
<1>2. message \in Seq(Known) /\ Len(message) = n
    BY AllFacts DEF LinkInv
<1>3. message = [k \in 1..Len(message) |-> message[k]]
    BY <1>2, LenProperties
<1> HIDE DEF f, n
<1>4. message = [k \in 1..n |-> Byte(f, k)]
    BY <1>1, <1>2, <1>3
<1>5. AFrame(f).ok
    BY DEF AFrame, Ok, f
<1> QED
    BY <1>4, <1>5 DEF IsWhole, f, n

\* A start byte at the front is the first of a frame, unless one was lost before.
LEMMA SohIsFirst ==
    ASSUME LinkInv, message # <<>>, IsSoh(message[1])
    PROVE  astray \/ IsFirst(message[1])
<1>1. ReadInv /\ Stream(All, sent)
    BY DEF LinkInv
<1>2. message[1] = All[1] /\ 1 \in 1..Len(All)
    <2>1. 1 \in 1..Len(message)
        BY <1>1, AllFacts, EmptySeq
    <2> QED
        BY <1>1, <2>1, AllFacts
<1> DEFINE b == All[1]
           n == sent[b.of].bytes
<1>3. b \in [of : 0..Len(sent), pos : Nat] /\ (IF b.of = 0 THEN b.pos = 0 ELSE b.pos \in 1..n)
    <2>1. All \in Seq([of : 0..Len(sent), pos : Nat])
        BY <1>1 DEF Stream, BytesOf
    <2>2. b \in [of : 0..Len(sent), pos : Nat]
        BY <1>2, <2>1, ElementOfSeq
    <2> QED
        BY <1>1, <1>2, <2>2 DEF Stream, BytesOf
<1>4. ASSUME ~astray PROVE b.pos <= 1
    BY <1>2, <1>4 DEF LinkInv, Grounded
<1>5. IsFirst(b) \/ b # Noise
    BY <1>2 DEF IsSoh
<1> HIDE DEF b, n
<1>6. b.of = 0 => b = Noise
    BY <1>3 DEF Noise, Byte
<1>7. b.of = 0 => ~IsFirst(b)
    BY <1>3 DEF IsFirst
<1>8. b.of # 0 => b.pos \in Nat /\ b.pos >= 1
    BY <1>3
<1>9. ASSUME ~astray PROVE IsFirst(b)
    <2>1. b.pos = 1
        BY <1>4, <1>5, <1>6, <1>7, <1>8, <1>9
    <2> QED
        BY <2>1 DEF IsFirst
<1> QED
    BY <1>2, <1>9 DEF b

-----------------------------------------------------------------------------
(* The steps of receiveMessage. *)

LEMMA ReadStep ==
    ASSUME LinkInv, ReadInv', Read
    PROVE  LinkInv' /\ LinkStep
<1>1. PICK n \in 1..Len(line) :
        /\ n <= left
        /\ message' = message \o SubSeq(line, 1, n)
        /\ line' = SubSeq(line, n + 1, Len(line))
        /\ left' = left - n
    BY DEF Read
<1>2. /\ line \in Seq(Known) /\ message \in Seq(Known) /\ left \in Nat
      /\ Len(line) \in Nat /\ Len(message) \in Nat
    BY AllFacts DEF LinkInv, ReadInv
<1> DEFINE a == SubSeq(line, 1, n)
           b == SubSeq(line, n + 1, Len(line))
<1>3. a \in Seq(Known) /\ b \in Seq(Known) /\ Len(a) = n /\ a \o b = line
    <2>1. a \in Seq(Known) /\ Len(a) = n
        BY <1>2
    <2>2. b \in Seq(Known)
        BY <1>2
    <2>3. a \o b = SubSeq(line, 1, Len(line))
        <3>1. 1 \in 1..Len(line) + 1 /\ n \in 1 - 1..Len(line) /\ Len(line) \in n..Len(line)
            BY <1>2
        <3> QED
            BY <1>2, <3>1, ConcatAdjacentSubSeq
    <2> QED
        BY <1>2, <2>1, <2>2, <2>3, SubSeqFull
<1> HIDE DEF a, b
<1>4. (message \o a) \o b = message \o line
    <2>1. message \in Seq(Known) /\ a \in Seq(Known) /\ b \in Seq(Known)
        BY <1>2, <1>3
    <2>2. (message \o a) \o b = message \o (a \o b)
        BY <2>1, ConcatAssociative
    <2> QED
        BY <1>3, <2>2
<1>5. All' = All
    BY <1>1, <1>4 DEF All, a, b
<1>6. sent' = sent /\ reading' = reading /\ given' = given /\ astray' = astray
    BY DEF Read, history
<1>7. Air' = Air
    BY <1>5, <1>6, AirNow
<1>8. Len(message') + left' = Len(message) + left /\ Len(message') \in Nat
      /\ Len(message') >= Len(message)
    <2>1. Len(message \o a) = Len(message) + n
        BY <1>2, <1>3, ConcatProperties
    <2>2. n \in Nat
        BY <1>2
    <2> QED
        BY <1>1, <1>2, <2>1, <2>2 DEF a
<1>9. reading = "body" => Len(message) >= Header /\ message'[1] = message[1]
    <2> SUFFICES ASSUME reading = "body"
                 PROVE  Len(message) >= Header /\ message'[1] = message[1]
        OBVIOUS
    <2>1. Len(message) >= Header /\ Header \in Nat /\ Header >= 2
        BY FrameAssumption DEF LinkInv
    <2>2. 1 \in 1..Len(message) + Len(a) /\ 1 <= Len(message)
        BY <1>2, <1>3, <2>1
    <2>3. (message \o a)[1] = message[1]
        BY <1>2, <1>3, <2>2, ConcatProperties
    <2> QED
        BY <1>1, <2>1, <2>3 DEF a
<1>10. Header \in Nat
    BY FrameAssumption
<1>11. (reading = "body" =>
         /\ Len(message) >= Header
         /\ astray \/ IsFirst(message[1])
         /\ IsFirst(message[1]) /\ Ok(sent, message[1].of) =>
               Len(message) + left = sent[message[1].of].bytes)'
    BY <1>2, <1>6, <1>8, <1>9, <1>10 DEF LinkInv, IsFirst
<1>12. Stream(All', sent') /\ astray' \in BOOLEAN /\ (astray' \/ Grounded(All'))
    BY <1>5, <1>6 DEF LinkInv
<1> QED
    BY <1>6, <1>7, <1>11, <1>12 DEF LinkInv, LinkStep

LEMMA TimeoutStep ==
    ASSUME LinkInv, ReadInv', Timeout
    PROVE  LinkInv' /\ LinkStep
<1>1. ReadInv /\ Stream(All, sent) /\ left \in Nat /\ left > 0
    BY DEF LinkInv, ReadInv, Timeout
<1>2. Len(All) = Len(message) /\ Len(message) \in Nat /\ sent \in Seq(Kind) /\ Len(sent) \in Nat
      /\ \A k \in 1..Len(message) : All[k] = message[k] /\ k \in 1..Len(All)
    <2>1. Len(line) = 0
        BY DEF Timeout
    <2> QED
        BY <1>1, <2>1, AllFacts
<1>3. Header \in Nat /\ Header >= 2
    BY FrameAssumption
<1>4. CASE reading = "header"
    <2>1. Len(message) + left = Header
        BY <1>4 DEF LinkInv, ReadInv
    <2>2. ASSUME NEW k \in 1..Len(message), IsFirst(message[k]), Ok(sent, message[k].of)
          PROVE  FALSE
        <3> DEFINE f == message[k].of
                   n == sent[f].bytes
        <3>1. All[k].of = f /\ All[k].pos = 1 /\ k \in 1..Len(All)
            BY <1>2, <2>2 DEF IsFirst
        <3>2. f # 0 /\ f \in 0..Len(sent)
            <4>1. All \in Seq([of : 0..Len(sent), pos : Nat])
                BY <1>1 DEF Stream, BytesOf
            <4>2. All[k] \in [of : 0..Len(sent), pos : Nat]
                BY <3>1, <4>1, ElementOfSeq
            <4>3. All[k].of = 0 => All[k].pos = 0
                BY <1>1, <3>1 DEF Stream, BytesOf
            <4> QED
                BY <3>1, <4>2, <4>3
        <3>3. f \in 1..Len(sent)
            BY <1>2, <3>2
        <3>4. n \in Nat /\ n >= Header
            <4>1. n \in Nat /\ sent[f].len \in Nat
                BY <1>2, <3>3, FrameSent
            <4>2. n = Header + sent[f].len
                BY <2>2 DEF Ok
            <4> QED
                BY <1>3, <4>1, <4>2
        <3>5. At(All, k) = k - 1
            BY <3>1 DEF At
        <3>6. At(All, k) + n <= Len(All)
            BY <1>1, <3>1, <3>2 DEF Stream, Together
        <3> HIDE DEF n
        <3>7. k \in Nat /\ k >= 1
            BY <1>2
        <3> QED
            BY <1>1, <1>2, <1>3, <2>1, <3>4, <3>5, <3>6, <3>7
    <2> QED
        BY <1>4, <2>2, ForgottenIsLost DEF Timeout
<1>5. CASE reading # "header"
    <2>1. reading = "body"
        BY <1>1, <1>5 DEF ReadInv
    <2>2. Len(message) >= Header /\ message # <<>>
        <3>1. Len(message) >= Header
            BY <2>1 DEF LinkInv
        <3>2. Len(message) # 0
            BY <1>2, <1>3, <3>1
        <3> QED
            BY <3>1, <3>2
    <2>3. ASSUME IsFirst(message[1]), Ok(sent, message[1].of)
          PROVE  FALSE
        <3> DEFINE n == sent[message[1].of].bytes
        <3>1. Len(message) + left = n
            BY <2>1, <2>3 DEF LinkInv
        <3>2. n \in Nat /\ n <= Len(All)
            BY <2>2, <2>3, FrontIsFrame
        <3> HIDE DEF n
        <3> QED
            BY <1>1, <1>2, <3>1, <3>2
    <2>4. astray \/ IsFirst(message[1])
        BY <2>1 DEF LinkInv
    <2> QED
        BY <1>5, <2>2, <2>3, <2>4, ReturnedIsLinked DEF Timeout
<1> QED
    BY <1>4, <1>5

LEMMA MoveHeaderStep ==
    ASSUME LinkInv, ReadInv', MoveHeader
    PROVE  LinkInv' /\ LinkStep
<1>1. PICK k \in Starts : (\A j \in Starts : k <= j) /\ message' = Kept(k)
    BY DEF MoveHeader
<1>2. Len(message) = Header /\ k \in 2..Header /\ Header \in Nat /\ reading = "header"
    <2>1. Len(message) \in Nat
        BY AllFacts DEF LinkInv
    <2>2. Header \in Nat /\ Len(message) + left = Header /\ left = 0
        BY FrameAssumption DEF MoveHeader, HeaderRead, LinkInv, ReadInv
    <2> QED
        BY <1>1, <2>1, <2>2 DEF Starts, MoveHeader, HeaderRead
<1> DEFINE d == k - 1
<1>3. d \in 0..Len(message) /\ d + 1 = k
    BY <1>2
<1>4. message' = SubSeq(message, d + 1, Len(message))
    BY <1>1, <1>2, <1>3 DEF Kept
<1>5. ASSUME NEW j \in 1..d PROVE ~IsFirst(message[j])
    <2>1. CASE j = 1
        BY <2>1 DEF MoveHeader, IsSoh
    <2>2. CASE j # 1
        <3>1. j \in 2..Header /\ ~(k <= j)
            BY <1>2, <2>2
        <3>2. ~(j \in Starts)
            BY <1>1, <3>1
        <3> QED
            BY <3>1, <3>2 DEF Starts, IsSoh
    <2> QED
        BY <2>1, <2>2
<1>6. reading' = "header" /\ UNCHANGED <<line, sent, given, astray>>
    BY <1>2 DEF MoveHeader, history
<1> HIDE DEF d
<1> QED
    BY <1>3, <1>4, <1>5, <1>6, QuietDrop DEF LinkStep

LEMMA SkipHeaderStep ==
    ASSUME LinkInv, ReadInv', SkipHeader
    PROVE  LinkInv' /\ LinkStep
<1> DEFINE d == Len(message)
<1>1. d = Header /\ Header \in Nat /\ reading = "header"
    <2>1. Len(message) \in Nat
        BY AllFacts DEF LinkInv
    <2>2. Header \in Nat /\ Len(message) + left = Header /\ left = 0
        BY FrameAssumption DEF SkipHeader, HeaderRead, LinkInv, ReadInv
    <2> QED
        BY <2>1, <2>2 DEF SkipHeader, HeaderRead
<1>2. message' = SubSeq(message, d + 1, Len(message))
    BY <1>1, SubSeqEmpty DEF SkipHeader
<1>3. d \in 0..Len(message)
    BY <1>1
<1>4. ASSUME NEW j \in 1..d PROVE ~IsFirst(message[j])
    <2>1. CASE j = 1
        BY <2>1 DEF SkipHeader, IsSoh
    <2>2. CASE j # 1
        <3>1. j \in 2..Header
            BY <1>1, <2>2
        <3> QED
            BY <3>1 DEF SkipHeader, Starts, IsSoh
    <2> QED
        BY <2>1, <2>2
<1>5. reading' = "header" /\ UNCHANGED <<line, sent, given, astray>>
    BY <1>1 DEF SkipHeader, history
<1> HIDE DEF d
<1> QED
    BY <1>2, <1>3, <1>4, <1>5, QuietDrop DEF LinkStep

LEMMA EndHeaderStep ==
    ASSUME LinkInv, ReadInv', EndHeader
    PROVE  LinkInv' /\ LinkStep
<1>1. /\ Len(message) = Header /\ Header \in Nat /\ Header >= 2 /\ MsgSize \in Nat
      /\ IsSoh(message[1]) /\ UNCHANGED <<line, sent>>
    <2>1. Len(message) \in Nat
        BY AllFacts DEF LinkInv
    <2>2. Header \in Nat /\ Header >= 2 /\ Len(message) + left = Header /\ left = 0
          /\ MsgSize \in Nat
        BY FrameAssumption DEF EndHeader, HeaderRead, LinkInv, ReadInv
    <2> QED
        BY <2>1, <2>2 DEF EndHeader
<1>2. PICK len \in Lengths :
        IF TooBig(len) THEN Restarted /\ Drop
        ELSE IF len = 0 THEN Restarted /\ Return
        ELSE reading' = "body" /\ left' = len /\ UNCHANGED <<message, tries, history>>
    BY DEF EndHeader
<1>3. message # <<>>
    <2>1. Len(message) # 0
        BY <1>1
    <2> QED
        BY <2>1
<1>4. astray \/ IsFirst(message[1])
    BY <1>1, <1>3, SohIsFirst
<1>5. ASSUME IsFirst(message[1]), Ok(sent, message[1].of)
      PROVE  /\ len \in Nat /\ sent[message[1].of].bytes = Header + len
             /\ sent[message[1].of].bytes <= MsgSize
    <2> DEFINE f == message[1].of
               n == sent[f].bytes
    <2>1. /\ f \in 1..Len(sent)
          /\ \A k \in 1..Len(message) : k <= n => message[k] = Byte(f, k)
        BY <1>3, <1>5, FrontIsFrame
    <2>2. n = Header + sent[f].len /\ n <= MsgSize
        BY <1>5 DEF Ok
    <2>3. sent[f].len \in Nat /\ sent[f].soh \subseteq Nat \ 0..2
        BY <2>1, FrameSent DEF LinkInv, ReadInv
    <2> HIDE DEF f
    <2>4. 2 \in 1..Len(message) /\ 2 <= n
        BY <1>1, <2>2, <2>3
    <2>5. message[2] = Byte(f, 2)
        BY <2>1, <2>4
    <2>6. message[2].pos = 2 /\ message[2].of = f /\ ~IsSoh(message[2])
        BY <2>3, <2>5 DEF Byte, IsSoh, IsFirst
    <2>7. Lengths = {sent[f].len}
        BY <2>6 DEF Lengths
    <2>8. len = sent[f].len
        BY <2>7
    <2> QED
        BY <2>2, <2>3, <2>8 DEF f
<1>6. CASE TooBig(len)
    <2>1. ~(IsFirst(message[1]) /\ Ok(sent, message[1].of))
        <3> SUFFICES ASSUME IsFirst(message[1]), Ok(sent, message[1].of) PROVE FALSE
            OBVIOUS
        <3>1. len \in Nat /\ Header + len <= MsgSize
            BY <1>5
        <3> QED
            BY <1>1, <1>6, <3>1 DEF TooBig
    <2> QED
        BY <1>1, <1>2, <1>3, <1>4, <1>6, <2>1, ForgottenIsLost
<1>7. CASE ~TooBig(len) /\ len = 0
    <2>1. IsFirst(message[1]) /\ Ok(sent, message[1].of) => IsWhole
        <3> SUFFICES ASSUME IsFirst(message[1]), Ok(sent, message[1].of) PROVE IsWhole
            OBVIOUS
        <3>1. sent[message[1].of].bytes = Len(message)
            BY <1>1, <1>5, <1>7
        <3> QED
            BY <1>3, <3>1, FrontIsWhole
    <2> QED
        BY <1>1, <1>2, <1>3, <1>4, <1>7, <2>1, ReturnedIsLinked
<1>8. CASE ~TooBig(len) /\ len # 0
    <2>1. reading' = "body" /\ left' = len /\ message' = message /\ line' = line /\ sent' = sent
          /\ given' = given /\ astray' = astray
        BY <1>1, <1>2, <1>8 DEF history
    <2>2. All' = All
        BY <2>1 DEF All
    <2>3. Air' = Air
        BY <2>1, <2>2, AirNow
    <2>4. (reading = "body" =>
            /\ Len(message) >= Header
            /\ astray \/ IsFirst(message[1])
            /\ IsFirst(message[1]) /\ Ok(sent, message[1].of) =>
                  Len(message) + left = sent[message[1].of].bytes)'
        <3>1. Len(message) >= Header
            BY <1>1
        <3>2. IsFirst(message[1]) /\ Ok(sent, message[1].of) =>
                 Len(message) + len = sent[message[1].of].bytes
            BY <1>1, <1>5
        <3> QED
            BY <1>4, <2>1, <3>1, <3>2 DEF IsFirst
    <2> QED
        BY <2>1, <2>2, <2>3, <2>4 DEF LinkInv, LinkStep
<1> QED
    BY <1>6, <1>7, <1>8

LEMMA EndBodyStep ==
    ASSUME LinkInv, ReadInv', EndBody
    PROVE  LinkInv' /\ LinkStep
<1>1. /\ Len(message) >= Header /\ left = 0 /\ Len(message) \in Nat
      /\ Header \in Nat /\ Header >= 2
      /\ astray \/ IsFirst(message[1])
      /\ IsFirst(message[1]) /\ Ok(sent, message[1].of) =>
            Len(message) + left = sent[message[1].of].bytes
    <2>1. Len(message) \in Nat
        BY AllFacts DEF LinkInv
    <2> QED
        BY <2>1, FrameAssumption DEF EndBody, LinkInv
<1>2. message # <<>>
    <2>1. Len(message) # 0
        BY <1>1
    <2> QED
        BY <2>1
<1>3. IsFirst(message[1]) /\ Ok(sent, message[1].of) => IsWhole
    <2> SUFFICES ASSUME IsFirst(message[1]), Ok(sent, message[1].of) PROVE IsWhole
        OBVIOUS
    <2>1. Len(message) + 0 = sent[message[1].of].bytes
        BY <1>1
    <2>2. Len(message) = sent[message[1].of].bytes
        BY <1>1, <2>1
    <2> QED
        BY <1>2, <2>2, FrontIsWhole
<1> QED
    BY <1>1, <1>2, <1>3, ReturnedIsLinked DEF EndBody

-----------------------------------------------------------------------------
(* The steps of the module. *)

\* The frame at the front is the one it was, whatever is sent after it.
LEMMA BodyStays ==
    ASSUME LinkInv, UNCHANGED <<message, reading, left, astray>>,
           \A f \in 1..Len(sent) : sent'[f] = sent[f]
    PROVE  (reading = "body" =>
             /\ Len(message) >= Header
             /\ astray \/ IsFirst(message[1])
             /\ IsFirst(message[1]) /\ Ok(sent, message[1].of) =>
                   Len(message) + left = sent[message[1].of].bytes)'
<1> SUFFICES ASSUME reading = "body"
             PROVE  /\ Len(message) >= Header
                    /\ astray \/ IsFirst(message[1])
                    /\ IsFirst(message[1]) /\ Ok(sent', message[1].of) =>
                          Len(message) + left = sent'[message[1].of].bytes
    BY DEF IsFirst
<1>1. /\ Len(message) >= Header
      /\ astray \/ IsFirst(message[1])
      /\ IsFirst(message[1]) /\ Ok(sent, message[1].of) =>
            Len(message) + left = sent[message[1].of].bytes
    BY DEF LinkInv
<1>2. ASSUME IsFirst(message[1]) PROVE sent'[message[1].of] = sent[message[1].of]
    <2>1. message # <<>>
        <3>1. Len(message) # 0
            BY <1>1, AllFacts, FrameAssumption DEF LinkInv
        <3> QED
            BY <3>1
    <2> QED
        BY <1>2, <2>1, FrontIsFrame
<1> QED
    BY <1>1, <1>2 DEF Ok

LEMMA SendNoiseStep ==
    ASSUME LinkInv, ReadInv', SendNoise
    PROVE  LinkInv' /\ LinkStep
<1>1. /\ line' = Append(line, Noise) /\ sent' = sent /\ message' = message
      /\ UNCHANGED <<reading, left, given, astray>>
    BY DEF SendNoise, history
<1>2. All' = Append(All, Noise)
    <2> DEFINE S == Known \cup {Noise}
    <2>1. line \in Seq(Known) /\ message \in Seq(Known) /\ Known \subseteq S /\ Noise \in S
        BY AllFacts DEF LinkInv
    <2> HIDE DEF S
    <2>2. line \in Seq(S) /\ message \in Seq(S) /\ <<Noise>> \in Seq(S)
        BY <2>1, SeqMonotonic
    <2>3. message \o line \in Seq(S)
        BY <2>2, ConcatProperties
    <2>4. Append(line, Noise) = line \o <<Noise>>
        BY <2>1, <2>2, AppendIsConcat
    <2>5. Append(message \o line, Noise) = (message \o line) \o <<Noise>>
        BY <2>1, <2>3, AppendIsConcat
    <2>6. (message \o line) \o <<Noise>> = message \o (line \o <<Noise>>)
        BY <2>2, ConcatAssociative
    <2> QED
        BY <1>1, <2>4, <2>5, <2>6 DEF All
<1>3. sent \in Seq(Kind) /\ Stream(All, sent)
    BY DEF LinkInv, ReadInv
<1>4. Stream(All', sent') /\ Begin(All', sent') = Begin(All, sent)
    BY <1>1, <1>2, <1>3, StreamNoise
<1>5. Air' = Air
    BY <1>1, <1>4, AirNow DEF AirOf
<1>6. Grounded(All) => Grounded(All')
    <2>1. Len(All) \in Nat /\ All \in Seq(Known \cup {Noise})
        BY AllFacts, SeqMonotonic DEF LinkInv
    <2>2. /\ Len(All') = Len(All) + 1 /\ All'[Len(All) + 1] = Noise
          /\ \A k \in 1..Len(All) : All'[k] = All[k]
        BY <1>2, <2>1, AppendProperties
    <2>3. Noise.pos = 0
        BY DEF Noise, Byte
    <2>4. ASSUME Grounded(All), NEW k \in 1..Len(All') PROVE All'[k].pos <= k
        <3>1. k \in 1..Len(All) \/ k = Len(All) + 1
            BY <2>1, <2>2
        <3> QED
            BY <2>1, <2>2, <2>3, <2>4, <3>1 DEF Grounded
    <2> QED
        BY <2>4 DEF Grounded
<1>7. (reading = "body" =>
        /\ Len(message) >= Header
        /\ astray \/ IsFirst(message[1])
        /\ IsFirst(message[1]) /\ Ok(sent, message[1].of) =>
              Len(message) + left = sent[message[1].of].bytes)'
    BY <1>1, BodyStays
<1> QED
    BY <1>1, <1>4, <1>5, <1>6, <1>7 DEF LinkInv, LinkStep

\* The frame sent is the last of those on their way.
LEMMA AirSend ==
    ASSUME NEW s \in Seq(Kind), NEW q, NoneMissing(q, s), NEW kind \in Kind,
           NEW r, NoneMissing(r, Append(s, kind)),
           Begin(r, Append(s, kind)) = Begin(q, s) \cup {Len(s) + 1}
    PROVE  AirOf(r, Append(s, kind)) = Append(AirOf(q, s), Sent(Append(s, kind), Len(s) + 1))
<1> DEFINE n == Len(s)
           t == Append(s, kind)
           S == [id : Nat, ok : BOOLEAN]
           air == AirOf(q, s)
           more == AirOf(r, t)
           new == Sent(t, n + 1)
<1>1. n \in Nat
    BY LenProperties
<1>2. t \in Seq(Kind) /\ Len(t) = n + 1 /\ \A f \in 1..n : t[f] = s[f]
    BY AppendProperties
<1>3. PICK g \in 0..n : Begin(q, s) = g + 1..n /\ air = [k \in 1..n - g |-> Sent(s, g + k)]
    BY AirIs
<1> HIDE DEF t
<1>4. PICK h \in 0..n + 1 : /\ Begin(r, t) = h + 1..n + 1
                            /\ more = [k \in 1..(n + 1) - h |-> Sent(t, h + k)]
    <2>1. NoneMissing(r, t)
        BY DEF t
    <2> QED
        BY <1>2, <2>1, AirIs
<1>5. h + 1..n + 1 = (g + 1..n) \cup {n + 1}
    BY <1>3, <1>4 DEF t
<1> HIDE DEF n, air, more
<1>6. g \in Nat /\ h \in Nat /\ g <= n /\ h <= n + 1
    BY <1>1
<1>7. h = g
    <2>1. n + 1 \in h + 1..n + 1
        BY <1>5
    <2>2. h + 1 \in h + 1..n + 1
        BY <1>1, <1>6, <2>1
    <2>3. h + 1 \in (g + 1..n) \cup {n + 1}
        BY <1>5, <2>2
    <2>4. g <= h
        BY <1>1, <1>6, <2>3
    <2>5. g + 1 \in (g + 1..n) \cup {n + 1}
        BY <1>1, <1>6
    <2>6. g + 1 \in h + 1..n + 1
        BY <1>5, <2>5
    <2>7. h <= g
        BY <1>1, <1>6, <2>6
    <2> QED
        BY <1>6, <2>4, <2>7
<1>8. \A f \in 1..n : Sent(t, f) = Sent(s, f)
    BY <1>2 DEF Sent, Ok
<1>9. \A f \in Nat : Sent(t, f) \in S /\ Sent(s, f) \in S
    BY DEF Sent, Ok
<1> HIDE DEF S, new
<1>10. /\ air \in Seq(S) /\ Len(air) = n - g
       /\ \A k \in 1..n - g : air[k] = Sent(s, g + k)
    <2>1. \A k \in 1..n - g : Sent(s, g + k) \in S
        BY <1>1, <1>6, <1>9
    <2>2. n - g \in Nat
        BY <1>1, <1>6
    <2> QED
        BY <1>3, <2>1, <2>2
<1>11. /\ more \in Seq(S) /\ Len(more) = (n + 1) - g
       /\ \A k \in 1..(n + 1) - g : more[k] = Sent(t, g + k)
    <2>1. \A k \in 1..(n + 1) - g : Sent(t, g + k) \in S
        BY <1>1, <1>6, <1>9
    <2>2. (n + 1) - g \in Nat
        BY <1>1, <1>6
    <2> QED
        BY <1>4, <1>7, <2>1, <2>2
<1>12. new \in S /\ new = Sent(t, n + 1)
    BY <1>1, <1>9 DEF new
<1> DEFINE x == Append(air, new)
<1>13. /\ x \in Seq(S) /\ Len(x) = (n - g) + 1 /\ x[(n - g) + 1] = new
       /\ \A k \in 1..n - g : x[k] = air[k]
    BY <1>10, <1>12, AppendProperties
<1> HIDE DEF x
<1>14. Len(x) = Len(more)
    BY <1>1, <1>6, <1>11, <1>13
<1>15. ASSUME NEW k \in 1..Len(more) PROVE more[k] = x[k]
    <2>1. k \in 1..n - g \/ k = (n - g) + 1
        BY <1>1, <1>6, <1>11
    <2>2. k \in 1..(n + 1) - g
        BY <1>11
    <2>3. CASE k \in 1..n - g
        <3>1. g + k \in 1..n
            BY <1>1, <1>6, <2>3
        <3> QED
            BY <1>8, <1>10, <1>11, <1>13, <2>2, <2>3, <3>1
    <2>4. CASE k = (n - g) + 1
        <3>1. g + k = n + 1
            BY <1>1, <1>6, <2>4
        <3> QED
            BY <1>11, <1>12, <1>13, <2>2, <2>4, <3>1
    <2> QED
        BY <2>1, <2>3, <2>4
<1>16. more = x
    BY <1>11, <1>13, <1>14, <1>15, SeqEqual
<1> QED
    BY <1>16 DEF more, x, t, air, new, n

LEMMA SendFrameStep ==
    ASSUME LinkInv, ReadInv', SendFrame
    PROVE  LinkInv' /\ LinkStep
<1>1. PICK kind \in Kind :
        /\ sent' = Append(sent, kind)
        /\ line' = line \o [k \in 1..kind.bytes |-> Byte(Len(sent) + 1, k)]
    BY DEF SendFrame
<1>2. /\ message' = message /\ UNCHANGED <<reading, left, given, astray>>
      /\ Len(sent) < MaxFrame
    BY DEF SendFrame, history
<1> DEFINE last == Len(sent)
           b == [k \in 1..kind.bytes |-> Byte(last + 1, k)]
           S == [of : Nat, pos : Nat]
<1>3. /\ sent \in Seq(Kind) /\ Stream(All, sent) /\ last \in Nat
      /\ line \in Seq(Known) /\ message \in Seq(Known) /\ Len(All) \in Nat
    <2>1. ReadInv /\ Stream(All, sent)
        BY DEF LinkInv
    <2> QED
        BY <2>1, AllFacts
<1>4. kind.bytes \in Nat /\ MaxFrame \in Nat
    BY FrameAssumption
<1>5. line \in Seq(S) /\ message \in Seq(S) /\ b \in Seq(S)
    <2>1. Known \subseteq S
        BY <1>4 DEF Known, ABytes
    <2>2. \A k \in 1..kind.bytes : Byte(last + 1, k) \in S
        BY <1>3, <1>4 DEF Byte
    <2> HIDE DEF S
    <2> QED
        BY <1>3, <1>4, <2>1, <2>2, SeqMonotonic, FrameBytes
<1>6. Len(b) = kind.bytes /\ \A k \in 1..kind.bytes : b[k] = Byte(last + 1, k)
    BY <1>4
<1> HIDE DEF b, S
<1>7. All' = All \o b
    <2>1. (message \o line) \o b = message \o (line \o b)
        BY <1>5, ConcatAssociative
    <2> QED
        BY <1>1, <1>2, <2>1 DEF All, b
<1>8. /\ Stream(All', sent') /\ Begin(All', sent') = Begin(All, sent) \cup {last + 1}
    <2>1. /\ Stream(All \o b, Append(sent, kind))
          /\ Begin(All \o b, Append(sent, kind)) = Begin(All, sent) \cup {last + 1}
        BY <1>3, StreamSend DEF b
    <2> QED
        BY <1>1, <1>7, <2>1
<1>9. Air' = Append(Air, Sent(sent', last + 1))
    <2>1. NoneMissing(All, sent) /\ NoneMissing(All', Append(sent, kind))
        BY <1>1, <1>3, <1>8 DEF Stream
    <2>2. AirOf(All', Append(sent, kind))
            = Append(AirOf(All, sent), Sent(Append(sent, kind), last + 1))
        BY <1>1, <1>3, <1>8, <2>1, AirSend
    <2> QED
        BY <1>1, <2>2, AirNow
<1>10. Grounded(All) => Grounded(All')
    <2> DEFINE all == Len(All)
    <2>1. All \in Seq(S)
        BY <1>5, ConcatProperties DEF All
    <2>2. /\ Len(All') = all + kind.bytes
          /\ \A k \in 1..all + kind.bytes :
                All'[k] = IF k <= all THEN All[k] ELSE b[k - all]
        BY <1>5, <1>6, <1>7, <2>1, ConcatProperties
    <2>3. all \in Nat
        BY <1>3
    <2> HIDE DEF all
    <2>4. ASSUME Grounded(All), NEW k \in 1..all + kind.bytes PROVE All'[k].pos <= k
        <3>1. CASE k <= all
            <4>1. k \in 1..all
                BY <1>4, <2>3, <3>1
            <4> QED
                BY <2>2, <2>4, <3>1, <4>1 DEF Grounded, all
        <3>2. CASE ~(k <= all)
            <4>1. k - all \in 1..kind.bytes /\ k - all <= k
                BY <1>4, <2>3, <3>2
            <4>2. All'[k] = Byte(last + 1, k - all)
                BY <1>6, <2>2, <3>2, <4>1
            <4> QED
                BY <4>1, <4>2 DEF Byte
        <3> QED
            BY <3>1, <3>2
    <2> QED
        BY <2>2, <2>4 DEF Grounded
<1>11. (reading = "body" =>
         /\ Len(message) >= Header
         /\ astray \/ IsFirst(message[1])
         /\ IsFirst(message[1]) /\ Ok(sent, message[1].of) =>
               Len(message) + left = sent[message[1].of].bytes)'
    <2>1. \A f \in 1..Len(sent) : sent'[f] = sent[f]
        BY <1>1, <1>3, AppendProperties
    <2> QED
        BY <1>2, <2>1, BodyStays
<1>12. Link!Send
    <2>1. Sent(sent', last + 1) \in [id : 1..MaxFrame, ok : BOOLEAN]
        <3>1. last + 1 \in 1..MaxFrame
            BY <1>2, <1>3, <1>4
        <3> QED
            BY <3>1, SentOk DEF Sent
    <2> QED
        BY <1>2, <1>9, <2>1 DEF Link!Send
<1> QED
    BY <1>2, <1>8, <1>10, <1>11, <1>12 DEF LinkInv, LinkStep, Link!Next

-----------------------------------------------------------------------------
(* All steps. *)

LEMMA LinkStart == Init => LinkInv /\ Link!Init
<1> SUFFICES ASSUME Init PROVE LinkInv /\ Link!Init
    OBVIOUS
<1>1. ReadInv
    BY ReadInit
<1>2. All = <<>> /\ Len(All) = 0
    BY DEF Init, All
<1>3. 1..Len(All) = {}
    BY <1>2
<1>4. Begin(All, sent) = {}
    BY <1>3 DEF Begin
<1>5. Stream(All, sent)
    <2>1. All \in Seq([of : 0..Len(sent), pos : Nat])
        BY <1>2
    <2> QED
        BY <1>3, <1>4, <2>1 DEF Stream, BytesOf, Together, InOrder, NoneMissing
<1>6. Grounded(All)
    BY <1>3 DEF Grounded
<1>7. Air = <<>>
    <2>1. Cardinality({}) = 0
        BY FS_EmptySet
    <2>2. AirOf(All, sent) = [k \in 1..0 |-> Sent(sent, (Len(sent) - 0) + k)]
        BY <1>4, <2>1 DEF AirOf
    <2>3. AirOf(All, sent) = <<>>
        BY <2>2
    <2> QED
        BY <2>3, AirNow
<1> QED
    BY <1>1, <1>5, <1>6, <1>7 DEF Init, LinkInv, Link!Init

LEMMA LinkNext == LinkInv /\ [Next]_vars => LinkInv' /\ LinkStep
<1> SUFFICES ASSUME LinkInv, [Next]_vars PROVE LinkInv' /\ LinkStep
    OBVIOUS
<1>1. ReadInv'
    BY ReadNext DEF LinkInv
<1>2. CASE UNCHANGED vars
    <2>1. UNCHANGED <<line, sent, message, reading, left, given, astray>>
        BY <1>2 DEF vars, history
    <2>2. All' = All
        BY <2>1 DEF All
    <2>3. Air' = Air
        BY <2>1, <2>2, AirNow
    <2>4. \A f \in 1..Len(sent) : sent'[f] = sent[f]
        BY <2>1
    <2>5. (reading = "body" =>
            /\ Len(message) >= Header
            /\ astray \/ IsFirst(message[1])
            /\ IsFirst(message[1]) /\ Ok(sent, message[1].of) =>
                  Len(message) + left = sent[message[1].of].bytes)'
        BY <2>1, <2>4, BodyStays
    <2> QED
        BY <1>1, <2>1, <2>2, <2>3, <2>5 DEF LinkInv, LinkStep
<1>3. CASE Next
    <2>1. CASE SendFrame
        BY <1>1, <2>1, SendFrameStep
    <2>2. CASE SendNoise
        BY <1>1, <2>2, SendNoiseStep
    <2>3. CASE Read
        BY <1>1, <2>3, ReadStep
    <2>4. CASE Timeout
        BY <1>1, <2>4, TimeoutStep
    <2>5. CASE MoveHeader
        BY <1>1, <2>5, MoveHeaderStep
    <2>6. CASE SkipHeader
        BY <1>1, <2>6, SkipHeaderStep
    <2>7. CASE EndHeader
        BY <1>1, <2>7, EndHeaderStep
    <2>8. CASE EndBody
        BY <1>1, <2>8, EndBodyStep
    <2> QED
        BY <1>3, <2>1, <2>2, <2>3, <2>4, <2>5, <2>6, <2>7, <2>8 DEF Next, Receiver
<1> QED
    BY <1>2, <1>3

\* The invariant holds.
THEOREM LinkInvariant == Spec => []LinkInv
<1>1. Init => LinkInv
    BY LinkStart
<1>2. LinkInv /\ [Next]_vars => LinkInv'
    BY LinkNext
<1> QED
    BY <1>1, <1>2, PTL DEF Spec

\* receiveMessage makes the serial line a link of frames: an undamaged frame is
\* returned as it was sent, in order and once; only behind a damaged one are others
\* lost, at most those that begin in one buffer, until the next is returned.
THEOREM LineIsLink == Spec => LinkOfFrames
<1>1. Init => Link!Init
    BY LinkStart
<1>2. LinkInv /\ [Next]_vars => [Link!Next]_<<Air, given, astray>>
    BY LinkNext DEF LinkStep
<1>3. Spec => []LinkInv
    BY LinkInvariant
<1> QED
    BY <1>1, <1>2, <1>3, PTL DEF Spec, LinkOfFrames, Link!Spec
=============================================================================
