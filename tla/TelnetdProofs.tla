--------------------------- MODULE TelnetdProofs ---------------------------
(* Proofs about Telnetd: its output ring, its types and its session, and   *)
(* the lines it runs, for all sizes, all hosts and whatever they type.     *)
EXTENDS Telnetd, SeqFacts

-----------------------------------------------------------------------------
(* What the operations of the ring do to its indices and its contents. *)

Rings(S) == [w : 0..BufSize, r : 0..BufSize, m : 0..(BufSize + ElemSize), buf : [Cell -> S]]

\* Where an item that is entered ends.
End(rg, item) == rg.w + Len(Bytes(item))

\* An item is one or two bytes.
LEMMA BytesLength ==
    ASSUME NEW S, NEW item \in S, {"cr", "lf"} \subseteq S
    PROVE  Bytes(item) \in Seq(S) /\ Len(Bytes(item)) \in {1, 2}
BY DEF Bytes

LEMMA EmptyShape ==
    ASSUME NEW S, Blank \in S
    PROVE  Empty \in Rings(S) /\ Shape(Empty) /\ Contents(Empty) = <<>>
<1>1. Empty \in Rings(S) /\ Shape(Empty) /\ ~Wrapped(Empty)
  BY RingAssumption DEF Empty, Rings, Shape, Wrapped
<1>2. Contents(Empty) = <<>>
  BY <1>1 DEF Contents, Slice, Empty
<1>. QED
  BY <1>1, <1>2

\* The indices and bytes after rng_buf_enter.
LEMMA EnterFacts ==
    ASSUME NEW S, NEW rg \in Rings(S), Shape(rg), NEW item \in S, {"cr", "lf"} \subseteq S,
           Fits(rg)
    PROVE  /\ End(rg, item) \in (rg.w + 1)..(BufSize + ElemSize)
           /\ Wrapped(rg) => End(rg, item) <= rg.r
           /\ Enter(rg, item) = [w |-> IF End(rg, item) > BufSize THEN 0 ELSE End(rg, item),
                                 r |-> rg.r,
                                 m |-> IF rg.m < End(rg, item) THEN End(rg, item) ELSE rg.m,
                                 buf |-> Enter(rg, item).buf]
           /\ Enter(rg, item).buf \in [Cell -> S]
           /\ \A k \in Cell : Enter(rg, item).buf[k] =
                IF k \in rg.w..(End(rg, item) - 1) THEN Bytes(item)[k - rg.w + 1] ELSE rg.buf[k]
<1>. DEFINE bytes == Bytes(item)
            size == Len(bytes)
            end == rg.w + size
<1>1. bytes \in Seq(S) /\ size \in {1, 2}
  BY BytesLength
<1>. HIDE DEF bytes, size
<1>2. end \in Int /\ (end = rg.w + 1 \/ end = rg.w + 2)
  BY <1>1, RingAssumption DEF Rings
<1>3. end <= BufSize + ElemSize /\ (Wrapped(rg) => end <= rg.r)
  BY <1>2, RingAssumption DEF Rings, Shape, Fits, Room, Wrapped
<1>. DEFINE buf == [k \in Cell |-> IF k \in rg.w..(end - 1) THEN bytes[k - rg.w + 1]
                                   ELSE rg.buf[k]]
<1>4. buf \in [Cell -> S]
  <2>. SUFFICES ASSUME NEW k \in Cell PROVE buf[k] \in S
    OBVIOUS
  <2>1. CASE k \in rg.w..(end - 1)
    <3>1. k - rg.w + 1 \in 1..size
      BY <2>1, <1>1, RingAssumption DEF Rings, Cell
    <3>. QED
      BY <2>1, <3>1, <1>1 DEF size
  <2>2. CASE k \notin rg.w..(end - 1)
    BY <2>2 DEF Rings
  <2>. QED
    BY <2>1, <2>2
<1>5. Enter(rg, item) = [w |-> IF end > BufSize THEN 0 ELSE end, r |-> rg.r,
                         m |-> IF rg.m < end THEN end ELSE rg.m, buf |-> buf]
  BY DEF Enter, size, bytes
<1>6. end = End(rg, item)
  BY DEF End, size, bytes
<1>7. \A k \in Cell : buf[k] = IF k \in rg.w..(end - 1) THEN Bytes(item)[k - rg.w + 1]
                               ELSE rg.buf[k]
  BY DEF bytes
<1>8. rg.w \in Int
  BY RingAssumption DEF Rings
<1>. HIDE DEF end, buf
<1>. QED
  BY <1>2, <1>3, <1>4, <1>5, <1>6, <1>7, <1>8, RingAssumption

\* rng_buf_enter keeps the ring's shape.
LEMMA EnterShape ==
    ASSUME NEW S, NEW rg \in Rings(S), Shape(rg), NEW item \in S, {"cr", "lf"} \subseteq S
    PROVE  Enter(rg, item) \in Rings(S) /\ Shape(Enter(rg, item))
<1>1. CASE ~Fits(rg)
  BY <1>1 DEF Enter
<1>2. CASE Fits(rg)
  <2>. DEFINE end == End(rg, item)
              buf == Enter(rg, item).buf
  <2>1. /\ end \in (rg.w + 1)..(BufSize + ElemSize)
        /\ Wrapped(rg) => end <= rg.r
        /\ buf \in [Cell -> S]
        /\ Enter(rg, item) = [w |-> IF end > BufSize THEN 0 ELSE end, r |-> rg.r,
                              m |-> IF rg.m < end THEN end ELSE rg.m, buf |-> buf]
    BY <1>2, EnterFacts
  <2>. HIDE DEF buf, end
  <2>. QED
    BY <2>1, RingAssumption DEF Rings, Shape, Wrapped
<1>. QED
  BY <1>1, <1>2

\* The indices and bytes after rng_buf_send.
LEMMA SendFacts ==
    ASSUME NEW S, NEW rg \in Rings(S), Shape(rg), Blank \in S
    PROVE  /\ Send(rg) = IF Wrapped(rg)
                         THEN [w |-> rg.w, r |-> 0, m |-> rg.w, buf |-> Send(rg).buf]
                         ELSE [w |-> rg.w, r |-> rg.w, m |-> rg.m, buf |-> Send(rg).buf]
           /\ Send(rg).buf \in [Cell -> S]
           /\ \A k \in Cell : k < rg.r => Send(rg).buf[k] = rg.buf[k]
<1>. DEFINE end == rg.r + Avail(rg)
            rest == [k \in Cell |-> IF k \in rg.r..(end - 1) THEN Blank ELSE rg.buf[k]]
<1>1. rest \in [Cell -> S]
  BY DEF Rings
<1>2. end = IF Wrapped(rg) THEN rg.m ELSE rg.w
  BY RingAssumption DEF Avail, Rings
<1>3. \A k \in Cell : k < rg.r => rest[k] = rg.buf[k]
  BY RingAssumption DEF Cell, Rings
<1>4. Wrapped(rg) => rg.m <= end
  BY <1>2, RingAssumption DEF Rings
<1>5. Send(rg) = IF Wrapped(rg) THEN [rg EXCEPT !.m = rg.w, !.r = 0, !.buf = rest]
                 ELSE [rg EXCEPT !.r = end, !.buf = rest]
  BY <1>4 DEF Send
<1>6. rg = [w |-> rg.w, r |-> rg.r, m |-> rg.m, buf |-> rg.buf]
  BY DEF Rings
<1>. HIDE DEF rest, end
<1>7. Send(rg) = IF Wrapped(rg) THEN [w |-> rg.w, r |-> 0, m |-> rg.w, buf |-> rest]
                 ELSE [w |-> rg.w, r |-> rg.w, m |-> rg.m, buf |-> rest]
  BY <1>2, <1>5, <1>6
<1>8. Send(rg).buf = rest
  BY <1>7
<1>. QED
  BY <1>1, <1>3, <1>7, <1>8

\* rng_buf_send keeps the ring's shape.
LEMMA SendShape ==
    ASSUME NEW S, NEW rg \in Rings(S), Shape(rg), Blank \in S
    PROVE  Send(rg) \in Rings(S) /\ Shape(Send(rg))
<1>. DEFINE rest == Send(rg).buf
<1>1. /\ rest \in [Cell -> S]
      /\ Send(rg) = IF Wrapped(rg) THEN [w |-> rg.w, r |-> 0, m |-> rg.w, buf |-> rest]
                    ELSE [w |-> rg.w, r |-> rg.w, m |-> rg.m, buf |-> rest]
  BY SendFacts
<1>. HIDE DEF rest
<1>. QED
  BY <1>1, RingAssumption DEF Rings, Shape, Wrapped

-----------------------------------------------------------------------------
(* The bytes between two indices, as a sequence. *)

LEMMA SliceSeq ==
    ASSUME NEW S, NEW rg \in Rings(S),
           NEW a \in 0..(BufSize + ElemSize), NEW b \in a..(BufSize + ElemSize)
    PROVE  Slice(rg, a, b) \in Seq(S) /\ Len(Slice(rg, a, b)) = b - a
<1>1. b - a \in Nat
  BY RingAssumption
<1>2. \A k \in 1..(b - a) : a + k - 1 \in Cell
  BY RingAssumption DEF Cell
<1>3. Slice(rg, a, b) \in [1..(b - a) -> S]
  BY <1>2 DEF Slice, Rings
<1>. QED
  BY <1>1, <1>3 DEF Slice

\* Rings that agree between a and b have the same bytes there.
LEMMA SliceSame ==
    ASSUME NEW S, NEW rg \in Rings(S), NEW new \in Rings(S),
           NEW a \in 0..(BufSize + ElemSize), NEW b \in a..(BufSize + ElemSize),
           \A k \in Cell : k \in a..(b - 1) => new.buf[k] = rg.buf[k]
    PROVE  Slice(new, a, b) = Slice(rg, a, b)
<1>1. \A k \in 1..(b - a) : a + k - 1 \in Cell /\ a + k - 1 \in a..(b - 1)
  BY RingAssumption DEF Cell
<1>. QED
  BY <1>1 DEF Slice

\* What is entered stands behind what the ring had up to write_idx.
LEMMA SliceGrows ==
    ASSUME NEW S, NEW rg \in Rings(S), Shape(rg), NEW item \in S, {"cr", "lf"} \subseteq S,
           Fits(rg), NEW a \in 0..rg.w
    PROVE  Slice(Enter(rg, item), a, End(rg, item)) = Slice(rg, a, rg.w) \o Bytes(item)
<1>. DEFINE new == Enter(rg, item)
            end == End(rg, item)
            bytes == Bytes(item)
            s == Slice(new, a, end)
            t == Slice(rg, a, rg.w)
<1>1. /\ end \in (rg.w + 1)..(BufSize + ElemSize)
      /\ new.buf \in [Cell -> S] /\ rg.buf \in [Cell -> S]
      /\ \A k \in Cell : new.buf[k] = IF k \in rg.w..(end - 1) THEN bytes[k - rg.w + 1]
                                      ELSE rg.buf[k]
  BY EnterFacts DEF Rings
<1>a. new \in Rings(S)
  BY EnterShape
<1>2. rg.w \in 0..BufSize /\ a \in 0..(BufSize + ElemSize) /\ a \in Nat
  BY RingAssumption DEF Rings
<1>3. bytes \in Seq(S) /\ Len(bytes) \in Nat /\ end = rg.w + Len(bytes)
  BY BytesLength DEF End
<1>. HIDE DEF new, end, bytes
<1>4. /\ s \in Seq(S) /\ Len(s) = end - a
      /\ \A k \in 1..(end - a) : s[k] = new.buf[a + k - 1]
  <2>1. end \in a..(BufSize + ElemSize)
    BY <1>1, <1>2, RingAssumption
  <2>2. new \in Rings(S) /\ a \in 0..(BufSize + ElemSize)
    BY <1>a, <1>2
  <2>3. s \in Seq(S) /\ Len(s) = end - a
    BY <2>1, <2>2, SliceSeq
  <2>4. \A k \in 1..(end - a) : s[k] = new.buf[a + k - 1]
    BY DEF Slice
  <2>. QED
    BY <2>3, <2>4
<1>5. /\ t \in Seq(S) /\ Len(t) = rg.w - a
      /\ \A k \in 1..(rg.w - a) : t[k] = rg.buf[a + k - 1]
  <2>1. rg.w \in a..(BufSize + ElemSize)
    BY <1>2, RingAssumption
  <2>2. t \in Seq(S) /\ Len(t) = rg.w - a
    BY <2>1, <1>2, SliceSeq
  <2>3. \A k \in 1..(rg.w - a) : t[k] = rg.buf[a + k - 1]
    BY DEF Slice
  <2>. QED
    BY <2>2, <2>3
<1>. HIDE DEF s, t
<1>6. /\ t \o bytes \in Seq(S) /\ Len(t \o bytes) = end - a
      /\ \A k \in 1..(end - a) : (t \o bytes)[k] =
            IF k <= rg.w - a THEN t[k] ELSE bytes[k - (rg.w - a)]
  <2>. DEFINE n == Len(bytes)
              j == Len(t)
              u == t \o bytes
  <2>1. u \in Seq(S) /\ Len(u) = j + n
        /\ \A k \in 1..j + n : u[k] = IF k <= j THEN t[k] ELSE bytes[k - j]
    BY <1>3, <1>5, ConcatProperties
  <2>2. j = rg.w - a /\ j + n = end - a
    <3>. HIDE DEF n
    <3>1. n \in Nat /\ end = rg.w + n
      BY <1>3 DEF n
    <3>. QED
      BY <3>1, <1>2, <1>5
  <2>. HIDE DEF n, j, u
  <2>3. u \in Seq(S) /\ Len(u) = end - a
        /\ \A k \in 1..(end - a) : u[k] = IF k <= rg.w - a THEN t[k] ELSE bytes[k - (rg.w - a)]
    BY <2>1, <2>2
  <2>. QED
    BY <2>3 DEF u
<1>7. \A k \in 1..(end - a) : s[k] = (t \o bytes)[k]
  <2>. SUFFICES ASSUME NEW k \in 1..(end - a) PROVE s[k] = (t \o bytes)[k]
    OBVIOUS
  <2>1. a + k - 1 \in Cell /\ s[k] = new.buf[a + k - 1]
    BY <1>1, <1>2, <1>4, RingAssumption DEF Cell
  <2>2. CASE k <= rg.w - a
    <3>1. k \in 1..(rg.w - a) /\ a + k - 1 \notin rg.w..(end - 1)
      BY <2>2, <1>1, <1>2
    <3>. QED
      BY <2>1, <2>2, <3>1, <1>1, <1>5, <1>6
  <2>3. CASE ~(k <= rg.w - a)
    <3>1. a + k - 1 \in rg.w..(end - 1) /\ (a + k - 1) - rg.w + 1 = k - (rg.w - a)
      BY <2>3, <1>1, <1>2
    <3>. QED
      BY <2>1, <2>3, <3>1, <1>1, <1>6
  <2>. QED
    BY <2>2, <2>3
<1>8. s = t \o bytes
  <2>. DEFINE u == t \o bytes
  <2>1. u \in Seq(S) /\ Len(s) = Len(u) /\ Len(s) = end - a
    BY <1>4, <1>6
  <2>2. \A k \in 1..Len(s) : s[k] = u[k]
    BY <2>1, <1>7
  <2>. HIDE DEF u
  <2>3. s = u
    BY <1>4, <2>1, <2>2, SeqEqual
  <2>. QED
    BY <2>3 DEF u
<1>. QED
  BY <1>8 DEF s, t, new, end, bytes

-----------------------------------------------------------------------------
(* The ring is a queue: what is entered comes last, what is sent was first. *)

LEMMA EmptySlice == ASSUME NEW rg, NEW a \in Int PROVE Slice(rg, a, a) = <<>>
BY DEF Slice

LEMMA ContentsSeq ==
    ASSUME NEW S, NEW rg \in Rings(S), Shape(rg)
    PROVE  Contents(rg) \in Seq(S)
<1>1. rg.buf \in [Cell -> S]
  BY DEF Rings
<1>2. CASE Wrapped(rg)
  <2>1. /\ rg.r \in 0..(BufSize + ElemSize) /\ rg.m \in rg.r..(BufSize + ElemSize)
        /\ 0 \in 0..(BufSize + ElemSize) /\ rg.w \in 0..(BufSize + ElemSize)
    BY <1>2, RingAssumption DEF Rings, Shape, Wrapped
  <2>2. Slice(rg, rg.r, rg.m) \in Seq(S) /\ Slice(rg, 0, rg.w) \in Seq(S)
    BY <1>1, <2>1, SliceSeq
  <2>. QED
    BY <1>2, <2>2, ConcatProperties DEF Contents
<1>3. CASE ~Wrapped(rg)
  <2>1. rg.r \in 0..(BufSize + ElemSize) /\ rg.w \in rg.r..(BufSize + ElemSize)
    BY <1>3, RingAssumption DEF Rings, Shape, Wrapped
  <2>2. Slice(rg, rg.r, rg.w) \in Seq(S)
    BY <1>1, <2>1, SliceSeq
  <2>. QED
    BY <1>3, <2>2 DEF Contents
<1>. QED
  BY <1>2, <1>3

LEMMA EnterContents ==
    ASSUME NEW S, NEW rg \in Rings(S), Shape(rg), NEW item \in S, {"cr", "lf"} \subseteq S,
           Fits(rg)
    PROVE  Contents(Enter(rg, item)) = Contents(rg) \o Bytes(item)
<1>. DEFINE new == Enter(rg, item)
            end == End(rg, item)
            bytes == Bytes(item)
<1>1. /\ end \in (rg.w + 1)..(BufSize + ElemSize)
      /\ Wrapped(rg) => end <= rg.r
      /\ new = [w |-> IF end > BufSize THEN 0 ELSE end, r |-> rg.r,
                m |-> IF rg.m < end THEN end ELSE rg.m, buf |-> new.buf]
      /\ new.buf \in [Cell -> S]
      /\ \A k \in Cell : k \notin rg.w..(end - 1) => new.buf[k] = rg.buf[k]
  BY EnterFacts
<1>2. \A a \in 0..rg.w : Slice(new, a, end) = Slice(rg, a, rg.w) \o bytes
  BY SliceGrows
<1>3. /\ rg.buf \in [Cell -> S] /\ rg.w \in 0..BufSize /\ rg.r \in 0..BufSize
      /\ rg.m \in 0..(BufSize + ElemSize)
  BY DEF Rings
<1>4. bytes \in Seq(S) /\ new \in Rings(S)
  BY BytesLength, EnterShape
<1>. HIDE DEF new, end, bytes
<1>5. /\ new.w = IF end > BufSize THEN 0 ELSE end
      /\ new.r = rg.r /\ new.m = IF rg.m < end THEN end ELSE rg.m
  BY <1>1
<1>6. CASE ~Wrapped(rg)
  <2>1. rg.m = rg.w /\ rg.r \in 0..rg.w
    BY <1>3, <1>6, RingAssumption DEF Shape, Wrapped
  <2>2. Slice(new, rg.r, end) = Contents(rg) \o bytes
    BY <1>2, <1>6, <2>1 DEF Contents
  <2>3. CASE end > BufSize
    <3>1. new.w = 0 /\ new.r = rg.r /\ new.m = end /\ Wrapped(new)
      BY <1>1, <1>3, <1>5, <2>1, <2>3, RingAssumption DEF Wrapped
    <3>2. Slice(new, 0, new.w) = <<>>
      BY <3>1 DEF Slice
    <3>3. Contents(new) = (Contents(rg) \o bytes) \o <<>>
      BY <2>2, <3>1, <3>2 DEF Contents
    <3>4. Contents(rg) \o bytes \in Seq(S)
      BY <1>4, ContentsSeq, ConcatProperties
    <3>. QED
      BY <3>4, <3>3, ConcatEmptySeq DEF new, bytes
  <2>4. CASE ~(end > BufSize)
    <3>1. new.w = end /\ new.r = rg.r /\ ~Wrapped(new)
      BY <1>1, <1>3, <1>5, <2>1, <2>4, RingAssumption DEF Wrapped
    <3>. QED
      BY <2>2, <3>1 DEF Contents, new, bytes
  <2>. QED
    BY <2>3, <2>4
<1>7. CASE Wrapped(rg)
  <2>1. rg.m > BufSize /\ rg.w <= rg.r /\ end <= rg.r
    BY <1>1, <1>3, <1>7, RingAssumption DEF Shape, Wrapped
  <2>2. new.w = end /\ new.r = rg.r /\ new.m = rg.m /\ Wrapped(new)
    BY <1>1, <1>3, <1>5, <2>1, RingAssumption DEF Wrapped
  <2>3. Slice(new, rg.r, rg.m) = Slice(rg, rg.r, rg.m)
    <3>1. rg.r \in 0..(BufSize + ElemSize) /\ rg.m \in rg.r..(BufSize + ElemSize)
      BY <1>3, <2>1, RingAssumption
    <3>2. \A k \in Cell : k \in rg.r..(rg.m - 1) => new.buf[k] = rg.buf[k]
      BY <1>1, <1>3, <2>1, RingAssumption DEF Cell
    <3>. QED
      BY <1>4, <3>1, <3>2, SliceSame
  <2>4. Slice(new, 0, end) = Slice(rg, 0, rg.w) \o bytes
    BY <1>2, <1>3
  <2>5. Slice(rg, rg.r, rg.m) \in Seq(S) /\ Slice(rg, 0, rg.w) \in Seq(S)
    <3>1. /\ rg.r \in 0..(BufSize + ElemSize) /\ rg.m \in rg.r..(BufSize + ElemSize)
          /\ 0 \in 0..(BufSize + ElemSize) /\ rg.w \in 0..(BufSize + ElemSize)
      BY <1>3, <2>1, RingAssumption
    <3>. QED
      BY <1>3, <3>1, SliceSeq
  <2>6. Contents(new) = Slice(rg, rg.r, rg.m) \o (Slice(rg, 0, rg.w) \o bytes)
    BY <2>2, <2>3, <2>4 DEF Contents
  <2>7. Contents(rg) = Slice(rg, rg.r, rg.m) \o Slice(rg, 0, rg.w)
    BY <1>7 DEF Contents
  <2>8. Slice(rg, rg.r, rg.m) \o (Slice(rg, 0, rg.w) \o bytes)
          = (Slice(rg, rg.r, rg.m) \o Slice(rg, 0, rg.w)) \o bytes
    BY <1>4, <2>5, ConcatAssociative
  <2>9. Contents(new) = Contents(rg) \o bytes
    BY <2>6, <2>7, <2>8
  <2>. QED
    BY <2>9 DEF new, bytes
<1>. QED
  BY <1>6, <1>7

LEMMA SendContents ==
    ASSUME NEW S, NEW rg \in Rings(S), Shape(rg), Blank \in S
    PROVE  Contents(Send(rg)) = SubSeq(Contents(rg), Avail(rg) + 1, Len(Contents(rg)))
<1>. DEFINE new == Send(rg)
<1>1. /\ new = IF Wrapped(rg) THEN [w |-> rg.w, r |-> 0, m |-> rg.w, buf |-> new.buf]
               ELSE [w |-> rg.w, r |-> rg.w, m |-> rg.m, buf |-> new.buf]
      /\ new.buf \in [Cell -> S]
      /\ \A k \in Cell : k < rg.r => new.buf[k] = rg.buf[k]
  BY SendFacts
<1>2. /\ rg.buf \in [Cell -> S] /\ rg.w \in 0..BufSize /\ rg.r \in 0..BufSize
      /\ rg.m \in 0..(BufSize + ElemSize)
  BY DEF Rings
<1>a. new \in Rings(S)
  BY SendShape
<1>. HIDE DEF new
<1>3. CASE Wrapped(rg)
  <2>. DEFINE old == Slice(rg, rg.r, rg.m)
              young == Slice(rg, 0, rg.w)
  <2>1. rg.m > BufSize /\ rg.w <= rg.r
    BY <1>2, <1>3, RingAssumption DEF Shape, Wrapped
  <2>2. new.w = rg.w /\ new.r = 0 /\ ~Wrapped(new)
    BY <1>1, <1>2, <1>3, RingAssumption DEF Wrapped
  <2>3. /\ rg.r \in 0..(BufSize + ElemSize) /\ rg.m \in rg.r..(BufSize + ElemSize)
        /\ 0 \in 0..(BufSize + ElemSize) /\ rg.w \in 0..(BufSize + ElemSize)
    BY <1>2, <2>1, RingAssumption
  <2>4. /\ old \in Seq(S) /\ Len(old) = rg.m - rg.r
        /\ young \in Seq(S) /\ Len(young) = rg.w - 0
    BY <2>3, SliceSeq
  <2>5. Contents(new) = young
    <3>1. \A k \in Cell : k \in 0..(rg.w - 1) => new.buf[k] = rg.buf[k]
      BY <1>1, <1>2, <2>1, RingAssumption DEF Cell
    <3>2. Slice(new, 0, rg.w) = young
      BY <1>a, <2>3, <3>1, SliceSame
    <3>. QED
      BY <2>2, <3>2 DEF Contents
  <2>6. Avail(rg) = Len(old) /\ Contents(rg) = old \o young
    BY <1>3, <2>4 DEF Avail, Contents
  <2>. HIDE DEF old, young
  <2>7. SubSeq(old \o young, Len(old) + 1, Len(old \o young)) = young
    <3>1. Len(old) \in Nat /\ Len(young) \in Nat /\ Len(old \o young) = Len(old) + Len(young)
      BY <2>4, ConcatProperties, LenProperties
    <3>2. CASE Len(young) = 0
      <4>1. young = <<>>
        BY <2>4, <3>2, EmptySeq
      <4>. QED
        BY <3>1, <3>2, <4>1, SubSeqEmpty
    <3>3. CASE Len(young) # 0
      <4>. DEFINE n == Len(old)
                  j == Len(young)
      <4>1. n + 1 \in n + 1..n + j /\ n + j \in n + 1..n + j
        BY <3>1, <3>3
      <4>2. SubSeq(old \o young, n + 1, n + j) = SubSeq(young, (n + 1) - n, (n + j) - n)
        BY <2>4, <4>1, SubSeqOfConcat2
      <4>3. (n + 1) - n = 1 /\ (n + j) - n = j
        <5>1. n \in Nat /\ j \in Nat
          BY <3>1
        <5>. HIDE DEF n, j
        <5>. QED
          BY <5>1
      <4>4. SubSeq(young, 1, j) = young
        BY <2>4, SubSeqFull
      <4>. QED
        BY <3>1, <4>2, <4>3, <4>4
    <3>. QED
      BY <3>2, <3>3
  <2>. QED
    BY <2>5, <2>6, <2>7 DEF new
<1>4. CASE ~Wrapped(rg)
  <2>1. /\ rg.m = rg.w /\ rg.r \in 0..(BufSize + ElemSize)
        /\ rg.w \in rg.r..(BufSize + ElemSize)
    BY <1>2, <1>4, RingAssumption DEF Shape, Wrapped
  <2>2. new.w = rg.w /\ new.r = rg.w /\ ~Wrapped(new)
    BY <1>1, <1>2, <1>4, <2>1, RingAssumption DEF Wrapped
  <2>3. Contents(new) = <<>>
    BY <1>2, <2>2, RingAssumption, EmptySlice DEF Contents
  <2>4. Len(Contents(rg)) = rg.w - rg.r
    BY <1>4, <2>1, SliceSeq DEF Contents
  <2>5. Avail(rg) = rg.w - rg.r /\ rg.w - rg.r \in Int
    BY <1>2, <1>4, RingAssumption DEF Avail
  <2>. QED
    BY <2>3, <2>4, <2>5, SubSeqEmpty DEF new
<1>. QED
  BY <1>3, <1>4

-----------------------------------------------------------------------------
(* The invariant: the ring has its shape, and its contents is what is owed. *)

RingInv ==
    \E S : /\ {"cr", "lf", Blank} \subseteq S
           /\ rng \in Rings(S) /\ owed \in Seq(S)
           /\ Shape(rng) /\ Contents(rng) = owed

\* What every step does to the ring: nothing, a reset, an echo or a send.
LEMMA InitRing == Init => RingInv
<1>. SUFFICES ASSUME Init PROVE RingInv
  OBVIOUS
<1>. DEFINE S == {"cr", "lf", Blank}
<1>1. rng = Empty /\ owed = <<>>
  BY DEF Init
<1>2. owed \in Seq(S)
  BY <1>1
<1>3. Blank \in S
  OBVIOUS
<1>4. rng \in Rings(S) /\ Shape(rng) /\ Contents(rng) = owed
  BY <1>1, <1>3, EmptyShape
<1>. QED
  BY <1>2, <1>4 DEF RingInv

LEMMA ResetRing ==
    ASSUME rng' = Reset(rng), owed' = <<>> PROVE RingInv'
<1>. DEFINE S == {"cr", "lf", Blank}
<1>1. rng' = Empty
  BY DEF Reset
<1>2. owed' \in Seq(S)
  OBVIOUS
<1>3. Blank \in S
  OBVIOUS
<1>4. rng' \in Rings(S) /\ Shape(rng') /\ Contents(rng') = owed'
  BY <1>1, <1>3, EmptyShape
<1>. QED
  BY <1>2, <1>4 DEF RingInv

LEMMA QuietRing == RingInv /\ UNCHANGED <<rng, owed>> => RingInv'
BY DEF RingInv

LEMMA EchoRing ==
    ASSUME RingInv, NEW item, Echo(item) PROVE RingInv'
<1>1. PICK T : /\ {"cr", "lf", Blank} \subseteq T
               /\ rng \in Rings(T) /\ owed \in Seq(T)
               /\ Shape(rng) /\ Contents(rng) = owed
  BY DEF RingInv
<1>. DEFINE S == T \cup {item}
<1>2. /\ {"cr", "lf"} \subseteq S /\ {"cr", "lf", Blank} \subseteq S
      /\ item \in S /\ T \subseteq S
  BY <1>1
<1>. HIDE DEF S
<1>3. rng \in Rings(S) /\ owed \in Seq(S)
  <2>1. owed \in Seq(S)
    BY <1>1, <1>2, SeqMonotonic
  <2>2. \A f \in [Cell -> T] : f \in [Cell -> S]
    BY <1>2
  <2>. QED
    BY <1>1, <2>1, <2>2 DEF Rings
<1>4. rng' = Enter(rng, item)
  BY DEF Echo
<1>5. rng' \in Rings(S) /\ Shape(rng')
  BY <1>1, <1>2, <1>3, <1>4, EnterShape
<1>6. CASE Fits(rng)
  <2>1. owed' = owed \o Bytes(item)
    BY <1>6 DEF Echo
  <2>2. Contents(rng') = Contents(rng) \o Bytes(item)
    BY <1>1, <1>2, <1>3, <1>4, <1>6, EnterContents
  <2>3. Bytes(item) \in Seq(S)
    BY <1>2, BytesLength
  <2>4. owed' \in Seq(S)
    BY <1>3, <2>1, <2>3, ConcatProperties
  <2>. QED
    BY <1>1, <1>2, <1>5, <2>1, <2>2, <2>4 DEF RingInv
<1>7. CASE ~Fits(rng)
  <2>1. owed' = owed /\ rng' = rng
    BY <1>4, <1>7 DEF Echo, Enter
  <2>. QED
    BY <1>1, <1>2, <1>3, <1>5, <2>1 DEF RingInv
<1>. QED
  BY <1>6, <1>7

LEMMA SendRing ==
    ASSUME RingInv, rng' = Send(rng), owed' = SubSeq(owed, Avail(rng) + 1, Len(owed))
    PROVE  RingInv'
<1>1. PICK S : /\ {"cr", "lf", Blank} \subseteq S
               /\ rng \in Rings(S) /\ owed \in Seq(S)
               /\ Shape(rng) /\ Contents(rng) = owed
  BY DEF RingInv
<1>2. Blank \in S
  BY <1>1
<1>3. rng' \in Rings(S) /\ Shape(rng')
  BY <1>1, <1>2, SendShape
<1>4. Contents(rng') = owed'
  BY <1>1, <1>2, SendContents
<1>5. owed' \in Seq(S)
  BY <1>3, <1>4, ContentsSeq
<1>. QED
  BY <1>1, <1>3, <1>4, <1>5 DEF RingInv

LEMMA TaskRing == RingInv /\ Task => RingInv'
<1>. SUFFICES ASSUME RingInv, Task PROVE RingInv'
  OBVIOUS
<1>1. CASE Option
  BY <1>1, EchoRing, QuietRing DEF Option, Quiet
<1>2. CASE Character
  BY <1>2, EchoRing, QuietRing DEF Character, Quiet
<1>3. CASE EndOfLine
  BY <1>3, EchoRing DEF EndOfLine
<1>4. CASE EndOfInput \/ NoSession \/ Recv \/ NothingToRead \/ Broken
  BY <1>4, QuietRing DEF EndOfInput, NoSession, Recv, NothingToRead, Broken
<1>5. CASE Auth
  BY <1>5, EchoRing, QuietRing DEF Auth, Quiet
<1>6. CASE Exec
  BY <1>6, EchoRing DEF Exec
<1>7. CASE Quit
  BY <1>7, EchoRing DEF Quit
<1>8. CASE Activate
  BY <1>8, ResetRing DEF Activate
<1>9. CASE \E h \in Host : Accept(h)
  BY <1>9, EchoRing DEF Accept, Make
<1>10. CASE \E h \in Host : AcceptRefused(h) \/ AcceptFails(h)
  BY <1>10, QuietRing DEF AcceptRefused, AcceptFails
<1>11. CASE SendOut
  BY <1>11, SendRing DEF SendOut
<1>. QED
  BY <1>1, <1>2, <1>3, <1>4, <1>5, <1>6, <1>7, <1>8, <1>9, <1>10, <1>11 DEF Task

LEMMA NextRing == RingInv /\ [Next]_vars => RingInv'
<1>. SUFFICES ASSUME RingInv, [Next]_vars PROVE RingInv'
  OBVIOUS
<1>1. CASE Task
  BY <1>1, TaskRing
<1>2. ASSUME NEW h \in Host, Connect(h) \/ Leave(h) \/ \E tok \in NextTokens(h) : Type(h, tok)
      PROVE  RingInv'
  BY <1>2, QuietRing DEF Connect, Leave, Type
<1>3. CASE UNCHANGED vars
  BY <1>3, QuietRing DEF vars
<1>. QED
  BY <1>1, <1>2, <1>3 DEF Next

\* The ring's indices keep their shape, and what it has to send is what was
\* taken into it and not sent, in order: for all sizes given to rng_buf_create,
\* all hosts and all they may type.
THEOREM RingInvariant == Spec => []RingInv
<1>. QED
  BY InitRing, NextRing, PTL DEF Spec

\* rng_buf_enter and rng_buf_send keep the indices of the ring in it.
THEOREM RingKeepsShape == Spec => []RingShape
<1>1. RingInv => RingShape
  BY DEF RingInv, RingShape
<1>. QED
  BY <1>1, RingInvariant, PTL

\* Nothing that the ring has taken is lost, doubled or sent out of order.
THEOREM RingIsQueue == Spec => []OutputInOrder
<1>1. RingInv => OutputInOrder
  BY DEF RingInv, OutputInOrder
<1>. QED
  BY <1>1, RingInvariant, PTL

-----------------------------------------------------------------------------
(* Types, the marks of the input buffer, and one session at a time. *)

\* The input buffer, read_idx and what is on its way, as sequences of bytes.
InputInv ==
    /\ readIdx \in Nat
    /\ \E S : unread \in Seq(S) /\ net \in [Host -> Seq(S)]
    /\ readIdx + Len(unread) \in 0..InSize

SessionInv ==
    /\ peer \in [Host -> {"none", "pending", "open", "left", "closed"}]
    /\ session \in Host \cup {NoHost}
    /\ state \in {"INIT", "SYNC", "USER", "PASS", "SESSION"}
    /\ state = "INIT" <=> session = NoHost
    /\ listening \in BOOLEAN /\ cr \in BOOLEAN /\ stale \in BOOLEAN
    /\ overrun \in BOOLEAN /\ spoilt \in BOOLEAN
    /\ pc \in {"parse", "line", "select", "recv", "dead"}
    /\ pc = "line" => state # "INIT"
    /\ OneSession

LEMMA InitInput == Init => InputInv
<1>. SUFFICES ASSUME Init PROVE InputInv
  OBVIOUS
<1>1. unread \in Seq({}) /\ net \in [Host -> Seq({})] /\ Len(unread) = 0
  BY DEF Init
<1>. QED
  BY <1>1, TelnetAssumption DEF Init, InputInv

\* Bytes are taken from the front, and the rest stays where it is.
LEMMA ConsumeInput ==
    ASSUME InputInv, NEW n \in 1..Len(unread), UNCHANGED net,
           unread' = SubSeq(unread, n + 1, Len(unread)), readIdx' = readIdx + n
    PROVE  InputInv'
<1>1. PICK S : unread \in Seq(S) /\ net \in [Host -> Seq(S)]
  BY DEF InputInv
<1>. DEFINE size == Len(unread)
            rest == SubSeq(unread, n + 1, size)
<1>2. size \in Nat /\ n \in 1..size /\ readIdx \in Nat /\ readIdx + size \in 0..InSize
  BY <1>1, LenProperties DEF InputInv
<1>3. rest \in Seq(S) /\ Len(rest) = size - n
  <2>1. CASE n = size
    <3>1. rest = <<>>
      BY <1>2, <2>1, SubSeqEmpty
    <3>. QED
      BY <1>2, <2>1, <3>1
  <2>2. CASE n # size
    <3>1. n + 1 \in 1..size + 1 /\ size \in (n + 1) - 1..size
      <4>. HIDE DEF size
      <4>. QED
        BY <1>2
    <3>2. rest \in Seq(S) /\ Len(rest) = IF n + 1 <= size THEN size - (n + 1) + 1 ELSE 0
      <4>1. n + 1 \in 1..size /\ n + 1 <= size
        <5>. HIDE DEF size
        <5>. QED
          BY <1>2, <2>2
      <4>. QED
        BY <1>1, <4>1, SubSeqProperties
    <3>. HIDE DEF size, rest
    <3>. QED
      BY <1>2, <2>2, <3>2
  <2>. QED
    BY <2>1, <2>2
<1>4. unread' = rest /\ Len(unread') = size - n
  BY <1>3
<1>5. readIdx' \in Nat /\ readIdx' + Len(unread') \in 0..InSize
  <2>. DEFINE left == Len(unread')
  <2>1. /\ size \in Nat /\ n \in Nat /\ n <= size /\ readIdx \in Nat /\ InSize \in Nat
        /\ readIdx + size <= InSize /\ readIdx' = readIdx + n /\ left = size - n
    BY <1>2, <1>4, TelnetAssumption
  <2>. HIDE DEF size, rest, left
  <2>2. readIdx' \in Nat /\ readIdx' + left \in 0..InSize
    BY <2>1
  <2>. QED
    BY <2>2 DEF left
<1>. QED
  BY <1>1, <1>3, <1>4, <1>5 DEF InputInv

\* The same when the rest is moved to the front of the buffer.
LEMMA MovedInput ==
    ASSUME InputInv, NEW n \in 0..1, n <= Len(unread), UNCHANGED net,
           Moved(IF n = 0 THEN unread ELSE Tail(unread), readIdx + n)
    PROVE  InputInv'
<1>1. PICK S : unread \in Seq(S) /\ net \in [Host -> Seq(S)]
  BY DEF InputInv
<1>. DEFINE size == Len(unread)
            rest == IF n = 0 THEN unread ELSE Tail(unread)
<1>2. size \in Nat /\ readIdx \in Nat /\ readIdx + size \in 0..InSize
  BY <1>1, LenProperties DEF InputInv
<1>3. rest \in Seq(S) /\ Len(rest) = size - n
  <2>1. CASE n = 0
    BY <1>1, <1>2, <2>1
  <2>2. CASE n = 1
    <3>1. unread # <<>>
      BY <2>2, <1>1, <1>2, EmptySeq
    <3>. QED
      BY <1>1, <2>2, <3>1, HeadTailProperties
  <2>. QED
    BY <2>1, <2>2
<1>4. unread' = rest /\ Len(unread') = size - n
      /\ (readIdx' = 0 \/ readIdx' = readIdx + n)
  BY <1>3 DEF Moved
<1>5. readIdx' \in Nat /\ readIdx' + Len(unread') \in 0..InSize
  <2>1. n <= size
    OBVIOUS
  <2>. HIDE DEF size, rest
  <2>. QED
    BY <1>2, <1>4, <2>1, TelnetAssumption
<1>. QED
  BY <1>1, <1>3, <1>4, <1>5 DEF InputInv

\* recv takes no more than there is room for.
LEMMA RecvInput == ASSUME InputInv, SessionInv, Recv PROVE InputInv'
<1>1. PICK S : unread \in Seq(S) /\ net \in [Host -> Seq(S)]
  BY DEF InputInv
<1>2. session \in Host
  BY DEF Recv, SessionInv
<1>. DEFINE came == net[session]
<1>3. PICK n \in 1..Len(came) :
         /\ n <= Insize
         /\ unread' = unread \o SubSeq(came, 1, n)
         /\ net' = [net EXCEPT ![session] = SubSeq(@, n + 1, Len(@))]
  BY DEF Recv
<1>4. came \in Seq(S) /\ Len(came) \in Nat
  BY <1>1, <1>2, LenProperties
<1>. DEFINE first == SubSeq(came, 1, n)
            size == Len(unread)
<1>5. first \in Seq(S) /\ Len(first) = n /\ SubSeq(came, n + 1, Len(came)) \in Seq(S)
  BY <1>4, SubSeqProperties
<1>6. unread' \in Seq(S) /\ Len(unread') = size + n
  BY <1>1, <1>3, <1>5, ConcatProperties
<1>7. net' \in [Host -> Seq(S)]
  BY <1>1, <1>2, <1>3, <1>5
<1>8. readIdx' = readIdx /\ readIdx' + Len(unread') \in 0..InSize
  <2>1. size \in Nat /\ readIdx \in Nat /\ n \in Nat /\ readIdx' = readIdx
    BY <1>1, <1>4, LenProperties DEF InputInv, Recv
  <2>2. n <= (IF readIdx + size < InSize - IacMax THEN InSize - (readIdx + size) ELSE 0)
    BY <1>3 DEF Insize
  <2>3. n >= 1 /\ InSize \in Nat /\ IacMax \in Nat
    BY <1>3, <1>4, TelnetAssumption
  <2>. HIDE DEF size
  <2>. QED
    BY <1>6, <2>1, <2>2, <2>3
<1>. QED
  BY <1>6, <1>7, <1>8 DEF InputInv

LEMMA TypeInput ==
    ASSUME InputInv, NEW h \in Host, NEW tok, Type(h, tok) PROVE InputInv'
<1>1. PICK T : unread \in Seq(T) /\ net \in [Host -> Seq(T)]
  BY DEF InputInv
<1>. DEFINE S == T \cup {tok, "iac", "do", "sb", "se", "v", "cr", "lf", "nul"}
            sent == Coding(tok)
<1>2. sent \in Seq(S)
  <2>1. /\ <<"iac", "do", "v">> \in Seq(S) /\ <<"iac", "sb", "v", "iac", "se">> \in Seq(S)
        /\ <<"cr", "lf">> \in Seq(S) /\ <<"cr", "nul">> \in Seq(S) /\ <<tok>> \in Seq(S)
    OBVIOUS
  <2>2. \/ sent = <<"iac", "do", "v">> \/ sent = <<"iac", "sb", "v", "iac", "se">>
        \/ sent = <<"cr", "lf">> \/ sent = <<"cr", "nul">> \/ sent = <<tok>>
    BY DEF Coding
  <2>. QED
    BY <2>1, <2>2
<1>3. T \subseteq S
  OBVIOUS
<1>. HIDE DEF S, sent
<1>4. unread \in Seq(S) /\ \A g \in Host : net[g] \in Seq(S)
  BY <1>1, <1>3, SeqMonotonic
<1>5. net' = [net EXCEPT ![h] = @ \o sent] /\ UNCHANGED <<unread, readIdx>>
  BY DEF Type, input, sent
<1>6. net[h] \o sent \in Seq(S)
  BY <1>2, <1>4, ConcatProperties
<1>7. net' \in [Host -> Seq(S)]
  BY <1>1, <1>4, <1>5, <1>6
<1>. QED
  BY <1>4, <1>5, <1>7 DEF InputInv

LEMMA FreedInput ==
    ASSUME InputInv, unread' = <<>>, readIdx' = 0, Lost \/ UNCHANGED net PROVE InputInv'
<1>1. PICK S : unread \in Seq(S) /\ net \in [Host -> Seq(S)]
  BY DEF InputInv
<1>2. unread' \in Seq(S) /\ Len(unread') = 0 /\ <<>> \in Seq(S)
  OBVIOUS
<1>3. net' \in [Host -> Seq(S)]
  BY <1>1, <1>2 DEF Lost, AtSession
<1>. QED
  BY <1>2, <1>3, TelnetAssumption DEF InputInv

LEMMA SameInput == InputInv /\ UNCHANGED <<readIdx, unread, net>> => InputInv'
BY DEF InputInv

\* An option has at most the bytes there are.
LEMMA OptionFits ==
    ASSUME InputInv, OptionLen > 0 PROVE OptionLen \in 1..Len(unread)
<1>1. Len(unread) \in Nat
  BY LenProperties DEF InputInv
<1>. DEFINE size == Len(unread)
            ends == {k \in 4..size : unread[k - 1] = "iac" /\ unread[k] = "se"}
            least == CHOOSE k \in ends : \A j \in ends : k <= j
<1>2. OptionLen = IF size < 3 THEN 0 ELSE IF unread[2] # "sb" THEN 3
                  ELSE IF ends = {} THEN 0 ELSE least
  BY DEF OptionLen
<1>3. ends # {} => least \in ends
  <2>. SUFFICES ASSUME ends # {} PROVE \E k \in ends : \A j \in ends : k <= j
    OBVIOUS
  <2>1. ends \subseteq Nat
    OBVIOUS
  <2>. HIDE DEF ends
  <2>. QED
    BY <2>1, LeastOfNat
<1>4. ends \subseteq 1..size
  BY <1>1
<1>. HIDE DEF ends, least, size
<1>. QED
  BY <1>1, <1>2, <1>3, <1>4 DEF size
\* The input buffer keeps its marks whatever the task and the hosts do.
LEMMA StepInput == ASSUME InputInv, SessionInv, [Next]_vars PROVE InputInv'
<1>1. CASE Option
  <2>1. OptionLen \in 1..Len(unread)
    BY <1>1, OptionFits DEF Option
  <2>. QED
    BY <1>1, <2>1, ConsumeInput DEF Option, Consume, hosts
<1>2. Parsing => 1 \in 1..Len(unread)
  BY LenProperties, EmptySeq DEF InputInv, Parsing
<1>3. CASE Character
  BY <1>2, <1>3, ConsumeInput DEF Character, Consume, hosts
<1>4. CASE EndOfLine
  <2>1. 1 \in 0..1 /\ 1 <= Len(unread)
    <3>1. 1 \in 1..Len(unread) /\ Len(unread) \in Nat
      BY <1>2, <1>4, LenProperties DEF EndOfLine, InputInv
    <3>. QED
      BY <3>1
  <2>2. Moved(IF 1 = 0 THEN unread ELSE Tail(unread), readIdx + 1) /\ UNCHANGED net
    BY <1>4 DEF EndOfLine, hosts
  <2>. QED
    BY <2>1, <2>2, MovedInput
<1>5. CASE EndOfInput
  <2>1. 0 \in 0..1 /\ 0 <= Len(unread) /\ readIdx + 0 = readIdx
    BY LenProperties DEF InputInv
  <2>2. Moved(IF 0 = 0 THEN unread ELSE Tail(unread), readIdx + 0) /\ UNCHANGED net
    BY <1>5, <2>1 DEF EndOfInput, hosts
  <2>. QED
    BY <2>1, <2>2, MovedInput
<1>6. CASE NoSession \/ Auth \/ Exec \/ Activate \/ SendOut \/ NothingToRead \/ UNCHANGED vars
  BY <1>6, SameInput
  DEF NoSession, Auth, Exec, Activate, SendOut, NothingToRead, vars, hosts, input
<1>7. CASE Quit \/ Broken
  BY <1>7, FreedInput DEF Quit, Broken, Free
<1>8. CASE \E h \in Host : Accept(h) \/ AcceptRefused(h) \/ AcceptFails(h)
  BY <1>8, FreedInput, SameInput DEF Accept, AcceptRefused, AcceptFails, Free, hosts, input
<1>9. CASE Recv
  BY <1>9, RecvInput
<1>10. CASE \E h \in Host :
              Connect(h) \/ Leave(h) \/ \E tok \in NextTokens(h) : Type(h, tok)
  <2>. PICK h \in Host :
              Connect(h) \/ Leave(h) \/ \E tok \in NextTokens(h) : Type(h, tok)
    BY <1>10
  <2>1. CASE Connect(h) \/ Leave(h)
    BY <2>1, SameInput DEF Connect, Leave, input
  <2>2. CASE \E tok \in NextTokens(h) : Type(h, tok)
    BY <2>2, TypeInput
  <2>. QED
    BY <2>1, <2>2
<1>. QED
  BY <1>1, <1>3, <1>4, <1>5, <1>6, <1>7, <1>8, <1>9, <1>10 DEF Next, Task

\* Closing the session's connection leaves none open.
LEMMA ClosedSession ==
    ASSUME SessionInv, NEW g \in Host
    PROVE  /\ AtSession(peer, "closed") \in
                 [Host -> {"none", "pending", "open", "left", "closed"}]
           /\ AtSession(peer, "closed")[g] \notin {"open", "left"}
BY DEF SessionInv, OneSession, AtSession

LEMMA StepSession == ASSUME SessionInv, [Next]_vars PROVE SessionInv'
<1>1. CASE Option \/ Character \/ EndOfLine \/ EndOfInput \/ NoSession
  BY <1>1 DEF Option, Character, EndOfLine, EndOfInput, NoSession, Parsing, Consume, SessionInv,
              OneSession, hosts, input, cmdbuf
<1>2. CASE Auth \/ Exec
  BY <1>2 DEF Auth, Exec, Answered, SessionInv, OneSession, hosts, input, cmdbuf
<1>3. CASE Quit \/ Broken
  <2>1. \A g \in Host : peer' \in [Host -> {"none", "pending", "open", "left", "closed"}]
                        /\ peer'[g] \notin {"open", "left"}
    BY <1>3, ClosedSession DEF Quit, Broken
  <2>2. peer' \in [Host -> {"none", "pending", "open", "left", "closed"}]
    BY <1>3 DEF Quit, Broken, SessionInv, AtSession
  <2>. QED
    BY <1>3, <2>1, <2>2 DEF Quit, Broken, Free, SessionInv, OneSession, cmdbuf
<1>4. CASE \E h \in Host : Accept(h) \/ AcceptFails(h)
  <2>. PICK h \in Host : Accept(h) \/ AcceptFails(h)
    BY <1>4
  <2>. DEFINE closed == AtSession(peer, "closed")
  <2>1. /\ closed \in [Host -> {"none", "pending", "open", "left", "closed"}]
        /\ \A g \in Host : closed[g] \notin {"open", "left"}
    BY ClosedSession
  <2>. HIDE DEF closed
  <2>2. CASE Accept(h)
    <3>1. peer' = [closed EXCEPT ![h] = "open"] /\ session' = h /\ state' = "SYNC"
      BY <2>2 DEF Accept, Make, closed
    <3>2. /\ stale' \in BOOLEAN /\ cr' \in BOOLEAN /\ listening' \in BOOLEAN /\ pc' = "parse"
          /\ overrun' \in BOOLEAN /\ spoilt' \in BOOLEAN
      BY <2>2 DEF Accept, Make, SessionInv, cmdbuf
    <3>3. OneSession'
      BY <2>1, <3>1 DEF OneSession
    <3>. QED
      BY <2>1, <3>1, <3>2, <3>3, TelnetAssumption DEF SessionInv
  <2>3. CASE AcceptFails(h)
    <3>1. /\ peer' = [closed EXCEPT ![h] = "closed"] /\ session' = NoHost /\ state' = "INIT"
          /\ UNCHANGED <<listening, cr, stale, overrun, spoilt>> /\ pc' = "parse"
      BY <2>3 DEF AcceptFails, Free, closed, cmdbuf
    <3>2. OneSession'
      BY <2>1, <3>1 DEF OneSession
    <3>. QED
      BY <2>1, <3>1, <3>2, TelnetAssumption DEF SessionInv
  <2>. QED
    BY <2>2, <2>3
<1>5. CASE Activate \/ SendOut \/ Recv \/ NothingToRead \/ \E h \in Host : AcceptRefused(h)
  <2>1. /\ UNCHANGED <<peer, session, state, cr, overrun, spoilt, stale>>
        /\ listening' \in {listening, TRUE} /\ pc' \in {"parse", "recv"}
    BY <1>5
    DEF Activate, SendOut, Recv, NothingToRead, AcceptRefused, hosts, input, cmdbuf
  <2>. QED
    BY <2>1 DEF SessionInv, OneSession
<1>6. CASE UNCHANGED vars
  BY <1>6 DEF SessionInv, OneSession, vars, hosts, input, cmdbuf
<1>7. CASE \E h \in Host : Connect(h) \/ Leave(h) \/ \E tok \in NextTokens(h) : Type(h, tok)
  BY <1>7 DEF Connect, Leave, Type, SessionInv, OneSession, input, cmdbuf
<1>. QED
  BY <1>1, <1>2, <1>3, <1>4, <1>5, <1>7, <1>6 DEF Next, Task

LEMMA SessionAndInput == Spec => [](SessionInv /\ InputInv)
<1>1. Init => SessionInv
  BY TelnetAssumption DEF Init, SessionInv, OneSession
<1>. QED
  BY <1>1, InitInput, StepInput, StepSession, PTL DEF Spec

\* What the variables of the telnet server may hold; in particular no option, line
\* or recv takes the input over the end of in_buf.  Nothing is said of cmd_len, which
\* a long line takes over the end of cmd_buf.
THEOREM TelnetTypes == Spec => []TypeOK
<1>1. SessionInv /\ InputInv => TypeOK
  BY DEF SessionInv, InputInv, TypeOK
<1>. QED
  BY <1>1, SessionAndInput, PTL

\* A connection is never left open beside the session's, for any number of hosts
\* that come over each other.
THEOREM OneSessionOnly == Spec => []OneSession
<1>1. SessionInv => OneSession
  BY DEF SessionInv
<1>. QED
  BY <1>1, SessionAndInput, PTL

-----------------------------------------------------------------------------
(* Lines.  What has come and what is on its way is one sequence of bytes.   *)
(* As they are read one stage follows another: where in an option or an end *)
(* of line this is, the line so far, and the lines that are still to end.   *)

Mode == {"text", "cr", "iac", "do", "sb", "sbv", "sbiac"}
Stage(S) == [mode : Mode, cmd : S, rest : Seq(S)]

Passes(x, ch, y) ==
    /\ \/ x.mode = "text" /\ ch = "iac" /\ y.mode = "iac"
       \/ x.mode = "iac" /\ ch = "do" /\ y.mode = "do"
       \/ x.mode = "do" /\ ch = "v" /\ y.mode = "text"
       \/ x.mode = "iac" /\ ch = "sb" /\ y.mode = "sb"
       \/ x.mode = "sb" /\ ch = "v" /\ y.mode = "sbv"
       \/ x.mode = "sbv" /\ ch = "iac" /\ y.mode = "sbiac"
       \/ x.mode = "sbiac" /\ ch = "se" /\ y.mode = "text"
       \/ x.mode = "text" /\ ch = "cr" /\ y.mode = "cr"
    /\ y.cmd = x.cmd /\ y.rest = x.rest
Writes(x, ch, y) ==
    /\ x.mode = "text" /\ ch \notin {"iac", "cr", "lf", "nul"}
    /\ y.mode = "text" /\ y.rest = x.rest
    /\ y.cmd = IF ch = "bs" THEN DropLast(x.cmd) ELSE Append(x.cmd, ch)
Ends(x, ch, y) ==
    /\ (x.mode = "text" /\ ch = "lf") \/ (x.mode = "cr" /\ ch \in {"lf", "nul"})
    /\ x.rest # <<>> /\ Head(x.rest) = x.cmd
    /\ y.mode = "text" /\ y.cmd = <<>> /\ y.rest = Tail(x.rest)
Follows(x, ch, y) == Passes(x, ch, y) \/ Writes(x, ch, y) \/ Ends(x, ch, y)

Run(r, q, S) ==
    /\ r \in [0..Len(q) -> Stage(S)]
    /\ \A i \in 1..Len(q) : Follows(r[i - 1], q[i], r[i])

\* The bytes q lead from the stage x to the stage y.
Leads(q, S, x, y) == \E r : Run(r, q, S) /\ r[0] = x /\ r[Len(q)] = y

At0(mode, text, rest) == [mode |-> mode, cmd |-> text, rest |-> rest]

\* The first bytes are taken.
LEMMA LeadsRest ==
    ASSUME NEW B, NEW q \in Seq(B), NEW S, NEW r, Run(r, q, S), NEW n \in 0..Len(q)
    PROVE  /\ Leads(SubSeq(q, n + 1, Len(q)), S, r[n], r[Len(q)])
           /\ r[n] \in Stage(S)
<1>. DEFINE all == Len(q)
            p == SubSeq(q, n + 1, all)
            size == Len(p)
            t == [i \in 0..all - n |-> r[i + n]]
<1>1. all \in Nat
  BY LenProperties
<1>2. size = all - n /\ \A k \in 1..size : p[k] = q[k + n] /\ k + n \in 1..all
  BY Rest
<1>3. n \in Nat /\ n <= all
  <2>. HIDE DEF all
  <2>. QED
    BY <1>1 DEF all
<1>4. r \in [0..all -> Stage(S)] /\ \A i \in 1..all : Follows(r[i - 1], q[i], r[i])
  BY DEF Run
<1>. HIDE DEF all, p, size
<1>5. t \in [0..size -> Stage(S)]
  <2>1. \A i \in 0..all - n : i + n \in 0..all
    BY <1>1, <1>3
  <2>. QED
    BY <1>2, <1>4, <2>1
<1>6. ASSUME NEW i \in 1..size PROVE Follows(t[i - 1], p[i], t[i])
  <2>1. i \in 0..all - n /\ i - 1 \in 0..all - n /\ (i - 1) + n = (i + n) - 1
    BY <1>1, <1>2, <1>3
  <2>2. t[i] = r[i + n] /\ t[i - 1] = r[(i + n) - 1]
    BY <2>1
  <2>3. p[i] = q[i + n] /\ i + n \in 1..all
    BY <1>2
  <2>. QED
    BY <1>4, <2>2, <2>3
<1>7. t[0] = r[n] /\ t[size] = r[all]
  <2>1. 0 \in 0..all - n /\ 0 + n = n /\ all - n \in 0..all - n /\ (all - n) + n = all
    BY <1>1, <1>3
  <2>. QED
    BY <1>2, <2>1
<1>8. n \in 0..all
  BY <1>1, <1>3
<1>. HIDE DEF t
<1>9. Leads(p, S, r[n], r[all])
  BY <1>5, <1>6, <1>7 DEF Leads, Run, size
<1>. QED
  BY <1>4, <1>8, <1>9 DEF p, all

\* A byte comes.
LEMMA LeadsOn ==
    ASSUME NEW B, NEW q \in Seq(B), NEW S, NEW x, NEW y, Leads(q, S, x, y),
           NEW ch \in B, NEW z \in Stage(S), Follows(y, ch, z)
    PROVE  Append(q, ch) \in Seq(B) /\ Leads(Append(q, ch), S, x, z)
<1>. DEFINE all == Len(q)
            p == Append(q, ch)
            size == Len(p)
<1>1. PICK r : Run(r, q, S) /\ r[0] = x /\ r[all] = y
  BY DEF Leads
<1>2. all \in Nat
  BY LenProperties
<1>3. p \in Seq(B) /\ size = all + 1 /\ p[all + 1] = ch /\ \A i \in 1..all : p[i] = q[i]
  BY AppendProperties
<1>4. r \in [0..all -> Stage(S)] /\ \A i \in 1..all : Follows(r[i - 1], q[i], r[i])
  BY <1>1 DEF Run
<1>. DEFINE t == [i \in 0..all + 1 |-> IF i = all + 1 THEN z ELSE r[i]]
<1>. HIDE DEF all, p, size
<1>5. t \in [0..size -> Stage(S)]
  <2>1. \A i \in 0..all + 1 : i = all + 1 \/ i \in 0..all
    BY <1>2
  <2>. QED
    BY <1>3, <1>4, <2>1
<1>6. /\ \A i \in 0..all : t[i] = r[i]
      /\ t[all + 1] = z
  <2>1. \A i \in 0..all : i \in 0..all + 1 /\ i # all + 1
    BY <1>2
  <2>2. all + 1 \in 0..all + 1
    BY <1>2
  <2>. QED
    BY <2>1, <2>2
<1>. HIDE DEF t
<1>7. ASSUME NEW i \in 1..size PROVE Follows(t[i - 1], p[i], t[i])
  <2>1. i \in 1..all \/ i = all + 1
    BY <1>2, <1>3
  <2>2. CASE i \in 1..all
    <3>1. i \in 0..all /\ i - 1 \in 0..all
      BY <1>2, <2>2
    <3>. QED
      BY <1>3, <1>4, <1>6, <2>2, <3>1
  <2>3. CASE i = all + 1
    <3>1. i - 1 = all /\ all \in 0..all
      BY <1>2, <2>3
    <3>2. t[i - 1] = y
      BY <1>1, <1>6, <3>1
    <3>. QED
      BY <1>3, <1>6, <2>3, <3>2
  <2>. QED
    BY <2>1, <2>2, <2>3
<1>8. t[0] = x /\ t[size] = z
  <2>1. 0 \in 0..all
    BY <1>2
  <2>. QED
    BY <1>1, <1>3, <1>6, <2>1
<1>9. Leads(p, S, x, z)
  BY <1>5, <1>7, <1>8 DEF Leads, Run, size
<1>. QED
  BY <1>3, <1>9 DEF p

\* What the line may be is no matter.
LEMMA LeadsAmong ==
    ASSUME NEW q, NEW S, NEW T, S \subseteq T, NEW x, NEW y, Leads(q, S, x, y)
    PROVE  Leads(q, T, x, y)
<1>1. Stage(S) \subseteq Stage(T)
  <2>1. \A w \in Seq(S) : w \in Seq(T)
    BY SeqMonotonic
  <2>. QED
    BY <2>1 DEF Stage
<1>2. PICK r : Run(r, q, S) /\ r[0] = x /\ r[Len(q)] = y
  BY DEF Leads
<1>3. Run(r, q, T)
  BY <1>1, <1>2 DEF Run
<1>. QED
  BY <1>2, <1>3 DEF Leads

\* One more line is to end.
Promised(x, e) == At0(x.mode, x.cmd, Append(x.rest, e))

LEMMA FollowsPromised ==
    ASSUME NEW S, NEW x \in Stage(S), NEW y \in Stage(S), NEW ch, NEW e \in S, Follows(x, ch, y)
    PROVE  Follows(Promised(x, e), ch, Promised(y, e))
<1>. DEFINE X == Promised(x, e)
            Y == Promised(y, e)
<1>1. /\ X.mode = x.mode /\ X.cmd = x.cmd /\ X.rest = Append(x.rest, e)
      /\ Y.mode = y.mode /\ Y.cmd = y.cmd /\ Y.rest = Append(y.rest, e)
  BY DEF Promised, At0
<1>2. x.rest \in Seq(S)
  BY DEF Stage
<1>3. x.rest # <<>> => /\ Append(x.rest, e) # <<>>
                       /\ Head(Append(x.rest, e)) = Head(x.rest)
                       /\ Tail(Append(x.rest, e)) = Append(Tail(x.rest), e)
  <2>. SUFFICES ASSUME x.rest # <<>>
                PROVE  /\ Append(x.rest, e) # <<>>
                       /\ Head(Append(x.rest, e)) = Head(x.rest)
                       /\ Tail(Append(x.rest, e)) = Append(Tail(x.rest), e)
    OBVIOUS
  <2>. DEFINE w == x.rest
  <2>1. w \in Seq(S) /\ w # <<>>
    BY <1>2
  <2>. HIDE DEF w
  <2>2. Append(w, e) # <<>>
    BY <2>1, AppendProperties
  <2>3. Head(Append(w, e)) = Head(w) /\ Tail(Append(w, e)) = Append(Tail(w), e)
    BY <2>1, HeadTailAppend
  <2>. QED
    BY <2>2, <2>3 DEF w
<1>. HIDE DEF X, Y
<1>4. Follows(X, ch, Y)
  <2>1. CASE Passes(x, ch, y)
    BY <1>1, <2>1 DEF Passes, Follows
  <2>2. CASE Writes(x, ch, y)
    BY <1>1, <2>2 DEF Writes, Follows
  <2>3. CASE Ends(x, ch, y)
    BY <1>1, <1>3, <2>3 DEF Ends, Follows
  <2>. QED
    BY <2>1, <2>2, <2>3 DEF Follows
<1>. QED
  BY <1>4 DEF X, Y

LEMMA LeadsPromised ==
    ASSUME NEW B, NEW q \in Seq(B), NEW S, NEW x, NEW y, Leads(q, S, x, y), NEW e \in S
    PROVE  Leads(q, S, Promised(x, e), Promised(y, e))
<1>. DEFINE all == Len(q)
<1>1. PICK r : Run(r, q, S) /\ r[0] = x /\ r[all] = y
  BY DEF Leads
<1>2. all \in Nat
  BY LenProperties
<1>. DEFINE t == [i \in 0..all |-> Promised(r[i], e)]
<1>. HIDE DEF all
<1>3. r \in [0..all -> Stage(S)] /\ \A i \in 1..all : Follows(r[i - 1], q[i], r[i])
  BY <1>1 DEF Run, all
<1>4. \A v \in Stage(S) : Promised(v, e) \in Stage(S)
  <2>. SUFFICES ASSUME NEW v \in Stage(S) PROVE Promised(v, e) \in Stage(S)
    OBVIOUS
  <2>1. v.mode \in Mode /\ v.cmd \in S /\ v.rest \in Seq(S)
    BY DEF Stage
  <2>2. Append(v.rest, e) \in Seq(S)
    BY <2>1, AppendProperties
  <2>. QED
    BY <2>1, <2>2 DEF Promised, At0, Stage
<1>5. t \in [0..all -> Stage(S)]
  BY <1>3, <1>4
<1>6. \A i \in 0..all : t[i] = Promised(r[i], e)
  OBVIOUS
<1>. HIDE DEF t
<1>7. ASSUME NEW i \in 1..all PROVE Follows(t[i - 1], q[i], t[i])
  <2>1. i \in 0..all /\ i - 1 \in 0..all
    BY <1>2
  <2>2. Follows(Promised(r[i - 1], e), q[i], Promised(r[i], e))
    BY <1>3, <2>1, FollowsPromised
  <2>. QED
    BY <1>6, <2>1, <2>2
<1>8. t[0] = Promised(x, e) /\ t[all] = Promised(y, e)
  <2>1. 0 \in 0..all /\ all \in 0..all
    BY <1>2
  <2>. QED
    BY <1>1, <1>6, <2>1
<1>. QED
  BY <1>5, <1>7, <1>8 DEF Leads, Run, all

\* What has come and what is on its way; the stage the task is in, when the line so
\* far is c; and the stage the host has typed to.
Coming == unread \o net[session]
Now(c) == At0(IF cr THEN "cr" ELSE "text", c, want[session])
TypedTo == At0("text", typed[session], <<>>)

\* The bytes that come lead from where the task is to where the host is; and the
\* line so far is cmd, or stands for it behind what a host before left there or in a
\* cmd_buf that it has outgrown.
LinesCome == \E S, c : Leads(Coming, S, Now(c), TypedTo) /\ (stale \/ overrun \/ c = cmd)
Idle(h) == net[h] = <<>> /\ typed[h] = <<>> /\ want[h] = <<>>
LineInv ==
    /\ typed = [h \in Host |-> typed[h]] /\ want = [h \in Host |-> want[h]]
    /\ \A h \in Host : h # session => Idle(h)
    /\ session \in Host => LinesCome

LineStep == pc = "parse" /\ pc' = "line" /\ ~stale /\ ~overrun =>
               want[session] # <<>> /\ line' = Head(want[session])

LEMMA LinesStart == Init => LineInv
BY TelnetAssumption DEF Init, LineInv, Idle

\* The first bytes of the input are taken.
LEMMA LinesTaken ==
    ASSUME InputInv, session \in Host, NEW S, NEW c, Leads(Coming, S, Now(c), TypedTo),
           NEW d \in 0..Len(unread), unread' = SubSeq(unread, d + 1, Len(unread)),
           UNCHANGED <<net, session>>
    PROVE  \E r : /\ r[0] = Now(c)
                  /\ \A i \in 0..d : r[i] \in Stage(S)
                  /\ \A i \in 1..d : Follows(r[i - 1], unread[i], r[i])
                  /\ Leads(Coming', S, r[d], TypedTo)
<1>. DEFINE n == Len(unread)
            q == Coming
<1>1. PICK B : unread \in Seq(B) /\ net[session] \in Seq(B)
  BY DEF InputInv
<1>2. n \in Nat
  BY <1>1, LenProperties
<1>3. d \in Nat /\ d <= n
  <2>. HIDE DEF n
  <2>. QED
    BY <1>2 DEF n
<1>4. Len(net[session]) \in Nat
  BY <1>1, LenProperties
<1>5. /\ q \in Seq(B) /\ Len(q) = n + Len(net[session])
      /\ \A k \in 1..n + Len(net[session]) :
           q[k] = IF k <= n THEN unread[k] ELSE net[session][k - n]
  BY <1>1, ConcatProperties DEF Coming
<1>6. Coming' = SubSeq(q, d + 1, Len(q))
  <2>1. SubSeq(unread, d + 1, n) \o net[session] = SubSeq(q, d + 1, Len(q))
    BY <1>1, FrontTaken DEF Coming
  <2>. QED
    BY <2>1 DEF Coming
<1>7. PICK r : Run(r, q, S) /\ r[0] = Now(c) /\ r[Len(q)] = TypedTo
  BY DEF Leads
<1>. HIDE DEF n, q
<1>8. d \in 0..Len(q) /\ \A i \in 1..d : i \in 1..Len(q) /\ q[i] = unread[i]
  BY <1>2, <1>3, <1>4, <1>5
<1>9. Leads(SubSeq(q, d + 1, Len(q)), S, r[d], r[Len(q)])
  BY <1>5, <1>7, <1>8, LeadsRest
<1>10. \A i \in 0..d : i \in 0..Len(q)
  BY <1>3, <1>8
<1>11. \A i \in 0..d : r[i] \in Stage(S)
  BY <1>7, <1>10 DEF Run
<1>12. \A i \in 1..d : Follows(r[i - 1], unread[i], r[i])
  BY <1>7, <1>8 DEF Run
<1>. QED
  BY <1>6, <1>7, <1>9, <1>11, <1>12

LEMMA StageIs ==
    ASSUME NEW S, NEW x \in Stage(S) PROVE x = At0(x.mode, x.cmd, x.rest)
BY DEF Stage, At0

\* An option is taken as a whole, and the line goes on behind it.
LEMMA OptionLines ==
    ASSUME InputInv, SessionInv, LineInv, Option PROVE LineInv'
<1>1. session \in Host /\ OptionLen \in 1..Len(unread)
  BY OptionFits DEF Option, Parsing, SessionInv
<1>. DEFINE d == OptionLen
<1>2. PICK S, c : Leads(Coming, S, Now(c), TypedTo) /\ (stale \/ overrun \/ c = cmd)
  BY <1>1 DEF LineInv, LinesCome
<1>3. /\ unread' = SubSeq(unread, d + 1, Len(unread)) /\ UNCHANGED <<net, session>>
      /\ ~cr' /\ UNCHANGED <<typed, want, cmd, overrun, stale>>
  BY DEF Option, Consume, hosts, cmdbuf
<1>4. Len(unread) \in Nat /\ Head(unread) = unread[1]
  BY LenProperties DEF InputInv, Option, Parsing
<1>5. d \in Nat /\ d >= 1 /\ d <= Len(unread)
  <2>. HIDE DEF d
  <2>. QED
    BY <1>1, <1>4 DEF d
<1>6. d \in 0..Len(unread)
  <2>. HIDE DEF d
  <2>. QED
    BY <1>4, <1>5
<1>7. PICK r : /\ r[0] = Now(c)
               /\ \A i \in 0..d : r[i] \in Stage(S)
               /\ \A i \in 1..d : Follows(r[i - 1], unread[i], r[i])
               /\ Leads(Coming', S, r[d], TypedTo)
  <2>. HIDE DEF d
  <2>. QED
    BY <1>1, <1>2, <1>3, <1>6, LinesTaken
<1>8. /\ Len(unread) < 3 => d = 0
      /\ Len(unread) >= 3 /\ unread[2] # "sb" => d = 3
  BY <1>4 DEF OptionLen
<1>9. unread[1] = "iac"
  BY <1>4 DEF Option
<1>10. ASSUME Len(unread) >= 3, unread[2] = "sb"
       PROVE  /\ d \in 4..Len(unread) /\ unread[d - 1] = "iac" /\ unread[d] = "se"
              /\ \A j \in 4..Len(unread) : unread[j - 1] = "iac" /\ unread[j] = "se" => d <= j
  <2>. DEFINE ends == {k \in 4..Len(unread) : unread[k - 1] = "iac" /\ unread[k] = "se"}
  <2>1. d = IF ends = {} THEN 0 ELSE CHOOSE k \in ends : \A j \in ends : k <= j
    BY <1>4, <1>10 DEF OptionLen
  <2>2. ends # {}
    BY <1>5, <2>1
  <2>3. ends \subseteq Nat
    OBVIOUS
  <2>4. \E k \in ends : \A j \in ends : k <= j
    <3>. HIDE DEF ends
    <3>. QED
      BY <2>2, <2>3, LeastOfNat
  <2>5. d \in ends /\ \A j \in ends : d <= j
    <3>. HIDE DEF ends, d
    <3>. QED
      BY <2>1, <2>2, <2>4
  <2>. HIDE DEF d
  <2>. QED
    BY <2>5
<1>. HIDE DEF d
<1>11. d >= 3
  BY <1>4, <1>5, <1>8, <1>10
<1>12. /\ Follows(r[0], unread[1], r[1]) /\ Follows(r[1], unread[2], r[2])
       /\ Follows(r[2], unread[3], r[3])
  <2>1. 1 \in 1..d /\ 2 \in 1..d /\ 3 \in 1..d /\ 1 - 1 = 0 /\ 2 - 1 = 1 /\ 3 - 1 = 2
    BY <1>5, <1>11
  <2>2. Follows(r[1 - 1], unread[1], r[1]) /\ Follows(r[2 - 1], unread[2], r[2])
        /\ Follows(r[3 - 1], unread[3], r[3])
    BY <1>7, <2>1
  <2>. QED
    BY <2>1, <2>2
<1>13. r[1].mode = "iac" /\ r[1].cmd = c /\ r[1].rest = want[session]
  BY <1>7, <1>9, <1>12 DEF Follows, Passes, Writes, Ends, Now, At0
<1>14. /\ r[2].cmd = c /\ r[2].rest = want[session]
       /\ \/ unread[2] = "do" /\ r[2].mode = "do"
          \/ unread[2] = "sb" /\ r[2].mode = "sb"
  BY <1>12, <1>13 DEF Follows, Passes, Writes, Ends
<1>15. /\ r[3].cmd = c /\ r[3].rest = want[session] /\ unread[3] = "v"
       /\ \/ unread[2] = "do" /\ r[3].mode = "text"
          \/ unread[2] = "sb" /\ r[3].mode = "sbv"
  BY <1>12, <1>14 DEF Follows, Passes, Writes, Ends
<1>16. r[d].mode = "text" /\ r[d].cmd = c /\ r[d].rest = want[session]
  <2>1. CASE unread[2] = "do"
    <3>1. d = 3
      BY <1>4, <1>5, <1>8, <2>1
    <3>. QED
      BY <1>15, <2>1, <3>1
  <2>2. CASE unread[2] = "sb"
    <3>1. /\ d \in 4..Len(unread) /\ unread[d - 1] = "iac" /\ unread[d] = "se"
          /\ \A j \in 4..Len(unread) : unread[j - 1] = "iac" /\ unread[j] = "se" => d <= j
      BY <1>4, <1>5, <1>8, <1>10, <2>2
    <3>2. d # 4
      BY <1>15, <3>1
    <3>3. d >= 5
      BY <1>5, <3>1, <3>2
    <3>4. Follows(r[3], unread[4], r[4]) /\ Follows(r[4], unread[5], r[5])
      <4>1. 4 \in 1..d /\ 5 \in 1..d /\ 4 - 1 = 3 /\ 5 - 1 = 4
        BY <1>5, <3>3
      <4>2. Follows(r[4 - 1], unread[4], r[4]) /\ Follows(r[5 - 1], unread[5], r[5])
        BY <1>7, <4>1
      <4>. QED
        BY <4>1, <4>2
    <3>5. r[4].mode = "sbiac" /\ r[4].cmd = c /\ r[4].rest = want[session] /\ unread[4] = "iac"
      BY <1>15, <2>2, <3>4 DEF Follows, Passes, Writes, Ends
    <3>6. r[5].mode = "text" /\ r[5].cmd = c /\ r[5].rest = want[session] /\ unread[5] = "se"
      BY <3>4, <3>5 DEF Follows, Passes, Writes, Ends
    <3>7. d = 5
      <4>1. 5 \in 4..Len(unread) /\ 5 - 1 = 4
        BY <1>4, <1>5, <3>3
      <4>. QED
        BY <1>5, <3>1, <3>3, <3>5, <3>6, <4>1
    <3>. QED
      BY <3>6, <3>7
  <2>. QED
    BY <1>15, <2>1, <2>2
<1>17. r[d] = At0("text", c, want[session])
  <2>1. r[d] \in Stage(S)
    BY <1>5, <1>7
  <2>. QED
    BY <1>16, <2>1, StageIs
<1>18. Now(c)' = r[d] /\ TypedTo' = TypedTo
  BY <1>3, <1>17 DEF Now, TypedTo
<1>19. LinesCome'
  BY <1>2, <1>3, <1>7, <1>18 DEF LinesCome
<1>. QED
  BY <1>3, <1>19 DEF LineInv, Idle

\* A byte outside an option is taken.
LEMMA ByteTaken ==
    ASSUME InputInv, SessionInv, LineInv, Parsing, Head(unread) # "iac",
           unread' = Tail(unread), UNCHANGED <<net, session>>
    PROVE  /\ session \in Host
           /\ \E S, c, y : /\ stale \/ overrun \/ c = cmd
                           /\ y \in Stage(S) /\ Follows(Now(c), Head(unread), y)
                           /\ Leads(Coming', S, y, TypedTo)
<1>1. session \in Host
  BY DEF Parsing, SessionInv
<1>2. PICK S, c : Leads(Coming, S, Now(c), TypedTo) /\ (stale \/ overrun \/ c = cmd)
  BY <1>1 DEF LineInv, LinesCome
<1>3. PICK B : unread \in Seq(B)
  BY DEF InputInv
<1>4. unread # <<>>
  BY DEF Parsing
<1>5. Len(unread) \in Nat \ {0} /\ Tail(unread) = SubSeq(unread, 2, Len(unread))
      /\ Head(unread) = unread[1]
  BY <1>3, <1>4, EmptySeq, TailIsSubSeq
<1>6. 1 \in 0..Len(unread) /\ unread' = SubSeq(unread, 1 + 1, Len(unread))
  BY <1>5
<1>7. PICK r : /\ r[0] = Now(c)
               /\ \A i \in 0..1 : r[i] \in Stage(S)
               /\ \A i \in 1..1 : Follows(r[i - 1], unread[i], r[i])
               /\ Leads(Coming', S, r[1], TypedTo)
  BY <1>1, <1>2, <1>6, LinesTaken
<1>8. Follows(r[0], unread[1], r[1]) /\ r[1] \in Stage(S)
  <2>1. 1 \in 1..1 /\ 1 - 1 = 0 /\ 1 \in 0..1
    OBVIOUS
  <2>2. Follows(r[1 - 1], unread[1], r[1])
    BY <1>7, <2>1
  <2>. QED
    BY <1>7, <2>1, <2>2
<1>. QED
  BY <1>1, <1>2, <1>5, <1>7, <1>8

LEMMA CharacterLines ==
    ASSUME InputInv, SessionInv, LineInv, Character PROVE LineInv'
<1>. DEFINE ch == Head(unread)
<1>1. /\ Parsing /\ ch # "iac" /\ ~EndsLine(ch) /\ cr' = (ch = "cr")
      /\ overrun' \/ (~overrun /\ cmd' = Edit(ch))
      /\ unread' = SubSeq(unread, 1 + 1, Len(unread))
      /\ UNCHANGED <<net, session, typed, want, stale>>
  BY DEF Character, Consume, Edits, hosts
<1>2. unread' = Tail(unread)
  <2>1. PICK B : unread \in Seq(B)
    BY DEF InputInv
  <2>2. unread # <<>>
    BY <1>1 DEF Parsing
  <2>. QED
    BY <1>1, <2>1, <2>2, TailIsSubSeq
<1>. HIDE DEF ch
<1>3. PICK S, c, y : /\ stale \/ overrun \/ c = cmd
                     /\ y \in Stage(S) /\ Follows(Now(c), ch, y)
                     /\ Leads(Coming', S, y, TypedTo)
  BY <1>1, <1>2, ByteTaken DEF ch
<1>4. session \in Host
  BY <1>1, <1>2, ByteTaken DEF ch
<1>5. /\ Now(c).mode = IF cr THEN "cr" ELSE "text"
      /\ Now(c).cmd = c /\ Now(c).rest = want[session]
  BY DEF Now, At0
<1>6. ch # "lf" /\ (ch = "nul" => ~cr)
  BY <1>1 DEF EndsLine
<1>7. /\ y.rest = want[session]
      /\ \/ ch = "cr" /\ y.mode = "cr" /\ y.cmd = c
         \/ /\ ch \notin {"iac", "cr", "lf", "nul"} /\ y.mode = "text"
            /\ y.cmd = IF ch = "bs" THEN DropLast(c) ELSE Append(c, ch)
  BY <1>1, <1>3, <1>5, <1>6 DEF Follows, Passes, Writes, Ends
<1>8. y = At0(y.mode, y.cmd, y.rest)
  BY <1>3, StageIs
<1>9. y = Now(y.cmd)' /\ TypedTo' = TypedTo
  BY <1>1, <1>7, <1>8 DEF Now, TypedTo
<1>10. stale \/ overrun' \/ y.cmd = cmd'
  BY <1>1, <1>3, <1>7 DEF Edit
<1>11. LinesCome'
  BY <1>1, <1>3, <1>9, <1>10 DEF LinesCome
<1>. QED
  BY <1>1, <1>11 DEF LineInv, Idle

\* The line that ends is the first of those that are to end.
LEMMA EndOfLineLines ==
    ASSUME InputInv, SessionInv, LineInv, EndOfLine PROVE LineInv' /\ LineStep
<1>. DEFINE ch == Head(unread)
<1>1. /\ Parsing /\ EndsLine(ch) /\ line' = cmd /\ cmd' = <<>> /\ cr' = FALSE /\ stale' = FALSE
      /\ unread' = Tail(unread) /\ UNCHANGED <<net, session, typed>>
      /\ want' = [want EXCEPT ![session] = IF @ = <<>> THEN @ ELSE Tail(@)]
  BY DEF EndOfLine, Moved, hosts
<1>2. ch # "iac"
  BY <1>1 DEF EndsLine
<1>. HIDE DEF ch
<1>3. PICK S, c, y : /\ stale \/ overrun \/ c = cmd
                     /\ y \in Stage(S) /\ Follows(Now(c), ch, y)
                     /\ Leads(Coming', S, y, TypedTo)
  BY <1>1, <1>2, ByteTaken DEF ch
<1>4. session \in Host
  BY <1>1, <1>2, ByteTaken DEF ch
<1>5. Now(c).cmd = c /\ Now(c).rest = want[session]
  BY DEF Now, At0
<1>6. /\ want[session] # <<>> /\ Head(want[session]) = c
      /\ y.mode = "text" /\ y.cmd = <<>> /\ y.rest = Tail(want[session])
  <2>1. ch \in {"lf", "nul"}
    BY <1>1 DEF EndsLine
  <2>. QED
    BY <1>3, <1>5, <2>1 DEF Follows, Passes, Writes, Ends
<1>7. LineStep
  BY <1>1, <1>3, <1>6 DEF LineStep
<1>8. /\ want' = [h \in Host |-> want'[h]] /\ want'[session] = Tail(want[session])
      /\ \A h \in Host : h # session => want'[h] = want[h]
  BY <1>1, <1>4, <1>6 DEF LineInv
<1>9. y = At0("text", <<>>, want'[session])
  BY <1>3, <1>6, <1>8, StageIs
<1>10. y = Now(<<>>)' /\ TypedTo' = TypedTo
  BY <1>1, <1>9 DEF Now, TypedTo
<1>11. LinesCome'
  BY <1>1, <1>3, <1>10 DEF LinesCome
<1>12. typed' = [h \in Host |-> typed'[h]] /\ \A h \in Host : h # session' => Idle(h)'
  BY <1>1, <1>8 DEF LineInv, Idle
<1>. QED
  BY <1>7, <1>8, <1>11, <1>12 DEF LineInv

\* What is received has been on its way.
LEMMA RecvLines ==
    ASSUME InputInv, SessionInv, LineInv, Recv PROVE LineInv'
<1>1. PICK B : unread \in Seq(B) /\ net \in [Host -> Seq(B)]
  BY DEF InputInv
<1>2. session \in Host
  BY DEF Recv, SessionInv
<1>. DEFINE came == net[session]
<1>3. PICK n \in 1..Len(came) :
         /\ unread' = unread \o SubSeq(came, 1, n)
         /\ net' = [net EXCEPT ![session] = SubSeq(@, n + 1, Len(@))]
  BY DEF Recv
<1>4. came \in Seq(B) /\ Len(came) \in Nat
  BY <1>1, <1>2, LenProperties
<1>. DEFINE a == SubSeq(came, 1, n)
            b == SubSeq(came, n + 1, Len(came))
<1>5. a \in Seq(B) /\ b \in Seq(B)
  BY <1>4
<1>6. a \o b = came
  <2>1. 1 \in 1..Len(came) + 1 /\ n \in 1 - 1..Len(came) /\ Len(came) \in n..Len(came)
    BY <1>4
  <2>2. a \o b = SubSeq(came, 1, Len(came))
    BY <1>4, <2>1, ConcatAdjacentSubSeq
  <2>. QED
    BY <1>4, <2>2, SubSeqFull
<1>7. net'[session] = b /\ \A h \in Host : h # session => net'[h] = net[h]
  BY <1>1, <1>2, <1>3
<1>. HIDE DEF a, b, came
<1>8. (unread \o a) \o b = unread \o came
  <2>1. (unread \o a) \o b = unread \o (a \o b)
    BY <1>1, <1>5, ConcatAssociative
  <2>. QED
    BY <1>6, <2>1
<1>9. UNCHANGED <<session, typed, want, cr, cmd, overrun, stale>>
  BY DEF Recv, cmdbuf
<1>10. Coming' = Coming
  BY <1>3, <1>7, <1>8, <1>9 DEF Coming, a, came
<1>11. LinesCome'
  BY <1>2, <1>9, <1>10 DEF LineInv, LinesCome, Now, TypedTo
<1>. QED
  BY <1>7, <1>9, <1>11 DEF LineInv, Idle

\* Nothing of a session that is over is left, and one that begins has nothing yet.
LEMMA OverLines ==
    ASSUME InputInv, SessionInv, LineInv, Lost, session' = NoHost PROVE LineInv'
<1>1. session' \notin Host
  BY TelnetAssumption
<1>2. /\ typed' = [h \in Host |-> typed'[h]] /\ want' = [h \in Host |-> want'[h]]
      /\ \A h \in Host : Idle(h)'
  BY DEF Lost, AtSession, LineInv, Idle
<1>. QED
  BY <1>1, <1>2 DEF LineInv

LEMMA AcceptLines ==
    ASSUME InputInv, SessionInv, LineInv, NEW h \in Host, Accept(h) PROVE LineInv'
<1>1. /\ Lost /\ unread' = <<>> /\ session' = h /\ cr' = FALSE
      /\ stale' = (cmd # <<>>) /\ cmd' = cmd
  BY DEF Accept, Make, cmdbuf
<1>2. /\ typed' = [g \in Host |-> typed'[g]] /\ want' = [g \in Host |-> want'[g]]
      /\ \A g \in Host : Idle(g)'
  BY <1>1 DEF Lost, AtSession, LineInv, Idle
<1>3. Coming' = <<>> /\ Now(<<>>)' = TypedTo' /\ TypedTo' = At0("text", <<>>, <<>>)
  BY <1>1, <1>2 DEF Coming, Now, TypedTo, Idle
<1>. DEFINE x == At0("text", <<>>, <<>>)
            S == {<<>>}
            r == [i \in 0..0 |-> x]
<1>4. x \in Stage(S)
  BY DEF At0, Stage, Mode
<1>. HIDE DEF x, S
<1>5. r \in [0..0 -> Stage(S)] /\ r[0] = x
  BY <1>4
<1>. HIDE DEF r
<1>6. Run(r, <<>>, S)
  <2>1. Len(<<>>) = 0
    OBVIOUS
  <2>. QED
    BY <1>5, <2>1 DEF Run
<1>7. Leads(<<>>, S, x, x)
  BY <1>5, <1>6 DEF Leads
<1>8. LinesCome'
  BY <1>1, <1>3, <1>7 DEF LinesCome, x
<1>. QED
  BY <1>2, <1>8 DEF LineInv

\* The stages of a run are stages.
LEMMA LeadsStages ==
    ASSUME NEW B, NEW q \in Seq(B), NEW S, NEW x, NEW y, Leads(q, S, x, y)
    PROVE  x \in Stage(S) /\ y \in Stage(S)
<1>1. PICK r : Run(r, q, S) /\ r[0] = x /\ r[Len(q)] = y
  BY DEF Leads
<1>2. Len(q) \in Nat
  BY LenProperties
<1>3. 0 \in 0..Len(q) /\ Len(q) \in 0..Len(q)
  BY <1>2
<1>. QED
  BY <1>1, <1>3 DEF Run

\* The bytes of what is typed come one behind the other.
Behind(q, s) == q \o s
LEMMA BehindAppend ==
    ASSUME NEW B, NEW q \in Seq(B), NEW s \in Seq(B), NEW ch \in B
    PROVE  Behind(q, Append(s, ch)) = Append(Behind(q, s), ch)
<1>1. q \o s \in Seq(B) /\ <<ch>> \in Seq(B)
  BY ConcatProperties
<1>2. Append(s, ch) = s \o <<ch>> /\ Append(q \o s, ch) = (q \o s) \o <<ch>>
  BY <1>1, AppendIsConcat
<1>3. (q \o s) \o <<ch>> = q \o (s \o <<ch>>)
  BY <1>1, ConcatAssociative
<1>. QED
  BY <1>2, <1>3 DEF Behind

LEMMA ComingTyped ==
    ASSUME InputInv, session \in Host, NEW tok, Type(session, tok)
    PROVE  \E B : /\ Coming \in Seq(B)
                  /\ {tok, "iac", "do", "sb", "se", "v", "cr", "lf", "nul"} \subseteq B
                  /\ Coming' = Behind(Coming, Coding(tok))
<1>1. PICK A : unread \in Seq(A) /\ net \in [Host -> Seq(A)]
  BY DEF InputInv
<1>. DEFINE C == {tok, "iac", "do", "sb", "se", "v", "cr", "lf", "nul"}
            B == A \cup C
            sent == Coding(tok)
            came == net[session]
<1>2. sent \in Seq(B)
  <2>1. /\ <<"iac", "do", "v">> \in Seq(B) /\ <<"iac", "sb", "v", "iac", "se">> \in Seq(B)
        /\ <<"cr", "lf">> \in Seq(B) /\ <<"cr", "nul">> \in Seq(B) /\ <<tok>> \in Seq(B)
    OBVIOUS
  <2>2. \/ sent = <<"iac", "do", "v">> \/ sent = <<"iac", "sb", "v", "iac", "se">>
        \/ sent = <<"cr", "lf">> \/ sent = <<"cr", "nul">> \/ sent = <<tok>>
    BY DEF Coding
  <2>. QED
    BY <2>1, <2>2
<1>3. A \subseteq B /\ C \subseteq B
  OBVIOUS
<1>. HIDE DEF B, sent, C
<1>4. unread \in Seq(B) /\ came \in Seq(B)
  BY <1>1, <1>3, SeqMonotonic
<1>5. net'[session] = came \o sent /\ UNCHANGED <<unread, session>>
  BY <1>1 DEF Type, input, sent
<1>. HIDE DEF came
<1>6. unread \o (came \o sent) = (unread \o came) \o sent /\ unread \o came \in Seq(B)
  BY <1>2, <1>4, ConcatAssociative, ConcatProperties
<1>7. Coming = unread \o came /\ Coming' = unread \o (came \o sent)
  BY <1>5 DEF Coming, came
<1>8. Coming' = Behind(Coming, sent)
  BY <1>6, <1>7 DEF Behind
<1>. QED
  BY <1>3, <1>6, <1>7, <1>8 DEF C, sent

\* A byte after what came: from the stage y to one in this mode with this line so
\* far and these lines still to end.
LEMMA ByteCome ==
    ASSUME NEW B, NEW q \in Seq(B), NEW s \in Seq(B), NEW S, NEW x, NEW y,
           Leads(Behind(q, s), S, x, y), NEW ch \in B, NEW z \in Stage(S), Follows(y, ch, z)
    PROVE  /\ Append(s, ch) \in Seq(B)
           /\ Leads(Behind(q, Append(s, ch)), S, x, z)
<1>1. Behind(q, s) \in Seq(B)
  BY ConcatProperties DEF Behind
<1>2. Leads(Append(Behind(q, s), ch), S, x, z)
  BY <1>1, LeadsOn
<1>3. Append(s, ch) \in Seq(B)
  BY AppendProperties
<1>4. Behind(q, Append(s, ch)) = Append(Behind(q, s), ch)
  BY BehindAppend
<1>. QED
  BY <1>2, <1>3, <1>4

LEMMA OptionCome ==
    ASSUME NEW B, {"iac", "do", "sb", "se", "v"} \subseteq B, NEW q \in Seq(B), NEW S,
           NEW x, NEW t, NEW w, Leads(q, S, x, At0("text", t, w)),
           NEW tok \in {"opt", "sub"}
    PROVE  Leads(Behind(q, Coding(tok)), S, x, At0("text", t, w))
<1>. DEFINE at(m) == At0(m, t, w)
<1>1. \A m \in Mode : at(m) \in Stage(S) /\ at(m).mode = m /\ at(m).cmd = t /\ at(m).rest = w
  <2>1. at("text") \in Stage(S)
    BY LeadsStages
  <2>. QED
    BY <2>1 DEF At0, Stage
<1>2. /\ Follows(at("text"), "iac", at("iac"))
      /\ Follows(at("iac"), "do", at("do")) /\ Follows(at("do"), "v", at("text"))
      /\ Follows(at("iac"), "sb", at("sb")) /\ Follows(at("sb"), "v", at("sbv"))
      /\ Follows(at("sbv"), "iac", at("sbiac")) /\ Follows(at("sbiac"), "se", at("text"))
  BY DEF Follows, Passes, Writes, Ends, At0
<1>3. Leads(q, S, x, at("text"))
  OBVIOUS
<1>. HIDE DEF at
<1>4. Mode = {"text", "cr", "iac", "do", "sb", "sbv", "sbiac"}
  BY DEF Mode
<1>5. \A m \in Mode : at(m) \in Stage(S)
  BY <1>1
<1>6. <<>> \in Seq(B) /\ Leads(Behind(q, <<>>), S, x, at("text"))
  BY <1>3, ConcatEmptySeq DEF Behind
<1>. DEFINE s1 == Append(<<>>, "iac")
<1>7. s1 \in Seq(B) /\ Leads(Behind(q, s1), S, x, at("iac"))
  <2>. at("iac") \in Stage(S) /\ "iac" \in B
    BY <1>4, <1>5
  <2>. QED
    BY <1>2, <1>6, ByteCome
<1>. HIDE DEF s1
<1>8. CASE tok = "opt"
  <2>. DEFINE s2 == Append(s1, "do")
              s3 == Append(s2, "v")
  <2>1. at("do") \in Stage(S) /\ at("text") \in Stage(S) /\ "do" \in B /\ "v" \in B
    BY <1>4, <1>5
  <2>2. s2 \in Seq(B) /\ Leads(Behind(q, s2), S, x, at("do"))
    BY <1>2, <1>7, <2>1, ByteCome
  <2>. HIDE DEF s2
  <2>3. Leads(Behind(q, s3), S, x, at("text"))
    BY <1>2, <2>1, <2>2, ByteCome
  <2>4. s3 = Coding(tok)
    <3>1. s1 = <<"iac">>
      BY DEF s1
    <3>2. s2 = <<"iac", "do">>
      BY <3>1, TupleAppend, Zenon DEF s2
    <3>3. s3 = <<"iac", "do", "v">>
      BY <3>2, TupleAppend, Zenon
    <3>. QED
      BY <1>8, <3>3 DEF Coding
  <2>. QED
    BY <2>3, <2>4 DEF at
<1>9. CASE tok = "sub"
  <2>. DEFINE s2 == Append(s1, "sb")
              s3 == Append(s2, "v")
              s4 == Append(s3, "iac")
              s5 == Append(s4, "se")
  <2>1. /\ at("sb") \in Stage(S) /\ at("sbv") \in Stage(S) /\ at("sbiac") \in Stage(S)
        /\ at("text") \in Stage(S) /\ "sb" \in B /\ "v" \in B /\ "iac" \in B /\ "se" \in B
    BY <1>4, <1>5
  <2>2. s2 \in Seq(B) /\ Leads(Behind(q, s2), S, x, at("sb"))
    BY <1>2, <1>7, <2>1, ByteCome
  <2>. HIDE DEF s2
  <2>3. s3 \in Seq(B) /\ Leads(Behind(q, s3), S, x, at("sbv"))
    BY <1>2, <2>1, <2>2, ByteCome
  <2>. HIDE DEF s3
  <2>4. s4 \in Seq(B) /\ Leads(Behind(q, s4), S, x, at("sbiac"))
    BY <1>2, <2>1, <2>3, ByteCome
  <2>. HIDE DEF s4
  <2>5. Leads(Behind(q, s5), S, x, at("text"))
    BY <1>2, <2>1, <2>4, ByteCome
  <2>6. s5 = Coding(tok)
    <3>1. s1 = <<"iac">>
      BY DEF s1
    <3>2. s2 = <<"iac", "sb">>
      BY <3>1, TupleAppend, Zenon DEF s2
    <3>3. s3 = <<"iac", "sb", "v">>
      BY <3>2, TupleAppend, Zenon DEF s3
    <3>4. s4 = <<"iac", "sb", "v", "iac">>
      BY <3>3, TupleAppend, Zenon DEF s4
    <3>5. Append(<<"iac", "sb", "v", "iac">>, "se") = <<"iac", "sb", "v", "iac", "se">>
      BY TupleAppend
    <3>6. s5 = <<"iac", "sb", "v", "iac", "se">>
      BY <3>4, <3>5, Zenon
    <3>. QED
      BY <1>9, <3>6 DEF Coding
  <2>. QED
    BY <2>5, <2>6 DEF at
<1>. QED
  BY <1>8, <1>9

\* A character, or the end of a line that is still to be run.
LEMMA CharacterCome ==
    ASSUME NEW B, NEW q \in Seq(B), NEW S, NEW x, NEW t, NEW w,
           Leads(q, S, x, At0("text", t, w)), NEW tok \in B,
           tok \notin {"iac", "cr", "nul", "lf"}, NEW u,
           u = IF tok = "bs" THEN DropLast(t) ELSE Append(t, tok)
    PROVE  \E T : Leads(Behind(q, <<tok>>), T, x, At0("text", u, w))
<1>. DEFINE T == S \cup {u}
            y == At0("text", t, w)
            z == At0("text", u, w)
<1>1. Leads(q, T, x, y)
  BY LeadsAmong
<1>2. y \in Stage(T)
  BY <1>1, LeadsStages
<1>3. z \in Stage(T) /\ Follows(y, tok, z)
  BY <1>2 DEF At0, Stage, Follows, Passes, Writes, Ends
<1>. HIDE DEF T, y, z
<1>4. <<>> \in Seq(B) /\ Leads(Behind(q, <<>>), T, x, y)
  BY <1>1, ConcatEmptySeq DEF Behind
<1>5. Leads(Behind(q, Append(<<>>, tok)), T, x, z)
  BY <1>3, <1>4, ByteCome
<1>6. Append(<<>>, tok) = <<tok>>
  OBVIOUS
<1>. QED
  BY <1>5, <1>6 DEF z

LEMMA EndCome ==
    ASSUME NEW B, {"cr", "lf", "nul"} \subseteq B, NEW q \in Seq(B), NEW S, NEW x, NEW t,
           Leads(q, S, x, At0("text", t, <<>>)), NEW tok \in {"lf", "crlf", "crnul"}
    PROVE  \E T : Leads(Behind(q, Coding(tok)), T, Promised(x, t), At0("text", <<>>, <<>>))
<1>. DEFINE T == S \cup {<<>>}
            X == Promised(x, t)
            y == At0("text", t, <<t>>)
            m == At0("cr", t, <<t>>)
            z == At0("text", <<>>, <<>>)
<1>1. Leads(q, T, x, At0("text", t, <<>>))
  BY LeadsAmong
<1>2. At0("text", t, <<>>) \in Stage(T)
  BY <1>1, LeadsStages
<1>3. t \in T
  BY <1>2 DEF At0, Stage
<1>4. Promised(At0("text", t, <<>>), t) = y
  BY DEF Promised, At0
<1>. HIDE DEF X, y
<1>5. Leads(q, T, X, y)
  BY <1>1, <1>3, <1>4, LeadsPromised DEF X
<1>6. z \in Stage(T) /\ m \in Stage(T)
  BY <1>3 DEF At0, Stage, Mode
<1>7. Follows(y, "lf", z) /\ Follows(y, "cr", m) /\ Follows(m, "lf", z) /\ Follows(m, "nul", z)
  BY DEF Follows, Passes, Writes, Ends, At0, y
<1>. HIDE DEF T, m, z
<1>8. <<>> \in Seq(B) /\ Leads(Behind(q, <<>>), T, X, y)
  BY <1>5, ConcatEmptySeq DEF Behind
<1>9. CASE tok = "lf"
  <2>1. Leads(Behind(q, Append(<<>>, "lf")), T, X, z)
    BY <1>6, <1>7, <1>8, ByteCome
  <2>2. Append(<<>>, "lf") = Coding(tok)
    BY <1>9 DEF Coding
  <2>. QED
    BY <2>1, <2>2 DEF X, z
<1>10. ASSUME NEW e \in {"lf", "nul"}, Coding(tok) = <<"cr", e>>
       PROVE  Leads(Behind(q, Coding(tok)), T, X, z)
  <2>. DEFINE s == Append(<<>>, "cr")
  <2>1. s \in Seq(B) /\ Leads(Behind(q, s), T, X, m)
    BY <1>6, <1>7, <1>8, ByteCome
  <2>2. e \in B /\ Follows(m, e, z)
    BY <1>7
  <2>. HIDE DEF s
  <2>3. Leads(Behind(q, Append(s, e)), T, X, z)
    BY <1>6, <2>1, <2>2, ByteCome
  <2>4. Append(s, e) = Coding(tok)
    <3>1. s = <<"cr">>
      BY DEF s
    <3>. QED
      BY <1>10, <3>1, TupleAppend
  <2>. QED
    BY <2>3, <2>4
<1>11. CASE tok \in {"crlf", "crnul"}
  <2>1. Coding(tok) = <<"cr", "lf">> \/ Coding(tok) = <<"cr", "nul">>
    BY <1>11 DEF Coding
  <2>. QED
    BY <1>10, <2>1 DEF X, z
<1>. QED
  BY <1>9, <1>11

LEMMA TypeLines ==
    ASSUME InputInv, SessionInv, LineInv,
           NEW h \in Host, NEW tok \in NextTokens(h), Type(h, tok)
    PROVE  LineInv'
<1>1. session = h /\ session \in Host
  BY DEF Type, SessionInv, OneSession
<1>2. PICK S, c : Leads(Coming, S, Now(c), TypedTo) /\ (stale \/ overrun \/ c = cmd)
  BY <1>1 DEF LineInv, LinesCome
<1>3. PICK B : /\ Coming \in Seq(B)
               /\ {tok, "iac", "do", "sb", "se", "v", "cr", "lf", "nul"} \subseteq B
               /\ Coming' = Behind(Coming, Coding(tok))
  BY <1>1, ComingTyped
<1>4. UNCHANGED <<session, cr, cmd, overrun, stale>>
  BY DEF Type, input, cmdbuf
<1>5. \A g \in Host : g # session => UNCHANGED <<net[g], typed[g], want[g]>>
  BY <1>1 DEF Type, LineInv
<1>6. typed' = [g \in Host |-> typed'[g]] /\ want' = [g \in Host |-> want'[g]]
  BY DEF Type, LineInv
<1>. DEFINE t == typed[session]
            w == want[session]
<1>7. CASE tok \in {"opt", "sub"}
  <2>1. typed' = typed /\ want' = want
    BY <1>7 DEF Type
  <2>2. Now(c)' = Now(c) /\ TypedTo' = TypedTo
    BY <1>4, <2>1 DEF Now, TypedTo
  <2>3. Leads(Coming', S, Now(c), TypedTo)
    BY <1>2, <1>3, <1>7, OptionCome DEF TypedTo
  <2>. QED
    BY <1>2, <1>4, <1>5, <1>6, <2>2, <2>3 DEF LineInv, LinesCome, Idle
<1>8. CASE tok \in {"lf", "crlf", "crnul"}
  <2>1. typed'[session] = <<>> /\ want'[session] = Append(w, t)
    BY <1>1, <1>8 DEF Type, LineInv
  <2>2. Now(c)' = Promised(Now(c), t) /\ TypedTo' = At0("text", <<>>, <<>>)
    BY <1>4, <2>1 DEF Now, TypedTo, Promised, At0
  <2>3. \E T : Leads(Coming', T, Promised(Now(c), t), At0("text", <<>>, <<>>))
    BY <1>2, <1>3, <1>8, EndCome DEF TypedTo
  <2>4. LinesCome'
    BY <1>2, <1>4, <2>2, <2>3 DEF LinesCome
  <2>. QED
    BY <1>4, <1>5, <1>6, <2>4 DEF LineInv, Idle
<1>9. CASE tok \notin {"opt", "sub", "lf", "crlf", "crnul"}
  <2>. DEFINE u == IF tok = "bs" THEN DropLast(t) ELSE Append(t, tok)
  <2>1. typed'[session] = u /\ want'[session] = w
    BY <1>1, <1>9 DEF Type, LineInv
  <2>2. Now(c)' = Now(c) /\ TypedTo' = At0("text", u, <<>>)
    BY <1>4, <2>1 DEF Now, TypedTo
  <2>3. tok \notin {"iac", "cr", "nul", "lf"} /\ Coding(tok) = <<tok>>
    BY <1>9, TokenAssumption DEF Coding, NextTokens
  <2>. HIDE DEF u
  <2>4. \E T : Leads(Behind(Coming, <<tok>>), T, Now(c), At0("text", u, <<>>))
    BY <1>2, <1>3, <2>3, CharacterCome DEF TypedTo, u
  <2>5. LinesCome'
    BY <1>2, <1>3, <1>4, <2>2, <2>3, <2>4 DEF LinesCome
  <2>. QED
    BY <1>4, <1>5, <1>6, <2>5 DEF LineInv, Idle
<1>. QED
  BY <1>7, <1>8, <1>9

LEMMA SameLines ==
    ASSUME LineInv,
           UNCHANGED <<net, typed, want, session, unread, cr, cmd, overrun, stale>>
    PROVE  LineInv'
<1>1. Coming' = Coming /\ TypedTo' = TypedTo /\ \A c : Now(c)' = Now(c)
  BY DEF Coming, TypedTo, Now
<1>2. LinesCome' <=> LinesCome
  BY <1>1 DEF LinesCome
<1>. QED
  BY <1>2 DEF LineInv, Idle

LEMMA StepLines ==
    ASSUME InputInv, SessionInv, LineInv, [Next]_vars
    PROVE  LineInv' /\ [LineStep]_vars
<1>1. CASE Option
  BY <1>1, OptionLines DEF Option, Parsing, LineStep
<1>2. CASE Character
  BY <1>2, CharacterLines DEF Character, Parsing, LineStep
<1>3. CASE EndOfLine
  BY <1>3, EndOfLineLines
<1>4. CASE EndOfInput \/ NoSession
  BY <1>4, SameLines DEF EndOfInput, NoSession, Moved, LineStep, hosts, input, cmdbuf
<1>5. CASE \/ Auth \/ Exec \/ Activate \/ SendOut \/ NothingToRead
           \/ \E h \in Host : AcceptRefused(h)
  BY <1>5, SameLines DEF Auth, Exec, Activate, SendOut, NothingToRead, AcceptRefused,
                         LineStep, hosts, input, cmdbuf
<1>6. CASE Quit \/ Broken
  BY <1>6, OverLines DEF Quit, Broken, Free, LineStep
<1>7. CASE Recv
  BY <1>7, RecvLines DEF Recv, LineStep
<1>8. ASSUME NEW h \in Host, Accept(h) \/ AcceptFails(h) PROVE LineInv' /\ LineStep
  BY <1>8, AcceptLines, OverLines DEF Accept, AcceptFails, Free, LineStep
<1>9. ASSUME NEW h \in Host, Connect(h) \/ Leave(h) PROVE LineInv' /\ LineStep
  BY <1>9, SameLines DEF Connect, Leave, Waiting, LineStep, input, cmdbuf
<1>10. ASSUME NEW h \in Host, NEW tok \in NextTokens(h), Type(h, tok)
       PROVE  LineInv' /\ LineStep
  BY <1>10, TypeLines DEF Type, Waiting, LineStep
<1>11. CASE UNCHANGED vars
  BY <1>11, SameLines DEF vars, hosts, input, cmdbuf
<1>. QED
  BY <1>1, <1>2, <1>3, <1>4, <1>5, <1>6, <1>7, <1>8, <1>9, <1>10, <1>11 DEF Next, Task

\* A line that has not outgrown cmd_buf, and has nothing of the host before in front of
\* it, is run as the host typed it, wherever its bytes are cut by recv, whatever options
\* lie between them and whenever the input buffer is moved.
THEOREM LinesAreTyped == Spec => LineIsTyped
<1>1. InputInv /\ SessionInv /\ LineInv /\ [Next]_vars => LineInv' /\ [LineStep]_vars
  BY StepLines
<1>2. Spec => [](SessionInv /\ InputInv)
  BY SessionAndInput
<1>. QED
  BY <1>1, <1>2, LinesStart, PTL DEF Spec, LineIsTyped, LineStep
=============================================================================
