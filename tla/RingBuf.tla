------------------------------ MODULE RingBuf ------------------------------
(***************************************************************************)
(* The output ring of ringbuf.c, as the telnet server uses it.  There is   *)
(* room for ElemSize bytes behind BufSize, so that a writer who starts at  *)
(* BufSize or before needs no wrap; when it ends behind BufSize the next   *)
(* one starts at 0, and read_max_idx keeps where the data ends meanwhile.  *)
(* rng_buf_enter writes "\r\n" for "\n", and nothing when there is no room  *)
(* for two bytes; rng_buf_send sends up to where the data is contiguous.   *)
(***************************************************************************)
EXTENDS Integers, Sequences, FiniteSets, SequencesExt

CONSTANTS
    BufSize, ElemSize    \* the sizes given to rng_buf_create

ASSUME RingAssumption ==
    /\ BufSize \in Nat /\ ElemSize \in Nat
    /\ ElemSize >= 2 /\ BufSize > ElemSize

\* Items are characters and whole texts; "\n" takes two bytes, others one.
NewLine == "nl"

Cell == 0..(BufSize + ElemSize - 1)
Blank == "blank"
Empty == [w |-> 0, r |-> 0, m |-> 0, buf |-> [k \in Cell |-> Blank]]

\* rng_buf_reset.  Here and in Send the bytes that are done with are blanked:
\* nothing is to read them again.
Reset(rg) == Empty

Wrapped(rg) == rg.m > rg.w

\* rng_buf_len, the contiguous bytes, and the bytes of all there is to send.
Avail(rg) == IF Wrapped(rg) THEN rg.m - rg.r ELSE rg.w - rg.r
Slice(rg, a, b) == [k \in 1..(b - a) |-> rg.buf[a + k - 1]]
Contents(rg) ==
    IF Wrapped(rg) THEN Slice(rg, rg.r, rg.m) \o Slice(rg, 0, rg.w)
    ELSE Slice(rg, rg.r, rg.w)

\* A slip: the bytes before read_max_idx that are still to be sent are not
\* spared.
RoomAlways(rg) == ElemSize
Room(rg) == IF Wrapped(rg) THEN rg.r - rg.w ELSE ElemSize

\* rng_buf_enter looks, before each character, whether there is room for two
\* bytes.  An item is entered or dropped as a whole.
Fits(rg) == Room(rg) >= 2
Bytes(item) == IF item = NewLine THEN <<"cr", "lf">> ELSE <<item>>

Enter(rg, item) ==
    LET w == rg.w + Len(Bytes(item))
    IN  IF ~Fits(rg) THEN rg
        ELSE [w |-> IF w > BufSize THEN 0 ELSE w,
              r |-> rg.r,
              m |-> IF rg.m < w THEN w ELSE rg.m,
              buf |-> [k \in Cell |-> IF k \in rg.w..(w - 1) THEN Bytes(item)[k - rg.w + 1]
                                      ELSE rg.buf[k]]]

\* rng_buf_send on a blocking socket: send takes all the bytes or fails.
Send(rg) ==
    LET r == rg.r + Avail(rg)
        rest == [k \in Cell |-> IF k \in rg.r..(r - 1) THEN Blank ELSE rg.buf[k]]
    IN  IF Wrapped(rg) /\ rg.m <= r THEN [rg EXCEPT !.m = rg.w, !.r = 0, !.buf = rest]
        ELSE [rg EXCEPT !.r = r, !.buf = rest]

\* The indices of a ring: either the data is in one piece that ends at
\* write_idx, or in two, the older one behind the younger.
Shape(rg) ==
    /\ rg.w \in 0..BufSize /\ rg.r \in 0..BufSize
    /\ \/ rg.m = rg.w /\ rg.r <= rg.w
       \/ rg.m \in (BufSize + 1)..(BufSize + ElemSize) /\ rg.w <= rg.r
=============================================================================
