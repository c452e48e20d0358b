------------------------------ MODULE SeqFacts ------------------------------
(***************************************************************************)
(* Facts about the operators on sequences the models use for the lists and *)
(* arrays of the code, for the proof modules to cite.                      *)
(***************************************************************************)
EXTENDS SequencesExt, SequenceTheorems, WellFoundedInduction, TLAPS

\* InsertAt puts e at position p and shifts the rest: the linked-list insertions
\* and array shifts of the code.
LEMMA InsertAtFacts ==
    ASSUME NEW S, NEW s \in Seq(S), NEW p \in 1..Len(s) + 1, NEW e \in S
    PROVE  /\ InsertAt(s, p, e) \in Seq(S)
           /\ Len(InsertAt(s, p, e)) = Len(s) + 1
           /\ \A j \in 1..Len(s) + 1 :
                InsertAt(s, p, e)[j] =
                  IF j < p THEN s[j] ELSE IF j = p THEN e ELSE s[j - 1]
<1> DEFINE a == SubSeq(s, 1, p - 1)
           b == SubSeq(s, p, Len(s))
<1>1. /\ a \in Seq(S) /\ Len(a) = p - 1
      /\ \A j \in 1..p - 1 : a[j] = s[j]
  BY SubSeqProperties
<1>2. /\ b \in Seq(S) /\ Len(b) = Len(s) - p + 1
      /\ \A j \in 1..Len(s) - p + 1 : b[j] = s[p + j - 1]
  BY SubSeqProperties
<1>3. /\ <<e>> \in Seq(S) /\ Len(<<e>>) = 1 /\ <<e>>[1] = e
  OBVIOUS
<1>4. /\ a \o <<e>> \in Seq(S) /\ Len(a \o <<e>>) = p
      /\ \A j \in 1..p : (a \o <<e>>)[j] = IF j < p THEN s[j] ELSE e
  BY <1>1, <1>3, ConcatProperties
<1> HIDE DEF a, b
<1> DEFINE h == a \o <<e>>
<1>9. /\ h \in Seq(S) /\ Len(h) = p
      /\ \A j \in 1..p : h[j] = IF j < p THEN s[j] ELSE e
  BY <1>4
<1> HIDE DEF h
<1> DEFINE r == h \o b
<1>5. /\ r \in Seq(S)
      /\ Len(r) = Len(s) + 1
      /\ \A j \in 1..Len(s) + 1 : r[j] = IF j <= p THEN h[j] ELSE b[j - p]
  <2>1. /\ r \in Seq(S)
        /\ Len(r) = Len(h) + Len(b)
        /\ \A j \in 1..Len(h) + Len(b) :
              r[j] = IF j <= Len(h) THEN h[j] ELSE b[j - Len(h)]
    BY <1>9, <1>2, ConcatProperties
  <2>2. Len(h) = p /\ Len(h) + Len(b) = Len(s) + 1
    BY <1>9, <1>2
  <2> HIDE DEF r
  <2> QED BY <2>1, <2>2
<1> HIDE DEF r
<1>6. \A j \in 1..Len(s) + 1 :
         r[j] = IF j < p THEN s[j] ELSE IF j = p THEN e ELSE s[j - 1]
  <2> TAKE j \in 1..Len(s) + 1
  <2>1. CASE j <= p
    BY <2>1, <1>9, <1>5
  <2>2. CASE j > p
    <3>1. r[j] = b[j - p] /\ j - p \in 1..Len(s) - p + 1
      BY <2>2, <1>5
    <3>2. b[j - p] = s[p + (j - p) - 1]
      BY <3>1, <1>2
    <3> QED BY <2>2, <3>1, <3>2
  <2> QED BY <2>1, <2>2
<1>7. InsertAt(s, p, e) = r
  BY Zenon DEF InsertAt, r, h, a, b
<1> QED BY <1>5, <1>6, <1>7

\* RemoveAt drops position p and closes the gap.
LEMMA RemoveAtFacts ==
    ASSUME NEW S, NEW s \in Seq(S), NEW p \in 1..Len(s)
    PROVE  /\ RemoveAt(s, p) \in Seq(S)
           /\ Len(RemoveAt(s, p)) = Len(s) - 1
           /\ \A j \in 1..Len(s) - 1 :
                RemoveAt(s, p)[j] = IF j < p THEN s[j] ELSE s[j + 1]
<1> DEFINE a == SubSeq(s, 1, p - 1)
           b == SubSeq(s, p + 1, Len(s))
<1>1. /\ a \in Seq(S) /\ Len(a) = p - 1
      /\ \A j \in 1..p - 1 : a[j] = s[j]
  BY SubSeqProperties
<1>2. /\ b \in Seq(S) /\ Len(b) = Len(s) - p
      /\ \A j \in 1..Len(s) - p : b[j] = s[p + j]
  BY SubSeqProperties
<1> HIDE DEF a, b
<1> DEFINE r == a \o b
<1>3. /\ r \in Seq(S) /\ Len(r) = Len(s) - 1
      /\ \A j \in 1..Len(s) - 1 : r[j] = IF j <= p - 1 THEN a[j] ELSE b[j - (p - 1)]
  BY <1>1, <1>2, ConcatProperties
<1> HIDE DEF r
<1>4. \A j \in 1..Len(s) - 1 : r[j] = IF j < p THEN s[j] ELSE s[j + 1]
  <2> TAKE j \in 1..Len(s) - 1
  <2>1. CASE j < p
    BY <2>1, <1>1, <1>3
  <2>2. CASE j >= p
    <3>1. r[j] = b[j - (p - 1)] /\ j - (p - 1) \in 1..Len(s) - p
      BY <2>2, <1>3
    <3>2. b[j - (p - 1)] = s[p + (j - (p - 1))]
      BY <3>1, <1>2
    <3> QED BY <2>2, <3>1, <3>2
  <2> QED BY <2>1, <2>2
<1>5. RemoveAt(s, p) = r
  BY Zenon DEF RemoveAt, r, a, b
<1> QED BY <1>3, <1>4, <1>5

\* The elements of a sequence without its first d.
LEMMA Rest ==
    ASSUME NEW S, NEW q \in Seq(S), NEW d \in 0..Len(q)
    PROVE  LET r == SubSeq(q, d + 1, Len(q))
           IN  /\ r \in Seq(S) /\ Len(r) = Len(q) - d
               /\ \A k \in 1..Len(r) : r[k] = q[k + d] /\ k + d \in 1..Len(q)
<1>1. Len(q) \in Nat /\ \A k \in 1..Len(q) : q[k] \in S
    BY LenProperties
<1> DEFINE n == Len(q)
<1>2. \A k \in d + 1..n : q[k] \in S
    BY <1>1
<1>3. /\ SubSeq(q, d + 1, n) \in Seq(S)
      /\ Len(SubSeq(q, d + 1, n)) = IF d + 1 <= n THEN n - (d + 1) + 1 ELSE 0
      /\ \A k \in 1..n - (d + 1) + 1 : SubSeq(q, d + 1, n)[k] = q[d + 1 + k - 1]
    BY <1>1, <1>2, SubSeqProperties
<1>4. n \in Nat /\ d \in Nat /\ d <= n
    BY <1>1
<1> HIDE DEF n
<1>5. n - (d + 1) + 1 = n - d /\ \A k \in 1..n - d : d + 1 + k - 1 = k + d /\ k + d \in 1..n
    BY <1>4
<1>6. Len(SubSeq(q, d + 1, n)) = n - d
    BY <1>3, <1>4
<1> QED
    BY <1>3, <1>5, <1>6 DEF n

\* Elements taken from the front of the first of two sequences are taken from the
\* front of both.
LEMMA FrontTaken ==
    ASSUME NEW S, NEW a \in Seq(S), NEW b \in Seq(S), NEW d \in 0..Len(a)
    PROVE  SubSeq(a, d + 1, Len(a)) \o b = SubSeq(a \o b, d + 1, Len(a \o b))
<1> DEFINE n == Len(a)
           m == Len(b)
           c == a \o b
           front == SubSeq(a, d + 1, Len(a))
           x == front \o b
           y == SubSeq(c, d + 1, Len(c))
<1>1. n \in Nat /\ m \in Nat
    BY LenProperties
<1>2. d \in Nat /\ d <= n
    <2> HIDE DEF n
    <2> QED
        BY <1>1 DEF n
<1>3. front \in Seq(S) /\ Len(front) = n - d /\ \A k \in 1..Len(front) : front[k] = a[k + d]
    BY Rest
<1> HIDE DEF front
<1>4. /\ c \in Seq(S) /\ Len(c) = n + m
      /\ \A k \in 1..n + m : c[k] = IF k <= n THEN a[k] ELSE b[k - n]
    BY ConcatProperties
<1>5. /\ x \in Seq(S) /\ Len(x) = Len(front) + m
      /\ \A k \in 1..Len(front) + m :
            x[k] = IF k <= Len(front) THEN front[k] ELSE b[k - Len(front)]
    BY <1>3, ConcatProperties
<1> HIDE DEF c, n, m, x
<1>6. d \in 0..Len(c)
    BY <1>1, <1>2, <1>4
<1>7. y \in Seq(S) /\ Len(y) = Len(c) - d /\ \A k \in 1..Len(y) : y[k] = c[k + d]
    BY <1>4, <1>6, Rest
<1> HIDE DEF y
<1>8. Len(x) = (n - d) + m /\ Len(y) = (n - d) + m
    BY <1>1, <1>2, <1>3, <1>4, <1>5, <1>7
<1>9. ASSUME NEW k \in 1..Len(x) PROVE x[k] = y[k]
    <2>1. k \in Nat /\ k + d \in 1..n + m /\ (k + d) - n = k - (n - d)
          /\ (k <= n - d <=> k + d <= n) /\ (k <= n - d => k \in 1..n - d)
        BY <1>1, <1>2, <1>8
    <2>2. x[k] = IF k <= n - d THEN a[k + d] ELSE b[k - (n - d)]
        BY <1>3, <1>5, <1>8, <2>1
    <2>3. y[k] = c[k + d]
        BY <1>7, <1>8
    <2>4. c[k + d] = IF k + d <= n THEN a[k + d] ELSE b[(k + d) - n]
        BY <1>4, <2>1
    <2> QED
        BY <2>1, <2>2, <2>3, <2>4
<1>10. Len(x) = Len(y)
    BY <1>8
<1>11. x = y
    BY <1>5, <1>7, <1>9, <1>10, SeqEqual
<1> QED
    BY <1>11 DEF x, y, c, n, front

\* A set of natural numbers has a least one.
LEMMA LeastOfNat ==
    ASSUME NEW T, T \subseteq Nat, T # {}
    PROVE  \E k \in T : \A j \in T : k <= j
<1> DEFINE less == OpToRel(<, Nat)
<1>1. IsWellFoundedOn(less, Nat)
    BY NatLessThanWellFounded
<1>2. \A x, y \in Nat : x < y => <<x, y>> \in less
    BY DEF OpToRel
<1> HIDE DEF less
<1>3. PICK k \in T : \A j \in T : ~(<<j, k>> \in less)
    BY <1>1, WFMin
<1>4. k \in Nat /\ \A j \in T : j \in Nat /\ ~(j < k)
    BY <1>2, <1>3
<1> QED
    BY <1>4

\* What Append returns, element by element, and for short tuples.
LEMMA AppendIs ==
    ASSUME NEW S, NEW s \in Seq(S), NEW e \in S, NEW t \in Seq(S), Len(t) = Len(s) + 1,
           t[Len(s) + 1] = e, \A i \in 1..Len(s) : t[i] = s[i]
    PROVE  Append(s, e) = t
<1> DEFINE n == Len(s)
           p == Append(s, e)
<1>1. n \in Nat
    BY LenProperties
<1>2. p \in Seq(S) /\ Len(p) = n + 1 /\ p[n + 1] = e /\ \A i \in 1..n : p[i] = s[i]
    BY AppendProperties
<1> HIDE DEF n, p
<1>3. Len(t) = n + 1 /\ t[n + 1] = e /\ \A i \in 1..n : t[i] = s[i]
    BY DEF n
<1>4. \A i \in 1..n + 1 : i \in 1..n \/ i = n + 1
    BY <1>1
<1>5. \A i \in 1..Len(p) : p[i] = t[i]
    BY <1>2, <1>3, <1>4
<1>6. p = t
    BY <1>2, <1>3, <1>5, SeqEqual
<1> QED
    BY <1>6 DEF p

LEMMA TupleAppend ==
    /\ \A a, b : Append(<<a>>, b) = <<a, b>>
    /\ \A a, b, c : Append(<<a, b>>, c) = <<a, b, c>>
    /\ \A a, b, c, d : Append(<<a, b, c>>, d) = <<a, b, c, d>>
    /\ \A a, b, c, d, e : Append(<<a, b, c, d>>, e) = <<a, b, c, d, e>>
<1>1. ASSUME NEW a, NEW b PROVE Append(<<a>>, b) = <<a, b>>
    <2> DEFINE S == {a, b}
    <2>1. <<a>> \in Seq(S) /\ <<a, b>> \in Seq(S) /\ b \in S
        OBVIOUS
    <2> HIDE DEF S
    <2>2. /\ Len(<<a, b>>) = Len(<<a>>) + 1
          /\ <<a, b>>[Len(<<a>>) + 1] = b
          /\ \A i \in 1..Len(<<a>>) : <<a, b>>[i] = <<a>>[i]
        OBVIOUS
    <2> QED
        BY <2>1, <2>2, AppendIs
<1>2. ASSUME NEW a, NEW b, NEW c PROVE Append(<<a, b>>, c) = <<a, b, c>>
    <2> DEFINE S == {a, b, c}
    <2>1. <<a, b>> \in Seq(S) /\ <<a, b, c>> \in Seq(S) /\ c \in S
        OBVIOUS
    <2> HIDE DEF S
    <2>2. /\ Len(<<a, b, c>>) = Len(<<a, b>>) + 1
          /\ <<a, b, c>>[Len(<<a, b>>) + 1] = c
          /\ \A i \in 1..Len(<<a, b>>) : <<a, b, c>>[i] = <<a, b>>[i]
        OBVIOUS
    <2> QED
        BY <2>1, <2>2, AppendIs
<1>3. ASSUME NEW a, NEW b, NEW c, NEW d PROVE Append(<<a, b, c>>, d) = <<a, b, c, d>>
    <2> DEFINE S == {a, b, c, d}
    <2>1. <<a, b, c>> \in Seq(S) /\ <<a, b, c, d>> \in Seq(S) /\ d \in S
        OBVIOUS
    <2> HIDE DEF S
    <2>2. /\ Len(<<a, b, c, d>>) = Len(<<a, b, c>>) + 1
          /\ <<a, b, c, d>>[Len(<<a, b, c>>) + 1] = d
          /\ \A i \in 1..Len(<<a, b, c>>) : <<a, b, c, d>>[i] = <<a, b, c>>[i]
        OBVIOUS
    <2> QED
        BY <2>1, <2>2, AppendIs
<1>4. ASSUME NEW a, NEW b, NEW c, NEW d, NEW e
      PROVE  Append(<<a, b, c, d>>, e) = <<a, b, c, d, e>>
    <2> DEFINE S == {a, b, c, d, e}
    <2>1. <<a, b, c, d>> \in Seq(S) /\ <<a, b, c, d, e>> \in Seq(S) /\ e \in S
        OBVIOUS
    <2> HIDE DEF S
    <2>2. /\ Len(<<a, b, c, d, e>>) = Len(<<a, b, c, d>>) + 1
          /\ <<a, b, c, d, e>>[Len(<<a, b, c, d>>) + 1] = e
          /\ \A i \in 1..Len(<<a, b, c, d>>) : <<a, b, c, d, e>>[i] = <<a, b, c, d>>[i]
        OBVIOUS
    <2> QED
        BY <2>1, <2>2, AppendIs
<1> QED
    BY <1>1, <1>2, <1>3, <1>4
=============================================================================
