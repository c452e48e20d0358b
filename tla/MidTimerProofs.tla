--------------------------- MODULE MidTimerProofs ---------------------------
(***************************************************************************)
(* What is proved of MidTimer for every pool size, every set of callbacks, *)
(* arguments and threads, every interval and every clock width.            *)
(***************************************************************************)
EXTENDS MidTimer, SeqFacts, WellFoundedInduction, FiniteSetTheorems

-----------------------------------------------------------------------------
\* The queue as a set of nodes, and its order, for any list q and contents T.

Within(q, m) == \E p \in 1..Len(q) : q[p] = m
Distinct(q) == \A p, r \in 1..Len(q) : p # r => q[p] # q[r]
InOrder(q, T) == \A p, r \in 1..Len(q) : p < r => T[q[p]].clock <= T[q[r]].clock

\* The smallest element of a set of numbers exists: FirstOf finds it.
LEMMA FirstOfNat ==
    ASSUME NEW S \in SUBSET Nat, S # {}
    PROVE  /\ FirstOf(S) \in S
           /\ \A y \in S : FirstOf(S) <= y
<1>1. PICK x \in S : \A y \in S : ~(<<y, x>> \in OpToRel(<, Nat))
  BY NatLessThanWellFounded, WFMin
<1>2. \A y \in S : x <= y
  <2> TAKE y \in S
  <2>1. ~(y < x)
    BY <1>1 DEF OpToRel
  <2> QED BY <2>1
<1> QED BY <1>2 DEF FirstOf

\* msg_timer_queue inserts behind every timer that is not later.
LEMMA SpotFacts ==
    ASSUME timer \in [Node -> Contents], NEW q \in Seq(Node), NEW c \in Nat
    PROVE  /\ Spot(q, c) \in 1..Len(q) + 1
           /\ \A p \in 1..Len(q) : p < Spot(q, c) => timer[q[p]].clock <= c
           /\ Spot(q, c) <= Len(q) => timer[q[Spot(q, c)]].clock > c
<1> DEFINE later == {p \in 1..Len(q) : timer[q[p]].clock > c}
           S == later \cup {Len(q) + 1}
<1>1. S \in SUBSET Nat /\ S # {}
  OBVIOUS
<1>2. /\ FirstOf(S) \in S
      /\ \A y \in S : FirstOf(S) <= y
  <2> HIDE DEF S
  <2> QED BY <1>1, FirstOfNat
<1>3. Spot(q, c) = FirstOf(S)
  BY DEF Spot
<1>4. \A p \in 1..Len(q) : timer[q[p]].clock \in Nat
  BY DEF Contents
<1> HIDE DEF FirstOf
<1>5. \A p \in 1..Len(q) : p < Spot(q, c) => timer[q[p]].clock <= c
  <2> TAKE p \in 1..Len(q)
  <2> HAVE p < Spot(q, c)
  <2>1. p \notin later
    BY <1>2, <1>3
  <2> QED BY <2>1, <1>4
<1>6. Len(q) \in Nat
  BY LenProperties
<1>7. \A s \in S : s \in 1..Len(q) + 1 /\ (s <= Len(q) => timer[q[s]].clock > c)
  <2> TAKE s \in S
  <2>1. CASE s \in later
    BY <1>6, <2>1
  <2>2. CASE s = Len(q) + 1
    BY <1>6, <2>2
  <2> QED BY <2>1, <2>2
<1>8. Spot(q, c) \in S
  BY <1>2, <1>3
<1> HIDE DEF S
<1> QED BY <1>5, <1>7, <1>8

\* Inserting a node that is not in the list keeps it free of duplicates and
\* sorted, and adds that node only.
LEMMA EnqueueKeeps ==
    ASSUME timer \in [Node -> Contents], NEW q \in Seq(Node),
           Distinct(q), InOrder(q, timer),
           NEW n \in Node, ~Within(q, n), NEW c \in Nat,
           NEW T, T[n].clock = c, \A m \in Node \ {n} : T[m].clock = timer[m].clock
    PROVE  /\ Enqueue(q, n, c) \in Seq(Node)
           /\ Distinct(Enqueue(q, n, c))
           /\ InOrder(Enqueue(q, n, c), T)
           /\ \A m : Within(Enqueue(q, n, c), m) <=> m = n \/ Within(q, m)
<1> DEFINE x == Spot(q, c)
           r == Enqueue(q, n, c)
<1>1. /\ x \in 1..Len(q) + 1
      /\ \A p \in 1..Len(q) : p < x => timer[q[p]].clock <= c
      /\ x <= Len(q) => timer[q[x]].clock > c
  BY SpotFacts
<1> HIDE DEF x
<1>2. /\ r \in Seq(Node) /\ Len(r) = Len(q) + 1
      /\ \A p \in 1..Len(q) + 1 :
            r[p] = IF p < x THEN q[p] ELSE IF p = x THEN n ELSE q[p - 1]
  <2>1. r = InsertAt(q, x, n)
    BY DEF Enqueue, x
  <2>2. x \in 1..Len(q) + 1
    BY <1>1
  <2>3. /\ InsertAt(q, x, n) \in Seq(Node)
        /\ Len(InsertAt(q, x, n)) = Len(q) + 1
        /\ \A p \in 1..Len(q) + 1 : InsertAt(q, x, n)[p] =
              IF p < x THEN q[p] ELSE IF p = x THEN n ELSE q[p - 1]
    BY ONLY <2>2, q \in Seq(Node), n \in Node, InsertAtFacts
  <2> HIDE DEF r
  <2> QED BY <2>1, <2>3
<1> HIDE DEF r
<1> DEFINE At(j) == IF j < x THEN j ELSE j - 1
<1>8. \A j \in 1..Len(r) : j # x => At(j) \in 1..Len(q) /\ r[j] = q[At(j)]
  BY <1>1, <1>2
<1>9. r[x] = n
  BY <1>1, <1>2
<1>3. \A p \in 1..Len(q) : q[p] \in Node \ {n} /\ timer[q[p]].clock \in Nat
  BY DEF Within, Contents
<1>4. \A p \in 1..Len(q) : x <= p => timer[q[p]].clock > c
  <2> TAKE p \in 1..Len(q)
  <2> HAVE x <= p
  <2>1. CASE x = p
    BY <2>1, <1>1
  <2>2. CASE x < p
    BY <2>2, <1>1, <1>3 DEF InOrder
  <2> QED BY <2>1, <2>2, <1>1
<1>5. Distinct(r)
  <2> SUFFICES ASSUME NEW p \in 1..Len(r), NEW s \in 1..Len(r), p < s
               PROVE  r[p] # r[s]
    BY <1>2 DEF Distinct
  <2>1. CASE p = x \/ s = x
    BY <2>1, <1>8, <1>9, <1>3
  <2>2. CASE p # x /\ s # x
    <3>1. At(p) # At(s)
      BY <2>2, <1>1
    <3> QED BY <3>1, <2>2, <1>8 DEF Distinct
  <2> QED BY <2>1, <2>2
<1>6. InOrder(r, T)
  <2> SUFFICES ASSUME NEW p \in 1..Len(r), NEW s \in 1..Len(r), p < s
               PROVE  T[r[p]].clock <= T[r[s]].clock
    BY DEF InOrder
  <2>1. \A j \in 1..Len(r) : j # x =>
           At(j) \in 1..Len(q) /\ r[j] = q[At(j)] /\ T[r[j]].clock = timer[q[At(j)]].clock
    BY <1>8, <1>3
  <2>2. r[x] = n /\ T[r[x]].clock = c
    BY <1>1, <1>2
  <2>3. CASE p = x
    <3>1. s # x /\ x <= At(s)
      BY <2>3, <1>1
    <3>2. timer[q[At(s)]].clock > c /\ timer[q[At(s)]].clock \in Nat
      <4> HIDE DEF At
      <4> QED BY <3>1, <2>1, <1>3, <1>4
    <3> HIDE DEF At
    <3> QED BY <3>1, <3>2, <2>1, <2>2, <2>3
  <2>4. CASE s = x
    BY <2>1, <2>2, <2>4, <1>1, <1>3
  <2>5. CASE p # x /\ s # x
    <3>1. At(p) < At(s)
      BY <2>5, <1>1
    <3>2. timer[q[At(p)]].clock <= timer[q[At(s)]].clock
      <4> HIDE DEF At
      <4> QED BY <3>1, <2>1, <2>5 DEF InOrder
    <3> HIDE DEF At
    <3> QED BY <3>2, <2>1, <2>5
  <2> QED BY <2>3, <2>4, <2>5
<1>7. ASSUME NEW m PROVE Within(r, m) <=> m = n \/ Within(q, m)
  <2>1. Within(r, m) => m = n \/ Within(q, m)
    BY <1>1, <1>2 DEF Within
  <2>2. m = n => Within(r, m)
    BY <1>1, <1>2 DEF Within
  <2>3. Within(q, m) => Within(r, m)
    <3> SUFFICES ASSUME NEW p \in 1..Len(q), q[p] = m PROVE Within(r, m)
      BY DEF Within
    <3>1. CASE p < x
      BY <3>1, <1>2 DEF Within
    <3>2. CASE p >= x
      <4>1. r[p + 1] = q[p] /\ p + 1 \in 1..Len(r)
        BY <3>2, <1>1, <1>2
      <4> QED BY <4>1 DEF Within
    <3> QED BY <3>1, <3>2, <1>1
  <2> QED BY <2>1, <2>2, <2>3
<1> QED BY <1>2, <1>5, <1>6, <1>7 DEF r

\* Taking one node out of the list: the node leaves, nothing else moves.
LEMMA RemoveKeeps ==
    ASSUME NEW q \in Seq(Node), NEW T, Distinct(q), InOrder(q, T), NEW x \in 1..Len(q)
    PROVE  /\ RemoveAt(q, x) \in Seq(Node)
           /\ Distinct(RemoveAt(q, x))
           /\ InOrder(RemoveAt(q, x), T)
           /\ \A m : Within(RemoveAt(q, x), m) <=> m # q[x] /\ Within(q, m)
<1> DEFINE r == RemoveAt(q, x)
           At(j) == IF j < x THEN j ELSE j + 1
<1>1. /\ r \in Seq(Node) /\ Len(r) = Len(q) - 1
      /\ \A j \in 1..Len(q) - 1 : r[j] = IF j < x THEN q[j] ELSE q[j + 1]
  BY RemoveAtFacts
<1> HIDE DEF r
<1>2. \A j \in 1..Len(r) : At(j) \in 1..Len(q) /\ At(j) # x /\ r[j] = q[At(j)]
  BY <1>1
<1>3. \A j, k \in 1..Len(r) : j < k => At(j) < At(k)
  BY <1>1
<1>4. Distinct(r)
  <2> SUFFICES ASSUME NEW j \in 1..Len(r), NEW k \in 1..Len(r), j < k
               PROVE  r[j] # r[k]
    BY <1>1 DEF Distinct
  <2>1. /\ At(j) \in 1..Len(q) /\ r[j] = q[At(j)]
        /\ At(k) \in 1..Len(q) /\ r[k] = q[At(k)]
    BY <1>2
  <2>2. At(j) # At(k)
    BY <1>1, <1>3
  <2> HIDE DEF At
  <2> QED BY <2>1, <2>2 DEF Distinct
<1>5. InOrder(r, T)
  <2> SUFFICES ASSUME NEW j \in 1..Len(r), NEW k \in 1..Len(r), j < k
               PROVE  T[r[j]].clock <= T[r[k]].clock
    BY DEF InOrder
  <2>1. /\ At(j) \in 1..Len(q) /\ r[j] = q[At(j)]
        /\ At(k) \in 1..Len(q) /\ r[k] = q[At(k)]
    BY <1>2
  <2>2. At(j) < At(k)
    BY <1>1, <1>3
  <2> HIDE DEF At
  <2> QED BY <2>1, <2>2 DEF InOrder
<1>6. ASSUME NEW m PROVE Within(r, m) <=> m # q[x] /\ Within(q, m)
  <2>1. Within(r, m) => m # q[x] /\ Within(q, m)
    BY <1>2 DEF Within, Distinct
  <2>2. ASSUME m # q[x], Within(q, m) PROVE Within(r, m)
    <3> PICK p \in 1..Len(q) : q[p] = m
      BY <2>2 DEF Within
    <3>1. p # x
      BY <2>2
    <3>2. CASE p < x
      BY <3>2, <1>1 DEF Within
    <3>3. CASE p > x
      <4>1. r[p - 1] = q[p] /\ p - 1 \in 1..Len(r)
        BY <3>3, <1>1
      <4> QED BY <4>1 DEF Within
    <3> QED BY <3>1, <3>2, <3>3
  <2> QED BY <2>1, <2>2
<1> QED BY <1>1, <1>4, <1>5, <1>6 DEF r

\* The same for the head of the list, as the timer task takes it.
LEMMA TailKeeps ==
    ASSUME NEW q \in Seq(Node), NEW T, Distinct(q), InOrder(q, T), q # <<>>
    PROVE  /\ Head(q) \in Node /\ Within(q, Head(q))
           /\ Tail(q) \in Seq(Node)
           /\ Distinct(Tail(q))
           /\ InOrder(Tail(q), T)
           /\ \A m : Within(Tail(q), m) <=> m # Head(q) /\ Within(q, m)
<1>1. /\ Head(q) \in Node /\ Head(q) = q[1] /\ 1 \in 1..Len(q)
      /\ Tail(q) \in Seq(Node) /\ Len(Tail(q)) = Len(q) - 1
      /\ \A j \in 1..Len(Tail(q)) : Tail(q)[j] = q[j + 1]
  BY HeadTailProperties
<1> DEFINE r == Tail(q)
<1> HIDE DEF r
<1>2. Distinct(r)
  BY <1>1 DEF Distinct, r
<1>3. InOrder(r, T)
  BY <1>1 DEF InOrder, r
<1>4. ASSUME NEW m PROVE Within(r, m) <=> m # q[1] /\ Within(q, m)
  <2>1. Within(r, m) => m # q[1] /\ Within(q, m)
    BY <1>1 DEF Within, Distinct, r
  <2>2. ASSUME m # q[1], Within(q, m) PROVE Within(r, m)
    <3> PICK p \in 1..Len(q) : q[p] = m
      BY <2>2 DEF Within
    <3>1. p - 1 \in 1..Len(r) /\ r[p - 1] = q[p]
      BY <2>2, <1>1 DEF r
    <3> QED BY <3>1 DEF Within
  <2> QED BY <2>1, <2>2
<1> QED BY <1>1, <1>2, <1>3, <1>4 DEF r, Within

-----------------------------------------------------------------------------
\* The inductive invariant.  A node is armed when it is not in the pool; the
\* queue holds exactly the armed nodes, once each and in order of expiry; no
\* two of them share a key; and a cancelled key is neither armed nor waiting
\* in the round in progress.

Armed == Node \ pool

QueueInv ==
    /\ Distinct(queue)
    /\ InOrder(queue, timer)
    /\ \A m \in Node : Within(queue, m) <=> m \in Armed

KeyInv ==
    /\ \A m \in Armed : timer[m].key \in Key
    /\ \A m, n \in Armed : m # n => timer[m].key # timer[n].key

CancelInv ==
    \A k \in cancelled :
        /\ \A m \in Armed : timer[m].key # k
        /\ \A j \in 1..Len(deal) : deal[j] # k

TimerInv == TypeOK /\ QueueInv /\ KeyInv /\ CancelInv

\* The clock values msg_timer_queue may choose are numbers.
LEMMA SettleType ==
    ASSUME NEW c \in Nat, NEW p \in Nat, NEW v \in Nat,
           NEW x \in Settle(c, p, v)
    PROVE  x \in Nat
<1> DEFINE S == {k \in 1..ClockMod : (c + k * v) % ClockMod > p}
<1>1. CASE c > p \/ v = 0
  BY <1>1 DEF Settle
<1>2. CASE ~(c > p \/ v = 0)
  <2>1. S # {} /\ x = (c + FirstOf(S) * v) % ClockMod
    BY <1>2 DEF Settle
  <2>2. S \in SUBSET Nat
    BY TimerAssumption
  <2>3. FirstOf(S) \in S
    <3> HIDE DEF S
    <3> QED BY <2>1, <2>2, FirstOfNat
  <2>4. FirstOf(S) \in Nat
    BY <2>2, <2>3
  <2> HIDE DEF S, FirstOf
  <2>5. c + FirstOf(S) * v \in Nat
    BY <2>4
  <2> QED BY <2>1, <2>5, TimerAssumption
<1> QED BY <1>1, <1>2

\* Where a key is in the queue, there is an armed node with that key.
LEMMA PositionFacts ==
    ASSUME TimerInv, NEW k
    PROVE  /\ Positions(k) # {} =>
                /\ FirstOf(Positions(k)) \in 1..Len(queue)
                /\ queue[FirstOf(Positions(k))] \in Armed
                /\ timer[queue[FirstOf(Positions(k))]].key = k
           /\ Positions(k) = {} => \A m \in Armed : timer[m].key # k
<1>1. Positions(k) \in SUBSET Nat
  BY DEF Positions
<1>2. Positions(k) # {} => FirstOf(Positions(k)) \in Positions(k)
  BY <1>1, FirstOfNat
<1>3. \A p \in 1..Len(queue) : queue[p] \in Armed
  BY DEF TimerInv, QueueInv, Within, TypeOK
<1>4. Positions(k) = {} => \A m \in Armed : timer[m].key # k
  BY DEF Positions, TimerInv, QueueInv, Within, Armed
<1> QED BY <1>2, <1>3, <1>4 DEF Positions

LEMMA InitInv == ASSUME Init PROVE TimerInv
<1> USE TimerAssumption DEF Init
<1>1. TypeOK
  <2>1. timer \in [Node -> Contents]
    BY DEF NoTimer, Contents
  <2>2. queue \in Seq(Node) /\ deal \in Seq(Key \cup {NoFunc})
    OBVIOUS
  <2>3. notBefore \in [Key -> Nat] /\ cancelled \subseteq Key
    OBVIOUS
  <2>4. now \in Nat /\ dealAt \in Nat /\ remain \in Nat /\ sleptAt \in Nat /\ msgq \in Nat
    OBVIOUS
  <2>5. pool \subseteq Node /\ refreshing \subseteq Thread /\ hung \in BOOLEAN
    OBVIOUS
  <2>6. i \in Nat \ {0} /\ pc \in {"deal", "collect", "call", "running", "select"}
        /\ deleting \in Func \cup {NoFunc}
    OBVIOUS
  <2> QED BY ONLY <2>1, <2>2, <2>3, <2>4, <2>5, <2>6 DEF TypeOK
<1>2. QueueInv
  BY DEF QueueInv, Distinct, InOrder, Within, Armed
<1>3. KeyInv /\ CancelInv
  BY DEF KeyInv, CancelInv, Armed
<1> QED BY <1>1, <1>2, <1>3 DEF TimerInv

\* Steps that move no node, take no entry out of the round and cancel nothing.
LEMMA FrameInv ==
    ASSUME TimerInv, TypeOK', UNCHANGED <<timer, pool, queue, cancelled>>,
           deal' = deal \/ deal' = <<>>
    PROVE  TimerInv'
<1>1. QueueInv'
  BY DEF TimerInv, QueueInv, Distinct, InOrder, Within, Armed
<1>2. KeyInv'
  BY DEF TimerInv, KeyInv, Armed
<1>3. CancelInv'
  BY DEF TimerInv, CancelInv, Armed
<1> QED BY <1>1, <1>2, <1>3 DEF TimerInv

LEMMA TickStep == ASSUME TimerInv, Tick PROVE TimerInv'
<1>1. TypeOK'
  BY DEF TimerInv, TypeOK, Tick, taskVars, history
<1> QED BY <1>1, FrameInv DEF Tick, taskVars, history

LEMMA RefreshStep == ASSUME TimerInv, NEW t \in Thread, Refresh(t) PROVE TimerInv'
<1>1. TypeOK'
  BY TimerAssumption DEF TimerInv, TypeOK, Refresh, Lesser, taskVars, history
<1> QED BY <1>1, FrameInv DEF Refresh, taskVars, history

LEMMA DealStep == ASSUME TimerInv, Deal PROVE TimerInv'
<1>1. TypeOK'
  BY DEF TimerInv, TypeOK, Deal, history
<1> QED BY <1>1, FrameInv DEF Deal, history

LEMMA EndCollectStep == ASSUME TimerInv, EndCollect PROVE TimerInv'
<1>1. remain' \in Nat
  <2>1. CASE queue = <<>>
    BY <2>1, TimerAssumption DEF EndCollect
  <2>2. CASE queue # <<>>
    <3>1. Head(queue) \in Node
      BY <2>2 DEF TimerInv, TypeOK
    <3>2. timer[Head(queue)].clock \in Nat /\ tClock \in Int
      BY <3>1, TimerAssumption DEF TimerInv, TypeOK, Contents, tClock
    <3>3. timer[Head(queue)].clock - tClock \in Int
      BY <3>2
    <3>4. remain' = (timer[Head(queue)].clock - tClock) % ClockMod
      BY <2>2 DEF EndCollect
    <3> QED BY <3>3, <3>4, TimerAssumption
  <2> QED BY <2>1, <2>2
<1>2. TypeOK'
  BY <1>1 DEF TimerInv, TypeOK, EndCollect, history
<1> QED BY <1>2, FrameInv DEF EndCollect, history

LEMMA CallStep == ASSUME TimerInv, Call PROVE TimerInv'
<1>1. notBefore' \in [Key -> Nat]
  BY DEF TimerInv, TypeOK, Call
<1>2. TypeOK'
  BY <1>1 DEF TimerInv, TypeOK, Call
<1> QED BY <1>2, FrameInv DEF Call

LEMMA ReturnStep == ASSUME TimerInv, Return PROVE TimerInv'
<1>1. TypeOK'
  BY DEF TimerInv, TypeOK, Return, history
<1> QED BY <1>1, FrameInv DEF Return, history

LEMMA SleepStep == ASSUME TimerInv, Sleep PROVE TimerInv'
<1>1. TypeOK'
  BY DEF TimerInv, TypeOK, Sleep, history
<1> QED BY <1>1, FrameInv DEF Sleep, history

LEMMA WakeStep == ASSUME TimerInv, Wake PROVE TimerInv'
<1>1. TypeOK'
  BY DEF TimerInv, TypeOK, Wake, history
<1> QED BY <1>1, FrameInv DEF Wake, history

\* Silencing the keys K leaves none of them in the round, and adds no key.
LEMMA SilenceFacts ==
    ASSUME TimerInv, NEW K \in SUBSET Key
    PROVE  /\ Silence(K) \in Seq(Key \cup {NoFunc})
           /\ Len(Silence(K)) = Len(deal)
           /\ \A j \in 1..Len(deal) : Silence(K)[j] \notin K
           /\ \A j \in 1..Len(deal) : Silence(K)[j] = deal[j] \/ Silence(K)[j] = NoFunc
<1>1. deal \in Seq(Key \cup {NoFunc}) /\ DOMAIN deal = 1..Len(deal) /\ Len(deal) \in Nat
  BY DEF TimerInv, TypeOK
<1>2. Silence(K) = [j \in 1..Len(deal) |-> IF deal[j] \in K THEN NoFunc ELSE deal[j]]
  BY <1>1 DEF Silence
<1>3. \A j \in 1..Len(deal) : Silence(K)[j] \in Key \cup {NoFunc}
  BY <1>1, <1>2
<1>4. /\ Silence(K) \in Seq(Key \cup {NoFunc})
      /\ Len(Silence(K)) = Len(deal)
  BY <1>1, <1>2, <1>3, IsASeq
<1>5. NoFunc \notin K
  BY TimerAssumption
<1> QED BY <1>2, <1>4, <1>5

\* One node leaves the queue for the pool: mid_timer_delete, one turn of
\* mid_timer_delete_all.
LEMMA TakeOut ==
    ASSUME TimerInv, NEW p \in 1..Len(queue),
           queue' = RemoveAt(queue, p), Free({queue[p]})
    PROVE  /\ timer' \in [Node -> Contents] /\ pool' \subseteq Node /\ queue' \in Seq(Node)
           /\ Armed' = Armed \ {queue[p]}
           /\ \A m \in Armed' : timer'[m] = timer[m]
           /\ QueueInv' /\ KeyInv'
<1> DEFINE n == queue[p]
<1>1. n \in Node /\ n \in Armed
  BY DEF TimerInv, TypeOK, QueueInv, Within
<1>2. pool' = pool \cup {n} /\ timer' = [m \in Node |-> IF m \in {n} THEN NoTimer ELSE timer[m]]
  BY DEF Free
<1>3. NoTimer \in Contents
  BY DEF NoTimer, Contents
<1>4. timer' \in [Node -> Contents] /\ pool' \subseteq Node
  BY <1>1, <1>2, <1>3 DEF TimerInv, TypeOK
<1>5. Armed' = Armed \ {n}
  BY <1>2 DEF Armed
<1>6. \A m \in Armed' : timer'[m] = timer[m]
  BY <1>2, <1>5 DEF Armed
<1>7. /\ queue' \in Seq(Node) /\ Distinct(queue') /\ InOrder(queue', timer)
      /\ \A m : Within(queue', m) <=> m # n /\ Within(queue, m)
  BY RemoveKeeps DEF TimerInv, TypeOK, QueueInv
<1> HIDE DEF n
<1>8. \A m \in Node : Within(queue', m) <=> m \in Armed'
  BY <1>5, <1>7 DEF TimerInv, QueueInv
<1>9. InOrder(queue', timer')
  <2>1. \A j \in 1..Len(queue') : queue'[j] \in Armed'
    BY <1>7, <1>8 DEF Within
  <2> QED BY <2>1, <1>6, <1>7 DEF InOrder
<1>10. QueueInv'
  BY <1>7, <1>8, <1>9 DEF QueueInv, Distinct, InOrder, Within
<1>11. KeyInv'
  BY <1>5, <1>6 DEF TimerInv, KeyInv
<1> QED BY <1>4, <1>5, <1>6, <1>7, <1>10, <1>11 DEF n

LEMMA DeleteStep ==
    ASSUME TimerInv, NEW t \in Thread, NEW k \in Key, Delete(t, k) PROVE TimerInv'
<1>1. /\ deal' = Silence({k}) /\ cancelled' = cancelled \cup {k}
      /\ deal' \in Seq(Key \cup {NoFunc}) /\ Len(deal') = Len(deal)
      /\ \A j \in 1..Len(deal) : deal'[j] # k
      /\ \A j \in 1..Len(deal) : deal'[j] = deal[j] \/ deal'[j] = NoFunc
  BY SilenceFacts DEF Delete
<1>2. cancelled' \subseteq Key /\ NoFunc \notin cancelled'
  BY <1>1, TimerAssumption DEF TimerInv, TypeOK
<1>3. \A c \in cancelled' : \A j \in 1..Len(deal') : deal'[j] # c
  BY <1>1, <1>2 DEF TimerInv, CancelInv
<1>4. notBefore' \in [Key -> Nat]
  BY DEF Delete, TimerInv, TypeOK
<1>5. /\ timer' \in [Node -> Contents] /\ pool' \subseteq Node /\ queue' \in Seq(Node)
      /\ QueueInv' /\ KeyInv'
      /\ \A m \in Armed' : m \in Armed /\ timer'[m] = timer[m] /\ timer[m].key # k
  <2>1. CASE Positions(k) = {}
    <3>1. UNCHANGED <<queue, timer, pool>>
      BY <2>1 DEF Delete
    <3>2. QueueInv' /\ KeyInv' /\ Armed' = Armed
      BY <3>1 DEF TimerInv, QueueInv, KeyInv, Distinct, InOrder, Within, Armed
    <3> QED BY <2>1, <3>1, <3>2, PositionFacts DEF TimerInv, TypeOK
  <2>2. CASE Positions(k) # {}
    <3> DEFINE p == FirstOf(Positions(k))
    <3>1. queue' = RemoveAt(queue, p) /\ Free({queue[p]})
      BY <2>2 DEF Delete
    <3>2. p \in 1..Len(queue) /\ queue[p] \in Armed /\ timer[queue[p]].key = k
      BY <2>2, PositionFacts
    <3> HIDE DEF p
    <3>3. /\ timer' \in [Node -> Contents] /\ pool' \subseteq Node /\ queue' \in Seq(Node)
          /\ Armed' = Armed \ {queue[p]}
          /\ \A m \in Armed' : timer'[m] = timer[m]
          /\ QueueInv' /\ KeyInv'
      BY <3>1, <3>2, TakeOut
    <3>4. \A m \in Armed' : timer[m].key # k
      BY <3>2, <3>3 DEF TimerInv, KeyInv
    <3> QED BY <3>3, <3>4
  <2> QED BY <2>1, <2>2
<1>6. CancelInv'
  BY <1>1, <1>3, <1>5 DEF TimerInv, CancelInv
<1>7. TypeOK'
  BY <1>1, <1>2, <1>4, <1>5 DEF TimerInv, TypeOK, Delete
<1> QED BY <1>5, <1>6, <1>7 DEF TimerInv

LEMMA DeleteAllBeginStep ==
    ASSUME TimerInv, NEW t \in Thread, NEW f \in Func, DeleteAll(t, f) PROVE TimerInv'
<1>1. TypeOK'
  BY DEF TimerInv, TypeOK, DeleteAll, taskVars, history
<1> QED BY <1>1, FrameInv DEF DeleteAll, taskVars, history

LEMMA DeleteAllStepStep == ASSUME TimerInv, DeleteAllStep PROVE TimerInv'
<1> DEFINE p == FirstOf(OfDeleted)
<1>1. p \in 1..Len(queue)
  <2>1. OfDeleted \in SUBSET Nat /\ OfDeleted # {}
    BY DEF DeleteAllStep, OfDeleted
  <2>2. p \in OfDeleted
    BY <2>1, FirstOfNat
  <2> QED BY <2>2 DEF OfDeleted
<1>2. queue' = RemoveAt(queue, p) /\ Free({queue[p]})
  BY DEF DeleteAllStep
<1> HIDE DEF p
<1>3. /\ timer' \in [Node -> Contents] /\ pool' \subseteq Node /\ queue' \in Seq(Node)
      /\ Armed' = Armed \ {queue[p]}
      /\ \A m \in Armed' : timer'[m] = timer[m]
      /\ QueueInv' /\ KeyInv'
  BY <1>1, <1>2, TakeOut
<1>4. CancelInv'
  BY <1>3 DEF TimerInv, CancelInv, DeleteAllStep, taskVars, history
<1>5. TypeOK'
  BY <1>3 DEF TimerInv, TypeOK, DeleteAllStep, taskVars, history
<1> QED BY <1>3, <1>4, <1>5 DEF TimerInv

LEMMA DeleteAllEndStep == ASSUME TimerInv, DeleteAllEnd PROVE TimerInv'
<1> DEFINE K == {deleting} \X Arg
<1>1. deleting \in Func /\ K \subseteq Key
  BY DEF TimerInv, TypeOK, DeleteAllEnd, Key
<1>2. /\ deal' = Silence(K) /\ cancelled' = cancelled \cup K
      /\ UNCHANGED <<timer, pool, queue>>
  BY DEF DeleteAllEnd
<1>3. \A k \in K : k[1] = deleting
  OBVIOUS
<1>4. \A m \in Armed : timer[m].key[1] # deleting
  BY DEF DeleteAllEnd, OfDeleted, TimerInv, QueueInv, Within, Armed
<1>5. notBefore' \in [Key -> Nat]
  BY DEF DeleteAllEnd, TimerInv, TypeOK
<1> HIDE DEF K
<1>6. /\ deal' \in Seq(Key \cup {NoFunc}) /\ Len(deal') = Len(deal)
      /\ \A j \in 1..Len(deal) : deal'[j] \notin K
      /\ \A j \in 1..Len(deal) : deal'[j] = deal[j] \/ deal'[j] = NoFunc
  BY <1>1, <1>2, SilenceFacts
<1>7. cancelled' \subseteq Key /\ NoFunc \notin cancelled'
  BY <1>1, <1>2, TimerAssumption DEF TimerInv, TypeOK
<1>8. QueueInv' /\ KeyInv' /\ Armed' = Armed
  BY <1>2 DEF TimerInv, QueueInv, KeyInv, Distinct, InOrder, Within, Armed
<1>9. CancelInv'
  <2>1. \A k \in cancelled' : \A m \in Armed' : timer'[m].key # k
    BY <1>2, <1>3, <1>4, <1>8 DEF TimerInv, CancelInv
  <2>2. \A k \in cancelled' : \A j \in 1..Len(deal') : deal'[j] # k
    BY <1>2, <1>6, <1>7 DEF TimerInv, CancelInv
  <2> QED BY <2>1, <2>2 DEF CancelInv
<1>10. TypeOK'
  BY <1>2, <1>5, <1>6, <1>7 DEF TimerInv, TypeOK, DeleteAllEnd
<1> QED BY <1>8, <1>9, <1>10 DEF TimerInv

\* The node a create gets is out of the queue, and no other armed one has its key.
LEMMA ClaimFacts ==
    ASSUME TimerInv, NEW k \in Key, NEW c \in Claim(k)
    PROVE  /\ c.node \in Node /\ c.rest \in Seq(Node)
           /\ Distinct(c.rest) /\ InOrder(c.rest, timer)
           /\ \A m \in Node : Within(c.rest, m) <=> m \in Armed \ {c.node}
           /\ \A m \in Armed \ {c.node} : timer[m].key # k
<1>1. CASE Positions(k) = {}
  <2>1. PICK n \in pool : c = [node |-> n, rest |-> queue]
    BY <1>1 DEF Claim
  <2>2. c.node = n /\ c.rest = queue /\ n \in Node /\ n \notin Armed
    BY <2>1 DEF TimerInv, TypeOK, Armed
  <2> QED BY <2>2, <1>1, PositionFacts DEF TimerInv, TypeOK, QueueInv
<1>2. CASE Positions(k) # {}
  <2> DEFINE p == FirstOf(Positions(k))
  <2>1. c = [node |-> queue[p], rest |-> RemoveAt(queue, p)]
    BY <1>2 DEF Claim
  <2>2. c.node = queue[p] /\ c.rest = RemoveAt(queue, p)
    BY <2>1
  <2>3. p \in 1..Len(queue) /\ queue[p] \in Armed /\ timer[queue[p]].key = k
    BY <1>2, PositionFacts
  <2> HIDE DEF p
  <2>4. /\ c.rest \in Seq(Node) /\ Distinct(c.rest) /\ InOrder(c.rest, timer)
        /\ \A m : Within(c.rest, m) <=> m # queue[p] /\ Within(queue, m)
    BY <2>2, <2>3, RemoveKeeps DEF TimerInv, TypeOK, QueueInv
  <2>5. \A m \in Node : Within(c.rest, m) <=> m \in Armed \ {c.node}
    BY <2>2, <2>4 DEF TimerInv, QueueInv
  <2>6. \A m \in Armed \ {c.node} : timer[m].key # k
    BY <2>2, <2>3 DEF TimerInv, KeyInv
  <2> QED BY <2>2, <2>3, <2>4, <2>5, <2>6 DEF Armed
<1> QED BY <1>1, <1>2

LEMMA CreateStep ==
    ASSUME TimerInv, NEW t \in Thread, NEW k \in Key,
           NEW intval \in Interval, NEW loops \in LoopCount,
           Create(t, k, intval, loops)
    PROVE  TimerInv'
<1>1. intval \in Nat /\ loops \in Nat /\ mid_10ms \in Nat
  BY TimerAssumption DEF TimerInv, TypeOK, mid_10ms
<1>2. CASE UNCHANGED <<timer, pool, queue, refreshing, history>> /\ hung' = TRUE
  <2>1. TypeOK'
    BY <1>2 DEF TimerInv, TypeOK, Create, taskVars, history
  <2> QED BY <2>1, <1>2, FrameInv DEF Create, taskVars, history
<1>3. ASSUME NEW c \in Claim(k), NEW clock \in Settle(mid_10ms, mid_10ms, intval),
             timer' = [timer EXCEPT ![c.node] =
                    [key |-> k, loops |-> loops, intval |-> intval, clock |-> clock]],
             pool' = pool \ {c.node},
             queue' = Enqueue(c.rest, c.node, clock),
             refreshing' = RefreshBy(t),
             cancelled' = cancelled \ {k},
             notBefore' = [notBefore EXCEPT ![k] = now + intval],
             UNCHANGED <<hung, deal, i, pc, dealAt, remain, sleptAt, now, msgq, deleting>>
      PROVE  TimerInv'
  <2> DEFINE n == c.node
             q == c.rest
  <2>1. /\ n \in Node /\ q \in Seq(Node) /\ Distinct(q) /\ InOrder(q, timer)
        /\ \A m \in Node : Within(q, m) <=> m \in Armed \ {n}
        /\ \A m \in Armed \ {n} : timer[m].key # k
    BY ClaimFacts
  <2>2. clock \in Nat
    BY <1>1, SettleType
  <2>3. /\ timer' \in [Node -> Contents]
        /\ timer'[n].key = k /\ timer'[n].clock = clock
        /\ \A m \in Node \ {n} : timer'[m] = timer[m]
    BY <1>1, <1>3, <2>1, <2>2 DEF TimerInv, TypeOK, Contents
  <2>4. queue' = Enqueue(q, n, clock) /\ pool' = pool \ {n}
    BY <1>3
  <2> HIDE DEF n, q
  <2>5. ~Within(q, n) /\ timer \in [Node -> Contents]
    BY <2>1 DEF TimerInv, TypeOK
  <2>6. /\ Enqueue(q, n, clock) \in Seq(Node)
        /\ Distinct(Enqueue(q, n, clock))
        /\ InOrder(Enqueue(q, n, clock), timer')
        /\ \A m : Within(Enqueue(q, n, clock), m) <=> m = n \/ Within(q, m)
    BY <2>1, <2>2, <2>3, <2>5, EnqueueKeeps
  <2>7. Armed' = (Armed \ {n}) \cup {n}
    BY <2>1, <2>4 DEF Armed
  <2>8. QueueInv'
    <3>1. \A m \in Node : Within(queue', m) <=> m \in Armed'
      BY <2>1, <2>4, <2>6, <2>7
    <3> QED BY <3>1, <2>4, <2>6 DEF QueueInv, Distinct, InOrder, Within
  <2>9. KeyInv'
    BY <2>1, <2>3, <2>7 DEF TimerInv, KeyInv, Armed
  <2>10. CancelInv'
    BY <1>3, <2>1, <2>3, <2>7 DEF TimerInv, CancelInv, Armed
  <2>11. cancelled' \subseteq Key /\ notBefore' \in [Key -> Nat] /\ refreshing' \subseteq Thread
    BY <1>1, <1>3 DEF TimerInv, TypeOK, RefreshBy
  <2>12. TypeOK'
    BY <1>3, <2>3, <2>4, <2>6, <2>11 DEF TimerInv, TypeOK
  <2> QED BY <2>8, <2>9, <2>10, <2>12 DEF TimerInv
<1> QED BY <1>2, <1>3 DEF Create, taskVars

\* The task takes the head of the queue; it re-queues it or gives it back.
LEMMA CollectStep == ASSUME TimerInv, Collect PROVE TimerInv'
<1> DEFINE n == Head(queue)
           t == timer[n]
           q == Tail(queue)
<1>1. /\ n \in Node /\ Within(queue, n) /\ q \in Seq(Node)
      /\ Distinct(q) /\ InOrder(q, timer)
      /\ \A m : Within(q, m) <=> m # n /\ Within(queue, m)
  BY TailKeeps DEF Collect, HeadDue, TimerInv, TypeOK, QueueInv
<1>2. n \in Armed /\ \A m \in Node : Within(q, m) <=> m \in Armed \ {n}
  BY <1>1 DEF TimerInv, QueueInv
<1>3. t \in Contents /\ t.key \in Key /\ t.key \notin cancelled
  BY <1>1, <1>2 DEF TimerInv, TypeOK, KeyInv, CancelInv
<1> DEFINE d == Append(deal, t.key)
<1>4. /\ d \in Seq(Key \cup {NoFunc})
      /\ \A k \in cancelled : \A j \in 1..Len(d) : d[j] # k
  <2>1. deal \in Seq(Key \cup {NoFunc}) /\ t.key \in Key \cup {NoFunc}
    BY <1>3 DEF TimerInv, TypeOK
  <2>2. \A k \in cancelled : \A j \in 1..Len(deal) : deal[j] # k
    BY DEF TimerInv, CancelInv
  <2>3. /\ d \in Seq(Key \cup {NoFunc}) /\ Len(d) = Len(deal) + 1
        /\ \A j \in 1..Len(deal) : d[j] = deal[j]
        /\ d[Len(deal) + 1] = t.key
    BY <2>1, AppendProperties
  <2> HIDE DEF d
  <2> QED BY <2>1, <2>2, <2>3, <1>3
<1>5. CASE hung' = TRUE /\ UNCHANGED <<timer, pool, queue, deal>>
  <2>1. TypeOK'
    BY <1>5 DEF TimerInv, TypeOK, Collect, history
  <2> QED BY <2>1, <1>5, FrameInv DEF Collect, history
<1>6. ASSUME NEW clock \in Settle(t.clock, tClock, t.intval),
             timer' = [timer EXCEPT ![n].loops = LoopsLeft(t.loops), ![n].clock = clock],
             queue' = Enqueue(q, n, clock),
             deal' = d,
             UNCHANGED <<pool, hung, now, i, pc, dealAt, remain, sleptAt, msgq,
                         refreshing, deleting, history>>
      PROVE  TimerInv'
  <2>1. clock \in Nat
    <3>1. t.clock \in Nat /\ t.intval \in Nat
      BY <1>3 DEF Contents
    <3>2. tClock \in Nat
      BY TimerAssumption DEF TimerInv, TypeOK, tClock
    <3> HIDE DEF t
    <3> QED BY <3>1, <3>2, <1>6, SettleType
  <2>2. LoopsLeft(t.loops) \in Nat
    BY <1>3 DEF Contents, LoopsLeft
  <2>3. /\ timer' \in [Node -> Contents]
        /\ timer'[n].key = t.key /\ timer'[n].clock = clock
        /\ \A m \in Node \ {n} : timer'[m] = timer[m]
    BY <1>1, <1>6, <2>1, <2>2 DEF TimerInv, TypeOK, Contents
  <2>4. \A m \in Node : timer'[m].key = timer[m].key
    BY <2>3
  <2>5. queue' = Enqueue(q, n, clock) /\ Armed' = Armed
    BY <1>6 DEF Armed
  <2> HIDE DEF n, q, d
  <2>6. ~Within(q, n) /\ timer \in [Node -> Contents]
    BY <1>1 DEF TimerInv, TypeOK
  <2>7. /\ Enqueue(q, n, clock) \in Seq(Node)
        /\ Distinct(Enqueue(q, n, clock))
        /\ InOrder(Enqueue(q, n, clock), timer')
        /\ \A m : Within(Enqueue(q, n, clock), m) <=> m = n \/ Within(q, m)
    BY <1>1, <2>1, <2>3, <2>6, EnqueueKeeps
  <2>8. QueueInv'
    <3>1. \A m \in Node : Within(queue', m) <=> m \in Armed'
      BY <1>2, <2>5, <2>7
    <3> QED BY <3>1, <2>5, <2>7 DEF QueueInv, Distinct, InOrder, Within
  <2>9. KeyInv'
    BY <2>4, <2>5 DEF TimerInv, KeyInv, Armed
  <2>10. CancelInv'
    BY <1>4, <1>6, <2>4, <2>5 DEF TimerInv, CancelInv, history, Armed
  <2>11. TypeOK'
    BY <1>4, <1>6, <2>3, <2>5, <2>7 DEF TimerInv, TypeOK, history
  <2> QED BY <2>8, <2>9, <2>10, <2>11 DEF TimerInv
<1>7. ASSUME queue' = q, Free({n}), deal' = d,
             UNCHANGED <<hung, now, i, pc, dealAt, remain, sleptAt, msgq, refreshing,
                         deleting, history>>
      PROVE  TimerInv'
  <2>1. /\ pool' = pool \cup {n}
        /\ timer' = [m \in Node |-> IF m \in {n} THEN NoTimer ELSE timer[m]]
    BY <1>7 DEF Free
  <2> HIDE DEF n, q, d
  <2>2. NoTimer \in Contents
    BY DEF NoTimer, Contents
  <2>3. timer' \in [Node -> Contents] /\ pool' \subseteq Node /\ Armed' = Armed \ {n}
    BY <1>1, <2>1, <2>2 DEF TimerInv, TypeOK, Armed
  <2>4. \A m \in Armed' : timer'[m] = timer[m]
    BY <2>1, <2>3 DEF Armed
  <2>5. \A m \in Node : Within(queue', m) <=> m \in Armed'
    BY <1>2, <1>7, <2>3
  <2>6. InOrder(queue', timer')
    <3>1. \A j \in 1..Len(queue') : queue'[j] \in Armed'
      BY <1>1, <1>7, <2>5 DEF Within
    <3> QED BY <3>1, <1>1, <1>7, <2>4 DEF InOrder
  <2>7. QueueInv'
    BY <1>1, <1>7, <2>5, <2>6 DEF QueueInv, Distinct, InOrder, Within
  <2>8. KeyInv' /\ CancelInv'
    BY <1>4, <1>7, <2>3, <2>4 DEF TimerInv, KeyInv, CancelInv, history
  <2>9. TypeOK'
    BY <1>1, <1>4, <1>7, <2>3 DEF TimerInv, TypeOK, history
  <2> QED BY <2>7, <2>8, <2>9 DEF TimerInv
<1> QED BY <1>5, <1>6, <1>7 DEF Collect, history

LEMMA NextInv == ASSUME TimerInv, [Next]_vars PROVE TimerInv'
<1>1. CASE UNCHANGED vars
  <2>1. TypeOK'
    BY <1>1 DEF TimerInv, TypeOK, vars, taskVars, history
  <2> QED BY <2>1, <1>1, FrameInv DEF vars, taskVars, history
<1>2. CASE Next
  <2>1. ASSUME Task PROVE TimerInv'
    BY <2>1, DealStep, CollectStep, EndCollectStep, CallStep, ReturnStep, SleepStep,
       WakeStep DEF Task
  <2> QED BY <1>2, <2>1, TickStep, RefreshStep, CreateStep, DeleteStep, DeleteAllBeginStep,
             DeleteAllStepStep, DeleteAllEndStep DEF Next
<1> QED BY <1>1, <1>2

THEOREM TimerInvariant == Spec => []TimerInv
<1> QED BY InitInv, NextInv, PTL DEF Spec

\* The types, for every value of the constants.
THEOREM TypeCorrect == Spec => []TypeOK
<1>1. TimerInv => TypeOK
  BY DEF TimerInv
<1> QED BY <1>1, TimerInvariant, PTL

\* No node is lost or queued twice (mid_timer.c msg_timer_alloc, msg_timer_free
\* and every path between them).
THEOREM NodesAreConserved == Spec => []NodesConserved
<1>1. TimerInv => NodesConserved
  BY DEF TimerInv, TypeOK, QueueInv, NodesConserved, Within, Distinct, Armed
<1> QED BY <1>1, TimerInvariant, PTL

\* func and arg identify one armed timer.
THEOREM KeysAreUnique == Spec => []OneTimerPerKey
<1>1. TimerInv => OneTimerPerKey
  <2> SUFFICES ASSUME TimerInv, NEW p \in 1..Len(queue), NEW q \in 1..Len(queue), p # q
               PROVE  timer[queue[p]].key # timer[queue[q]].key
    BY DEF OneTimerPerKey
  <2>1. queue[p] # queue[q] /\ queue[p] \in Armed /\ queue[q] \in Armed
    BY DEF TimerInv, TypeOK, QueueInv, Distinct, Within
  <2> QED BY <2>1 DEF TimerInv, KeyInv
<1> QED BY <1>1, TimerInvariant, PTL

\* The queue stays sorted by expiry.
THEOREM QueueIsSorted == Spec => []Sorted
<1>1. TimerInv => Sorted
  BY DEF TimerInv, QueueInv, InOrder, Sorted
<1> QED BY <1>1, TimerInvariant, PTL

\* A deleted timer's callback is not started again before a new create.
THEOREM DeletedTimersStaySilent == Spec => CancelledStaysSilent
<1>1. ASSUME TimerInv, [Next]_vars
      PROVE  [\A k \in cancelled :
                ~(pc # "running" /\ pc' = "running" /\ deal'[i'] = k)]_vars
  <2> SUFFICES ASSUME NEW k \in cancelled, pc # "running", pc' = "running"
               PROVE  deal'[i'] # k
    BY DEF vars
  <2>1. Call
    BY <1>1 DEF Next, Task, Tick, Deal, Collect, EndCollect, Return, Sleep, Wake, Refresh,
                Create, Delete, DeleteAll, DeleteAllStep, DeleteAllEnd, vars, taskVars
  <2>2. i \in 1..Len(deal) /\ deal' = deal /\ i' = i
    BY <2>1, <1>1 DEF Call, TimerInv, TypeOK
  <2> QED BY <2>2, <1>1 DEF TimerInv, CancelInv
<1> QED BY <1>1, TimerInvariant, PTL DEF Spec, CancelledStaysSilent
-----------------------------------------------------------------------------
(* The round: g_deal_funcs has one entry for each node.                    *)

Due == {n \in Armed : timer[n].clock <= tClock}

\* Whatever is armed again after its execution has an interval.
LoopsInv == \A n \in Armed : timer[n].intval = 0 => timer[n].loops = 1

\* While the task collects, each node that is due still has its entry free.
RoundInv ==
    /\ TimerInv /\ LoopsInv /\ DealFits
    /\ pc = "collect" => Len(deal) + Cardinality(Due) <= Cardinality(Node)

\* The clock of a timer that is due and has an interval is moved past the present.
LEMMA SettlePast ==
    ASSUME NEW c \in Nat, NEW p \in Nat, NEW v \in Nat, c <= p, v # 0,
           NEW x \in Settle(c, p, v)
    PROVE  x > p
<1> DEFINE S == {k \in 1..ClockMod : (c + k * v) % ClockMod > p}
<1>1. ~(c > p \/ v = 0)
  OBVIOUS
<1>2. S # {} /\ x = (c + FirstOf(S) * v) % ClockMod
  BY <1>1 DEF Settle
<1>3. S \in SUBSET Nat
  BY TimerAssumption
<1>4. FirstOf(S) \in S
  <2> HIDE DEF S
  <2> QED BY <1>2, <1>3, FirstOfNat
<1> HIDE DEF FirstOf
<1> QED BY <1>2, <1>4

\* There are no more due nodes than nodes.
LEMMA DueFinite ==
    /\ IsFiniteSet(Due) /\ Cardinality(Due) \in Nat
    /\ Cardinality(Due) <= Cardinality(Node) /\ Cardinality(Node) \in Nat
<1>1. IsFiniteSet(Node) /\ Due \in SUBSET Node
  BY TimerAssumption DEF Due, Armed
<1>2. IsFiniteSet(Due) /\ Cardinality(Due) <= Cardinality(Node)
  BY <1>1, FS_Subset
<1> QED BY <1>1, <1>2, FS_CardinalityType

LEMMA RoundInit == ASSUME Init PROVE RoundInv
<1>1. TimerInv
  BY InitInv
<1>2. Armed = {} /\ Len(deal) = 0 /\ pc = "deal"
  BY DEF Init, Armed
<1> QED BY <1>1, <1>2, DueFinite DEF RoundInv, LoopsInv, DealFits

\* Steps outside the collecting that leave the round as long as it is, or empty.
LEMMA RoundOutside ==
    ASSUME RoundInv, TimerInv', LoopsInv', pc' # "collect",
           Len(deal') = Len(deal) \/ deal' = <<>>
    PROVE  RoundInv'
<1>1. Len(deal') <= Cardinality(Node)
  BY DueFinite DEF RoundInv, DealFits
<1> QED BY <1>1 DEF RoundInv, DealFits

\* Steps during it that arm nothing, and leave what is armed as it is.
LEMMA RoundBeside ==
    ASSUME RoundInv, TimerInv', UNCHANGED <<pc, dealAt>>, Len(deal') = Len(deal),
           Armed' \subseteq Armed, \A m \in Armed' : timer'[m] = timer[m]
    PROVE  RoundInv'
<1>1. LoopsInv'
  BY DEF RoundInv, LoopsInv
<1>2. Due' \in SUBSET Due
  BY DEF Due, tClock
<1>3. Cardinality(Due') <= Cardinality(Due)
  BY <1>2, DueFinite, FS_Subset
<1>4. Cardinality(Due') \in Nat
  BY <1>2, DueFinite, FS_Subset, FS_CardinalityType
<1>5. Len(deal) \in Nat
  BY DEF RoundInv, TimerInv, TypeOK
<1>6. pc' = "collect" => Len(deal') + Cardinality(Due') <= Cardinality(Node)
  BY <1>3, <1>4, <1>5, DueFinite DEF RoundInv
<1> QED BY <1>1, <1>6 DEF RoundInv, DealFits

\* A create arms one node, with a single execution if it has no interval, and not
\* while the task collects.
LEMMA RoundCreate ==
    ASSUME RoundInv, NEW t \in Thread, NEW k \in Key,
           NEW intval \in Interval, NEW loops \in LoopCount,
           Create(t, k, intval, loops)
    PROVE  RoundInv'
<1>1. TimerInv' /\ pc' # "collect" /\ deal' = deal
  BY CreateStep DEF RoundInv, Create, MayCall, LockFree, taskVars
<1>2. CASE UNCHANGED <<timer, pool, queue, refreshing, history>>
  <2>1. LoopsInv'
    BY <1>2 DEF RoundInv, LoopsInv, Armed
  <2> QED BY <1>1, <2>1, RoundOutside
<1>3. ASSUME NEW c \in Claim(k), NEW clock \in Settle(mid_10ms, mid_10ms, intval),
             timer' = [timer EXCEPT ![c.node] =
                    [key |-> k, loops |-> loops, intval |-> intval, clock |-> clock]],
             pool' = pool \ {c.node}
      PROVE  RoundInv'
  <2>1. c.node \in Node
    BY ClaimFacts DEF RoundInv
  <2>2. /\ timer'[c.node].loops = loops /\ timer'[c.node].intval = intval
        /\ \A m \in Node \ {c.node} : timer'[m] = timer[m]
    BY <1>3, <2>1 DEF RoundInv, TimerInv, TypeOK
  <2>3. intval = 0 => loops = 1
    BY DEF Create
  <2>4. \A m \in Armed' : m = c.node \/ m \in Armed \ {c.node}
    BY <1>3 DEF Armed
  <2>5. LoopsInv'
    BY <2>2, <2>3, <2>4 DEF RoundInv, LoopsInv, Armed
  <2> QED BY <1>1, <2>5, RoundOutside
<1> QED BY <1>2, <1>3 DEF Create

\* Collecting a node takes its entry, and the node is not due any more.
LEMMA RoundCollect == ASSUME RoundInv, Collect PROVE RoundInv'
<1> DEFINE n == Head(queue)
           t == timer[n]
<1>0. TimerInv' /\ pc = "collect" /\ UNCHANGED <<pc, dealAt>>
  BY CollectStep DEF RoundInv, Collect
<1>1. n \in Armed /\ n \in Node /\ t.clock <= tClock
  <2>1. queue # <<>> /\ queue \in Seq(Node) /\ t.clock <= tClock
    BY DEF Collect, HeadDue, RoundInv, TimerInv, TypeOK
  <2>2. Within(queue, n)
    BY <2>1 DEF Within
  <2>3. n \in Node
    BY <2>1
  <2> QED BY <2>1, <2>2, <2>3 DEF RoundInv, TimerInv, QueueInv
<1>2. t.clock \in Nat /\ t.intval \in Nat /\ t.loops \in Nat /\ t.key \in Key \cup {NoFunc}
  BY <1>1 DEF RoundInv, TimerInv, TypeOK, Contents
<1>3. tClock \in Nat /\ deal \in Seq(Key \cup {NoFunc}) /\ Len(deal) \in Nat
  BY TimerAssumption DEF RoundInv, TimerInv, TypeOK, tClock
<1>4. n \in Due
  BY <1>1 DEF Due
<1>5. ASSUME Due' \in SUBSET (Due \ {n}), LoopsInv', deal' = Append(deal, t.key)
      PROVE  RoundInv'
  <2>1. Len(deal') = Len(deal) + 1
    BY <1>2, <1>3, <1>5
  <2>2. IsFiniteSet(Due \ {n}) /\ Cardinality(Due \ {n}) = Cardinality(Due) - 1
    BY <1>4, DueFinite, FS_RemoveElement
  <2>3. Cardinality(Due') <= Cardinality(Due) - 1 /\ Cardinality(Due') \in Nat
    BY <1>5, <2>2, FS_Subset, FS_CardinalityType
  <2>4. Len(deal) + Cardinality(Due) <= Cardinality(Node)
    BY <1>0 DEF RoundInv
  <2>5. Len(deal') + Cardinality(Due') <= Cardinality(Node)
    BY <1>3, <2>1, <2>3, <2>4, DueFinite
  <2>6. Len(deal') <= Cardinality(Node)
    BY <1>3, <2>1, <2>3, <2>5, DueFinite
  <2> QED BY <1>0, <1>5, <2>5, <2>6 DEF RoundInv, DealFits
<1>6. CASE hung' = TRUE /\ UNCHANGED <<timer, pool, queue, deal>>
  <2>1. Armed' = Armed
    BY <1>6 DEF Armed
  <2> QED BY <1>0, <1>6, <2>1, RoundBeside
<1>7. ASSUME Again(n), NEW clock \in Settle(t.clock, tClock, t.intval),
             timer' = [timer EXCEPT ![n].loops = LoopsLeft(t.loops), ![n].clock = clock],
             deal' = Append(deal, t.key), UNCHANGED pool
      PROVE  RoundInv'
  <2>1. t.loops # 1
    BY <1>2, <1>7 DEF Again, LoopsLeft
  <2>2. t.intval # 0
    BY <1>1, <2>1 DEF RoundInv, LoopsInv
  <2>3. clock > tClock
    <3> HIDE DEF t
    <3> QED BY <1>1, <1>2, <1>3, <1>7, <2>2, SettlePast
  <2>4. /\ timer'[n].clock = clock /\ timer'[n].intval = t.intval
        /\ \A m \in Node \ {n} : timer'[m] = timer[m]
    BY <1>1, <1>7 DEF RoundInv, TimerInv, TypeOK, Contents
  <2>5. Armed' = Armed
    BY <1>7 DEF Armed
  <2>6. clock \in Nat
    <3> HIDE DEF t
    <3> QED BY <1>2, <1>3, <1>7, SettleType
  <2> HIDE DEF n, t
  <2>7. Due' \in SUBSET (Due \ {n})
    <3>1. tClock' = tClock
      BY <1>0 DEF tClock
    <3>2. n \notin Due'
      BY <1>3, <2>3, <2>4, <2>6, <3>1 DEF Due
    <3> QED BY <2>4, <2>5, <3>1, <3>2 DEF Due, Armed
  <2>8. LoopsInv'
    BY <2>2, <2>4, <2>5 DEF RoundInv, LoopsInv, Armed
  <2> QED BY <1>5, <1>7, <2>7, <2>8
<1>8. ASSUME Free({n}), deal' = Append(deal, t.key) PROVE RoundInv'
  <2>1. Armed' = Armed \ {n}
    BY <1>8 DEF Free, Armed
  <2>2. \A m \in Armed' : timer'[m] = timer[m]
    BY <1>8, <2>1 DEF Free, Armed
  <2> HIDE DEF n, t
  <2>3. Due' \in SUBSET (Due \ {n})
    BY <1>0, <2>1, <2>2 DEF Due, tClock
  <2>4. LoopsInv'
    BY <2>1, <2>2 DEF RoundInv, LoopsInv
  <2> QED BY <1>5, <1>8, <2>3, <2>4
<1> QED BY <1>6, <1>7, <1>8 DEF Collect

\* A delete takes a node out at most; no entry of the round goes.
LEMMA RoundDelete ==
    ASSUME RoundInv, NEW t \in Thread, NEW k \in Key, Delete(t, k)
    PROVE  RoundInv'
<1>1. TimerInv' /\ pc' # "collect"
  BY DeleteStep DEF RoundInv, Delete, MayCall, LockFree
<1>2. Len(deal') = Len(deal)
  BY SilenceFacts DEF RoundInv, Delete
<1>3. Armed' \subseteq Armed /\ \A m \in Armed' : timer'[m] = timer[m]
  BY DEF Delete, Free, Armed
<1>4. LoopsInv'
  BY <1>3 DEF RoundInv, LoopsInv
<1> QED BY <1>1, <1>2, <1>4, RoundOutside

LEMMA RoundDeleteAllStep == ASSUME RoundInv, DeleteAllStep PROVE RoundInv'
<1>1. TimerInv' /\ UNCHANGED <<pc, dealAt, deal>>
  BY DeleteAllStepStep DEF RoundInv, DeleteAllStep, taskVars
<1>2. Armed' \subseteq Armed /\ \A m \in Armed' : timer'[m] = timer[m]
  BY DEF DeleteAllStep, Free, Armed
<1> QED BY <1>1, <1>2, RoundBeside

LEMMA RoundDeleteAllEnd == ASSUME RoundInv, DeleteAllEnd PROVE RoundInv'
<1>1. TimerInv' /\ UNCHANGED <<pc, dealAt, timer, pool>>
  BY DeleteAllEndStep DEF RoundInv, DeleteAllEnd
<1>2. {deleting} \X Arg \in SUBSET Key
  BY DEF DeleteAllEnd, RoundInv, TimerInv, TypeOK, Key
<1>3. Len(deal') = Len(deal)
  BY <1>2, SilenceFacts DEF RoundInv, DeleteAllEnd
<1>4. Armed' = Armed
  BY <1>1 DEF Armed
<1> QED BY <1>1, <1>3, <1>4, RoundBeside

\* The task's other steps; beginning a round, it has all entries free.
LEMMA RoundTask ==
    ASSUME RoundInv, Deal \/ EndCollect \/ Call \/ Return \/ Sleep \/ Wake
    PROVE  RoundInv'
<1>1. TimerInv' /\ UNCHANGED <<timer, pool>>
  BY DealStep, EndCollectStep, CallStep, ReturnStep, SleepStep, WakeStep
     DEF RoundInv, Deal, EndCollect, Call, Return, Sleep, Wake
<1>2. LoopsInv'
  BY <1>1 DEF RoundInv, LoopsInv, Armed
<1>3. CASE Deal
  <2>1. Len(deal') = 0
    BY <1>3 DEF Deal
  <2>2. (IsFiniteSet(Due) /\ Cardinality(Due) \in Nat
         /\ Cardinality(Due) <= Cardinality(Node) /\ Cardinality(Node) \in Nat)'
    BY DueFinite, PTL
  <2> QED BY <1>1, <1>2, <2>1, <2>2 DEF RoundInv, DealFits
<1>4. CASE EndCollect \/ Call \/ Return \/ Sleep \/ Wake
  <2>1. pc' # "collect" /\ (deal' = deal \/ deal' = <<>>)
    BY <1>4 DEF EndCollect, Call, Return, Sleep, Wake
  <2> QED BY <1>1, <1>2, <2>1, RoundOutside
<1> QED BY <1>3, <1>4

LEMMA RoundNext == ASSUME RoundInv, [Next]_vars PROVE RoundInv'
<1>1. TimerInv'
  BY NextInv DEF RoundInv
<1>2. CASE \/ UNCHANGED vars \/ Tick
           \/ \E t \in Thread : Refresh(t) \/ \E f \in Func : DeleteAll(t, f)
  <2>1. UNCHANGED <<timer, pool, pc, dealAt, deal>>
    BY <1>2 DEF vars, taskVars, Tick, Refresh, DeleteAll
  <2>2. Armed' = Armed
    BY <2>1 DEF Armed
  <2> QED BY <1>1, <2>1, <2>2, RoundBeside
<1>3. ASSUME Task PROVE RoundInv'
  BY <1>3, RoundCollect, RoundTask DEF Task
<1> QED BY <1>2, <1>3, RoundCreate, RoundDelete, RoundDeleteAllStep, RoundDeleteAllEnd DEF Next

\* A round never has more entries than g_deal_funcs has room for: a timer that is
\* collected is not due again in the same round, though its node is queued again at
\* once, and one without an interval would be.
THEOREM RoundFits == Spec => []DealFits
<1>1. RoundInv => DealFits
  BY DEF RoundInv
<1> QED BY <1>1, RoundInit, RoundNext, PTL DEF Spec
-----------------------------------------------------------------------------
(* The sleep, as long as the clock does not wrap.                          *)

\* The round's time to sleep is known, and nobody is about to cut it short.
Settled == pc \in {"call", "running", "select"} /\ msgq = 0 /\ refreshing = {}

\* No timer expires within it; a create after it was computed leaves its message.
SleepInv ==
    /\ TimerInv /\ dealAt <= now
    /\ Settled => \A n \in Armed : dealAt + Lesser(remain, IdleTicks) <= timer[n].clock

LEMMA ModAtMost ==
    ASSUME NEW x \in Nat, NEW m \in Nat \ {0}
    PROVE  x % m \in Nat /\ x % m <= x /\ (x < m => x % m = x)
    OBVIOUS

LEMMA SleepInit == ASSUME Init PROVE SleepInv
<1>1. TimerInv
  BY InitInv
<1> QED BY <1>1 DEF Init, SleepInv, Settled

\* Steps that arm nothing, and neither compute a time to sleep nor lose a message.
LEMMA SleepBeside ==
    ASSUME SleepInv, TimerInv', now' >= now, UNCHANGED <<dealAt, remain>>,
           Settled' => Settled, Armed' \subseteq Armed,
           \A m \in Armed' : timer'[m] = timer[m]
    PROVE  SleepInv'
<1>1. dealAt' <= now'
  BY DEF SleepInv, TimerInv, TypeOK
<1>2. ASSUME Settled', NEW m \in Armed'
      PROVE  dealAt' + Lesser(remain', IdleTicks) <= timer'[m].clock
  BY <1>2 DEF SleepInv, Lesser
<1> QED BY <1>1, <1>2 DEF SleepInv

\* Nothing is slept through when no time to sleep is known.
LEMMA SleepUnsettled ==
    ASSUME TimerInv', dealAt' <= now', ~Settled'
    PROVE  SleepInv'
    BY DEF SleepInv

\* The head of the queue is the first to expire, and the sleep ends by then.
LEMMA SleepComputed ==
    ASSUME SleepInv, now < ClockMod, EndCollect
    PROVE  SleepInv'
<1>1. TimerInv' /\ UNCHANGED <<now, dealAt, timer, pool, queue>>
  BY EndCollectStep DEF SleepInv, EndCollect
<1>2. dealAt \in Nat /\ now \in Nat /\ dealAt <= now /\ ClockMod \in Nat \ {0}
      /\ IdleTicks \in Nat /\ Armed' = Armed
  BY <1>1, TimerAssumption DEF SleepInv, TimerInv, TypeOK, Armed
<1>3. tClock = dealAt
  BY <1>2, ModAtMost DEF tClock
<1>4. ASSUME NEW m \in Armed
      PROVE  dealAt + Lesser(remain', IdleTicks) <= timer[m].clock
  <2>1. m \in Node /\ timer[m].clock \in Nat /\ queue \in Seq(Node)
    BY DEF Armed, SleepInv, TimerInv, TypeOK, Contents
  <2>2. PICK p \in 1..Len(queue) : queue[p] = m
    BY <2>1 DEF SleepInv, TimerInv, QueueInv, Within
  <2>3. queue # <<>> /\ Head(queue) = queue[1] /\ Head(queue) \in Node /\ 1 \in 1..Len(queue)
    BY <2>1, <2>2
  <2> DEFINE first == timer[Head(queue)].clock
  <2>4. first \in Nat
    BY <2>3 DEF SleepInv, TimerInv, TypeOK, Contents
  <2>5. first <= timer[m].clock
    <3>1. CASE p = 1
      BY <2>1, <2>2, <2>3, <3>1
    <3>2. CASE p # 1
      <4>1. 1 < p
        BY <3>2, <2>1, <2>2
      <4> QED BY <2>2, <2>3, <4>1 DEF SleepInv, TimerInv, QueueInv, InOrder
    <3> QED BY <3>1, <3>2
  <2>6. first > dealAt
    BY <1>2, <1>3, <2>3, <2>4 DEF EndCollect, HeadDue
  <2>7. remain' = (first - dealAt) % ClockMod
    BY <1>3, <2>3 DEF EndCollect
  <2> HIDE DEF first
  <2>8. remain' \in Nat /\ remain' <= first - dealAt
    <3>1. first - dealAt \in Nat
      BY <1>2, <2>4, <2>6
    <3> QED BY <1>2, <2>7, <3>1, ModAtMost
  <2> QED BY <1>2, <2>1, <2>4, <2>5, <2>8 DEF Lesser
<1> QED BY <1>1, <1>2, <1>4 DEF SleepInv

\* A create wakes the task, later if not now.
LEMMA SleepCreate ==
    ASSUME SleepInv, NEW t \in Thread, NEW k \in Key,
           NEW intval \in Interval, NEW loops \in LoopCount,
           Create(t, k, intval, loops)
    PROVE  SleepInv'
<1>1. TimerInv' /\ UNCHANGED <<now, msgq, pc, dealAt, remain>>
  BY CreateStep DEF SleepInv, Create, taskVars
<1>2. CASE UNCHANGED <<timer, pool, refreshing>>
  <2>1. Armed' = Armed
    BY <1>2 DEF Armed
  <2> QED BY <1>1, <1>2, <2>1 DEF SleepInv, Settled
<1>3. CASE refreshing' = RefreshBy(t)
  <2>1. ~Settled'
    BY <1>3 DEF Settled, RefreshBy
  <2> QED BY <1>1, <2>1, SleepUnsettled DEF SleepInv
<1> QED BY <1>2, <1>3 DEF Create

LEMMA SleepRefresh == ASSUME SleepInv, NEW t \in Thread, Refresh(t) PROVE SleepInv'
<1>1. TimerInv' /\ UNCHANGED <<now, dealAt>>
  BY RefreshStep DEF SleepInv, Refresh, taskVars
<1>2. msgq' # 0
  BY TimerAssumption DEF Refresh, Lesser, SleepInv, TimerInv, TypeOK
<1> QED BY <1>1, <1>2, SleepUnsettled DEF SleepInv, Settled

\* Deletes can only make what is left later.
LEMMA SleepDeletes ==
    ASSUME SleepInv,
           \/ \E t \in Thread : \/ \E k \in Key : Delete(t, k)
                                \/ \E f \in Func : DeleteAll(t, f)
           \/ DeleteAllStep \/ DeleteAllEnd
    PROVE  SleepInv'
<1>1. TimerInv'
  BY DeleteStep, DeleteAllBeginStep, DeleteAllStepStep, DeleteAllEndStep DEF SleepInv
<1>2. UNCHANGED <<now, dealAt, remain, pc, msgq, refreshing>>
  BY DEF Delete, DeleteAll, DeleteAllStep, DeleteAllEnd, taskVars
<1>3. Armed' \subseteq Armed /\ \A m \in Armed' : timer'[m] = timer[m]
  <2>1. ASSUME NEW n, Free({n})
        PROVE  Armed' \subseteq Armed /\ \A m \in Armed' : timer'[m] = timer[m]
    BY <2>1 DEF Free, Armed
  <2>2. CASE UNCHANGED <<timer, pool>>
    BY <2>2 DEF Armed
  <2> QED BY <2>1, <2>2 DEF Delete, DeleteAll, DeleteAllStep, DeleteAllEnd
<1>4. now' >= now
  BY <1>2 DEF SleepInv, TimerInv, TypeOK
<1> QED BY <1>1, <1>2, <1>3, <1>4, SleepBeside DEF Settled

LEMMA SleepTask ==
    ASSUME SleepInv, now < ClockMod, Task
    PROVE  SleepInv'
<1>1. TimerInv'
  BY NextInv DEF SleepInv, Next
<1>2. now \in Nat /\ dealAt <= now /\ now >= now
  BY DEF SleepInv, TimerInv, TypeOK
<1>3. CASE Deal \/ Collect \/ Wake
  <2>1. ~Settled' /\ dealAt' <= now'
    BY <1>2, <1>3 DEF Deal, Collect, Wake, Settled
  <2> QED BY <1>1, <2>1, SleepUnsettled
<1>4. CASE Call \/ Return \/ Sleep
  <2>1. UNCHANGED <<now, dealAt, remain, timer, pool, msgq, refreshing>>
        /\ pc \in {"call", "running"}
    BY <1>4 DEF Call, Return, Sleep
  <2>2. Armed' = Armed /\ (Settled' => Settled)
    BY <2>1 DEF Armed, Settled
  <2> QED BY <1>1, <1>2, <2>1, <2>2, SleepBeside
<1> QED BY <1>3, <1>4, SleepComputed DEF Task

LEMMA SleepNext == ASSUME SleepInv, now < ClockMod, [Next]_vars PROVE SleepInv'
<1>1. CASE Tick \/ UNCHANGED vars
  <2>1. TimerInv'
    BY NextInv DEF SleepInv
  <2>2. now' >= now /\ UNCHANGED <<timer, pool, dealAt, remain, pc, msgq, refreshing>>
    BY <1>1 DEF Tick, vars, taskVars, SleepInv, TimerInv, TypeOK
  <2>3. Armed' = Armed
    BY <2>2 DEF Armed
  <2> QED BY <2>1, <2>2, <2>3, SleepBeside DEF Settled
<1>2. ASSUME \E t \in Thread : \E k \in Key, intval \in Interval, loops \in LoopCount :
                Create(t, k, intval, loops)
      PROVE  SleepInv'
  BY <1>2, SleepCreate
<1>3. ASSUME \E t \in Thread : Refresh(t) PROVE SleepInv'
  BY <1>3, SleepRefresh
<1> QED BY <1>1, <1>2, <1>3, SleepDeletes, SleepTask DEF Next

\* As long as the clock has not wrapped, no timer is slept through: the task wakes
\* no later than the first expires, whoever creates and deletes timers while it
\* deals a round, computes the time to sleep, runs callbacks and goes to sleep.
THEOREM NothingIsSleptThrough == Spec /\ [](now < ClockMod) => []NoOversleep
<1>1. SleepInv => NoOversleep
  <2> SUFFICES ASSUME SleepInv, pc = "select", msgq = 0, refreshing = {}, queue # <<>>
               PROVE  Deadline <= timer[Head(queue)].clock + (sleptAt - dealAt)
    BY DEF NoOversleep
  <2> DEFINE first == Head(queue)
  <2>1. queue \in Seq(Node) /\ Len(queue) \in Nat \ {0} /\ first = queue[1]
    BY DEF SleepInv, TimerInv, TypeOK
  <2>2. first \in Node
    BY <2>1
  <2>3. Within(queue, first)
    BY <2>1 DEF Within
  <2>4. first \in Armed
    BY <2>2, <2>3 DEF SleepInv, TimerInv, QueueInv
  <2>5. timer[first].clock \in Nat /\ sleptAt \in Nat /\ dealAt \in Nat /\ remain \in Nat
    BY <2>2 DEF SleepInv, TimerInv, TypeOK, Contents
  <2> HIDE DEF first
  <2>6. dealAt + Lesser(remain, IdleTicks) <= timer[first].clock
    BY <2>4 DEF SleepInv, Settled
  <2>7. Lesser(remain, IdleTicks) \in Nat
    BY <2>5, TimerAssumption DEF Lesser
  <2>8. Deadline <= timer[first].clock + (sleptAt - dealAt)
    BY <2>5, <2>6, <2>7 DEF Deadline
  <2> QED BY <2>8 DEF first
<1> QED BY <1>1, SleepInit, SleepNext, PTL DEF Spec

-----------------------------------------------------------------------------
(* The interval asked for, as long as the clock does not wrap within it.   *)

\* msg_timer_queue adds one interval to the present.
LEMMA SettleOnce ==
    ASSUME NEW c \in Nat, NEW v \in Nat, c + v < ClockMod, NEW x \in Settle(c, c, v)
    PROVE  x = c + v
<1>1. CASE v = 0
  BY <1>1 DEF Settle
<1>2. CASE v # 0
  <2> DEFINE S == {k \in 1..ClockMod : (c + k * v) % ClockMod > c}
  <2>1. x = (c + FirstOf(S) * v) % ClockMod
    BY <1>2 DEF Settle
  <2>2. 1 * v = v /\ (c + v) % ClockMod = c + v /\ c + v > c
    BY <1>2, TimerAssumption, ModAtMost
  <2>3. 1 \in S /\ S \in SUBSET Nat /\ \A k \in S : k >= 1
    BY <2>2, TimerAssumption
  <2> HIDE DEF S
  <2>4. FirstOf(S) = 1
    <3>1. FirstOf(S) \in S /\ FirstOf(S) <= 1
      BY <2>3, FirstOfNat
    <3>2. FirstOf(S) \in Nat /\ FirstOf(S) >= 1
      BY <2>3, <3>1
    <3> QED BY <3>1, <3>2
  <2> QED BY <2>1, <2>2, <2>4
<1> QED BY <1>1, <1>2

\* No interval asked for reaches past the clock's last value.
NoWrap == \A v \in Interval : now + v < ClockMod

\* As long as no interval from now on reaches past the wrap, a create leaves its timer
\* armed for the interval asked for, whether its node is fresh or was queued.
THEOREM CreateArms == Spec /\ []NoWrap => ArmedForInterval
<1>1. ASSUME TimerInv, NoWrap, [Next]_vars
      PROVE  [\A n \in Node : timer'[n] # timer[n] /\ refreshing' # refreshing =>
                timer'[n].clock = now + timer'[n].intval]_vars
  <2> SUFFICES ASSUME NEW n \in Node, timer'[n] # timer[n], refreshing' # refreshing
               PROVE  timer'[n].clock = now + timer'[n].intval
    OBVIOUS
  <2>1. PICK t \in Thread, k \in Key, intval \in Interval, loops \in LoopCount :
          Create(t, k, intval, loops)
    BY <1>1 DEF Next, Task, Tick, Deal, Collect, EndCollect, Call, Return, Sleep, Wake,
                Refresh, Delete, DeleteAll, DeleteAllStep, DeleteAllEnd, vars, taskVars
  <2>2. PICK c \in Claim(k) : \E clock \in Settle(mid_10ms, mid_10ms, intval) :
          timer' = [timer EXCEPT ![c.node] =
                    [key |-> k, loops |-> loops, intval |-> intval, clock |-> clock]]
    BY <2>1 DEF Create
  <2>3. PICK clock \in Settle(mid_10ms, mid_10ms, intval) :
          timer' = [timer EXCEPT ![c.node] =
                    [key |-> k, loops |-> loops, intval |-> intval, clock |-> clock]]
    BY <2>2
  <2>4. n = c.node /\ timer'[n].clock = clock /\ timer'[n].intval = intval
    BY <1>1, <2>3 DEF TimerInv, TypeOK
  <2>5. now \in Nat /\ intval \in Nat /\ now + intval < ClockMod /\ ClockMod \in Nat \ {0}
    BY <1>1, TimerAssumption DEF TimerInv, TypeOK, NoWrap
  <2>6. mid_10ms = now
    <3>1. now < ClockMod
      BY <2>5
    <3> QED BY <2>5, <3>1, ModAtMost DEF mid_10ms
  <2>7. clock = now + intval
    BY <2>3, <2>5, <2>6, SettleOnce
  <2> QED BY <2>4, <2>7
<1> QED BY <1>1, TimerInvariant, PTL DEF Spec, ArmedForInterval
=============================================================================
