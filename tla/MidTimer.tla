------------------------------ MODULE MidTimer ------------------------------
(***************************************************************************)
(* The software timers of mid_timer.c: a pool of TIMER_POOL_SIZE nodes, a  *)
(* queue of armed timers sorted by expiry, and one task (mid_timer_loop)   *)
(* that deals the due timers and then sleeps in mid_select_exec until the  *)
(* next one is due or until a one-byte message on g_msgq wakes it.         *)
(* Any thread, and any timer callback, may create and delete timers.       *)
(*                                                                         *)
(* g_mutex: the bodies of create and delete hold it throughout, so each is *)
(* one step; delete_all, which also does, is a step for each timer it      *)
(* takes out.  The task holds it while it collects the due timers and      *)
(* between two callbacks, and releases it around every callback.           *)
(***************************************************************************)
EXTENDS Integers, Sequences, FiniteSets, SequencesExt

CONSTANTS
    Node,         \* the timer nodes allocated by mid_timer_init
    Func, Arg,    \* callbacks, and the arguments they are registered with
    Caller, Loop, \* the threads that use timers, and the timer task
    Interval,     \* the intervals asked for, in ticks of 10 ms
    LoopCount,    \* the values of loops asked for; 0 means forever
    ClockMod,     \* mid_10ms wraps here (2^32 in the code)
    IdleTicks,    \* HOUR_CLOCK_NUM, the longest sleep
    MsgMax,       \* messages that fit in the pipe behind g_msgq
    CreateUntil,  \* bound: no timer is created from this instant on
    MaxTime,      \* bound: the last instant explored in full (see Tick)
    NoFunc        \* NULL in g_deal_funcs

Key == Func \X Arg
Thread == Caller \cup {Loop}

ASSUME TimerAssumption ==
    /\ IsFiniteSet(Node)
    /\ Loop \notin Caller
    /\ NoFunc \notin Key \cup Func
    /\ Interval \subseteq Nat /\ LoopCount \subseteq Nat
    /\ ClockMod \in Nat \ {0} /\ IdleTicks \in Nat /\ MsgMax \in Nat \ {0}
    /\ CreateUntil \in Nat /\ MaxTime \in Nat

VARIABLES
    now,        \* CLOCK_MONOTONIC in ticks, unwrapped
    timer,      \* the contents of every node (NoTimer while it is in the pool)
    pool,       \* g_timer_q_pool
    queue,      \* g_timer_q_time
    deal,       \* g_deal_funcs and g_deal_args, g_deal_num entries
    i,          \* the entry being called
    pc,         \* where the timer task is
    dealAt,     \* when the task read the clock for this round (tClock)
    remain,     \* the time to sleep computed in this round
    sleptAt,    \* when the task entered select
    msgq,       \* messages waiting in g_msgq
    refreshing, \* threads between int_timer_create's unlock and its putmsg
    hung,       \* a thread loops forever in msg_timer_queue, g_mutex held
    deleting,   \* the func mid_timer_delete_all is taking out, or NoFunc
    cancelled,  \* history: keys deleted and not created since
    notBefore   \* history: first instant at which a key's timer may fire, from
                \* its creation to its next execution (0: at any time)

taskVars == <<deal, i, pc, dealAt, remain, sleptAt>>
history == <<cancelled, notBefore>>
vars == <<now, timer, pool, queue, taskVars, msgq, refreshing, hung, deleting, history>>

-----------------------------------------------------------------------------
\* Helpers.

Lesser(a, b) == IF a <= b THEN a ELSE b
FirstOf(S) == CHOOSE x \in S : \A y \in S : x <= y
mid_10ms == now % ClockMod
tClock == dealAt % ClockMod

\* Whether a thread other than the task holds g_mutex, and whether it is free.
Held == hung \/ deleting # NoFunc
LockFree == pc \notin {"collect", "call"} /\ ~Held

\* Thread t is about to call into the timers; the task does so in callbacks.
MayCall(t) == LockFree /\ t \notin refreshing /\ (t = Loop => pc = "running")

\* Where in the queue the timer of key k is.
Positions(k) == {p \in 1..Len(queue) : timer[queue[p]].key = k}

\* The first loop of msg_timer_queue: the clock values it may end with, none
\* if it never ends because no multiple of the interval exceeds pClock before
\* the addition wraps.
SettleNoAdvance(clock, pClock, intval) == {clock}
Settle(clock, pClock, intval) ==
    IF clock > pClock \/ intval = 0 THEN {clock}
    ELSE LET steps == {k \in 1..ClockMod : (clock + k * intval) % ClockMod > pClock}
         IN  IF steps = {} THEN {}
             ELSE {(clock + FirstOf(steps) * intval) % ClockMod}

\* The second loop of msg_timer_queue: behind every timer not later than clock.
SpotAtHead(q, clock) == 1
Spot(q, clock) ==
    FirstOf({p \in 1..Len(q) : timer[q[p]].clock > clock} \cup {Len(q) + 1})

Enqueue(q, n, clock) == InsertAt(q, Spot(q, clock), n)

NoTimer == [key |-> NoFunc, loops |-> 0, intval |-> 0, clock |-> 0]

-----------------------------------------------------------------------------
Init ==
    /\ now = 0
    /\ timer = [n \in Node |-> NoTimer]
    /\ pool = Node /\ queue = <<>>
    /\ deal = <<>> /\ i = 1 /\ pc = "deal"
    /\ dealAt = 0 /\ remain = 0 /\ sleptAt = 0
    /\ msgq = 0 /\ refreshing = {} /\ hung = FALSE /\ deleting = NoFunc
    /\ cancelled = {} /\ notBefore = [k \in Key |-> 0]

\* When the select the task is in times out.
Deadline == sleptAt + Lesser(remain, IdleTicks)

\* Time passes; beyond MaxTime only while the task sleeps and a timer that
\* ends is armed, so that an instance is finite and no sleep lasts forever.
Tick ==
    /\ \/ now < MaxTime
       \/ /\ pc = "select" /\ now < Deadline
          /\ \E p \in DOMAIN queue : timer[queue[p]].loops > 0
    /\ now' = now + 1
    /\ UNCHANGED <<timer, pool, queue, taskVars, msgq, refreshing, hung, deleting, history>>

\* int_timer_create: re-use the node of a timer with the same key, or take
\* one from the pool; none left is an error and changes nothing.
ClaimFresh(k) == {[node |-> n, rest |-> queue] : n \in pool}
Claim(k) ==
    IF Positions(k) # {}
    THEN LET p == FirstOf(Positions(k))
         IN  {[node |-> queue[p], rest |-> RemoveAt(queue, p)]}
    ELSE {[node |-> n, rest |-> queue] : n \in pool}

RefreshNobody(t) == refreshing
RefreshBy(t) == refreshing \cup {t}

Create(t, k, intval, loops) ==
    /\ MayCall(t) /\ now < CreateUntil
    /\ intval = 0 => loops = 1
    /\ \E c \in Claim(k) :
         \/ /\ Settle(mid_10ms, mid_10ms, intval) = {}
            /\ hung' = TRUE
            /\ UNCHANGED <<timer, pool, queue, refreshing, history>>
         \/ \E clock \in Settle(mid_10ms, mid_10ms, intval) :
              /\ timer' = [timer EXCEPT ![c.node] =
                    [key |-> k, loops |-> loops, intval |-> intval, clock |-> clock]]
              /\ pool' = pool \ {c.node}
              /\ queue' = Enqueue(c.rest, c.node, clock)
              /\ refreshing' = RefreshBy(t)
              /\ cancelled' = cancelled \ {k}
              /\ notBefore' = [notBefore EXCEPT ![k] = now + intval]
              /\ UNCHANGED hung
    /\ UNCHANGED <<now, taskVars, msgq, deleting>>

\* mid_timer_refresh, the last call of a create; a full pipe drops the byte.
Refresh(t) ==
    /\ t \in refreshing
    /\ refreshing' = refreshing \ {t}
    /\ msgq' = Lesser(msgq + 1, MsgMax)
    /\ UNCHANGED <<now, timer, pool, queue, taskVars, hung, deleting, history>>

\* The entries of the round in progress that a delete silences.
SilenceNone(K) == deal
Silence(K) == [j \in DOMAIN deal |-> IF deal[j] \in K THEN NoFunc ELSE deal[j]]

\* msg_timer_free of the nodes ns.
FreeLeaks(ns) ==
    /\ pool' = pool
    /\ timer' = [n \in Node |-> IF n \in ns THEN NoTimer ELSE timer[n]]
Free(ns) ==
    /\ pool' = pool \cup ns
    /\ timer' = [n \in Node |-> IF n \in ns THEN NoTimer ELSE timer[n]]

Delete(t, k) ==
    /\ MayCall(t)
    /\ IF Positions(k) = {} THEN UNCHANGED <<queue, timer, pool>>
       ELSE LET p == FirstOf(Positions(k))
            IN  queue' = RemoveAt(queue, p) /\ Free({queue[p]})
    /\ deal' = Silence({k})
    /\ cancelled' = cancelled \cup {k}
    /\ notBefore' = [notBefore EXCEPT ![k] = 0]
    /\ UNCHANGED <<now, i, pc, dealAt, remain, sleptAt, msgq, refreshing, hung, deleting>>

\* mid_timer_delete_all: lock; take out the first timer of f while there is
\* one; silence its entries; unlock.
DeleteAll(t, f) ==
    /\ MayCall(t)
    /\ deleting' = f
    /\ UNCHANGED <<now, timer, pool, queue, taskVars, msgq, refreshing, hung, history>>

OfDeleted == {p \in 1..Len(queue) : timer[queue[p]].key[1] = deleting}

DeleteAllStep ==
    /\ deleting # NoFunc /\ OfDeleted # {}
    /\ LET p == FirstOf(OfDeleted)
       IN  queue' = RemoveAt(queue, p) /\ Free({queue[p]})
    /\ UNCHANGED <<now, taskVars, msgq, refreshing, hung, deleting, history>>

DeleteAllEnd ==
    LET K == {deleting} \X Arg
    IN  /\ deleting # NoFunc /\ OfDeleted = {}
        /\ deleting' = NoFunc
        /\ deal' = Silence(K)
        /\ cancelled' = cancelled \cup K
        /\ notBefore' = [k \in Key |-> IF k \in K THEN 0 ELSE notBefore[k]]
        /\ UNCHANGED <<now, timer, pool, queue, i, pc, dealAt, remain, sleptAt, msgq,
                       refreshing, hung>>

-----------------------------------------------------------------------------
\* The timer task: msg_timer_deal, then mid_select_exec.

Deal ==
    /\ pc = "deal" /\ ~Held
    /\ pc' = "collect" /\ deal' = <<>> /\ dealAt' = now
    /\ UNCHANGED <<now, timer, pool, queue, i, remain, sleptAt, msgq, refreshing,
                   hung, deleting, history>>

HeadDue == queue # <<>> /\ timer[Head(queue)].clock <= tClock

\* A slip: loops is decremented whatever it is.
LoopsUnderflow(loops) == loops - 1

\* loops after one execution, and whether the timer is armed again.
LoopsLeft(loops) == IF loops = 0 THEN 0 ELSE loops - 1
Again(n) == timer[n].loops = 0 \/ LoopsLeft(timer[n].loops) > 0

Collect ==
    LET n == Head(queue)
        t == timer[n]
    IN  /\ pc = "collect" /\ HeadDue /\ ~hung
        /\ \/ /\ Again(n)
              /\ \E clock \in Settle(t.clock, tClock, t.intval) :
                   /\ timer' = [timer EXCEPT ![n].loops = LoopsLeft(t.loops),
                                             ![n].clock = clock]
                   /\ queue' = Enqueue(Tail(queue), n, clock)
                   /\ deal' = Append(deal, t.key)
              /\ UNCHANGED <<pool, hung, deleting>>
           \/ /\ Again(n) /\ Settle(t.clock, tClock, t.intval) = {}
              /\ hung' = TRUE
              /\ UNCHANGED <<timer, pool, queue, deal>>
           \/ /\ ~Again(n)
              /\ queue' = Tail(queue) /\ Free({n})
              /\ deal' = Append(deal, t.key)
              /\ UNCHANGED hung
        /\ UNCHANGED <<now, i, pc, dealAt, remain, sleptAt, msgq, refreshing, deleting,
                       history>>

EndCollect ==
    /\ pc = "collect" /\ ~HeadDue /\ ~hung
    /\ pc' = "call"
    /\ remain' = IF queue = <<>> THEN IdleTicks
                 ELSE (timer[Head(queue)].clock - tClock) % ClockMod
    /\ UNCHANGED <<now, timer, pool, queue, deal, i, dealAt, sleptAt, msgq, refreshing,
                   hung, deleting, history>>

Call ==
    /\ pc = "call" /\ i <= Len(deal)
    /\ IF deal[i] = NoFunc
       THEN i' = i + 1 /\ UNCHANGED <<pc, notBefore>>
       ELSE /\ pc' = "running"
            /\ notBefore' = [notBefore EXCEPT ![deal[i]] = 0]
            /\ UNCHANGED i
    /\ UNCHANGED <<now, timer, pool, queue, deal, dealAt, remain, sleptAt, msgq,
                   refreshing, hung, deleting, cancelled>>

\* The callback returns and the task takes g_mutex again.
Return ==
    /\ pc = "running" /\ Loop \notin refreshing /\ ~Held
    /\ pc' = "call" /\ i' = i + 1
    /\ UNCHANGED <<now, timer, pool, queue, deal, dealAt, remain, sleptAt, msgq,
                   refreshing, hung, deleting, history>>

Sleep ==
    /\ pc = "call" /\ i > Len(deal)
    /\ pc' = "select" /\ deal' = <<>> /\ i' = 1 /\ sleptAt' = now
    /\ UNCHANGED <<now, timer, pool, queue, dealAt, remain, msgq, refreshing,
                   hung, deleting, history>>

\* A slip: select is given no timeout.
WakeByMessage ==
    /\ pc = "select" /\ msgq > 0
    /\ pc' = "deal" /\ msgq' = msgq - 1
    /\ dealAt' = 0 /\ remain' = 0 /\ sleptAt' = 0
    /\ UNCHANGED <<now, timer, pool, queue, deal, i, refreshing, hung, deleting, history>>

\* select returns: g_msgq is readable and mid_timer_select takes one byte of
\* it, or the timeout has passed.
Wake ==
    /\ pc = "select"
    /\ msgq > 0 \/ now >= Deadline
    /\ pc' = "deal"
    /\ msgq' = IF msgq > 0 THEN msgq - 1 ELSE 0
    /\ dealAt' = 0 /\ remain' = 0 /\ sleptAt' = 0
    /\ UNCHANGED <<now, timer, pool, queue, deal, i, refreshing, hung, deleting, history>>

Task == Deal \/ Collect \/ EndCollect \/ Call \/ Return \/ Sleep \/ Wake

Next ==
    \/ Tick
    \/ Task
    \/ DeleteAllStep \/ DeleteAllEnd
    \/ \E t \in Thread :
         \/ Refresh(t)
         \/ \E k \in Key, intval \in Interval, loops \in LoopCount :
              Create(t, k, intval, loops)
         \/ \E k \in Key : Delete(t, k)
         \/ \E f \in Func : DeleteAll(t, f)

\* The task is scheduled, callbacks return, callers finish what they began and
\* time goes on; the task gets g_mutex in the end although others keep taking
\* it (SF).  Nobody is obliged to create or to delete timers.
Fairness ==
    /\ WF_vars(Tick) /\ WF_vars(Task) /\ SF_vars(Deal) /\ SF_vars(Return)
    /\ WF_vars(DeleteAllStep \/ DeleteAllEnd)
    /\ \A t \in Thread : WF_vars(Refresh(t))

Spec == Init /\ [][Next]_vars
FairSpec == Spec /\ Fairness

-----------------------------------------------------------------------------
\* Properties.

Contents == [key : Key \cup {NoFunc}, loops : Nat, intval : Nat, clock : Nat]

\* The type invariant.
TypeOK ==
    /\ now \in Nat /\ dealAt \in Nat /\ remain \in Nat /\ sleptAt \in Nat /\ msgq \in Nat
    /\ timer \in [Node -> Contents]
    /\ pool \subseteq Node /\ queue \in Seq(Node)
    /\ deal \in Seq(Key \cup {NoFunc}) /\ i \in Nat \ {0}
    /\ pc \in {"deal", "collect", "call", "running", "select"}
    /\ refreshing \subseteq Thread /\ hung \in BOOLEAN /\ deleting \in Func \cup {NoFunc}
    /\ cancelled \subseteq Key /\ notBefore \in [Key -> Nat]

\* Nodes are neither lost nor in two places: a node is in the pool or once in
\* the queue, whichever of create, delete, delete_all and the task's re-queuing
\* moved it last.
NodesConserved ==
    /\ \A n \in Node : n \in pool <=> \A p \in 1..Len(queue) : queue[p] # n
    /\ \A p, q \in 1..Len(queue) : p # q => queue[p] # queue[q]

\* "A timer is identified by func and arg": no two armed timers share both.
OneTimerPerKey ==
    \A p, q \in 1..Len(queue) :
        p # q => timer[queue[p]].key # timer[queue[q]].key

\* The queue is sorted, which is why looking at its head alone finds every due
\* timer and the time to sleep.
Sorted ==
    \A p, q \in 1..Len(queue) :
        p < q => timer[queue[p]].clock <= timer[queue[q]].clock

\* Once mid_timer_delete has returned its callback is not started again until
\* the timer is created anew, even if the round in progress had collected it.
CancelledStaysSilent ==
    [][\A k \in cancelled :
          ~(pc # "running" /\ pc' = "running" /\ deal'[i'] = k)]_vars

\* g_deal_funcs has room for one entry per node: a round never collects more.
DealFits == Len(deal) <= Cardinality(Node)

\* Nobody's create is slept through: with no wake-up under way, the task wakes
\* no later than the head of the queue expires, give or take the time the
\* callbacks of the round took (remain is computed before they run).
NoOversleep ==
    pc = "select" /\ msgq = 0 /\ refreshing = {} /\ queue # <<>> =>
        Deadline <= timer[Head(queue)].clock + (sleptAt - dealAt)

\* "intval": a timer does not run before its interval has passed since it was
\* last created.
NotEarly ==
    [][pc # "running" /\ pc' = "running" => now >= notBefore[deal[i]]]_vars

\* A create leaves its timer armed for the interval asked for.
ArmedForInterval ==
    [][\A n \in Node :
          timer'[n] # timer[n] /\ refreshing' # refreshing =>
              timer'[n].clock = now + timer'[n].intval]_vars

\* A timer with a finite number of executions left leaves the queue in the
\* end, or is created anew to run forever.
Finite(k) == \E p \in Positions(k) : timer[queue[p]].loops > 0
FiniteTimersEnd == \A k \in Key : Finite(k) ~> ~Finite(k)
=============================================================================
