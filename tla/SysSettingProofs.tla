-------------------------- MODULE SysSettingProofs --------------------------
(***************************************************************************)
(* Proofs about SysSetting, for every set of client threads and values:    *)
(* the mutex discipline of sys_cfg_write, the types and what a loss of     *)
(* power leaves; and, on a disk that does not fail and with threads that   *)
(* are not stopped for three seconds, that no change of a setting is       *)
(* forgotten and that the file at rest is whole.                           *)
(***************************************************************************)
EXTENDS SysSetting, SequenceTheorems, TLAPS

-----------------------------------------------------------------------------
(* The first invariant: who runs when, and who holds g_mutex.              *)

Types ==
    /\ boot \in {"load", "read", "save", "run"}
    /\ host \in [Host -> {"idle", "test", "create", "flag"}]
    /\ saver \in [Thread -> {"idle", "gateway", "begin", "lock", "open", "write", "sync"}]
    /\ holder \in Thread \cup {"nobody"}

\* Until main has loaded the settings no other thread exists and no timer is
\* armed; main itself saves only when there was no file.
BootOrder ==
    /\ boot # "run" => /\ ~armed
                       /\ \A h \in Host : host[h] = "idle"
                       /\ saver["shell"] = "idle" /\ saver["timer"] = "idle"
    /\ boot \in {"load", "read"} => saver["main"] = "idle"

LockInv == Types /\ BootOrder /\ WriterHoldsLock

\* The initial states satisfy the first invariant: nothing runs yet.
LEMMA LockInit == Init => LockInv
BY DEF Init, LockInv, Types, BootOrder, WriterHoldsLock, InWrite, Thread

\* sys_config_load keeps it.
LEMMA LockLoad == LockInv /\ Load => LockInv'
<1> SUFFICES ASSUME LockInv, Load PROVE LockInv'
    OBVIOUS
<1>1. CASE LoadDefaults
    BY <1>1 DEF LoadDefaults, LockInv, Types, BootOrder, WriterHoldsLock, InWrite,
                Thread, timer, bounds
<1>2. CASE LoadFile
    BY <1>2 DEF LoadFile, LockInv, Types, BootOrder, WriterHoldsLock, InWrite,
                Thread, timer, bounds
<1>3. CASE LoadNothing
    BY <1>3 DEF LoadNothing, LockInv, Types, BootOrder, WriterHoldsLock, InWrite,
                Thread, cfg, timer, bounds
<1> QED
    BY <1>1, <1>2, <1>3 DEF Load

\* The client threads and the shell keep it: they change settings only while
\* nobody holds the mutex, and never take it for longer than that.
LEMMA LockSetters ==
    ASSUME LockInv,
           \/ \E h \in Host : HostStep(h) \/ \E v \in Value : HostSet(h, v)
           \/ \E v \in Value \cup Long : ShellIp(v) \/ ShellGateway(v)
           \/ \E v \in Value : ShellNettype(v)
           \/ Fire
    PROVE  LockInv'
<1>1. ASSUME NEW h \in Host, HostStep(h) PROVE LockInv'
    BY <1>1 DEF HostStep, HostTest, HostCreate, HostFlag, LockInv, Types, BootOrder,
                WriterHoldsLock, InWrite, Thread, cfg, timer, bounds
<1>2. ASSUME NEW h \in Host, NEW v \in Value, HostSet(h, v) PROVE LockInv'
    BY <1>2 DEF HostSet, Set, LockInv, Types, BootOrder, WriterHoldsLock, InWrite,
                Thread, timer
<1>3. ASSUME NEW v \in Value \cup Long, ShellIp(v) PROVE LockInv'
    BY <1>3 DEF ShellIp, Set, LockInv, Types, BootOrder, WriterHoldsLock, InWrite,
                Thread, timer
<1>4. ASSUME NEW v \in Value \cup Long, ShellGateway(v) PROVE LockInv'
    BY <1>4 DEF ShellGateway, LockInv, Types, BootOrder, WriterHoldsLock, InWrite,
                Thread, timer, bounds
<1>5. ASSUME NEW v \in Value, ShellNettype(v) PROVE LockInv'
    BY <1>5 DEF ShellNettype, Set, LockInv, Types, BootOrder, WriterHoldsLock, InWrite,
                Thread, timer
<1>6. CASE Fire
    BY <1>6 DEF Fire, LockInv, Types, BootOrder, WriterHoldsLock, InWrite, Thread,
                cfg, bounds
<1> QED
    BY <1>1, <1>2, <1>3, <1>4, <1>5, <1>6

\* The steps of a save keep it: the mutex is taken with the step to "open" and
\* given back on every way out.
LEMMA LockSave ==
    ASSUME LockInv, NEW t \in Thread, Save(t)
    PROVE  LockInv'
<1>1. CASE SaveBegin(t)
    BY <1>1 DEF SaveBegin, LockInv, Types, BootOrder, WriterHoldsLock, InWrite, Thread,
                cfg, bounds
<1>2. CASE SaveOutput(t)
    BY <1>2 DEF SaveOutput, SaveReturn, LockInv, Types, BootOrder, WriterHoldsLock,
                InWrite, Thread, timer, bounds
<1>3. CASE SaveOpen(t)
    BY <1>3 DEF SaveOpen, LockInv, Types, BootOrder, WriterHoldsLock, InWrite, Thread,
                timer, bounds
<1>4. CASE SaveOpenFails(t)
    BY <1>4 DEF SaveOpenFails, SaveReturn, LockInv, Types, BootOrder, WriterHoldsLock,
                InWrite, Thread, timer, bounds
<1>5. CASE SaveWrite(t)
    BY <1>5 DEF SaveWrite, LockInv, Types, BootOrder, WriterHoldsLock, InWrite, Thread,
                timer, bounds
<1>6. CASE SaveSync(t)
    BY <1>6 DEF SaveSync, SaveReturn, LockInv, Types, BootOrder, WriterHoldsLock,
                InWrite, Thread, timer, bounds
<1> QED
    BY <1>1, <1>2, <1>3, <1>4, <1>5, <1>6 DEF Save

\* The first invariant is inductive.
LEMMA LockNext == LockInv /\ [Next]_vars => LockInv'
<1> SUFFICES ASSUME LockInv, [Next]_vars PROVE LockInv'
    OBVIOUS
<1>1. CASE Crash
    BY <1>1 DEF Crash, LockInv, Types, BootOrder, WriterHoldsLock, InWrite, Thread
<1>2. CASE UNCHANGED vars
    BY <1>2 DEF vars, cfg, timer, bounds, LockInv, Types, BootOrder, WriterHoldsLock,
                InWrite
<1> QED
    BY <1>1, <1>2, LockLoad, LockSetters, LockSave DEF Next

\* Every reachable state satisfies the first invariant.
THEOREM LockInvariant == Spec => []LockInv
BY LockInit, LockNext, PTL DEF Spec

\* g_mutex is held exactly by the thread between the output and the sync of
\* sys_cfg_write, with disks that fail and strings that are too long as well:
\* no two threads write the file at once and no way out leaves it locked.
THEOREM MutexDiscipline == Spec => []WriterHoldsLock
<1>1. LockInv => WriterHoldsLock
    BY DEF LockInv
<1> QED
    BY <1>1, LockInvariant, PTL

-----------------------------------------------------------------------------
(* The second invariant: where a change is on its way to the file.         *)

\* Disks that do not fail, no string that is too long, and no thread stopped
\* for three seconds between mid_timer_create and isTimer = 1.
Calm == Prompt /\ ~DiskFails /\ Long = {}

Whole == [DOMAIN Order -> Value]

DataTypes ==
    /\ mem \in [Name -> Value]
    /\ isTimer \in BOOLEAN /\ armed \in BOOLEAN
    /\ file \in Whole \cup {<<>>} /\ maybe \subseteq Whole \cup {<<>>}

\* isTimer is up only if a save that resets it is to come.
TimerAgrees ==
    /\ isTimer => armed \/ saver["timer"] = "begin"
    /\ \A h \in Host : host[h] = "flag" => armed

\* What is written is what the settings are, for they change under the mutex
\* only; and the file is empty only while a thread writes it.
BufferAgrees ==
    /\ \A t \in Thread : InWrite(t) => buf = Output(mem)
    /\ \A t \in Thread : saver[t] = "sync" => file = buf
    /\ boot = "run" => file \in Whole \/ \E t \in Thread : saver[t] = "write"

DataInv == LockInv /\ DataTypes /\ TimerAgrees /\ BufferAgrees /\ ChangeIsComing

\* The names are four, in the order of the lines.
LEMMA OrderFacts ==
    /\ DOMAIN Order = 1..4 /\ Len(Order) = 4
    /\ Name = {Order[i] : i \in 1..4}
    /\ Name = {"nettype", "ip", "gateway", "readpower"}
BY DEF Order, Name

\* ind_cfg_output of settings that fit is a whole file that has every value.
LEMMA OutputFacts ==
    ASSUME NEW m \in [Name -> Value]
    PROVE  /\ Output(m) \in Whole
           /\ \A n \in Name : \E i \in DOMAIN Output(m) : Order[i] = n /\ Output(m)[i] = m[n]
BY OrderFacts DEF Output, Whole

\* ind_cfg_input of a whole file takes every setting from it.
LEMMA InputFacts ==
    ASSUME NEW f \in Whole, NEW m \in [Name -> Value]
    PROVE  /\ Input(f, m) \in [Name -> Value]
           /\ \A n \in Name : \E i \in DOMAIN f : Order[i] = n /\ f[i] = Input(f, m)[n]
<1>1. DOMAIN f = DOMAIN Order
    BY DEF Whole
<1>2. ASSUME NEW n \in Name
      PROVE  LET i == CHOOSE i \in DOMAIN f : Order[i] = n
             IN  i \in DOMAIN f /\ Order[i] = n /\ Input(f, m)[n] = f[i]
    BY <1>1, OrderFacts DEF Input
<1>3. \A n \in Name : Input(f, m)[n] \in Value
    BY <1>2 DEF Whole
<1> QED
    BY <1>2, <1>3 DEF Input

\* A written file is the buffer, all of it.
LEMMA WholeWrite ==
    ASSUME NEW b \in Whole
    PROVE  Len(b) = 4 /\ SubSeq(b, 1, Len(b)) = b
<1>1. b \in Seq(Value) /\ Len(b) = 4
    <2>1. b \in [1..4 -> Value]
        BY OrderFacts DEF Whole
    <2>2. b \in Seq(Value)
        <3>1. \E n \in Nat : b \in [1..n -> Value]
            BY <2>1
        <3> QED
            BY <3>1, SeqDef, Zenon
    <2> QED
        BY <2>1, <2>2, LenProperties
<1> QED
    BY <1>1, SubSeqFull

\* The initial states satisfy the second invariant.
LEMMA DataInit == Init => DataInv
BY LockInit, SettingAssumption, OrderFacts
   DEF Init, DataInv, DataTypes, TimerAgrees, BufferAgrees, ChangeIsComing, Defaults,
       InWrite, Thread, LockInv

\* Loading keeps it: what a whole file gives is in that file.
LEMMA DataLoad ==
    ASSUME DataInv, Load
    PROVE  DataInv'
<1>1. LockInv'
    BY LockLoad DEF DataInv
<1>2. CASE LoadDefaults
    <2>1. DataTypes' /\ TimerAgrees'
        BY <1>2, SettingAssumption
           DEF LoadDefaults, DataInv, DataTypes, TimerAgrees, Defaults, timer
    <2>2. BufferAgrees' /\ ChangeIsComing'
        BY <1>2, <1>1 DEF LoadDefaults, DataInv, LockInv, BootOrder, BufferAgrees,
                          InWrite, Thread, ChangeIsComing
    <2> QED
        BY <1>1, <2>1, <2>2 DEF DataInv
<1>3. CASE LoadFile
    <2>1. file \in Whole
        BY <1>3 DEF LoadFile, DataInv, DataTypes
    <2>2. /\ mem' \in [Name -> Value]
          /\ \A n \in Name : InFile(n)'
        BY <1>3, <2>1, InputFacts DEF LoadFile, DataInv, DataTypes, InFile
    <2>3. DataTypes' /\ TimerAgrees'
        BY <1>3, <2>2 DEF LoadFile, DataInv, DataTypes, TimerAgrees, timer
    <2>4. BufferAgrees'
        BY <1>3, <2>1 DEF LoadFile, DataInv, LockInv, BootOrder, BufferAgrees, InWrite, Thread
    <2>5. ChangeIsComing'
        BY <2>2 DEF ChangeIsComing, SavedNames
    <2> QED
        BY <1>1, <2>3, <2>4, <2>5 DEF DataInv
<1>4. CASE LoadNothing
    <2>1. DataTypes' /\ TimerAgrees'
        BY <1>4 DEF LoadNothing, DataInv, DataTypes, TimerAgrees, LockInv, Types, Thread, cfg, timer
    <2>2. BufferAgrees' /\ ChangeIsComing'
        BY <1>4 DEF LoadNothing, DataInv, LockInv, Types, BootOrder, BufferAgrees, InWrite,
                    Thread, ChangeIsComing, cfg
    <2> QED
        BY <1>1, <2>1, <2>2 DEF DataInv
<1> QED
    BY <1>2, <1>3, <1>4 DEF Load

\* The client threads keep it: a change is followed by the look at isTimer.
LEMMA DataHost ==
    ASSUME DataInv, NEW h \in Host, HostStep(h) \/ \E v \in Value : HostSet(h, v)
    PROVE  DataInv'
<1>1. LockInv'
    BY LockSetters DEF DataInv
<1>2. ASSUME NEW v \in Value, HostSet(h, v) PROVE DataInv'
    <2>1. DataTypes' /\ TimerAgrees'
        BY <1>2, OrderFacts DEF HostSet, Set, DataInv, DataTypes, TimerAgrees, LockInv, Types, timer
    <2>2. BufferAgrees'
        BY <1>2 DEF HostSet, Set, DataInv, LockInv, WriterHoldsLock, BufferAgrees, InWrite, Thread
    <2>3. host'[h] = "test"
        BY <1>2 DEF HostSet, DataInv, LockInv, Types
    <2> QED
        BY <1>1, <2>1, <2>2, <2>3 DEF DataInv, ChangeIsComing, SaveComing
<1>3. CASE HostTest(h)
    <2>1. DataTypes' /\ TimerAgrees' /\ BufferAgrees'
        BY <1>3 DEF HostTest, DataInv, DataTypes, TimerAgrees, BufferAgrees, LockInv, Types,
                    InWrite, cfg, timer
    <2>2. host'[h] = "create" \/ armed \/ saver["timer"] = "begin"
        BY <1>3 DEF HostTest, DataInv, TimerAgrees, LockInv, Types
    <2>3. SaveComing'
        BY <1>3, <2>2 DEF HostTest, SaveComing, timer, Thread
    <2> QED
        BY <1>1, <2>1, <2>3 DEF DataInv, ChangeIsComing
<1>4. CASE HostCreate(h)
    <2>1. DataTypes' /\ TimerAgrees' /\ BufferAgrees'
        BY <1>4 DEF HostCreate, DataInv, DataTypes, TimerAgrees, BufferAgrees, LockInv, Types,
                    InWrite, cfg
    <2>2. SaveComing'
        BY <1>4 DEF HostCreate, SaveComing
    <2> QED
        BY <1>1, <2>1, <2>2 DEF DataInv, ChangeIsComing
<1>5. CASE HostFlag(h)
    <2>1. DataTypes' /\ TimerAgrees' /\ BufferAgrees'
        BY <1>5 DEF HostFlag, DataInv, DataTypes, TimerAgrees, BufferAgrees, LockInv, Types,
                    InWrite, cfg
    <2>2. SaveComing'
        BY <1>5 DEF HostFlag, DataInv, TimerAgrees, SaveComing
    <2> QED
        BY <1>1, <2>1, <2>2 DEF DataInv, ChangeIsComing
<1> QED
    BY <1>2, <1>3, <1>4, <1>5 DEF HostStep

\* The shell keeps it: ipset ends in a save, and nettype is no saved name.
LEMMA DataShell ==
    ASSUME DataInv, Long = {},
           \/ \E v \in Value \cup Long : ShellIp(v) \/ ShellGateway(v)
           \/ \E v \in Value : ShellNettype(v)
    PROVE  DataInv'
<1>1. LockInv'
    BY LockSetters DEF DataInv
<1>2. ASSUME NEW v \in Value, ShellIp(v) PROVE DataInv'
    <2>1. DataTypes' /\ TimerAgrees'
        BY <1>2, OrderFacts
           DEF ShellIp, Set, DataInv, DataTypes, TimerAgrees, LockInv, Types, Thread, timer
    <2>2. BufferAgrees'
        BY <1>2 DEF ShellIp, Set, DataInv, LockInv, Types, WriterHoldsLock, BufferAgrees,
                    InWrite, Thread
    <2>3. saver'["shell"] = "gateway"
        BY <1>2 DEF ShellIp, DataInv, LockInv, Types, Thread
    <2> QED
        BY <1>1, <2>1, <2>2, <2>3 DEF DataInv, ChangeIsComing, SaveComing, Thread
<1>3. ASSUME NEW v \in Value, ShellGateway(v) PROVE DataInv'
    <2>1. DataTypes' /\ TimerAgrees'
        BY <1>3, OrderFacts
           DEF ShellGateway, DataInv, DataTypes, TimerAgrees, LockInv, Types, Thread, timer
    <2>2. BufferAgrees'
        BY <1>3 DEF ShellGateway, DataInv, LockInv, Types, WriterHoldsLock, BufferAgrees,
                    InWrite, Thread
    <2>3. saver'["shell"] = "begin"
        BY <1>3 DEF ShellGateway, DataInv, LockInv, Types, Thread
    <2> QED
        BY <1>1, <2>1, <2>2, <2>3 DEF DataInv, ChangeIsComing, SaveComing, Thread
<1>4. ASSUME NEW v \in Value, ShellNettype(v) PROVE DataInv'
    <2>1. DataTypes' /\ TimerAgrees'
        BY <1>4, OrderFacts DEF ShellNettype, Set, DataInv, DataTypes, TimerAgrees, timer
    <2>2. BufferAgrees'
        BY <1>4 DEF ShellNettype, Set, DataInv, LockInv, WriterHoldsLock, BufferAgrees,
                    InWrite, Thread
    <2>3. \A n \in SavedNames : mem'[n] = mem[n]
        BY <1>4 DEF ShellNettype, Set, DataInv, DataTypes, SavedNames
    <2>4. ChangeIsComing'
        BY <1>4, <2>3 DEF ShellNettype, Set, DataInv, ChangeIsComing, InFile, InBuffer,
                          SaveComing, Writing, timer
    <2> QED
        BY <1>1, <2>1, <2>2, <2>4 DEF DataInv
<1> QED
    BY <1>2, <1>3, <1>4

\* The timer keeps it: no client thread is about to raise isTimer meanwhile.
LEMMA DataFire ==
    ASSUME DataInv, Prompt, Fire
    PROVE  DataInv'
<1>1. LockInv'
    BY LockSetters DEF DataInv
<1>2. DataTypes' /\ TimerAgrees'
    BY DEF Fire, DataInv, DataTypes, TimerAgrees, LockInv, Types, Thread, cfg
<1>3. BufferAgrees'
    BY DEF Fire, DataInv, BufferAgrees, LockInv, Types, InWrite, Thread, cfg
<1>4. SaveComing'
    BY DEF Fire, DataInv, LockInv, Types, SaveComing, Thread
<1> QED
    BY <1>1, <1>2, <1>3, <1>4 DEF DataInv, ChangeIsComing

\* A save keeps it: it resets isTimer before it looks at the settings.
LEMMA DataSave ==
    ASSUME DataInv, Calm, NEW t \in Thread, Save(t)
    PROVE  DataInv'
<1>1. LockInv'
    BY LockSave DEF DataInv
<1> USE DEF DataInv, LockInv, Types, Thread
<1>2. CASE SaveBegin(t)
    <2>1. DataTypes' /\ TimerAgrees' /\ BufferAgrees'
        BY <1>2 DEF SaveBegin, DataTypes, TimerAgrees, BufferAgrees, InWrite, cfg
    <2>2. SaveComing'
        BY <1>2 DEF SaveBegin, SaveComing
    <2> QED
        BY <1>1, <2>1, <2>2 DEF ChangeIsComing
<1>3. CASE SaveOutput(t)
    <2>1. /\ buf' = Output(mem) /\ saver' = [saver EXCEPT ![t] = "open"]
          /\ UNCHANGED <<boot, mem, file, maybe, host>> /\ UNCHANGED timer
          /\ saver[t] = "lock" /\ holder = "nobody"
        BY <1>3, SettingAssumption DEF SaveOutput, Printable, Calm
    <2>2. DataTypes' /\ TimerAgrees'
        BY <2>1 DEF DataTypes, TimerAgrees, timer
    <2>3. BufferAgrees'
        BY <2>1 DEF BufferAgrees, InWrite, WriterHoldsLock
    <2>4. \A n \in Name : InBuffer(n)'
        BY <2>1, OutputFacts DEF DataTypes, InBuffer
    <2>5. ChangeIsComing'
        BY <2>1, <2>4 DEF ChangeIsComing, SavedNames, Writing
    <2> QED
        BY <1>1, <2>2, <2>3, <2>5
<1>4. CASE SaveOpen(t)
    <2>1. buf = Output(mem)
        BY <1>4 DEF SaveOpen, BufferAgrees, InWrite
    <2>2. DataTypes' /\ TimerAgrees'
        BY <1>4 DEF SaveOpen, DataTypes, TimerAgrees, timer
    <2>3. BufferAgrees'
        BY <1>4 DEF SaveOpen, BufferAgrees, InWrite, WriterHoldsLock
    <2>4. \A n \in Name : InBuffer(n)'
        BY <1>4, <2>1, OutputFacts DEF SaveOpen, DataTypes, InBuffer
    <2>5. ChangeIsComing'
        BY <1>4, <2>4 DEF SaveOpen, ChangeIsComing, SavedNames, Writing
    <2> QED
        BY <1>1, <2>2, <2>3, <2>5
<1>5. CASE SaveOpenFails(t)
    BY <1>5 DEF SaveOpenFails, Calm
<1>6. CASE SaveWrite(t)
    <2>1. buf = Output(mem) /\ buf \in Whole
        BY <1>6, OutputFacts DEF SaveWrite, BufferAgrees, InWrite, DataTypes
    <2>2. file' = buf
        BY <1>6, <2>1, WholeWrite DEF SaveWrite, Calm
    <2>3. DataTypes' /\ TimerAgrees'
        BY <1>6, <2>1, <2>2 DEF SaveWrite, DataTypes, TimerAgrees, timer
    <2>4. BufferAgrees'
        BY <1>6, <2>1, <2>2 DEF SaveWrite, BufferAgrees, InWrite, WriterHoldsLock
    <2>5. \A n \in Name : InFile(n)'
        <3>1. file' = Output(mem) /\ mem' = mem
            BY <1>6, <2>1, <2>2 DEF SaveWrite
        <3> QED
            BY <3>1, OutputFacts DEF DataTypes, InFile
    <2> QED
        BY <1>1, <2>3, <2>4, <2>5 DEF ChangeIsComing, SavedNames
<1>7. CASE SaveSync(t)
    <2>1. file = Output(mem) /\ file \in Whole
        BY <1>7, OutputFacts DEF SaveSync, BufferAgrees, InWrite, DataTypes
    <2>2. DataTypes' /\ TimerAgrees'
        BY <1>7, <2>1 DEF SaveSync, SaveReturn, DataTypes, TimerAgrees, timer
    <2>3. BufferAgrees'
        BY <1>7, <2>1 DEF SaveSync, SaveReturn, BufferAgrees, InWrite, WriterHoldsLock
    <2>4. \A n \in Name : InFile(n)'
        BY <1>7, <2>1, OutputFacts DEF SaveSync, DataTypes, InFile
    <2> QED
        BY <1>1, <2>2, <2>3, <2>4 DEF ChangeIsComing, SavedNames
<1> QED
    BY <1>2, <1>3, <1>4, <1>5, <1>6, <1>7 DEF Save

\* The second invariant is inductive.
LEMMA DataNext ==
    ASSUME Calm, DataInv, [Next]_vars
    PROVE  DataInv'
<1>1. CASE Crash
    <2>1. LockInv'
        BY <1>1, LockNext DEF DataInv, Next
    <2>2. DataTypes' /\ TimerAgrees'
        BY <1>1, SettingAssumption DEF Crash, DataInv, DataTypes, TimerAgrees, Defaults
    <2>3. BufferAgrees' /\ ChangeIsComing'
        BY <1>1 DEF Crash, BufferAgrees, InWrite, ChangeIsComing
    <2> QED
        BY <2>1, <2>2, <2>3 DEF DataInv
<1>2. CASE UNCHANGED vars
    <2>1. LockInv'
        BY <1>2, LockNext DEF DataInv
    <2>2. UNCHANGED <<DataTypes, TimerAgrees, BufferAgrees, ChangeIsComing>>
        BY <1>2 DEF vars, cfg, timer, DataTypes, TimerAgrees, BufferAgrees, InWrite,
                    ChangeIsComing, InFile, InBuffer, SaveComing, Writing
    <2> QED
        BY <2>1, <2>2 DEF DataInv
<1> QED
    BY <1>1, <1>2, DataLoad, DataHost, DataShell, DataFire, DataSave DEF Next, Calm

\* Under Calm every reachable state satisfies the second invariant.
THEOREM DataInvariant ==
    ASSUME Calm
    PROVE  Spec => []DataInv
<1>1. DataInv /\ [Next]_vars => DataInv'
    BY DataNext
<1> QED
    BY <1>1, DataInit, PTL DEF Spec

\* No change of a setting whose command saves it is forgotten, however the
\* client threads, the shell and the timer interleave: it is in the file or a
\* save of it is coming.  isTimer, which no lock protects, does not break this
\* as long as the three seconds are not used up between lines 252 and 253.
THEOREM NoChangeForgotten ==
    ASSUME Calm
    PROVE  Spec => []ChangeIsComing
<1>1. DataInv => ChangeIsComing
    BY DEF DataInv
<1> QED
    BY <1>1, DataInvariant, PTL

\* Once the reader runs and no thread is writing, the file has every line.
THEOREM FileAtRestIsWhole ==
    ASSUME Calm
    PROVE  Spec => []WholeAtRest
<1>1. DataInv => WholeAtRest
    BY WholeWrite, OrderFacts DEF DataInv, BufferAgrees, WholeAtRest, AtRest
<1> QED
    BY <1>1, DataInvariant, PTL

-----------------------------------------------------------------------------
(* The types, and what a loss of power leaves; both on failing disks and   *)
(* with strings that do not fit as well.                                   *)

\* What is at rest is synced, whatever main is doing.
Synced == (\A t \in Thread : saver[t] \notin {"write", "sync"}) => maybe = {file}

RestInv == LockInv /\ TypeOK /\ Synced

\* What is written of settings that fit is a sequence of values.
LEMMA PrintedValues ==
    ASSUME NEW m \in [Name -> Value \cup Long], Printable(m)
    PROVE  Output(m) \in Seq(Value)
<1>1. \A i \in 1..4 : m[Order[i]] \in Value
    BY OrderFacts DEF Printable
<1>2. Output(m) \in [1..4 -> Value]
    BY <1>1, OrderFacts DEF Output
<1>3. \E n \in Nat : Output(m) \in [1..n -> Value]
    BY <1>2
<1> QED
    BY <1>3, SeqDef, Zenon

\* What is read of lines of values are settings, however many lines there are.
LEMMA ReadSettings ==
    ASSUME NEW f \in Seq(Value), NEW m \in [Name -> Value \cup Long]
    PROVE  Input(f, m) \in [Name -> Value \cup Long]
<1>1. ASSUME NEW n \in Name, \E i \in DOMAIN f : Order[i] = n
      PROVE  f[CHOOSE i \in DOMAIN f : Order[i] = n] \in Value
    BY <1>1, ElementOfSeq
<1> QED
    BY <1>1 DEF Input

\* What a write leaves of the buffer are lines of it.
LEMMA WrittenValues ==
    ASSUME NEW b \in Seq(Value), NEW n \in 0..Len(b)
    PROVE  SubSeq(b, 1, n) \in Seq(Value)
<1>1. n \in Int /\ Len(b) \in Nat
    BY LenProperties
<1>2. \A i \in 1..n : b[i] \in Value
    BY <1>1, ElementOfSeq
<1> QED
    BY <1>1, <1>2, SubSeqProperties

\* The initial states.
LEMMA RestInit == Init => RestInv
<1> SUFFICES ASSUME Init PROVE RestInv
    OBVIOUS
<1>1. LockInv /\ Types
    BY LockInit DEF LockInv
<1>2. <<>> \in Seq(Value) /\ mem \in [Name -> Value \cup Long]
    BY SettingAssumption, EmptySeq DEF Init, Defaults
<1>3. sets \in 0..MaxSet /\ crashes \in 0..MaxCrash
    BY SettingAssumption DEF Init
<1> QED
    BY <1>1, <1>2, <1>3 DEF Init, RestInv, TypeOK, Synced, Types

\* Loading keeps it.
LEMMA RestLoad ==
    ASSUME RestInv, Load
    PROVE  RestInv'
<1>1. LockInv'
    BY LockLoad DEF RestInv
<1> USE DEF RestInv, TypeOK, Synced, Thread, bounds
<1>2. CASE LoadDefaults
    BY <1>1, <1>2, SettingAssumption DEF LoadDefaults, Defaults, timer
<1>3. CASE LoadFile
    BY <1>1, <1>3, ReadSettings DEF LoadFile, timer
<1>4. CASE LoadNothing
    <2>1. TypeOK'
        BY <1>1, <1>4 DEF LoadNothing, cfg, timer
    <2>2. UNCHANGED <<file, maybe>> /\ saver["main"] \notin {"write", "sync"}
        BY <1>4 DEF LoadNothing, cfg, LockInv, BootOrder
    <2>3. Synced'
        BY <1>4, <2>2 DEF LoadNothing
    <2> QED
        BY <1>1, <2>1, <2>3
<1> QED
    BY <1>2, <1>3, <1>4 DEF Load

\* The client threads, the shell and the timer keep it.
LEMMA RestSetters ==
    ASSUME RestInv,
           \/ \E h \in Host : HostStep(h) \/ \E v \in Value : HostSet(h, v)
           \/ \E v \in Value \cup Long : ShellIp(v) \/ ShellGateway(v)
           \/ \E v \in Value : ShellNettype(v)
           \/ Fire
    PROVE  RestInv'
<1>1. LockInv'
    BY LockSetters DEF RestInv
<1>2. ASSUME NEW n \in Name, NEW v \in Value \cup Long, Set(n, v)
      PROVE  mem' \in [Name -> Value \cup Long] /\ sets' \in 0..MaxSet
    BY <1>2, SettingAssumption DEF Set, RestInv, TypeOK
<1> USE DEF RestInv, TypeOK, Synced, Thread
<1>3. ASSUME NEW h \in Host, HostStep(h) PROVE RestInv'
    BY <1>1, <1>3 DEF HostStep, HostTest, HostCreate, HostFlag, cfg, timer, bounds
<1>4. ASSUME NEW h \in Host, NEW v \in Value, HostSet(h, v) PROVE RestInv'
    BY <1>1, <1>2, <1>4, OrderFacts DEF HostSet, timer
<1>5. ASSUME NEW v \in Value \cup Long, ShellIp(v) PROVE RestInv'
    BY <1>1, <1>2, <1>5, OrderFacts DEF ShellIp, timer
<1>6. ASSUME NEW v \in Value \cup Long, ShellGateway(v) PROVE RestInv'
    BY <1>1, <1>6, OrderFacts DEF ShellGateway, timer, bounds
<1>7. ASSUME NEW v \in Value, ShellNettype(v) PROVE RestInv'
    BY <1>1, <1>2, <1>7, OrderFacts DEF ShellNettype, timer
<1>8. CASE Fire
    BY <1>1, <1>8 DEF Fire, cfg, bounds
<1> QED
    BY <1>3, <1>4, <1>5, <1>6, <1>7, <1>8

\* A save keeps it: it leaves what is on disk alone until it has the mutex and
\* syncs before it gives it back.
LEMMA RestSave ==
    ASSUME RestInv, NEW t \in Thread, Save(t)
    PROVE  RestInv'
<1>1. LockInv'
    BY LockSave DEF RestInv
<1> USE DEF RestInv, TypeOK, Synced, LockInv, Types, bounds
<1>2. CASE SaveBegin(t)
    BY <1>1, <1>2 DEF SaveBegin, cfg
<1>3. CASE SaveOutput(t)
    BY <1>1, <1>3, PrintedValues DEF SaveOutput, SaveReturn, timer
<1>4. CASE SaveOpen(t)
    <2>1. saver'[t] = "write" /\ <<>> \in Seq(Value)
        BY <1>4, EmptySeq DEF SaveOpen
    <2> QED
        BY <1>1, <1>4, <2>1 DEF SaveOpen, timer
<1>5. CASE SaveOpenFails(t)
    <2>1. maybe = {file}
        BY <1>5 DEF SaveOpenFails, WriterHoldsLock, InWrite
    <2> QED
        BY <1>1, <1>5, <2>1 DEF SaveOpenFails, SaveReturn, timer
<1>6. CASE SaveWrite(t)
    <2>1. file' \in Seq(Value)
        BY <1>6, WrittenValues, LenProperties DEF SaveWrite
    <2> QED
        BY <1>1, <1>6, <2>1 DEF SaveWrite, timer
<1>7. CASE SaveSync(t)
    BY <1>1, <1>7 DEF SaveSync, SaveReturn, timer
<1> QED
    BY <1>2, <1>3, <1>4, <1>5, <1>6, <1>7 DEF Save

\* Every step keeps it.
LEMMA RestNext == RestInv /\ [Next]_vars => RestInv'
<1> SUFFICES ASSUME RestInv, [Next]_vars PROVE RestInv'
    OBVIOUS
<1>1. CASE Crash
    <2>1. LockInv'
        BY <1>1, LockNext DEF RestInv, Next
    <2>2. <<>> \in Seq(Value) /\ Defaults \in [Name -> Value \cup Long]
        BY SettingAssumption, EmptySeq DEF Defaults
    <2>3. sets' \in 0..MaxSet /\ crashes' \in 0..MaxCrash
        BY <1>1, SettingAssumption DEF Crash, RestInv, TypeOK
    <2> QED
        BY <1>1, <2>1, <2>2, <2>3 DEF Crash, RestInv, TypeOK, Synced, LockInv, Types
<1>2. CASE UNCHANGED vars
    <2>1. LockInv'
        BY <1>2, LockNext DEF RestInv
    <2> QED
        BY <1>2, <2>1 DEF vars, cfg, timer, bounds, RestInv, TypeOK, Synced
<1> QED
    BY <1>1, <1>2, RestLoad, RestSetters, RestSave DEF Next

\* Every reachable state satisfies the invariant.
THEOREM RestInvariant == Spec => []RestInv
BY RestInit, RestNext, PTL DEF Spec

\* The types: settings that a file of any length gives are settings, and what a
\* failing disk leaves of a write are values.
THEOREM SettingTypes == Spec => []TypeOK
<1>1. RestInv => TypeOK
    BY DEF RestInv
<1> QED
    BY <1>1, RestInvariant, PTL

\* While no thread is between the opening of the file and the sync, a loss of
\* power leaves the file as it is: on no way out of sys_cfg_write, also not on
\* a failed one, is the mutex given back with something unsynced.
THEOREM FileAtRestIsDurable == Spec => []DurableAtRest
<1>1. RestInv => DurableAtRest
    BY DEF RestInv, Synced, DurableAtRest, AtRest
<1> QED
    BY <1>1, RestInvariant, PTL

=============================================================================
