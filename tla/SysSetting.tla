----------------------------- MODULE SysSetting -----------------------------
(***************************************************************************)
(* The settings of app_sys_setting.c: the copy in memory, the file it is   *)
(* loaded from and saved to, and the delayed save.  Client threads of the  *)
(* server change a reader parameter and arm a three second timer, unless   *)
(* isTimer says it is armed; the telnet shell changes the addresses and    *)
(* saves at once, or changes the network type and leaves it at that.       *)
(*                                                                         *)
(* g_mutex protects the settings and the write of the file; isTimer is     *)
(* protected by nothing.  One setting of each kind stands for its kind,    *)
(* and a file is the sequence of the values of its lines, <<>> when it is  *)
(* empty or missing: both are refused by sys_cfg_read.                     *)
(***************************************************************************)
EXTENDS Integers, Sequences, FiniteSets

CONSTANTS
    Host,        \* client threads that change settings
    Value,       \* values that fit their field
    Long,        \* strings of NET_LEN characters and more: 0300.0250.0010.0246
    Default,     \* what sys_config_load sets before it reads the file
    Prompt,      \* TRUE: no thread is stopped for three seconds between 252 and 253
    DiskFails,   \* TRUE: fopen fails, or the disk is full during the write
    MaxSet,      \* bound: changes of settings
    MaxCrash     \* bound: restarts

ASSUME SettingAssumption ==
    /\ Default \in Value /\ Value \cap Long = {}
    /\ Prompt \in BOOLEAN /\ DiskFails \in BOOLEAN
    /\ MaxSet \in Nat /\ MaxCrash \in Nat

VARIABLES
    boot,        \* how far main has come: load, read, save or run
    mem,         \* sysConfigs
    isTimer,
    armed,       \* the save timer is in mid_timer's queue
    host,        \* where a client thread is between the change and the timer
    saver,       \* where a thread is in sys_config_save
    holder,      \* who holds g_mutex during sys_cfg_write
    buf,         \* g_cfgBuf
    file,        \* what the file system shows
    maybe,       \* what may be left of the file after a loss of power
    sets, crashes

cfg == <<mem, buf, file, maybe, holder>>
timer == <<isTimer, armed>>
bounds == <<sets, crashes>>
vars == <<boot, cfg, timer, host, saver, bounds>>

-----------------------------------------------------------------------------
\* One name of each kind, in the order sys_config_init enters them.
Order == <<"nettype", "ip", "gateway", "readpower">>
Name == {Order[i] : i \in DOMAIN Order}
Thread == {"main", "shell", "timer"}

Defaults == [n \in Name |-> Default]

\* ind_cfg_output: a line for every name, in order.
Output(settings) == [i \in DOMAIN Order |-> settings[Order[i]]]
\* A slip: one character too many is let through.
PrintableAlways(settings) == TRUE

\* It gives up as a whole when one string does not fit its field.
Printable(settings) == \A n \in Name : settings[n] \notin Long

\* ind_cfg_input: the lines there are overwrite, the others stay.
Input(lines, settings) ==
    [n \in Name |-> IF \E i \in DOMAIN lines : Order[i] = n
                    THEN lines[CHOOSE i \in DOMAIN lines : Order[i] = n]
                    ELSE settings[n]]

Init ==
    /\ boot = "load"
    /\ mem = Defaults /\ buf = <<>> /\ holder = "nobody"
    /\ file = <<>> /\ maybe = {<<>>}
    /\ isTimer = FALSE /\ armed = FALSE
    /\ host = [h \in Host |-> "idle"]
    /\ saver = [t \in Thread |-> "idle"]
    /\ sets = 0 /\ crashes = 0

-----------------------------------------------------------------------------
\* sys_config_load(0), before any other thread exists.

LoadDefaults ==
    /\ boot = "load"
    /\ mem' = Defaults
    /\ boot' = "read"
    /\ UNCHANGED <<buf, file, maybe, holder, timer, host, saver, bounds>>

LoadFile ==
    /\ boot = "read" /\ file # <<>>
    /\ buf' = file /\ mem' = Input(file, mem)
    /\ boot' = "run"
    /\ UNCHANGED <<file, maybe, holder, timer, host, saver, bounds>>

LoadNothing ==
    /\ boot = "read" /\ file = <<>>
    /\ saver' = [saver EXCEPT !["main"] = "begin"]
    /\ boot' = "save"
    /\ UNCHANGED <<cfg, timer, host, bounds>>

-----------------------------------------------------------------------------
\* sysSettingSetInt and sysSettingSetString.

Set(n, v) ==
    /\ boot = "run" /\ holder = "nobody" /\ sets < MaxSet
    /\ mem' = [mem EXCEPT ![n] = v]
    /\ sets' = sets + 1

\* m6e_set_opcode in a client thread: set, then sys_config_timer.
HostSet(h, v) ==
    /\ host[h] = "idle"
    /\ Set("readpower", v)
    /\ host' = [host EXCEPT ![h] = "test"]
    /\ UNCHANGED <<boot, buf, file, maybe, holder, timer, saver, crashes>>

\* A slip: the timer is never armed.
HostTestSkips(h) ==
    /\ host[h] = "test"
    /\ host' = [host EXCEPT ![h] = "idle"]
    /\ UNCHANGED <<boot, cfg, timer, saver, bounds>>

HostTest(h) ==
    /\ host[h] = "test"
    /\ host' = [host EXCEPT ![h] = IF isTimer THEN "idle" ELSE "create"]
    /\ UNCHANGED <<boot, cfg, timer, saver, bounds>>

\* mid_timer_create arms the timer, or puts it off if it is armed.
HostCreate(h) ==
    /\ host[h] = "create"
    /\ armed' = TRUE
    /\ host' = [host EXCEPT ![h] = "flag"]
    /\ UNCHANGED <<boot, cfg, isTimer, saver, bounds>>

HostFlag(h) ==
    /\ host[h] = "flag"
    /\ isTimer' = TRUE
    /\ host' = [host EXCEPT ![h] = "idle"]
    /\ UNCHANGED <<boot, cfg, armed, saver, bounds>>

\* The shell command ipset: one locked change after the other, then a save.
ShellIp(v) ==
    /\ saver["shell"] = "idle"
    /\ Set("ip", v)
    /\ saver' = [saver EXCEPT !["shell"] = "gateway"]
    /\ UNCHANGED <<boot, buf, file, maybe, holder, timer, host, crashes>>

ShellGateway(v) ==
    /\ saver["shell"] = "gateway" /\ holder = "nobody"
    /\ mem' = [mem EXCEPT !["gateway"] = v]
    /\ saver' = [saver EXCEPT !["shell"] = "begin"]
    /\ UNCHANGED <<boot, buf, file, maybe, holder, timer, host, bounds>>

\* The shell command nettype: no save.
ShellNettype(v) ==
    /\ saver["shell"] = "idle"
    /\ Set("nettype", v)
    /\ UNCHANGED <<boot, buf, file, maybe, holder, timer, host, saver, crashes>>

\* The timer thread calls sys_config_save, three seconds after it was armed.
Fire ==
    /\ armed /\ saver["timer"] = "idle"
    /\ Prompt => \A h \in Host : host[h] # "flag"
    /\ armed' = FALSE
    /\ saver' = [saver EXCEPT !["timer"] = "begin"]
    /\ UNCHANGED <<boot, cfg, isTimer, host, bounds>>

-----------------------------------------------------------------------------
\* sys_config_save and sys_cfg_write in thread t.

\* The thread is back from sys_cfg_write; main goes on to start the others.
SaveReturn(t) ==
    /\ saver' = [saver EXCEPT ![t] = "idle"]
    /\ boot' = IF t = "main" THEN "run" ELSE boot

\* A slip: isTimer is not reset.
SaveBeginKeepsFlag(t) ==
    /\ saver[t] = "begin"
    /\ saver' = [saver EXCEPT ![t] = "lock"]
    /\ UNCHANGED <<boot, cfg, timer, host, bounds>>

SaveBegin(t) ==
    /\ saver[t] = "begin"
    /\ isTimer' = FALSE
    /\ saver' = [saver EXCEPT ![t] = "lock"]
    /\ UNCHANGED <<boot, cfg, armed, host, bounds>>

SaveOutput(t) ==
    /\ saver[t] = "lock" /\ holder = "nobody"
    /\ IF Printable(mem)
       THEN /\ buf' = Output(mem) /\ holder' = t
            /\ saver' = [saver EXCEPT ![t] = "open"]
            /\ UNCHANGED boot
       ELSE SaveReturn(t) /\ UNCHANGED <<buf, holder>>
    /\ UNCHANGED <<mem, file, maybe, timer, host, bounds>>

\* fopen "wb" empties the file.
SaveOpen(t) ==
    /\ saver[t] = "open"
    /\ file' = <<>> /\ maybe' = maybe \cup {<<>>}
    /\ saver' = [saver EXCEPT ![t] = "write"]
    /\ UNCHANGED <<boot, mem, buf, holder, timer, host, bounds>>

\* A slip: the error path forgets the mutex.
OpenFailsKeepsLock(t) ==
    /\ DiskFails /\ saver[t] = "open"
    /\ SaveReturn(t)
    /\ UNCHANGED <<cfg, timer, host, bounds>>

SaveOpenFails(t) ==
    /\ DiskFails /\ saver[t] = "open"
    /\ SaveReturn(t)
    /\ holder' = "nobody"
    /\ UNCHANGED <<mem, buf, file, maybe, timer, host, bounds>>

\* A slip: the last line is left out.
WriteShort(t) ==
    /\ saver[t] = "write"
    /\ file' = SubSeq(buf, 1, Len(buf) - 1)
    /\ maybe' = maybe \cup {file'}
    /\ saver' = [saver EXCEPT ![t] = "sync"]
    /\ UNCHANGED <<boot, mem, buf, holder, timer, host, bounds>>

\* What fwrite and fclose left undone is not looked at.
SaveWrite(t) ==
    /\ saver[t] = "write"
    /\ \E n \in IF DiskFails THEN 0..Len(buf) ELSE {Len(buf)} : file' = SubSeq(buf, 1, n)
    /\ maybe' = maybe \cup {file'}
    /\ saver' = [saver EXCEPT ![t] = "sync"]
    /\ UNCHANGED <<boot, mem, buf, holder, timer, host, bounds>>

\* A slip: no sync.
SyncForgotten(t) ==
    /\ saver[t] = "sync"
    /\ holder' = "nobody"
    /\ SaveReturn(t)
    /\ UNCHANGED <<mem, buf, file, maybe, timer, host, bounds>>

SaveSync(t) ==
    /\ saver[t] = "sync"
    /\ maybe' = {file}
    /\ holder' = "nobody"
    /\ SaveReturn(t)
    /\ UNCHANGED <<mem, buf, file, timer, host, bounds>>

\* Power is lost or the reader restarts: the file is one that may be left.
Crash ==
    /\ crashes < MaxCrash
    /\ crashes' = crashes + 1
    /\ \E f \in maybe : file' = f /\ maybe' = {f}
    /\ boot' = "load" /\ mem' = Defaults /\ buf' = <<>> /\ holder' = "nobody"
    /\ isTimer' = FALSE /\ armed' = FALSE
    /\ host' = [h \in Host |-> "idle"] /\ saver' = [t \in Thread |-> "idle"]
    /\ UNCHANGED sets

-----------------------------------------------------------------------------
Load == LoadDefaults \/ LoadFile \/ LoadNothing
HostStep(h) == HostTest(h) \/ HostCreate(h) \/ HostFlag(h)
Save(t) ==
    \/ SaveBegin(t) \/ SaveOutput(t) \/ SaveOpen(t) \/ SaveOpenFails(t)
    \/ SaveWrite(t) \/ SaveSync(t)

Next ==
    \/ Load
    \/ \E h \in Host : HostStep(h) \/ \E v \in Value : HostSet(h, v)
    \/ \E v \in Value \cup Long : ShellIp(v) \/ ShellGateway(v)
    \/ \E v \in Value : ShellNettype(v)
    \/ Fire
    \/ \E t \in Thread : Save(t)
    \/ Crash

Spec == Init /\ [][Next]_vars

\* Threads run and timers fire; nobody has to change a setting.
FairSpec ==
    /\ Spec
    /\ WF_vars(Load) /\ WF_vars(Fire)
    /\ \A h \in Host : WF_vars(HostStep(h))
    /\ WF_vars(\E v \in Value \cup Long : ShellGateway(v))
    /\ \A t \in Thread : SF_vars(Save(t))
-----------------------------------------------------------------------------
\* Properties.

\* The type invariant.
TypeOK ==
    /\ boot \in {"load", "read", "save", "run"}
    /\ mem \in [Name -> Value \cup Long]
    /\ isTimer \in BOOLEAN /\ armed \in BOOLEAN
    /\ host \in [Host -> {"idle", "test", "create", "flag"}]
    /\ saver \in [Thread -> {"idle", "gateway", "begin", "lock", "open", "write", "sync"}]
    /\ holder \in Thread \cup {"nobody"}
    /\ buf \in Seq(Value) /\ file \in Seq(Value) /\ maybe \subseteq Seq(Value)
    /\ sets \in 0..MaxSet /\ crashes \in 0..MaxCrash

\* The settings whose commands save them, and what the file has for one.
SavedNames == Name \ {"nettype"}
InFile(n) == \E i \in DOMAIN file : Order[i] = n /\ file[i] = mem[n]
InBuffer(n) == \E i \in DOMAIN buf : Order[i] = n /\ buf[i] = mem[n]

\* A change that is not in the file is on its way: a thread is about to save
\* it or writes it just now, or a client thread has still to look at isTimer.
\* isTimer and the timer must agree for that, though nothing locks them.
Writing(t) == saver[t] \in {"open", "write"}
SaveComing ==
    \/ armed
    \/ \E t \in Thread : saver[t] \in {"gateway", "begin", "lock"}
    \/ \E h \in Host : host[h] \in {"test", "create"}
ChangeIsComing ==
    boot = "run" => \A n \in SavedNames :
        InFile(n) \/ SaveComing \/ \E t \in Thread : Writing(t) /\ InBuffer(n)

\* When nobody is between the opening of the file and sync, a loss of power
\* leaves the file as it is; unless the disk fails, it is a whole one.
AtRest == boot = "run" /\ \A t \in Thread : saver[t] \notin {"write", "sync"}
DurableAtRest == AtRest => maybe = {file}
WholeAtRest == AtRest => Len(file) = Len(Order)

\* g_mutex is held exactly while a thread is in the part of sys_cfg_write that
\* needs it: two threads never write the file at once, and no way out of the
\* function, not even a failed one, leaves the mutex locked behind it.
InWrite(t) == saver[t] \in {"open", "write", "sync"}
WriterHoldsLock == \A t \in Thread : InWrite(t) <=> holder = t

\* A changed setting reaches the file, unless it is changed again or the
\* reader restarts.
ChangeReachesFile ==
    \A n \in SavedNames : \A v \in Value :
        mem[n] = v /\ boot = "run" ~> mem[n] # v \/ InFile(n) \/ boot # "run"
=============================================================================
