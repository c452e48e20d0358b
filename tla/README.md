# A verification project for the linux reader

The program under `src/` runs on a UHF RFID reader: a small Linux board with a
network port, a telnet shell, a settings file on flash, and one reader module
(an M6e) behind a serial line. Hosts connect over TCP and speak the module's own
protocol; the program stands between them and the module. This directory holds
TLA+ models of the parts where threads, timers, descriptors and files meet, the
TLC configurations that check them on small instances, and proofs, checked by
TLAPS, that hold for every instance.

Every definition is written from the C code, not from its comments.
`PROJECT.json` says for each one which lines it stands for.

## 1. Inventory

| component | source | state it keeps | operations |
|---|---|---|---|
| timers | `mid_timer.c` | `g_timer_q_pool`, `g_timer_q_time`, `g_deal_funcs`/`g_deal_args`/`g_deal_num`, `g_mutex`, `g_msgq` | `mid_timer_create`, `mid_timer_delete`, `mid_timer_delete_all`, the task `mid_timer_loop` |
| reader server | `server_m6e.c` | `client_fd`, `continueRead`, per thread `connected_fd`, `opcode`, `buffer` | `m6e_start`, `m6e_pthread_client`, `m6e_pthread_send`, `m6e_stop`, `m6e_shutdown`, `reader_gpi` |
| settings | `app_sys_setting.c` | `sysConfigs`, `isTimer`, `g_cfgBuf`, `g_mutex`, the file | `sys_config_load`, `sys_config_save`, `sys_config_timer`, `sysSettingSet...` |
| configuration tree | `ind_cfg.c` | the entries, bound to variables | `ind_cfg_input`, `ind_cfg_output` |
| telnet shell | `shell_play.c` | none of its own | `ipset`, `nettype`, `upgrade`, ... |
| telnet server | `mid_telnet.c` | one session: `session_fd`, `state`, `CR`, `in_buf`, `cmd_buf`; the table of commands | the task loop with `iac_remove`, `telnetd_auth`, `telnetd_exec`; `telnetd_active`, `telnetd_suspend`, `telnetd_regist`, `telnetd_output` |
| ring buffer | `ringbuf.c` | `write_idx`, `read_idx`, `read_max_idx`, the bytes | `rng_buf_enter`, `rng_buf_send`, `rng_buf_reset` and others |
| select loop | `mid_select.c` | the table of descriptors | register, unregister, `mid_select_exec` |
| message queues | `mid_msgq.c` | pipes and linked queues | put, get |
| firmware upgrade | `m6e_upgrade.c`, `server_m6e.c` | `fp` and what stdio buffers, the file of the upload, what is staged, the program | `m6e_upgrade_openfile`, `_resolve`, `_response`, `_close`, `_check`, `_reboot` |
| serial link | `serialM6E.c` | the line; of a call of `receiveMessage` the buffer, `retryCount` | `sendMessage`, `receiveMessage`, `s_receiveBytes` |
| the rest | tasks, mutexes, strings, network set-up, gpio, tag database | | see section 7 |

How they interact:

* `main` loads the settings, starts the timers, the telnet server and the
  shell's commands, initialises the module and then stays in `m6e_start`.
* `m6e_start` accepts a connection, writes its descriptor to the global
  `client_fd` and creates a thread, which reads `client_fd`. A client thread
  passes commands to the serial line and answers to the host. When the answer to
  "start continuous reading" comes by, it creates a send thread, which owns the
  line until the answer to "stop" comes by.
* A client thread that sees a command that changes a parameter calls
  `m6e_set_opcode`, which changes the setting and arms the save timer. Three
  seconds later the timer task calls `sys_config_save`.
* The shell, in the telnet task, changes addresses and saves at once.
* A client thread hands blocks of an upload to `m6e_upgrade.c` instead of the
  line. The last one ends in a new program over the running one and a restart.

What is hard in this program, and what makes each part correct:

* **timers**: the task lets go of the mutex around each callback, and callbacks
  themselves create and delete timers. Correct means: nodes are never lost,
  func and arg identify a timer, a deleted timer stays silent, a timer does not
  run early, the task does not oversleep, a timer that ends leaves the queue.
* **server**: nothing locks `client_fd`, `continueRead` or the line, and frames on
  the line carry no address. Correct means: a host gets the answers to its own
  commands, one thread at a time listens to the line, the flag that gives the line to a
  send thread is lowered again, a connection that has been superseded is not served on,
  no connection is closed on behalf of another.
* **settings**: `isTimer` is not locked, the file is emptied before it is
  written, and nothing looks at what the disk reports. Correct means: every
  change reaches the file, the file at rest is whole and durable, the mutex is
  released on every way out.
* **telnet**: a new host takes the session over at any moment, with input and
  output half done; options and lines come in any pieces; buffers are not
  emptied but moved and wrapped, and one of them has no test of its length. Correct
  means: one connection is open, each line is run as it was typed, every line is run,
  output is sent in order and once.
* **upgrade**: uploads break off and others begin, all append to one file; the
  disk may be full, files may fail to open, the power may go at any moment; the file
  pointer keeps its value after `fclose`, and the program goes on until the restart it
  has asked for comes. Correct means: what is sent is in the file, once and in order;
  what is installed is the program of a file with the signature, and all of it; an
  upload with a last block ends with a restart.
* **serial link**: a frame's start byte may stand inside a frame, lengths may be wrong,
  frames cut. Correct means: nothing is written behind the caller's buffer, an
  undamaged frame is returned as it was sent, in order and once, and is lost only
  behind a damaged one.

The complete list, with lines, is under `hazards` in `PROJECT.json`.

## 2. Plan

Most important first. Each component is a module with its parameters as
constants, one action per operation or per stretch of code nothing can come
between, an `MC` module for TLC and a `Proofs` module for TLAPS. Components are
composed where they share state: the settings contain their timer and the
commands that use it; the server contains its part of the line.

1. `MidTimer`: the basis of everything delayed. **Done**, with proofs.
2. `M6eServer`: the program's reason to exist. **Done**, with `gpi` and `gpo`
   commands and liveness; all its safety properties proved.
3. `SysSetting`: what survives a restart. **Done**, with proofs.
4. `Telnetd` with `RingBuf`: the session and the queue its output goes through.
   **Done**, with proofs.
5. `Upgrade`: the blocks of an upload, the file they are appended to, the check and
   the restart. **Done**, with proofs. `SerialFrame`: `receiveMessage`'s way to the
   start of a frame. **Done**, with proofs; `FrameLink` is the link of frames it implements,
   which is what `M6eServer` takes the line for.
6. Dropped: `IndCfg` (what `ind_cfg_output` writes and `ind_cfg_input` reads
   differs only for values with a newline, and no command can set one);
   `MidSelect` and `MidQueue` (the table of descriptors is filled before the loop
   starts, the linked queue has no caller: no two steps could interleave);
   `ReaderService` (a host may leave a command without an answer and an answer may
   be dropped by the host's next command, so that it would promise no more than
   `AnswerIsOwn` and `CommandTaken` do).
7. Every safety property and the refinement that the runs check are proved; what is
   left to TLC is what holds under fairness only (section 6).

## 3. The models and the code

### MidTimer (`MidTimer.tla`, `MCMidTimer.tla`)

| code | model |
|---|---|
| `g_timer_q_pool` / `g_timer_q_time` | `pool` (a set) / `queue` (a sequence of nodes), contents in `timer` |
| `g_deal_funcs`, `g_deal_args`, `g_deal_num` | `deal`, a sequence of keys, `NoFunc` where a delete silenced one |
| `mid_10ms()` | `now % ClockMod`: the clock is unsigned and wraps |
| `g_mutex` | steps of threads that hold it are guarded by `LockFree` and `~Held` |
| `int_timer_create`, `msg_timer_queue` | `Create` with `Claim`, `Settle`, `Spot`; `mid_timer_refresh` after the unlock is `Refresh` |
| `mid_timer_delete`, `mid_timer_delete_all` | `Delete`; `DeleteAll`, `DeleteAllStep`, `DeleteAllEnd` |
| `msg_timer_deal` | `Deal`, `Collect`, `EndCollect`, `Call`, `Return` |
| `mid_select_exec` | `Sleep`, `Wake` |

`Settle` is the loop that adds the interval until the clock is past the
present; it gives no value when, because of the wrap, the loop does not end, and
the thread then hangs with the mutex held (`hung`). Callbacks are code of other
components: the model lets the task, while it is in one, create and delete any
timer. `cancelled` and `notBefore` are history variables; no action reads them.

### M6eServer (`M6eServer.tla`, `MCM6eServer.tla`)

| code | model |
|---|---|
| `client_fd`, `continueRead` | `clientFd`, `continueRead` |
| a thread's `connected_fd`, `opcode`, `buffer` | `cl[c].fd`, `.op`, `.buf`; `snd[s].fd`, `.buf`, `.stop` (`stop_read`) |
| the accept loop | `Accept`, `AcceptFails` |
| `m6e_pthread_client` | `ClientBegin` ... `ClientFlag`, one per stretch between two accesses to shared state |
| a client thread that finds no descriptor at its first look (634-637) | `ClientBegin`, then `ClientClose` and `ClientForget`, which act on what `client_fd` is by then |
| `m6e_pthread_send` | `SenderTop` ... `SenderClear` |
| `m6e_shutdown` | the look at `client_fd` (`ClientEnd`, `SenderEnd`), `CloseCurrent`, `Forget`: three accesses, three steps |
| receiving from the host | `Receives`; `ClientCommand` passes one command on, `ClientNoCommand` drops several that come at once and leaves `gpo` to `reader_gpo` |
| `reader_gpi` | `ClientGpi`: takes whatever comes next from the line, or gives up after its 5 s, whatever `Prompt` is |
| hosts, kernel, module | `HostConnect`, `HostSend`, `HostLeave`; any free descriptor; `ModuleAnswer`, `ModuleTag` |

A frame is its opcode, and which host's command it answers (`for`, a history
field no action of the server reads). `Polite` restricts the hosts, not the
code: a host connects only when the threads that served the others are gone;
what is on the line from their time may still be there. `Prompt`
restricts the module: it answers within the 30 seconds `receiveMessage` waits for the
answer to an ordinary command; it may take longer than the 5 seconds of a gpi.
Both are there because different properties hold with and without them.

`latest`, `recent` and `missed` are history variables. `recent` is, for a thread between
`select` and `recv`, the connections that have been the newest since; the code compares
descriptors once, right after `select` (656), so that an accept before the `recv` (679)
goes unnoticed and a superseded thread may still take one command. `RecentServed` says
that it takes nothing older. `missed` are the send threads that took the answer to a stop
before `continueRead` was raised (758): they wait for another one for ever, with the flag
up. `FlagWillFall` says that this is the only way for the flag to stay up.

### SysSetting (`SysSetting.tla`, `MCSysSetting.tla`)

| code | model |
|---|---|
| `sysConfigs` | `mem`: one setting of each kind, a function |
| `isTimer`, and the timer in `mid_timer`'s queue | `isTimer`, `armed` |
| `g_cfgBuf`, the file, what a loss of power may leave | `buf`, `file`, `maybe` |
| `g_mutex` | `holder` |
| `sys_config_load` | `LoadDefaults`, `LoadFile`, `LoadNothing` |
| `m6e_set_opcode` and `sys_config_timer` | `HostSet`, `HostTest`, `HostCreate`, `HostFlag` |
| the shell's `ipset` and `nettype` | `ShellIp`, `ShellGateway`, `ShellNettype` |
| `sys_config_save`, `sys_cfg_write` | `SaveBegin` ... `SaveSync` |
| a restart | `Crash` |

`Long` are strings that do not fit their field (`param_print` refuses them and
with them the whole output). `Prompt` says that no thread is stopped for three
seconds between two statements; without it the timer may fire before the flag
that says it is armed is raised. `maybe` holds the contents a loss of power may
leave: everything written since the last `sync`.

### Telnetd and RingBuf (`Telnetd.tla`, `RingBuf.tla`, `MCTelnetd.tla`)

| code | model |
|---|---|
| `session_fd`, `state`, `CR`, `master_fd` | `session` (whose connection it is), `state`, `cr`, `listening` |
| `in_buf` from `read_idx` to `write_idx`; `cmd_buf` up to `cmd_len` | `unread` and `readIdx`; `cmd`, and `line` once it is complete |
| what lies behind `cmd_buf` (4100 bytes): `cmd_len`, the table of commands | `overrun`, once a character of the line has fallen on `cmd_len`; `spoilt`, once one may have fallen on the table |
| the loop of `iac_remove` | `Option`, `Character`, `EndOfLine`, `EndOfInput`, with `Moved` for the end of the function |
| `telnetd_auth`, `telnetd_exec`, `telnetd_quit` | `Auth`, `Exec`, `Quit` |
| `select` and what follows it | `Activate`, `Accept` (with `session_free` and `session_make`), `AcceptRefused` (`accept` fails: the host goes on waiting), `AcceptFails` (`setsockopt` does), `SendOut`, `Recv`, `NothingToRead`, `Broken` |
| `struct ringbuf` | a record of `w`, `r`, `m` and the bytes |
| `rng_buf_len`, `rng_buf_enter`, `rng_buf_send`, `rng_buf_reset` | `Avail`, `Enter`, `Send`, `Reset` |

What is sent is one item of the ring for each call of `echo`, whatever its
length, except that "\n" is the two bytes it becomes; the ring takes an item
whole or not at all. Whether a name or a password is right, and which command a
line is, is left open. A host that leaves or is replaced loses what was under
way. "\r", "\0" and the byte options begin with come from hosts as telnet has
them, inside the tokens of `Coding`, and not as characters of their own
(`TokenAssumption`). Hosts read what they are sent: `rng_buf_send` on the blocking socket of a
host that does not would stop the task (`hazards`). `typed`, `want`, `stale` and
`owed` are history variables.

A line has no bound: nothing tests that it fits `cmd_buf` (`mid_telnet.c:182`). The
character behind its end falls on `cmd_len`. What that is from then on depends on the
character and on the build, and so do the places of the next ones: `Edits` leaves the line
at any of its beginnings, `spoilt` says that the table of commands may be overwritten, and
with such a table a command may be the death of the process. `LineIsTyped` and
`LineGetsRun` except such lines and what they lead to, and no index of `cmd_buf` is
claimed to stay in it.

Two things the code does are visible here and not promised otherwise anywhere:
a line that a host broke off stands in front of the first line of the next
session (`cmd_len` is not reset; `LineIsTyped` excepts that line, `stale`), and
what the last host was not sent is sent to the next (`out_rng` is not reset).

### Upgrade (`Upgrade.tla`, `MCUpgrade.tla`)

| code | model |
|---|---|
| `fp` | `fp`: null, open, or closed and yet not NULL |
| stdio's buffer, `upgrade_temp.bin` | `buffer`, `temp` |
| `/opt/upgrade/reader`, `/opt/app/reader` | `staged`, `installed` |
| `m6e_upgrade_openfile`, `m6e_upgrade_resolve` | `TakeBlock` with `Opened`; `OpenFails`; `TakeLate` when the file is closed already |
| `m6e_upgrade_response` and the test of the block's length | `AnswerBlock` |
| `m6e_upgrade_close` | `Close`; `CloseLate` when the file is closed already |
| `m6e_upgrade_check` | `Check`: `CheckMisses` (no file), `CheckStages`, `CheckSkips` (no signature, a short `fread`, or the staged file does not open), `CheckDies` (a failed `fopen`, whose NULL is read); then `Stage`, `Remove` |
| `m6e_upgrade_reboot` | `Reclose` (a second `fclose`: the process may die), `Move`, `Reboot` (the command returns, the thread goes on) |
| hosts, the system, the power | `Begin`, `BreakOff`; `Restart`, once it was asked for, at any moment; `PowerLoss` |

A byte is the upload it is of and its position, so that a file tells what it is
made of. What is staged is one byte longer than the program: the loop copies the
length counted from the signature on, and the last byte is what happened to be
behind (`Stray`). `sole`, `short`, `marked`, `fresh` and `torn` are history variables;
`short` is also set when a file is not read or opened. Until the restart comes, blocks
of other threads are written to a file that is closed, what C does not define: in the
model they are lost, or the process dies. Visible
here and promised nowhere: an upload that begins behind one that broke off is
appended to it, so that the signature of the first one vouches for the second
(`FileIsUploads` says beginnings of uploads, not one upload); and a file without
the signature, or one whose staging fails, still leads to the move of whatever an earlier
one had staged.

### SerialFrame and FrameLink (`SerialFrame.tla`, `FrameLink.tla`, `MCSerialFrame.tla`)

| code | model |
|---|---|
| the tty | `line`, with the frames `sent` |
| `message`, the header or the rest of it being read | `message`, `reading`, `left` |
| `retryCount` | `tries` |
| `s_receiveBytes`: `select` and `read` | `Read`, in any pieces; `Timeout` |
| the search for `0xFF` in the header, `memmove`, reading the rest | `MoveHeader`, `SkipHeader` |
| the length and the buffer's size | `EndHeader`; `EndBody` |

A byte is the frame it is of and its position in it, its value only whether it is a
start byte and, for the second of a frame, the length; the second byte behind a
start byte in the middle of a frame is any length. `FrameLink` knows frames only:
they are sent, delivered in order, or lost, the latter at or behind a damaged one, at
most `MaxLost` in a step. The refinement maps `air` to the frames whose first byte has
not been dealt with, which are the last ones sent, and `MaxLost` to the number of frames
that can begin in one buffer of bytes taken for a frame. A frame that is longer than the
buffer counts as damaged: `receiveMessage` cannot return it.

## 4. The runs

`pass` runs finish without an error; `violation` runs end with the counterexample
of a finding.

| run | instance | what it shows |
|---|---|---|
| `timer` | 2 nodes, 2 keys, intervals 1 and 2, finite and periodic timers, `FairSpec` | unique keys, room for the round, no oversleeping, arming for the interval; timers with finitely many executions leave the queue |
| `timer_wrap` | 2 nodes, 4 keys, clock wraps at 5 | types; nodes are conserved when there are fewer of them than keys; order of the queue and silence after a delete, also at the wrap and with a thread that hangs |
| `timer_early` (violation) | 2 nodes, 2 keys | a timer created again while its round is dealt runs at once |
| `server_handover` | 2 polite hosts, start and stop, module may be late | one receiver on the line; while `continueRead` is up there is one send thread, and the answer that makes it lower the flag comes to it once it has asked for it, or has been missed; nobody closes another's connection |
| `server_answers` | 2 polite hosts, four kinds of commands (`gpi` and `gpo` among them), two each, a module that answers within the 30 s but not always within the 5 s of a gpi, `FairSpec` | answers to ordinary commands go to the host that asked, past late answers to gpi; a gpi takes no answer but to a gpi; a command that has come is taken |
| `server_crowd` | 2 hosts at any time, 2 descriptors | types; commands are received only from connections that have been the newest since `select` returned |
| `server_overlap` (violation) | 2 hosts at any time | an earlier client's thread closes its successor's connection |
| `settings` | 2 client threads and the shell, 3 changes, 2 restarts, `FairSpec` | every change is in the file or on its way, and reaches it; the file at rest is whole |
| `settings_fail` | disk fails, long strings, slow threads | types; lock discipline on every way out; at rest nothing is lost with power |
| `telnet` | a telnet client and a plain connection, a `cmd_buf` of two characters, accepts that fail, `FairSpec` | types, the ring's shape, the ring as a queue, one open connection, lines are run as typed, and all are run, but for the exceptions the two properties name |
| `upgrade` | 3 images of 4, 6 and 5 bytes in blocks of 3, a signature of 1, a full disk, files that fail, `FairSpec` | types; the file is made of uploads, what was sent is in it; what is installed is signed, and whole when nothing fell short and no file failed, also when the power goes; uploads end |
| `serial` | 7 kinds of frames, of which 3 are sent, a header of 3 and a buffer of 7 bytes, `FairSpec` | no read goes past the buffer; `receiveMessage` implements `FrameLink`; frames arrive |

Bounds. Timers: two nodes are enough for a queue with a head and something
behind it and for an empty pool. A timer without an interval runs once; the run's loop
counts are 0 and 2, so that it has none (with one its states are too many), while the
proofs are for all intervals. Creates stop at `CreateUntil` and the clock at
`MaxTime`, except that it goes on while the task sleeps on a timer that ends.
`MsgMax` is the capacity of the pipe: at 1 it is full as soon as one wake-up is
under way. In `timer_wrap` the clock wraps within two or three intervals, so that
`Settle` meets the wrap. `ArmedForInterval` is checked away from the wrap: within
the last interval before it the code arms timers for another instant (`hazards`).

Server: two connections are what an overlap needs, two descriptors let the kernel
reuse one or not, two send threads show a second one being made, two commands a
host a start and its stop. `RxMax` bounds the frames waiting on the line.
`server_crowd` fires the races of threads that all serve one descriptor and needs
one send thread and one kind of command for them. No action names a send thread or
a connection, and the runs without liveness check the states up to their exchange
(`SYMMETRY`).

Settings: three changes let two client threads, or one and the shell, change
something while a save is under way, and once more after it.

Telnet: the ring has five cells (`BufSize` 3, `ElemSize` 2), so that it wraps
within one greeting and a few characters and runs full; of the eight bytes of
input the last three are `IAC_MAX_SIZE`, so that a log-in passes the mark at which
what is left is moved, and an option can get stuck at the end of the buffer. `Token` says
what each host may type, one token after the other: the client its option, a name, a
password and a command, with characters and a second option among them; the other
connection characters, a subnegotiation, a backspace and the end of a line. With room for
two characters in `cmd_buf` the third one overruns it. Bytes are received in any pieces.
The texts the server sends, of three to six bytes and more in the code, are single items
of one or two bytes here, which the ring takes whole or not at all: that part of a text is
taken is not modelled.

Upgrade: a last block of one byte, one of two, and an image of full blocks only, which
ends with an empty block; two of the three begin with the signature. Three uploads
let one break off, one begin behind it and one come after the restart; the power
goes once, at any moment. `DiskFull` lets any write fall short, and any file may fail.
Serial: whole frames without a body and with one that has a
start byte inside, frames cut in the header, behind the length and in the body,
a length too big and one too small; `Tries` is 2 so that the search is given up.

`CHECK_DEADLOCK FALSE`: in the server's runs because hosts make `MaxCmd` commands
and then leave for good; in `timer_wrap` because a thread that hangs with the
mutex stops everything; in the settings because changes and restarts are bounded;
in `telnet` because the task waits for hosts that have all gone, or has died of an
overwritten table; in `upgrade` because a process that died of a file it had closed, or
could not open, waits for the power.

The largest run, `server_handover`, has 2.2 million states and takes about a minute;
`server_crowd` has 1.9 million, `upgrade` 790 000, `server_answers` 350 000, `telnet`
290 000.

Two observations have no run of their own, since no line of the repository promises
otherwise; they are hazards. With threads stopped for three seconds between two statements
(`Prompt` FALSE) a change can be left unsaved for good, `isTimer` up and no timer armed:
`ChangeIsComing` fails. With a full disk what a short write left is loaded as if it
were the file: `WholeAtRest` fails.

## 5. Fairness

The `FairSpec`s assume, beside `Init` and `Next`:

* Timers: time passes, the task is scheduled, callers and callbacks finish what
  they began (weak fairness). The task gets `g_mutex` in the end although callers
  may keep taking it (strong fairness on `Deal` and `Return`): a pthread mutex
  does not promise order, but a thread that waits for it is not passed over
  forever while others let go of it.
* Settings: threads run and a timer that is armed fires (weak fairness, what
  `timer` shows of the timers); a save gets the mutex in the end (strong
  fairness).
* Telnet: the one task runs (weak fairness on all its steps together). Nothing is
  assumed of which of several things `select` reports is served.
* Server: threads run, a connection that waits is accepted while there is a descriptor,
  and the module answers what it was sent (weak fairness on each thread, on `Accept`
  and on `ModuleAnswer`). Hosts send and leave as they like.
* Upgrade: the thread goes on with a block that has come, to its end, and the restart
  that was asked for comes (weak fairness on the steps of `Server` once a block was taken,
  and on `Restart`). No host is obliged to send the next block, and the power need not go.
* Serial: the thread runs and calls `receiveMessage` again whatever it returned, as the
  loop of the send thread does (weak fairness on its steps together).
* Nobody is obliged to create or delete timers, or to change settings.

## 6. What is proved

Proof modules extend the component's module and `TLAPS`.

* `SeqFacts` has the lemmas on sequences the others cite: inserting, removing, taking from
  the front, appending, and the least element of a set of numbers.
* `MidTimerProofs`. The inductive invariant `TimerInv` joins `TypeOK`; `QueueInv`, that
  pool and queue share no node and the queue is sorted; `KeyInv`, that keys of
  queued timers differ; and `CancelInv`, that neither queue nor round have the key
  of a cancelled timer. `NodesConserved` alone is not inductive: that `Free` puts
  a node back only once needs the queue to be without repetitions, and that
  `Collect` keeps keys apart needs the moved node's key. Theorems:
  `TypeCorrect`, `NodesAreConserved`, `KeysAreUnique`, `QueueIsSorted` (also when
  the clock wraps), `DeletedTimersStaySilent`, and `RoundFits` from the invariant
  `RoundInv`: while the task collects, every armed node that is due has an entry of
  `g_deal_funcs` left; a node queued again is due later, because what has no interval
  runs once. `NothingIsSleptThrough` and `CreateArms` are about clocks that do not wrap
  (`mid_10ms` does so after 497 days), which they say as a condition on the behaviour,
  `[](now < ClockMod)` and `[]NoWrap`. `SleepInv` says that once the time to sleep is
  computed, no armed timer expires within it, as long as no message is in the pipe and no
  create is about to send one.
* `M6eServerProofs`: `OnlyRecentServed`. The invariant `NameInv` (`Tables`,
  `NameIsLatest`) relates a number in `client_fd`, while it is open, to the
  connection accepted last. From it the
  comparison of numbers in the select loop is enough, however descriptors are
  reused: what passes it is the newest connection, and a number that is closed and given
  out again before the `recv` goes to one that is newest then. `ServerTypeCorrect` needs no
  assumption either. `LineHasOneReceiver`,
  `RaisedFlagWillFall` and `ClosedByOwnThread` assume `Polite` and hosts that send no
  `gpi`. Their invariant `LineInv` follows the line from hand to hand: at most one
  send thread; while it lives and has not lowered the flag, the flag is up or the client
  thread that created it is about to raise it, and is not in `receiveMessage`.
  `Stopping` follows the send thread's stop through the module and back: a send
  thread that has asked for it finds it, or its answer, before itself or has taken it, and
  if it took it with the flag down it is one of `missed`.
  `OwnInv` adds that a thread at work finds in `client_fd` its own descriptor or none,
  and a send thread that is to shut down finds none, so that `m6e_shutdown` closes
  its caller's connection only. `AnswerGoesToItsHost` assumes `Polite`, `Prompt`
  and hosts that do not read continuously (`gpi` is allowed, and its answers may come late).
  Its invariant `AnswerInv` takes answers and commands under way as one sequence: it
  consists of what is left over from gpi commands, of this host or an earlier one, and
  behind it, while a thread waits, of its own command or the answer to it. The opcode
  alone would not tell two hosts' answers apart, but nothing of theirs with another opcode than gpi
  can be there.
* `SysSettingProofs`: `SettingTypes`, `MutexDiscipline` (invariant `LockInv`) and
  `FileAtRestIsDurable` (invariant `RestInv`: what a loss of power may leave is the file
  itself whenever nobody is between emptying it and the `sync`) need no assumption.
  `NoChangeForgotten` and `FileAtRestIsWhole` assume `Calm`: prompt threads, a disk that
  works and strings that fit. Their invariant `DataInv` says in addition that the buffer a
  thread writes is the memory as it was when the thread took it, and when
  `isTimer` may be up.
* `TelnetdProofs`: `RingKeepsShape` and `RingIsQueue`. The invariant `RingInv` says
  that the data in the ring is in one piece or in two, the older behind the
  younger, and that its bytes are those owed. Both need each other: that an item
  fits behind the data is known from the shape, and that entering it does not
  touch what is still to be sent is why the contents only grow at the end. Lemmas
  say what `Enter` and `Send` do to indices, bytes and contents; then each action
  is a reset, an echo, a send or none of them. The elements are any set that
  contains what was entered so far, hence the quantifier in `RingInv`.
  `TelnetTypes` and `OneSessionOnly` are about the input side: `read_idx` and
  `write_idx` stay in `in_buf` (nothing is claimed of `cmd_len`), and accepting closes
  what was open.
  `LinesAreTyped` is about what is between the two ends of a session: bytes that `recv`
  cuts anywhere, options in between, and the line being edited on both sides. `Leads`
  says that a sequence of bytes leads from one stage to another, a stage being where in
  an option or an end of line this is, the line so far, and the lines still to end; its
  witness is a function from the bytes to the stages, so that no induction is needed. The
  invariant `LineInv` says that what the server has read and what is on its way, taken
  together, lead from where the task is to where the host is. A host that types extends
  the run at its end (`LeadsOn`; a line that ends is `Promised` to all stages before), the
  task takes from its front (`LeadsRest`), and `recv` and the moves in the buffer leave
  it alone. Behind a host that broke a line off, and in a line that has outgrown `cmd_buf`,
  `cmd` is not the line so far: then the invariant knows of the latter only that there is
  one, which is why the property excepts these lines, and why it holds again for those
  behind them. Nothing is assumed of when options come.
* `UpgradeProofs`: all six safety properties of `Upgrade`, under the invariant
  `UpgradeInv`: `Opening` (types, and what `fp` is at each place), `UploadInv` (the file
  is made of beginnings of uploads and its first block is of one; it ends with what the host
  has sent, unless a write fell short; it is nothing else when it was opened for this
  upload) and `OutInv` (what is staged and installed against the file it came from).
  `WholeIsInstalled` needs all of them: what is known when the file is looked at must
  last while it is staged and moved. That an upload that goes on has a full block in the
  file is why the signature is found in the first block only.
* `SerialFrameProofs`: `BufferIsNotLeft`, for all sizes of buffer and header and any
  bytes. The invariant `ReadInv` bounds what has been read and is still asked for by
  the header's size until the length has been checked.
* `SerialLinkProofs`: `LineIsLink`, that `SerialFrame` implements `FrameLink`, for any
  noise, any damage and any pieces `read` returns. The invariant `LinkInv`
  (`LinkInvariant`) takes what is read and what is still to be read as one sequence of
  bytes. `Stream`: each frame of which a byte is there goes on to its end, frames stand
  in the order in which they were sent, and none is missing behind the first that begins
  there. `Grounded`: as long as nothing has gone astray, no byte stands there without the
  first byte of its frame, so that the first start byte found is that of a frame. And while
  a body is read that begins as an undamaged frame does, exactly the rest of that frame is
  asked for. Every step then leaves the frames in the air, adds one, takes the first, or
  is behind a damaged one; that no more than `MaxLost` are lost is a count of the
  undamaged frames, each at least as long as a header, that can begin in the buffer.

Assumptions on constants are the named `ASSUME`s of the component modules, which
TLC evaluates in each run.

Only model-checked: everything under fairness (`FiniteTimersEnd`,
`ChangeReachesFile`, `LineGetsRun`, `CommandTaken`, `UploadEnds`, `FrameArrives`),
which is out of the prover's reach, and the two runs that end with a counterexample.

## 7. What is not modelled

* Upgrade: a block is handled to its end before one of another connection comes: the
  threads of two hosts inside the handler at once are left out.
* Server: late answers to ordinary commands are in `server_handover` but not in
  `server_answers`: with them an answer is taken for that to the next command with the
  same opcode (`hazards`).
* Serial link: `receiveMessage` does not check the CRC, so that a frame with the
  right length and wrong contents is returned like any other; the model has no such
  contents. What it returns of a damaged or misaligned frame with success is not counted
  as delivered (`given`): the properties are about undamaged ones. Noise holds no byte
  0xFF. Errors of `ioctl`, a `read` of nothing, opening
  the device and its baud rate are left out. `m6e_stop` sends nine bytes of an
  eight-byte frame; that the ninth may be taken for the start of another is a hazard.
* `mid_select.c` and `mid_msgq.c`: only what `MidTimer` uses. Descriptors are
  registered before the loop starts and never after; `mid_queue_*` has no caller.
* `ind_cfg.c`: only what `SysSetting` uses. The escape of newlines is not
  reached, since no command sets a value with one.
* Of telnet: the table of commands (`telnetd_regist`, filled at the start),
  `telnetd_suspend` and `telnetd_output`, which nothing calls; of the ring
  `rng_buf_read` and `rng_buf_write`, which have no caller either.
* Commands of the shell that change no state the models have (`gpo`, `version`,
  `restart`), and `set_wifi`: it is registered after a second `serverip`, whose
  registration fails, and is never reached. `wifi` settings are of the kind of
  the addresses.
* `mid_task.c`, `mid_mutex.c`: thin layers over pthreads. The models use threads
  and mutexes as they are meant. Entries of the table of tasks are made one by one at
  the start and never given back.
* Strings, MD5, the tag database, gpio, network set-up scripts: sequential code
  or calls of other programs with no state the models need.
* The vendored headers and libraries of the module (`tm*`, `ltkc*`,
  `serial_reader_imp.h`), of pthreads and of the board. They are nearly 50 000 of
  the 56 000 lines under `src/`, declarations of a library that comes as a binary:
  there is no behaviour in them to model, and the share of the lines that models stand for
  stays small whatever else is modelled. The module is modelled from how
  `server_m6e.c` uses it.
* `tcp_receiveBytes`, `enqueue_p` and `dequeue_p` are called by nobody.
* Liveness, and what recursive definitions compute, are not proved: both are beyond TLAPS.
