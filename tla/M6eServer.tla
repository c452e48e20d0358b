----------------------------- MODULE M6eServer -----------------------------
(***************************************************************************)
(* The TCP server of server_m6e.c in front of the one UHF reader module on *)
(* the serial line: the accept loop of m6e_start, one m6e_pthread_client   *)
(* thread per accepted connection, and the m6e_pthread_send thread that    *)
(* forwards tags while the module reads continuously.  The threads share   *)
(* client_fd (the latest accepted descriptor), continueRead and the line;  *)
(* no lock protects any of them, so every read and write of them that      *)
(* another thread can come between is a step of its own.                   *)
(*                                                                         *)
(* Hosts, the kernel's descriptor table and the reader module are the      *)
(* environment.  A frame is its kind: an opcode, told apart further only   *)
(* for opcode 0x2F ("start" and "stop" of continuous reading).             *)
(***************************************************************************)
EXTENDS Integers, Sequences, FiniteSets

CONSTANTS
    Conn,     \* the connections hosts make, each once
    Fd,       \* descriptor numbers the kernel may give them
    Sender,   \* places for m6e_pthread_send threads
    Command,  \* kinds of commands hosts send
    MaxCmd,   \* bound: commands per connection
    RxMax,    \* bound: answers waiting on the serial line
    Polite,   \* TRUE: a host connects only once the threads of the others are gone
    Prompt,   \* TRUE: the module answers within the 30 s of receiveMessage
    NoConn    \* a free descriptor; the issuer of frames no host asked for

NoFd == -1

ASSUME ServerAssumption ==
    /\ Fd \subseteq Nat \ {0}
    /\ NoConn \notin Conn
    /\ Command \subseteq {"a", "b", "start", "stop", "gpi", "gpo"}
    /\ MaxCmd \in Nat /\ RxMax \in Nat \ {0}
    /\ Polite \in BOOLEAN /\ Prompt \in BOOLEAN

VARIABLES
    peer,         \* the host's end: none, pending, open, closed or reset
    inbox,        \* commands the host sent and the server has not received
    sent,         \* how many commands the host has sent
    fds,          \* which connection a descriptor is
    clientFd,     \* client_fd
    continueRead,
    cl,           \* the client threads, named by the connection they were made for
    snd,          \* the send threads
    cmdq,         \* commands on their way to the module
    rx,           \* answers and tags on their way from the module
    reading,      \* the module reads continuously
    latest,       \* history: the connection accepted last
    recent,       \* history: at recv, those accepted last since the thread's select returned
    missed        \* history: send threads that took the answer to "stop" with the flag down

hosts == <<peer, inbox, sent>>
line == <<cmdq, rx, reading>>
history == <<latest, recent, missed>>
vars == <<hosts, fds, clientFd, continueRead, cl, snd, line, history>>

-----------------------------------------------------------------------------
Frame(kind, conn) == [kind |-> kind, for |-> conn]

\* buffer[2]: start and stop are both opcode 0x2F.
Op(kind) == IF kind \in {"start", "stop"} THEN "2F" ELSE kind

FreeFds == {f \in Fd : fds[f] = NoConn}
Open(f) == f \in Fd /\ fds[f] # NoConn

\* A slip: a timeout shorter than the module takes to answer.
SilentAtOnce == rx = <<>>

\* receiveMessage gives up: nothing comes for the whole timeout.
Silent == rx = <<>> /\ (Prompt => cmdq = <<>>)

\* Every thread of earlier sessions is gone; frames may be left on the line.
Idle ==
    /\ \A c \in Conn : cl[c].pc = "gone" \/ peer[c] = "none"
    /\ \A s \in Sender : snd[s].pc = "none"
    /\ clientFd = NoFd

Init ==
    /\ peer = [c \in Conn |-> "none"]
    /\ inbox = [c \in Conn |-> <<>>] /\ sent = [c \in Conn |-> 0]
    /\ fds = [f \in Fd |-> NoConn]
    /\ clientFd = NoFd /\ continueRead = FALSE
    /\ cl = [c \in Conn |-> [pc |-> "none", fd |-> NoFd, buf |-> "", op |-> ""]]
    /\ snd = [s \in Sender |-> [pc |-> "none", fd |-> NoFd, buf |-> "", stop |-> 0]]
    /\ cmdq = <<>> /\ rx = <<>> /\ reading = FALSE
    /\ latest = NoConn /\ recent = [c \in Conn |-> {}] /\ missed = {}

-----------------------------------------------------------------------------
\* The hosts.

HostConnect(c) ==
    /\ peer[c] = "none" /\ (Polite => Idle)
    /\ \A d \in Conn : peer[d] # "pending"
    /\ peer' = [peer EXCEPT ![c] = "pending"]
    /\ UNCHANGED <<inbox, sent, fds, clientFd, continueRead, cl, snd, line, history>>

HostSend(c, k) ==
    /\ peer[c] = "open" /\ sent[c] < MaxCmd
    /\ inbox' = [inbox EXCEPT ![c] = Append(@, k)]
    /\ sent' = [sent EXCEPT ![c] = @ + 1]
    /\ UNCHANGED <<peer, fds, clientFd, continueRead, cl, snd, line, history>>

\* The host closes, or the connection breaks and keepalive reports it.
HostLeave(c) ==
    /\ peer[c] = "open"
    /\ \E how \in {"closed", "reset"} : peer' = [peer EXCEPT ![c] = how]
    /\ UNCHANGED <<inbox, sent, fds, clientFd, continueRead, cl, snd, line, history>>

\* The module: it answers commands in order; "start" and "stop" switch
\* continuous reading, and while that is on tags come unasked.

ModuleAnswer ==
    /\ cmdq # <<>> /\ Len(rx) < RxMax
    /\ cmdq' = Tail(cmdq) /\ rx' = Append(rx, Head(cmdq))
    /\ reading' = CASE Head(cmdq).kind = "start" -> TRUE
                    [] Head(cmdq).kind = "stop" -> FALSE
                    [] OTHER -> reading
    /\ UNCHANGED <<hosts, fds, clientFd, continueRead, cl, snd, history>>

ModuleTag ==
    /\ reading /\ rx = <<>>
    /\ rx' = <<Frame("tag", NoConn)>>
    /\ UNCHANGED <<hosts, fds, clientFd, continueRead, cl, snd, cmdq, reading, history>>

-----------------------------------------------------------------------------
\* m6e_start: the loop around accept; the kernel picks a free descriptor.

Accept(c) ==
    /\ peer[c] = "pending"
    /\ \E f \in FreeFds : fds' = [fds EXCEPT ![f] = c] /\ clientFd' = f
    /\ peer' = [peer EXCEPT ![c] = "open"]
    /\ cl' = [cl EXCEPT ![c].pc = "begin"]
    /\ latest' = c
    /\ recent' = [d \in Conn |-> IF cl[d].pc = "recv" THEN recent[d] \cup {c} ELSE recent[d]]
    /\ UNCHANGED <<inbox, sent, continueRead, snd, line, missed>>

\* No descriptor is left: accept fails before it waits, and client_fd is -1
\* all the same.
AcceptFails ==
    /\ FreeFds = {} /\ clientFd # NoFd
    /\ clientFd' = NoFd
    /\ UNCHANGED <<hosts, fds, continueRead, cl, snd, line, history>>

-----------------------------------------------------------------------------
\* m6e_pthread_client.  cl[c].fd is connected_fd, cl[c].op is opcode.

Goto(c, label) == cl' = [cl EXCEPT ![c].pc = label]

\* The thread's first look at client_fd.  Even when it finds no descriptor there it
\* closes what client_fd names by then.
ClientBegin(c) ==
    /\ cl[c].pc = "begin"
    /\ Goto(c, IF clientFd = NoFd THEN "close" ELSE "copy")
    /\ UNCHANGED <<hosts, fds, clientFd, continueRead, snd, line, history>>

\* The second look, after the malloc; a sleep may follow.
ClientCopy(c) ==
    /\ cl[c].pc = "copy"
    /\ cl' = [cl EXCEPT ![c].pc = "wait", ![c].fd = clientFd]
    /\ UNCHANGED <<hosts, fds, clientFd, continueRead, snd, line, history>>

\* select has something to report on f: data, the end of it, an error, or a
\* descriptor that is not open.
Ready(f) == Open(f) => inbox[fds[f]] # <<>> \/ peer[fds[f]] # "open"

\* Two slips: the comparison is left out, or the wrong way round.
SupersededSame(c) == fds[cl[c].fd] = NoConn \/ clientFd = cl[c].fd
SupersededNever(c) == fds[cl[c].fd] = NoConn

\* select fails, or another client has been accepted: the numbers are compared.
Superseded(c) == fds[cl[c].fd] = NoConn \/ clientFd # cl[c].fd

ClientSelect(c) ==
    /\ cl[c].pc = "wait" /\ cl[c].fd \in Fd
    /\ Ready(cl[c].fd)
    /\ Goto(c, IF Superseded(c) THEN "end" ELSE "recv")
    /\ recent' = [recent EXCEPT ![c] = IF Superseded(c) THEN {} ELSE {latest}]
    /\ UNCHANGED <<hosts, fds, clientFd, continueRead, snd, line, latest, missed>>

\* The thread has done with recv.
Leaves(c) == recent' = [recent EXCEPT ![c] = {}] /\ UNCHANGED <<latest, missed>>

\* The socket has an error, or is not one any more: it is closed here.
ClientError(c) ==
    LET f == cl[c].fd IN
    /\ cl[c].pc = "recv"
    /\ Open(f) => peer[fds[f]] = "reset"
    /\ fds' = [fds EXCEPT ![f] = NoConn]
    /\ cl' = [cl EXCEPT ![c].pc = "end", ![c].fd = NoFd]
    /\ Leaves(c)
    /\ UNCHANGED <<hosts, clientFd, continueRead, snd, line>>

\* recv returns 0 when the host has closed, and -1 when another thread on the
\* same descriptor was faster.
ClientNothing(c) ==
    LET d == fds[cl[c].fd] IN
    /\ cl[c].pc = "recv" /\ d # NoConn
    /\ peer[d] # "reset" /\ inbox[d] = <<>>
    /\ Goto(c, IF peer[d] = "closed" THEN "end" ELSE "wait")
    /\ Leaves(c)
    /\ UNCHANGED <<hosts, fds, clientFd, continueRead, snd, line>>

\* Something is received: all that has come, as frames are short.
Receives(c) ==
    LET d == fds[cl[c].fd] IN
    /\ cl[c].pc = "recv" /\ d # NoConn
    /\ peer[d] # "reset" /\ inbox[d] # <<>>
    /\ inbox' = [inbox EXCEPT ![d] = <<>>] /\ Leaves(c)

Received(c) == inbox[fds[cl[c].fd]]

\* A command is received and passed on to the module.
ClientCommand(c) ==
    LET k == Head(Received(c)) IN
    /\ Receives(c) /\ Len(Received(c)) = 1 /\ k # "gpo"
    /\ cmdq' = Append(cmdq, Frame(k, fds[cl[c].fd]))
    /\ cl' = [cl EXCEPT ![c].pc = IF k = "gpi" THEN "gpi" ELSE "try",
                        ![c].buf = k, ![c].op = Op(k)]
    /\ UNCHANGED <<peer, sent, fds, clientFd, continueRead, snd, rx, reading>>

\* Several commands at once are more bytes than the first one's length says, and
\* are all dropped.  reader_gpo answers a command itself.
ClientNoCommand(c) ==
    /\ Receives(c) /\ (Len(Received(c)) > 1 \/ Head(Received(c)) = "gpo")
    /\ Goto(c, "wait")
    /\ UNCHANGED <<peer, sent, fds, clientFd, continueRead, snd, line>>

\* reader_gpi: whatever the line holds next is taken for the answer, and the thread
\* waits 5 s only: the answer may still come after that.
ClientGpi(c) ==
    /\ cl[c].pc = "gpi"
    /\ \/ rx # <<>> /\ rx' = Tail(rx)
       \/ rx = <<>> /\ UNCHANGED rx
    /\ Goto(c, "wait")
    /\ UNCHANGED <<hosts, fds, clientFd, continueRead, snd, cmdq, reading, history>>

\* A slip: the line is read whether or not the send thread owns it.
TryAlways(c) ==
    /\ cl[c].pc = "try"
    /\ Goto(c, "await")
    /\ UNCHANGED <<hosts, fds, clientFd, continueRead, snd, line, history>>

\* try: the answer is awaited here unless the send thread owns the line.
ClientTry(c) ==
    /\ cl[c].pc = "try"
    /\ Goto(c, IF continueRead THEN "check" ELSE "await")
    /\ UNCHANGED <<hosts, fds, clientFd, continueRead, snd, line, history>>

\* An answer with another opcode is dropped and the next one awaited.
Matches(c, frame) == Op(frame.kind) = cl[c].op

ClientAwait(c) ==
    /\ cl[c].pc = "await" /\ rx # <<>>
    /\ rx' = Tail(rx)
    /\ IF Matches(c, Head(rx))
       THEN cl' = [cl EXCEPT ![c].pc = "check", ![c].buf = Head(rx).kind]
       ELSE cl' = [cl EXCEPT ![c].pc = "try", ![c].buf = Head(rx).kind]
    /\ UNCHANGED <<hosts, fds, clientFd, continueRead, snd, cmdq, reading, history>>

ClientTimeout(c) ==
    /\ cl[c].pc = "await" /\ Silent
    /\ Goto(c, "wait")
    /\ UNCHANGED <<hosts, fds, clientFd, continueRead, snd, line, history>>

\* After a "start" the send thread is created; then the flag is raised.
ClientCheck(c) ==
    /\ cl[c].pc = "check"
    /\ IF ~continueRead /\ cl[c].buf = "start"
       THEN \E s \in Sender :
              /\ snd[s].pc = "none"
              /\ snd' = [snd EXCEPT ![s] =
                    [pc |-> "top", fd |-> cl[c].fd, buf |-> "", stop |-> 0]]
              /\ missed' = missed \ {s}
              /\ Goto(c, "flag")
       ELSE UNCHANGED <<snd, missed>> /\ Goto(c, "wait")
    /\ UNCHANGED <<hosts, fds, clientFd, continueRead, line, latest, recent>>

ClientFlag(c) ==
    /\ cl[c].pc = "flag"
    /\ continueRead' = TRUE
    /\ Goto(c, "wait")
    /\ UNCHANGED <<hosts, fds, clientFd, snd, line, history>>

\* A slip: 0 is a descriptor, not the absence of one.
ForgetToZero == clientFd' = 0

\* m6e_shutdown looks whether client_fd is a descriptor, closes what it names by
\* then, and forgets it.
CloseCurrent == fds' = IF clientFd # NoFd THEN [fds EXCEPT ![clientFd] = NoConn] ELSE fds
Forget == clientFd' = NoFd

ClientEnd(c) ==
    /\ cl[c].pc = "end"
    /\ Goto(c, IF clientFd # NoFd THEN "close" ELSE "gone")
    /\ UNCHANGED <<hosts, fds, clientFd, continueRead, snd, line, history>>

ClientClose(c) ==
    /\ cl[c].pc = "close"
    /\ CloseCurrent
    /\ Goto(c, "forget")
    /\ UNCHANGED <<hosts, clientFd, continueRead, snd, line, history>>

ClientForget(c) ==
    /\ cl[c].pc = "forget"
    /\ Forget
    /\ Goto(c, "gone")
    /\ UNCHANGED <<hosts, fds, continueRead, snd, line, history>>

-----------------------------------------------------------------------------
\* m6e_pthread_send.

SenderGoto(s, label) == snd' = [snd EXCEPT ![s].pc = label]

\* m6e_stop: a "stop" no host asked for.
SendStop == cmdq' = Append(cmdq, Frame("stop", NoConn))

SenderTop(s) ==
    /\ snd[s].pc = "top"
    /\ IF snd[s].fd # clientFd /\ snd[s].stop = 0
       THEN SendStop /\ snd' = [snd EXCEPT ![s].pc = "recv", ![s].stop = 2]
       ELSE UNCHANGED cmdq /\ SenderGoto(s, "recv")
    /\ UNCHANGED <<hosts, fds, clientFd, continueRead, cl, rx, reading, history>>

\* The send on f works, or fails: f is closed, or the host is gone or slow.
SendFails(f) == IF Open(f) THEN BOOLEAN ELSE {TRUE}

SenderRecv(s) ==
    /\ snd[s].pc = "recv" /\ rx # <<>>
    /\ rx' = Tail(rx)
    /\ \E fails \in SendFails(snd[s].fd) :
         IF snd[s].stop = 0 /\ fails
         THEN /\ SendStop
              /\ snd' = [snd EXCEPT ![s].pc = "test", ![s].buf = Head(rx).kind, ![s].stop = 1]
         ELSE /\ UNCHANGED cmdq
              /\ snd' = [snd EXCEPT ![s].pc = "test", ![s].buf = Head(rx).kind]
    /\ UNCHANGED <<hosts, fds, clientFd, continueRead, cl, reading, history>>

SenderTimeout(s) ==
    /\ snd[s].pc = "recv" /\ rx = <<>>
    /\ SenderGoto(s, "top")
    /\ UNCHANGED <<hosts, fds, clientFd, continueRead, cl, line, history>>

\* The answer to "stop" lowers the flag and ends the thread.
SenderTest(s) ==
    /\ snd[s].pc = "test"
    /\ SenderGoto(s, IF continueRead /\ snd[s].buf = "stop" THEN "clear" ELSE "top")
    /\ missed' = IF ~continueRead /\ snd[s].buf = "stop" THEN missed \cup {s} ELSE missed
    /\ UNCHANGED <<hosts, fds, clientFd, continueRead, cl, line, latest, recent>>

\* Two slips: the flag is left up; the connection is always shut down.
ClearNothing(s) ==
    /\ snd[s].pc = "clear"
    /\ SenderGoto(s, IF snd[s].stop = 2 THEN "end" ELSE "none")
    /\ UNCHANGED <<hosts, fds, clientFd, continueRead, cl, line, history>>

ClearAndShut(s) ==
    /\ snd[s].pc = "clear"
    /\ continueRead' = FALSE
    /\ SenderGoto(s, "end")
    /\ UNCHANGED <<hosts, fds, clientFd, cl, line, history>>

SenderClear(s) ==
    /\ snd[s].pc = "clear"
    /\ continueRead' = FALSE
    /\ SenderGoto(s, IF snd[s].stop = 2 THEN "end" ELSE "none")
    /\ UNCHANGED <<hosts, fds, clientFd, cl, line, history>>

SenderEnd(s) ==
    /\ snd[s].pc = "end"
    /\ SenderGoto(s, IF clientFd # NoFd THEN "close" ELSE "none")
    /\ UNCHANGED <<hosts, fds, clientFd, continueRead, cl, line, history>>

SenderClose(s) ==
    /\ snd[s].pc = "close"
    /\ CloseCurrent
    /\ SenderGoto(s, "forget")
    /\ UNCHANGED <<hosts, clientFd, continueRead, cl, line, history>>

SenderForget(s) ==
    /\ snd[s].pc = "forget"
    /\ Forget
    /\ SenderGoto(s, "none")
    /\ UNCHANGED <<hosts, fds, continueRead, cl, line, history>>

-----------------------------------------------------------------------------
ClientThread(c) ==
    \/ ClientBegin(c) \/ ClientCopy(c) \/ ClientSelect(c) \/ ClientError(c)
    \/ ClientNothing(c) \/ ClientCommand(c) \/ ClientNoCommand(c) \/ ClientGpi(c)
    \/ ClientTry(c) \/ ClientAwait(c) \/ ClientTimeout(c) \/ ClientCheck(c) \/ ClientFlag(c)
    \/ ClientEnd(c) \/ ClientClose(c) \/ ClientForget(c)

SendThread(s) ==
    \/ SenderTop(s) \/ SenderRecv(s) \/ SenderTimeout(s) \/ SenderTest(s)
    \/ SenderClear(s) \/ SenderEnd(s) \/ SenderClose(s) \/ SenderForget(s)

Host(c) ==
    HostConnect(c) \/ HostLeave(c) \/ \E k \in Command : HostSend(c, k)

Next ==
    \/ \E c \in Conn : Host(c) \/ Accept(c) \/ ClientThread(c)
    \/ \E s \in Sender : SendThread(s)
    \/ AcceptFails \/ ModuleAnswer \/ ModuleTag

Spec == Init /\ [][Next]_vars

\* Threads run and the module answers; hosts do what they like.
FairSpec ==
    /\ Spec
    /\ \A c \in Conn : WF_vars(Accept(c)) /\ WF_vars(ClientThread(c))
    /\ \A s \in Sender : WF_vars(SendThread(s))
    /\ WF_vars(ModuleAnswer)
-----------------------------------------------------------------------------
\* Properties.

ClientPc == {"none", "begin", "copy", "wait", "recv", "gpi", "try", "await",
             "check", "flag", "end", "close", "forget", "gone"}
SenderPc == {"none", "top", "recv", "test", "clear", "end", "close", "forget"}
Kind == {"a", "b", "start", "stop", "gpi", "gpo", "tag"}
AFrame == [kind : Kind, for : Conn \cup {NoConn}]

\* The type invariant.
TypeOK ==
    /\ peer \in [Conn -> {"none", "pending", "open", "closed", "reset"}]
    /\ inbox \in [Conn -> Seq(Command)] /\ sent \in [Conn -> Nat]
    /\ fds \in [Fd -> Conn \cup {NoConn}]
    /\ clientFd \in Fd \cup {NoFd} /\ continueRead \in BOOLEAN
    /\ cl \in [Conn -> [pc : ClientPc, fd : Fd \cup {NoFd}, buf : Kind \cup {""},
                        op : {"", "2F", "a", "b", "gpi"}]]
    /\ snd \in [Sender -> [pc : SenderPc, fd : Fd \cup {NoFd}, buf : Kind \cup {""},
                           stop : 0..2]]
    /\ cmdq \in Seq(AFrame) /\ rx \in Seq(AFrame) /\ reading \in BOOLEAN
    /\ latest \in Conn \cup {NoConn} /\ recent \in [Conn -> SUBSET (Conn \cup {NoConn})]
    /\ missed \subseteq Sender

\* Threads waiting in receiveMessage; there is one serial line and frames are
\* not addressed, so two of them take each other's answers.
Receivers == {c \in Conn : cl[c].pc \in {"await", "gpi"}} \cup
             {s \in Sender : snd[s].pc = "recv"}
OneReceiver == Cardinality(Receivers) <= 1

\* While continueRead is up client threads leave the line to the send thread: there is
\* exactly one, and once it has asked the module to stop, the stop or the answer to it
\* is on its way to the thread, which will then lower the flag; unless it took the answer
\* before the flag was raised, and now waits for another for ever.
Alive == {s \in Sender : snd[s].pc \in {"top", "recv", "test", "clear"}}
StopComing(s) ==
    \/ \E k \in 1..Len(cmdq) : cmdq[k].kind = "stop"
    \/ \E k \in 1..Len(rx) : rx[k].kind = "stop"
    \/ snd[s].pc \in {"test", "clear"} /\ snd[s].buf = "stop"
FlagWillFall ==
    continueRead =>
        /\ Cardinality(Alive) = 1
        /\ \A s \in Alive : snd[s].stop # 0 => StopComing(s) \/ s \in missed

\* However hosts overlap and numbers are used again, what a thread receives comes from
\* a connection that has been the newest since the thread's select returned.  (The
\* comparison there is the last: an accept between it and recv goes unnoticed.)
RecentServed ==
    \A c \in Conn : cl[c].pc = "recv" =>
        LET d == fds[cl[c].fd] IN d # NoConn => d \in recent[c]

\* What is sent on a connection as the answer to an ordinary command is the answer to
\* its own, although frames on the line carry no address and answers to gpi that come
\* late lie before it; and gpi, which looks at no opcode, takes no answer but to a gpi,
\* which may be one of an earlier host.
AnswerIsOwn ==
    [][\A c \in Conn :
          /\ cl[c].pc = "await" /\ cl'[c].pc = "check" => Head(rx).for = fds[cl[c].fd]
          /\ cl[c].pc = "gpi" /\ cl'[c].pc = "wait" /\ rx # <<>> => Head(rx).kind = "gpi"
      ]_vars

\* A command that has come is taken in the end, whatever became of those before
\* it and of the hosts before this one: no thread stays with the line for ever.
CommandTaken ==
    \A c \in Conn : inbox[c] # <<>> ~> inbox[c] = <<>> \/ peer[c] # "open"

\* A connection whose host is still there is closed by its own thread only:
\* the end of an earlier client does not take the newer one with it.
ClosedByItself ==
    [][\A d \in Conn :
          (\E f \in Fd : fds[f] = d) /\ (\A f \in Fd : fds'[f] # d) /\ peer[d] = "open"
             => cl'[d] # cl[d]]_vars
=============================================================================
