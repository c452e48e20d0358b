------------------------------ MODULE Telnetd ------------------------------
(***************************************************************************)
(* The telnet server of mid_telnet.c: one task that serves one session.    *)
(* Each turn of its loop takes the telnet options out of what was received *)
(* (iac_remove), runs a line if one is complete, and otherwise waits for   *)
(* the next host, for data, or for room to send what was echoed.  A new    *)
(* host ends the session of the one before it.                             *)
(*                                                                         *)
(* Texts the server sends are single items of the ring, whatever their     *)
(* length, and a line is what was typed; whether it is a user name, a      *)
(* password or "quit" is left open.  Sockets of hosts that are there take  *)
(* what is sent: a host that does not read stops the task, see README.     *)
(***************************************************************************)
EXTENDS RingBuf

CONSTANTS
    Host,          \* hosts, each connects once
    InSize,        \* INPUT_BUF_SIZE
    IacMax,        \* IAC_MAX_SIZE
    Token,         \* bound: what each host may type, token by token, see Coding
    CmdSize,       \* characters cmd_buf has room for, CMD_BUF_SIZE + 4
    NoHost

ASSUME TelnetAssumption ==
    /\ IacMax \in Nat /\ InSize \in Nat /\ IacMax >= 3 /\ InSize > IacMax
    /\ CmdSize \in Nat /\ NoHost \notin Host

\* Hosts send "\r", "\0" and the byte options begin with as telnet has them, inside the
\* tokens of Coding and not as characters.
ASSUME TokenAssumption ==
    \A h \in Host : \A k \in 1..Len(Token[h]) : Token[h][k] \cap {"iac", "cr", "nul"} = {}

VARIABLES
    peer,       \* the connection of a host: none, pending, open, left or closed
    net,        \* bytes on their way to the server
    toks,       \* how many tokens each host has sent
    listening,  \* master_fd is open
    session,    \* whose connection session_fd is
    state,      \* INIT, SYNC, USER, PASS or SESSION
    cr,         \* CR: the last byte was '\r'
    unread,     \* in_buf from read_idx to write_idx
    readIdx,    \* read_idx
    cmd,        \* cmd_buf up to cmd_len
    overrun,    \* a character of the line has been written over cmd_len
    spoilt,     \* and others over the table of commands behind it
    line,       \* the line iac_remove has completed
    rng,        \* out_rng
    pc,         \* parse, line, select, recv; dead: the process has died
    typed, want,\* history: the line a host is typing; its lines not yet run
    stale,      \* history: cmd began before the session did
    owed        \* history: bytes taken into the ring and not sent

hosts == <<peer, net, toks, typed>>
cmdbuf == <<cmd, overrun, spoilt>>
input == <<cr, unread, readIdx, cmdbuf>>
vars == <<hosts, listening, session, state, input, line, rng, pc, want, stale, owed>>

-----------------------------------------------------------------------------
\* The bytes of a token; "opt" is an option, "sub" a subnegotiation of one byte.
Coding(tok) ==
    CASE tok = "opt"   -> <<"iac", "do", "v">>
      [] tok = "sub"   -> <<"iac", "sb", "v", "iac", "se">>
      [] tok = "crlf"  -> <<"cr", "lf">>
      [] tok = "crnul" -> <<"cr", "nul">>
      [] OTHER         -> <<tok>>

DropLast(s) == IF s = <<>> THEN s ELSE SubSeq(s, 1, Len(s) - 1)

Init ==
    /\ peer = [h \in Host |-> "none"] /\ net = [h \in Host |-> <<>>]
    /\ toks = [h \in Host |-> 0]
    /\ listening = FALSE /\ session = NoHost /\ state = "INIT"
    /\ cr = FALSE /\ unread = <<>> /\ readIdx = 0 /\ cmd = <<>> /\ line = <<>>
    /\ overrun = FALSE /\ spoilt = FALSE
    /\ rng = Empty /\ pc = "parse"
    /\ typed = [h \in Host |-> <<>>] /\ want = [h \in Host |-> <<>>]
    /\ stale = FALSE /\ owed = <<>>

\* echo: one item, a character or a text, of which the ring may take nothing.
Echo(item) ==
    /\ rng' = Enter(rng, item)
    /\ owed' = IF Fits(rng) THEN owed \o Bytes(item) ELSE owed
Quiet == UNCHANGED <<rng, owed>>

-----------------------------------------------------------------------------
\* The hosts.  Between two selects the task looks at nothing that hosts change,
\* and with a host to accept it looks at nothing else: what hosts do meanwhile
\* may as well happen before or after.
NoneWaits == \A h \in Host : peer[h] # "pending"
Waiting == pc = "select" /\ NoneWaits

Connect(h) ==
    /\ Waiting /\ listening /\ peer[h] = "none"
    /\ peer' = [peer EXCEPT ![h] = "pending"]
    /\ UNCHANGED <<net, toks, typed, listening, session, state, input, line, rng, pc,
                   want, stale, owed>>

NextTokens(h) == IF toks[h] + 1 \in 1..Len(Token[h]) THEN Token[h][toks[h] + 1] ELSE {}

Type(h, tok) ==
    /\ Waiting /\ peer[h] = "open"
    /\ toks' = [toks EXCEPT ![h] = @ + 1]
    /\ net' = [net EXCEPT ![h] = @ \o Coding(tok)]
    /\ CASE tok \in {"opt", "sub"} -> UNCHANGED <<typed, want>>
         [] tok = "bs" -> /\ typed' = [typed EXCEPT ![h] = DropLast(@)]
                          /\ UNCHANGED want
         [] tok \in {"lf", "crlf", "crnul"} ->
                          /\ want' = [want EXCEPT ![h] = Append(@, typed[h])]
                          /\ typed' = [typed EXCEPT ![h] = <<>>]
         [] OTHER -> typed' = [typed EXCEPT ![h] = Append(@, tok)] /\ UNCHANGED want
    /\ UNCHANGED <<peer, listening, session, state, input, line, rng, pc, stale, owed>>

Leave(h) ==
    /\ Waiting /\ peer[h] = "open"
    /\ peer' = [peer EXCEPT ![h] = "left"]
    /\ UNCHANGED <<net, toks, typed, listening, session, state, input, line, rng, pc,
                   want, stale, owed>>

-----------------------------------------------------------------------------
\* iac_remove, a byte or an option at a time.

\* The bytes of the option unread begins with, 0 if it has not all come.
OptionLen ==
    IF Len(unread) < 3 THEN 0
    ELSE IF unread[2] # "sb" THEN 3
    ELSE LET ends == {k \in 4..Len(unread) : unread[k - 1] = "iac" /\ unread[k] = "se"}
         IN  IF ends = {} THEN 0 ELSE CHOOSE k \in ends : \A j \in ends : k <= j

Parsing == pc = "parse" /\ state # "INIT" /\ unread # <<>>

Consume(n) ==
    /\ unread' = SubSeq(unread, n + 1, Len(unread))
    /\ readIdx' = readIdx + n

Option ==
    /\ Parsing /\ Head(unread) = "iac" /\ OptionLen > 0
    /\ Consume(OptionLen) /\ cr' = FALSE
    /\ IF state = "SYNC" THEN state' = "USER" /\ Echo("text")
       ELSE UNCHANGED state /\ Quiet
    /\ UNCHANGED <<hosts, listening, session, cmdbuf, line, pc, want, stale>>

\* A character, '\b', '\r', or a '\0' that ends nothing.  A slip: all of them go
\* into the line.
EditKeeps(ch) == Append(cmd, ch)
Edit(ch) ==
    CASE ch = "bs" -> DropLast(cmd)
      [] ch \in {"cr", "nul"} -> cmd
      [] OTHER -> Append(cmd, ch)

EndsLine(ch) == ch = "lf" \/ (ch = "nul" /\ cr)

\* There is no test that the line fits cmd_buf: the character behind its end falls
\* on cmd_len, and from then to the end of the line the next one may go anywhere in
\* the line or behind it, over the table of commands.
Overruns(ch) == Len(cmd) = CmdSize /\ ch \notin {"bs", "cr", "nul"}
Cuts(s) == {SubSeq(s, 1, n) : n \in 0..Len(s)}
Edits(ch) ==
    IF Overruns(ch) THEN Cuts(cmd)
    ELSE IF overrun THEN Cuts(cmd) \cup Cuts(Edit(ch))
    ELSE {Edit(ch)}

Character ==
    LET ch == Head(unread)
    IN  /\ Parsing /\ ch # "iac" /\ ~EndsLine(ch)
        /\ Consume(1) /\ cr' = (ch = "cr")
        /\ cmd' \in Edits(ch) /\ overrun' = (overrun \/ Overruns(ch))
        /\ spoilt' \in {spoilt, overrun \/ spoilt}
        /\ IF ch \in {"cr", "nul"} THEN Quiet ELSE Echo(ch)
        /\ UNCHANGED <<hosts, listening, session, state, line, pc, want, stale>>

\* What is left of the input is moved to the front once it starts near the end.
\* A slip: it stays where it is.
MovedNever(rest, start) == unread' = rest /\ readIdx' = start
Moved(rest, start) ==
    /\ unread' = rest
    /\ readIdx' = IF start >= InSize - IacMax THEN 0 ELSE start

EndOfLine ==
    /\ Parsing /\ EndsLine(Head(unread))
    /\ Moved(Tail(unread), readIdx + 1) /\ cr' = FALSE
    /\ line' = cmd /\ cmd' = <<>> /\ overrun' = FALSE
    /\ spoilt' \in {spoilt, overrun \/ spoilt}
    /\ Echo(NewLine)
    /\ want' = [want EXCEPT ![session] = IF @ = <<>> THEN @ ELSE Tail(@)]
    /\ stale' = FALSE /\ pc' = "line"
    /\ UNCHANGED <<hosts, listening, session, state>>

\* Nothing is left, or an option that has not all come.
EndOfInput ==
    /\ pc = "parse" /\ state # "INIT"
    /\ unread # <<>> => Head(unread) = "iac" /\ OptionLen = 0
    /\ Moved(unread, readIdx)
    /\ pc' = "select"
    /\ UNCHANGED <<hosts, listening, session, state, cr, cmdbuf, line, rng, want, stale,
                   owed>>

NoSession ==
    /\ pc = "parse" /\ state = "INIT"
    /\ pc' = "select"
    /\ UNCHANGED <<hosts, listening, session, state, input, line, rng, want, stale, owed>>

-----------------------------------------------------------------------------
\* session_free, apart from closing the socket.
Free ==
    /\ unread' = <<>> /\ readIdx' = 0
    /\ session' = NoHost /\ state' = "INIT"

\* The session's connection is closed, and what is under way on it is lost.
AtSession(f, v) == [h \in Host |-> IF h = session THEN v ELSE f[h]]
Lost ==
    /\ net' = AtSession(net, <<>>) /\ toks' = AtSession(toks, 0)
    /\ typed' = AtSession(typed, <<>>) /\ want' = AtSession(want, <<>>)

\* What telnetd_port_user_ok and telnetd_port_pass_ok may answer.
Answered == IF state = "USER" THEN {"PASS", "USER"} ELSE {"SESSION", "USER"}

\* telnetd_auth
Auth ==
    /\ pc = "line" /\ state # "SESSION"
    /\ IF state = "SYNC" THEN UNCHANGED state /\ Quiet
       ELSE /\ Echo("text")
            /\ state' \in Answered
    /\ pc' = "parse" /\ line' = <<>>
    /\ UNCHANGED <<hosts, listening, session, input, want, stale>>

\* telnetd_exec, of a table of commands that may be anything.
Exec ==
    /\ pc = "line" /\ state = "SESSION"
    /\ Echo("text")
    /\ pc' \in {"parse", IF spoilt THEN "dead" ELSE "parse"} /\ line' = <<>>
    /\ UNCHANGED <<hosts, listening, session, state, input, want, stale>>

\* telnetd_quit; what it returns is echoed although the session is over.
Quit ==
    /\ pc = "line" /\ state = "SESSION" /\ line # <<>>
    /\ peer' = AtSession(peer, "closed") /\ Lost /\ Free
    /\ Echo("text")
    /\ pc' = "parse" /\ line' = <<>>
    /\ UNCHANGED <<listening, cr, cmdbuf, stale>>

-----------------------------------------------------------------------------
\* select, and what follows it.

\* insize: how much may be received.  A slip: what is in the buffer already is
\* forgotten.
InsizeWhole == IF readIdx + Len(unread) < InSize - IacMax THEN InSize ELSE 0
Insize ==
    LET writeIdx == readIdx + Len(unread)
    IN  IF writeIdx < InSize - IacMax THEN InSize - writeIdx ELSE 0

\* The one message there is, of telnetd_active: int_td_active opens master_fd.
\* When that fails, no host ever connects, as when the message never comes.
Activate ==
    /\ pc = "select" /\ ~listening
    /\ listening' = TRUE /\ rng' = Reset(rng) /\ owed' = <<>>
    /\ pc' = "parse"
    /\ UNCHANGED <<hosts, session, state, input, line, want, stale>>

\* session_make
Make(h) ==
    /\ session' = h /\ state' = "SYNC" /\ cr' = FALSE
    /\ stale' = (cmd # <<>>)
    /\ Echo("text")

\* A slip: the session before is replaced and not freed.
AcceptOver(h) ==
    /\ pc = "select" /\ peer[h] = "pending"
    /\ peer' = [peer EXCEPT ![h] = "open"]
    /\ unread' = <<>> /\ readIdx' = 0
    /\ Make(h)
    /\ pc' = "parse"
    /\ UNCHANGED <<net, toks, typed, listening, cmdbuf, line, want>>

\* accept, session_free of the session before if there is one, session_make.
\* (Without a session the input is empty anyway.)
Accept(h) ==
    /\ pc = "select" /\ peer[h] = "pending"
    /\ peer' = [AtSession(peer, "closed") EXCEPT ![h] = "open"] /\ Lost
    /\ unread' = <<>> /\ readIdx' = 0
    /\ Make(h)
    /\ pc' = "parse"
    /\ UNCHANGED <<listening, cmdbuf, line>>

\* accept fails, as when descriptors have run out: the host still waits, and the task
\* looks at nothing else.
AcceptRefused(h) ==
    /\ pc = "select" /\ peer[h] = "pending"
    /\ pc' = "parse"
    /\ UNCHANGED <<hosts, listening, session, state, input, line, rng, want, stale, owed>>

\* setsockopt fails: both connections are closed.
AcceptFails(h) ==
    /\ pc = "select" /\ peer[h] = "pending"
    /\ peer' = [AtSession(peer, "closed") EXCEPT ![h] = "closed"] /\ Lost /\ Free
    /\ pc' = "parse"
    /\ UNCHANGED <<listening, cr, cmdbuf, line, rng, stale, owed>>

\* Data is sent; then the same turn looks at the input.
SendOut ==
    /\ pc = "select" /\ NoneWaits /\ state # "INIT" /\ Avail(rng) > 0
    /\ rng' = Send(rng)
    /\ owed' = SubSeq(owed, Avail(rng) + 1, Len(owed))
    /\ pc' = "recv"
    /\ UNCHANGED <<hosts, listening, session, state, input, line, want, stale>>

\* send, or recv, reports that the host is gone; or recv that it has closed.
Broken ==
    /\ state # "INIT" /\ peer[session] = "left"
    /\ \/ pc = "select" /\ NoneWaits /\ Avail(rng) > 0
       \/ pc = "select" /\ NoneWaits /\ Insize > 0 /\ net[session] = <<>>
       \/ pc = "recv" /\ Insize > 0 /\ net[session] = <<>>
    /\ peer' = AtSession(peer, "closed") /\ Lost /\ Free
    /\ pc' = "parse"
    /\ UNCHANGED <<listening, cr, cmdbuf, line, rng, stale, owed>>

Recv ==
    /\ pc = "recv" \/ (pc = "select" /\ NoneWaits)
    /\ state # "INIT" /\ Insize > 0
    /\ \E n \in 1..Len(net[session]) :
         /\ n <= Insize
         /\ unread' = unread \o SubSeq(net[session], 1, n)
         /\ net' = [net EXCEPT ![session] = SubSeq(@, n + 1, Len(@))]
    /\ pc' = "parse"
    /\ UNCHANGED <<peer, toks, typed, listening, session, state, cr, readIdx, cmdbuf,
                   line, rng, want, stale, owed>>

NothingToRead ==
    /\ pc = "recv" /\ (Insize = 0 \/ net[session] = <<>>)
    /\ pc' = "parse"
    /\ UNCHANGED <<hosts, listening, session, state, input, line, rng, want, stale, owed>>

-----------------------------------------------------------------------------
Task ==
    \/ Option \/ Character \/ EndOfLine \/ EndOfInput \/ NoSession
    \/ Auth \/ Exec \/ Quit
    \/ Activate \/ \E h \in Host : Accept(h) \/ AcceptRefused(h) \/ AcceptFails(h)
    \/ SendOut \/ Broken \/ Recv \/ NothingToRead

Next ==
    \/ Task
    \/ \E h \in Host : Connect(h) \/ Leave(h) \/ \E tok \in NextTokens(h) : Type(h, tok)

Spec == Init /\ [][Next]_vars

\* The task runs; hosts do what they like.
FairSpec == Spec /\ WF_vars(Task)
-----------------------------------------------------------------------------
\* Properties.

\* The type invariant.
TypeOK ==
    /\ peer \in [Host -> {"none", "pending", "open", "left", "closed"}]
    /\ session \in Host \cup {NoHost}
    /\ state \in {"INIT", "SYNC", "USER", "PASS", "SESSION"}
    /\ state = "INIT" <=> session = NoHost
    /\ readIdx + Len(unread) \in 0..InSize
    /\ listening \in BOOLEAN /\ cr \in BOOLEAN /\ stale \in BOOLEAN
    /\ overrun \in BOOLEAN /\ spoilt \in BOOLEAN
    /\ pc \in {"parse", "line", "select", "recv", "dead"}

\* The indices of the output ring stay in it, whatever is echoed and sent.
RingShape == Shape(rng)

\* What the ring still has to send is what was taken into it and not sent, in
\* this order, also across the wrap.
OutputInOrder == Contents(rng) = owed

\* A connection other than the session's is not left open.
OneSession == \A h \in Host : peer[h] \in {"open", "left"} => session = h

\* The line that is run is the one the host typed, however its bytes arrive,
\* options lie between them and the input buffer is moved; except for one that has
\* outgrown cmd_buf, and for a first line, in front of which the line the host before
\* broke off is left.
LineIsTyped ==
    [][pc = "parse" /\ pc' = "line" /\ ~stale /\ ~overrun =>
          want[session] # <<>> /\ line' = Head(want[session])]_vars

\* An option begins the input and has not all come, it is not moved to the front, and
\* there is no room for the rest: nothing is received any more.
Stuck == unread # <<>> /\ Head(unread) = "iac" /\ OptionLen = 0 /\ Insize = 0

\* A line that was typed is run in the end, unless the session ends, an option is
\* stuck, a line that has outgrown cmd_buf has killed the process, or another host
\* waits, behind which, should accept fail over and over, the session waits too.
LineGetsRun ==
    session # NoHost /\ want[session] # <<>> ~>
        \/ session = NoHost \/ want[session] = <<>>
        \/ Stuck \/ pc = "dead" \/ ~NoneWaits
=============================================================================
