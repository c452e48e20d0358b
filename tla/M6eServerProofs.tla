-------------------------- MODULE M6eServerProofs --------------------------
(***************************************************************************)
(* Proofs about M6eServer, for every number of hosts, descriptors and send *)
(* threads.  However hosts overlap, the comparison of descriptor numbers   *)
(* by which a client thread notices that another client has been accepted  *)
(* tells connections apart, though numbers are reused and m6e_shutdown     *)
(* closes descriptors its caller does not own.  When hosts come one after  *)
(* the other and send no gpi, one thread at a time listens to the line,    *)
(* continueRead is up only while one send thread is there, which lowers it *)
(* or has missed the answer it waits for, and no connection is closed but  *)
(* by its own thread.  When nobody asks for continuous reading, answers go *)
(* to those who asked, though those to gpi come as late as they like.      *)
(***************************************************************************)
EXTENDS M6eServer, SequenceTheorems, FiniteSetTheorems, TLAPS

\* All that matters of the client threads: each has a place and a pc.
Shape ==
    /\ cl = [c \in Conn |-> cl[c]]
    /\ \A c \in Conn : "pc" \in DOMAIN cl[c]

Tables ==
    /\ fds \in [Fd -> Conn \cup {NoConn}]
    /\ clientFd \in Fd \cup {NoFd}
    /\ Shape

\* client_fd, when it names an open descriptor, names the latest connection:
\* it is set by accept only, and to a number that was free.
NameIsLatest == clientFd \in Fd => fds[clientFd] \in {NoConn, latest}

NameInv == Tables /\ NameIsLatest

\* The initial state satisfies the invariant: nothing is open.
LEMMA NameInit == Init => NameInv
<1> SUFFICES ASSUME Init PROVE NameInv
    OBVIOUS
<1>1. Shape
    BY DEF Init, Shape
<1>2. clientFd = NoFd /\ fds \in [Fd -> Conn \cup {NoConn}]
    BY DEF Init
<1>3. NoFd \notin Fd
    BY ServerAssumption DEF NoFd
<1> QED
    BY <1>1, <1>2, <1>3 DEF NameInv, Tables, NameIsLatest

\* Steps that leave the descriptor table, client_fd and latest alone keep it.
LEMMA NameKept ==
    ASSUME NameInv, UNCHANGED <<fds, clientFd, latest>>,
           Shape'
    PROVE  NameInv'
BY DEF NameInv, Tables, NameIsLatest

\* A client thread changes an entry of the table of threads only.
LEMMA OwnEntry ==
    ASSUME Shape, NEW c \in Conn, ClientThread(c)
    PROVE  Shape'
<1> USE DEF Goto, Shape
<1>1. CASE ClientBegin(c) \/ ClientCopy(c) \/ ClientSelect(c) \/ ClientError(c)
    BY <1>1 DEF ClientBegin, ClientCopy, ClientSelect, ClientError
<1>2. CASE ClientNothing(c) \/ ClientNoCommand(c) \/ ClientGpi(c) \/ ClientTry(c)
    BY <1>2 DEF ClientNothing, ClientNoCommand, ClientGpi, ClientTry
<1>3. CASE ClientCommand(c)
    BY <1>3 DEF ClientCommand
<1>4. CASE ClientAwait(c)
    BY <1>4 DEF ClientAwait
<1>5. CASE ClientTimeout(c) \/ ClientCheck(c) \/ ClientFlag(c)
    BY <1>5 DEF ClientTimeout, ClientCheck, ClientFlag
<1>6. CASE ClientEnd(c) \/ ClientClose(c) \/ ClientForget(c)
    BY <1>6 DEF ClientEnd, ClientClose, ClientForget
<1> QED
    BY <1>1, <1>2, <1>3, <1>4, <1>5, <1>6 DEF ClientThread

\* accept gives a free number to the new connection, and client_fd with it.
LEMMA NameAccept ==
    ASSUME NameInv, NEW c \in Conn, Accept(c)
    PROVE  NameInv'
<1>1. PICK f \in FreeFds : fds' = [fds EXCEPT ![f] = c] /\ clientFd' = f
    BY DEF Accept
<1>2. f \in Fd
    BY <1>1 DEF FreeFds
<1> QED
    BY <1>1, <1>2 DEF Accept, NameInv, Tables, NameIsLatest, Shape

\* Closing a descriptor, whichever it is, or forgetting client_fd keeps it.
LEMMA NameClosed ==
    ASSUME NameInv, latest' = latest,
           Shape',
           \/ clientFd' = clientFd /\ \E f : fds' = [fds EXCEPT ![f] = NoConn]
           \/ clientFd' = clientFd /\ CloseCurrent
           \/ fds' = fds /\ Forget
    PROVE  NameInv'
BY ServerAssumption DEF NameInv, Tables, NameIsLatest, CloseCurrent, Forget, NoFd

\* The steps of a client thread keep it.
LEMMA NameClient ==
    ASSUME NameInv, NEW c \in Conn, ClientThread(c)
    PROVE  NameInv'
<1>1. Shape'
    BY OwnEntry DEF NameInv, Tables
<1>2. CASE UNCHANGED <<fds, clientFd, latest>>
    BY <1>1, <1>2, NameKept
<1>3. CASE ClientError(c) \/ ClientClose(c) \/ ClientForget(c)
    BY <1>1, <1>3, NameClosed DEF ClientError, ClientClose, ClientForget, Leaves, history
<1> QED
    BY <1>2, <1>3
    DEF ClientThread, ClientBegin, ClientCopy, ClientSelect, ClientNothing, ClientCommand,
        ClientNoCommand, ClientGpi, ClientTry, ClientAwait, ClientTimeout, ClientCheck,
        ClientFlag, ClientEnd, Receives, Leaves, history

\* The steps of a send thread keep it.
LEMMA NameSender ==
    ASSUME NameInv, NEW s \in Sender, SendThread(s)
    PROVE  NameInv'
<1>1. Shape'
    BY DEF SendThread, SenderTop, SenderRecv, SenderTimeout, SenderTest, SenderClear,
           SenderEnd, SenderClose, SenderForget, NameInv, Tables, Shape
<1>2. CASE UNCHANGED <<fds, clientFd, latest>>
    BY <1>1, <1>2, NameKept
<1>3. CASE SenderClose(s) \/ SenderForget(s)
    BY <1>1, <1>3, NameClosed DEF SenderClose, SenderForget, history
<1> QED
    BY <1>2, <1>3
    DEF SendThread, SenderTop, SenderRecv, SenderTimeout, SenderTest, SenderClear, SenderEnd,
        history

\* The invariant is inductive.
LEMMA NameNext == NameInv /\ [Next]_vars => NameInv'
<1> SUFFICES ASSUME NameInv, [Next]_vars PROVE NameInv'
    OBVIOUS
<1>1. ASSUME NEW c \in Conn, Host(c) PROVE NameInv'
    BY <1>1, NameKept DEF Host, HostConnect, HostSend, HostLeave, NameInv, Tables, Shape,
                          history
<1>2. CASE AcceptFails
    BY <1>2, ServerAssumption
       DEF AcceptFails, NameInv, Tables, NameIsLatest, NoFd, Shape, history
<1>3. CASE ModuleAnswer \/ ModuleTag
    BY <1>3, NameKept DEF ModuleAnswer, ModuleTag, NameInv, Tables, Shape, history
<1>4. CASE UNCHANGED vars
    BY <1>4, NameKept DEF vars, history, NameInv, Tables, Shape
<1> QED
    BY <1>1, <1>2, <1>3, <1>4, NameAccept, NameClient, NameSender DEF Next

\* In every reachable state client_fd names the latest connection or none.
THEOREM NameInvariant == Spec => []NameInv
BY NameInit, NameNext, PTL DEF Spec

-----------------------------------------------------------------------------
(* The types.                                                              *)

HostTypes ==
    /\ peer \in [Conn -> {"none", "pending", "open", "closed", "reset"}]
    /\ inbox \in [Conn -> Seq(Command)] /\ sent \in [Conn -> Nat]

FdTypes ==
    /\ fds \in [Fd -> Conn \cup {NoConn}]
    /\ clientFd \in Fd \cup {NoFd} /\ continueRead \in BOOLEAN

HistoryTypes ==
    /\ latest \in Conn \cup {NoConn} /\ recent \in [Conn -> SUBSET (Conn \cup {NoConn})]
    /\ missed \subseteq Sender

ClientRecord == [pc : ClientPc, fd : Fd \cup {NoFd}, buf : Kind \cup {""},
                 op : {"", "2F", "a", "b", "gpi"}]
SenderRecord == [pc : SenderPc, fd : Fd \cup {NoFd}, buf : Kind \cup {""}, stop : 0..2]

\* A thread receives only from what is a descriptor: select has looked at it.
ClientTypes ==
    /\ cl \in [Conn -> ClientRecord]
    /\ \A c \in Conn : cl[c].pc = "recv" => cl[c].fd \in Fd

SenderTypes == snd \in [Sender -> SenderRecord]

LineTypes == cmdq \in Seq(AFrame) /\ rx \in Seq(AFrame) /\ reading \in BOOLEAN

ServerTypes == HostTypes /\ FdTypes /\ ClientTypes /\ SenderTypes /\ LineTypes

\* Commands are frames of the line; what a host sent first is one.
LEMMA CommandFacts ==
    /\ Command \subseteq Kind
    /\ \A k \in Command, c \in Conn \cup {NoConn} : Frame(k, c) \in AFrame
    /\ \A c \in Conn \cup {NoConn} : Frame("tag", c) \in AFrame /\ Frame("stop", c) \in AFrame
    /\ \A k \in Command \ {"gpo"} : Op(k) \in {"", "2F", "a", "b", "gpi"}
BY ServerAssumption DEF Kind, Frame, AFrame, Op

\* The line keeps its type, whatever is put on it or taken from it.
LEMMA LineFacts ==
    ASSUME NEW q \in Seq(AFrame)
    PROVE  /\ \A f \in AFrame : Append(q, f) \in Seq(AFrame) /\ <<f>> \in Seq(AFrame)
           /\ q # <<>> => /\ Tail(q) \in Seq(AFrame) /\ Head(q) \in AFrame
                          /\ Head(q).kind \in Kind
<1>1. \A f \in AFrame : Append(q, f) \in Seq(AFrame) /\ <<f>> \in Seq(AFrame)
    OBVIOUS
<1>2. q # <<>> => Tail(q) \in Seq(AFrame) /\ Head(q) \in AFrame
    OBVIOUS
<1>3. \A f \in AFrame : f.kind \in Kind
    BY DEF AFrame
<1> QED
    BY <1>1, <1>2, <1>3

\* The initial state has the types.
LEMMA TypesInit == Init => ServerTypes
<1> SUFFICES ASSUME Init PROVE ServerTypes
    OBVIOUS
<1>1. HostTypes /\ LineTypes
    BY EmptySeq DEF Init, HostTypes, LineTypes
<1>2. FdTypes
    BY DEF Init, FdTypes
<1>3. ClientTypes
    <2>1. [pc |-> "none", fd |-> NoFd, buf |-> "", op |-> ""] \in ClientRecord
        BY DEF ClientRecord, ClientPc
    <2> QED
        BY <2>1 DEF Init, ClientTypes
<1>4. SenderTypes
    <2>1. [pc |-> "none", fd |-> NoFd, buf |-> "", stop |-> 0] \in SenderRecord
        BY DEF SenderRecord, SenderPc
    <2> QED
        BY <2>1 DEF Init, SenderTypes
<1> QED
    BY <1>1, <1>2, <1>3, <1>4 DEF ServerTypes

\* Hosts and the module keep them.
LEMMA TypesAround ==
    ASSUME ServerTypes,
           \/ \E c \in Conn : Host(c)
           \/ ModuleAnswer \/ ModuleTag
    PROVE  ServerTypes'
<1> USE DEF ServerTypes
<1>1. ASSUME NEW c \in Conn, HostConnect(c) \/ HostLeave(c) PROVE ServerTypes'
    BY <1>1 DEF HostConnect, HostLeave, HostTypes, FdTypes, ClientTypes, SenderTypes,
                LineTypes, line
<1>2. ASSUME NEW c \in Conn, NEW k \in Command, HostSend(c, k) PROVE ServerTypes'
    BY <1>2 DEF HostSend, HostTypes, FdTypes, ClientTypes, SenderTypes, LineTypes, line
<1>3. CASE ModuleAnswer
    <2>1. LineTypes'
        BY <1>3, LineFacts DEF ModuleAnswer, LineTypes
    <2> QED
        BY <1>3, <2>1 DEF ModuleAnswer, HostTypes, FdTypes, ClientTypes, SenderTypes, hosts
<1>4. CASE ModuleTag
    <2>1. LineTypes'
        BY <1>4, LineFacts, CommandFacts DEF ModuleTag, LineTypes
    <2> QED
        BY <1>4, <2>1 DEF ModuleTag, HostTypes, FdTypes, ClientTypes, SenderTypes, hosts
<1> QED
    BY <1>1, <1>2, <1>3, <1>4 DEF Host

\* What an entry of either table holds.
LEMMA Entries ==
    ASSUME ClientTypes, SenderTypes
    PROVE  /\ \A c \in Conn : cl[c].fd \in Fd \cup {NoFd}
           /\ \A s \in Sender : snd[s].fd \in Fd \cup {NoFd}
BY DEF ClientTypes, SenderTypes, ClientRecord, SenderRecord

\* What the steps of a client thread change of its entry keeps the table's type.
LEMMA EntryChanged ==
    ASSUME ClientTypes, NEW c \in Conn, NEW label \in ClientPc, label # "recv",
           NEW f \in Fd \cup {NoFd}, NEW b \in Kind, NEW o \in {"", "2F", "a", "b", "gpi"},
           \/ cl' = [cl EXCEPT ![c].pc = label, ![c].fd = f]
           \/ cl' = [cl EXCEPT ![c].pc = label, ![c].buf = b]
           \/ cl' = [cl EXCEPT ![c].pc = label, ![c].buf = b, ![c].op = o]
    PROVE  ClientTypes'
<1>1. cl[c] \in ClientRecord
    BY DEF ClientTypes
<1>2. \E r \in {[cl[c] EXCEPT !.pc = label, !.fd = f],
                [cl[c] EXCEPT !.pc = label, !.buf = b],
                [cl[c] EXCEPT !.pc = label, !.buf = b, !.op = o]} :
        cl' = [cl EXCEPT ![c] = r]
    BY DEF ClientTypes
<1>3. \A r \in {[cl[c] EXCEPT !.pc = label, !.fd = f],
                [cl[c] EXCEPT !.pc = label, !.buf = b],
                [cl[c] EXCEPT !.pc = label, !.buf = b, !.op = o]} :
        r \in ClientRecord /\ r.pc = label
    BY <1>1 DEF ClientRecord
<1>4. PICK r \in ClientRecord : cl' = [cl EXCEPT ![c] = r] /\ r.pc = label
    BY <1>2, <1>3
<1> QED
    BY <1>4 DEF ClientTypes

\* The same of a send thread.
LEMMA SenderChanged ==
    ASSUME SenderTypes, NEW s \in Sender, NEW label \in SenderPc, NEW b \in Kind,
           NEW n \in 0..2,
           \/ snd' = [snd EXCEPT ![s].pc = label, ![s].stop = n]
           \/ snd' = [snd EXCEPT ![s].pc = label, ![s].buf = b]
           \/ snd' = [snd EXCEPT ![s].pc = label, ![s].buf = b, ![s].stop = n]
    PROVE  SenderTypes'
<1>1. snd[s] \in SenderRecord
    BY DEF SenderTypes
<1>2. \E r \in {[snd[s] EXCEPT !.pc = label, !.stop = n],
                [snd[s] EXCEPT !.pc = label, !.buf = b],
                [snd[s] EXCEPT !.pc = label, !.buf = b, !.stop = n]} :
        snd' = [snd EXCEPT ![s] = r]
    BY DEF SenderTypes
<1>3. \A r \in {[snd[s] EXCEPT !.pc = label, !.stop = n],
                [snd[s] EXCEPT !.pc = label, !.buf = b],
                [snd[s] EXCEPT !.pc = label, !.buf = b, !.stop = n]} : r \in SenderRecord
    BY <1>1 DEF SenderRecord
<1> QED
    BY <1>2, <1>3 DEF SenderTypes

\* A jump of a client thread keeps the table's type.
LEMMA Jump ==
    ASSUME ClientTypes, NEW c \in Conn, NEW label \in ClientPc, Goto(c, label),
           label = "recv" => cl[c].fd \in Fd
    PROVE  ClientTypes'
BY DEF ClientTypes, ClientRecord, Goto

\* The accept loop keeps them.
LEMMA TypesAccept ==
    ASSUME ServerTypes, AcceptFails \/ \E c \in Conn : Accept(c)
    PROVE  ServerTypes'
<1> USE DEF ServerTypes
<1>1. CASE AcceptFails
    BY <1>1 DEF AcceptFails, HostTypes, FdTypes, ClientTypes, SenderTypes, LineTypes, hosts,
                line
<1>2. ASSUME NEW c \in Conn, Accept(c) PROVE ServerTypes'
    <2>1. HostTypes' /\ FdTypes'
        BY <1>2 DEF Accept, FreeFds, HostTypes, FdTypes
    <2>2. ClientTypes'
        BY <1>2, Jump DEF Accept, Goto, ClientPc
    <2> QED
        BY <1>2, <2>1, <2>2 DEF Accept, SenderTypes, LineTypes, line
<1> QED
    BY <1>1, <1>2

\* m6e_shutdown keeps the descriptors' types.
LEMMA TypesShutdown ==
    ASSUME FdTypes, UNCHANGED continueRead,
           \/ CloseCurrent /\ UNCHANGED clientFd
           \/ Forget /\ UNCHANGED fds
    PROVE  FdTypes'
BY DEF FdTypes, CloseCurrent, Forget

\* The steps of a client thread keep them.
LEMMA TypesClient ==
    ASSUME ServerTypes, NEW c \in Conn, ClientThread(c)
    PROVE  ServerTypes'
<1> USE DEF ServerTypes
<1>1. CASE ClientBegin(c)
    <2>1. ClientTypes'
        BY <1>1, Jump DEF ClientBegin, ClientPc
    <2> QED
        BY <1>1, <2>1 DEF ClientBegin, HostTypes, FdTypes, SenderTypes, LineTypes, hosts, line
<1>2. CASE ClientCopy(c)
    <2>1. ClientTypes'
        <3>1. "wait" \in ClientPc /\ "tag" \in Kind /\ clientFd \in Fd \cup {NoFd}
            BY DEF ClientPc, Kind, FdTypes
        <3> QED
            BY <1>2, <3>1, EntryChanged DEF ClientCopy
    <2> QED
        BY <1>2, <2>1 DEF ClientCopy, HostTypes, FdTypes, SenderTypes, LineTypes, hosts, line
<1>3. CASE ClientSelect(c)
    <2>1. ClientTypes'
        BY <1>3, Jump DEF ClientSelect, ClientPc
    <2> QED
        BY <1>3, <2>1 DEF ClientSelect, HostTypes, FdTypes, SenderTypes, LineTypes, hosts, line
<1>4. CASE ClientError(c)
    <2>1. FdTypes'
        BY <1>4 DEF ClientError, FdTypes
    <2>2. "end" \in ClientPc /\ "tag" \in Kind
        BY DEF ClientPc, Kind
    <2>3. ClientTypes'
        BY <1>4, <2>2, EntryChanged DEF ClientError
    <2> QED
        BY <1>4, <2>1, <2>3 DEF ClientError, HostTypes, SenderTypes, LineTypes, hosts, line
<1>5. CASE ClientNothing(c)
    <2>1. ClientTypes'
        BY <1>5, Jump DEF ClientNothing, ClientPc
    <2> QED
        BY <1>5, <2>1 DEF ClientNothing, HostTypes, FdTypes, SenderTypes, LineTypes, hosts, line
<1>6. ASSUME Receives(c)
      PROVE  /\ fds[cl[c].fd] \in Conn
             /\ Received(c) \in Seq(Command) /\ Received(c) # <<>>
             /\ inbox' \in [Conn -> Seq(Command)]
    BY <1>6 DEF Receives, Received, ClientTypes, FdTypes, HostTypes
<1>7. CASE ClientCommand(c)
    <2>1. Head(Received(c)) \in Command /\ Head(Received(c)) # "gpo"
        BY <1>6, <1>7 DEF ClientCommand
    <2>2. ClientTypes'
        <3> DEFINE k == Head(Received(c))
                   label == IF k = "gpi" THEN "gpi" ELSE "try"
        <3>1. cl' = [cl EXCEPT ![c].pc = label, ![c].buf = k, ![c].op = Op(k)]
            BY <1>7 DEF ClientCommand
        <3>2. label \in ClientPc /\ label # "recv" /\ k \in Kind
              /\ Op(k) \in {"", "2F", "a", "b", "gpi"}
            BY <2>1, CommandFacts DEF ClientPc
        <3> HIDE DEF k, label
        <3> QED
            BY <3>1, <3>2, EntryChanged
    <2>3. LineTypes'
        BY <1>6, <1>7, <2>1, CommandFacts, LineFacts DEF ClientCommand, LineTypes
    <2>4. HostTypes'
        BY <1>6, <1>7 DEF ClientCommand, HostTypes
    <2> QED
        BY <1>7, <2>2, <2>3, <2>4 DEF ClientCommand, FdTypes, SenderTypes
<1>8. CASE ClientNoCommand(c)
    <2>1. ClientTypes'
        BY <1>8, Jump DEF ClientNoCommand, ClientPc
    <2>2. HostTypes'
        BY <1>6, <1>8 DEF ClientNoCommand, HostTypes
    <2> QED
        BY <1>8, <2>1, <2>2 DEF ClientNoCommand, FdTypes, SenderTypes, LineTypes, line
<1>9. CASE ClientGpi(c)
    <2>1. ClientTypes'
        BY <1>9, Jump DEF ClientGpi, ClientPc
    <2>2. LineTypes'
        BY <1>9, LineFacts DEF ClientGpi, LineTypes
    <2> QED
        BY <1>9, <2>1, <2>2 DEF ClientGpi, HostTypes, FdTypes, SenderTypes, hosts
<1>10. CASE ClientTry(c)
    <2>1. ClientTypes'
        BY <1>10, Jump DEF ClientTry, ClientPc
    <2> QED
        BY <1>10, <2>1 DEF ClientTry, HostTypes, FdTypes, SenderTypes, LineTypes, hosts, line
<1>11. CASE ClientAwait(c)
    <2>1. rx' \in Seq(AFrame) /\ Head(rx).kind \in Kind
        BY <1>11, LineFacts DEF ClientAwait, LineTypes
    <2>2. ClientTypes'
        <3>1. PICK label \in {"check", "try"} :
                cl' = [cl EXCEPT ![c].pc = label, ![c].buf = Head(rx).kind]
            BY <1>11 DEF ClientAwait
        <3>2. label \in ClientPc /\ label # "recv"
            BY DEF ClientPc
        <3> QED
            BY <2>1, <3>1, <3>2, EntryChanged
    <2> QED
        BY <1>11, <2>1, <2>2
           DEF ClientAwait, HostTypes, FdTypes, SenderTypes, LineTypes, hosts
<1>12. CASE ClientTimeout(c)
    <2>1. ClientTypes'
        BY <1>12, Jump DEF ClientTimeout, ClientPc
    <2> QED
        BY <1>12, <2>1
           DEF ClientTimeout, HostTypes, FdTypes, SenderTypes, LineTypes, hosts, line
<1>13. CASE ClientCheck(c)
    <2>1. ClientTypes'
        BY <1>13, Jump DEF ClientCheck, ClientPc
    <2>2. SenderTypes'
        <3>1. CASE UNCHANGED snd
            BY <3>1 DEF SenderTypes
        <3>2. CASE \E s \in Sender :
                     snd' = [snd EXCEPT ![s] =
                        [pc |-> "top", fd |-> cl[c].fd, buf |-> "", stop |-> 0]]
            <4>1. [pc |-> "top", fd |-> cl[c].fd, buf |-> "", stop |-> 0] \in SenderRecord
                BY Entries DEF SenderRecord, SenderPc
            <4> QED
                BY <3>2, <4>1 DEF SenderTypes
        <3> QED
            BY <1>13, <3>1, <3>2 DEF ClientCheck
    <2> QED
        BY <1>13, <2>1, <2>2 DEF ClientCheck, HostTypes, FdTypes, LineTypes, hosts, line
<1>14. CASE ClientFlag(c)
    <2>1. ClientTypes'
        BY <1>14, Jump DEF ClientFlag, ClientPc
    <2> QED
        BY <1>14, <2>1 DEF ClientFlag, HostTypes, FdTypes, SenderTypes, LineTypes, hosts, line
<1>15. CASE ClientEnd(c)
    <2>1. ClientTypes'
        BY <1>15, Jump DEF ClientEnd, ClientPc
    <2> QED
        BY <1>15, <2>1 DEF ClientEnd, HostTypes, FdTypes, SenderTypes, LineTypes, hosts, line
<1>16. CASE ClientClose(c) \/ ClientForget(c)
    <2>1. ClientTypes'
        BY <1>16, Jump DEF ClientClose, ClientForget, ClientPc
    <2>2. FdTypes'
        BY <1>16, TypesShutdown DEF ClientClose, ClientForget
    <2> QED
        BY <1>16, <2>1, <2>2
           DEF ClientClose, ClientForget, HostTypes, SenderTypes, LineTypes, hosts, line
<1> QED
    BY <1>1, <1>2, <1>3, <1>4, <1>5, <1>7, <1>8, <1>9, <1>10, <1>11, <1>12, <1>13, <1>14,
       <1>15, <1>16 DEF ClientThread

\* The steps of a send thread keep them.
LEMMA TypesSender ==
    ASSUME ServerTypes, NEW s \in Sender, SendThread(s)
    PROVE  ServerTypes'
<1> USE DEF ServerTypes
<1>1. ASSUME SendStop PROVE cmdq' \in Seq(AFrame)
    BY <1>1, CommandFacts, LineFacts DEF SendStop, LineTypes
<1>2. ASSUME NEW label \in SenderPc, SenderGoto(s, label) PROVE SenderTypes'
    BY <1>2 DEF SenderGoto, SenderTypes, SenderRecord
<1>3. CASE SenderTop(s)
    <2>1. SenderTypes'
        <3>1. CASE SenderGoto(s, "recv")
            BY <1>2, <3>1 DEF SenderPc
        <3>2. CASE snd' = [snd EXCEPT ![s].pc = "recv", ![s].stop = 2]
            <4>1. "recv" \in SenderPc /\ 2 \in 0..2 /\ "tag" \in Kind
                BY DEF SenderPc, Kind
            <4> QED
                BY <3>2, <4>1, SenderChanged
        <3> QED
            BY <1>3, <3>1, <3>2 DEF SenderTop
    <2>2. LineTypes'
        BY <1>1, <1>3 DEF SenderTop, LineTypes
    <2> QED
        BY <1>3, <2>1, <2>2 DEF SenderTop, HostTypes, FdTypes, ClientTypes, hosts
<1>4. CASE SenderRecv(s)
    <2>1. rx' \in Seq(AFrame) /\ Head(rx).kind \in Kind
        BY <1>4, LineFacts DEF SenderRecv, LineTypes
    <2>2. SenderTypes'
        <3>1. PICK b \in Kind :
                \/ snd' = [snd EXCEPT ![s].pc = "test", ![s].buf = b, ![s].stop = 1]
                \/ snd' = [snd EXCEPT ![s].pc = "test", ![s].buf = b]
            BY <1>4, <2>1 DEF SenderRecv
        <3>2. "test" \in SenderPc /\ 1 \in 0..2
            BY DEF SenderPc
        <3>3. CASE snd' = [snd EXCEPT ![s].pc = "test", ![s].buf = b, ![s].stop = 1]
            BY <3>2, <3>3, SenderChanged
        <3>4. CASE snd' = [snd EXCEPT ![s].pc = "test", ![s].buf = b]
            BY <3>2, <3>4, SenderChanged
        <3> QED
            BY <3>1, <3>3, <3>4
    <2>3. cmdq' \in Seq(AFrame)
        BY <1>1, <1>4 DEF SenderRecv, LineTypes
    <2> QED
        BY <1>4, <2>1, <2>2, <2>3
           DEF SenderRecv, HostTypes, FdTypes, ClientTypes, LineTypes, hosts
<1>5. CASE SenderTimeout(s) \/ SenderTest(s) \/ SenderClear(s) \/ SenderEnd(s)
    <2>1. SenderTypes'
        BY <1>2, <1>5 DEF SenderTimeout, SenderTest, SenderClear, SenderEnd, SenderPc
    <2> QED
        BY <1>5, <2>1 DEF SenderTimeout, SenderTest, SenderClear, SenderEnd, HostTypes,
                          FdTypes, ClientTypes, LineTypes, hosts, line
<1>6. CASE SenderClose(s) \/ SenderForget(s)
    <2>1. SenderTypes'
        BY <1>2, <1>6 DEF SenderClose, SenderForget, SenderPc
    <2>2. FdTypes'
        BY <1>6, TypesShutdown DEF SenderClose, SenderForget
    <2> QED
        BY <1>6, <2>1, <2>2 DEF SenderClose, SenderForget, HostTypes, ClientTypes, LineTypes,
                                hosts, line
<1> QED
    BY <1>3, <1>4, <1>5, <1>6 DEF SendThread

\* Every step keeps them.
LEMMA TypesNext == ServerTypes /\ [Next]_vars => ServerTypes'
<1> SUFFICES ASSUME ServerTypes, [Next]_vars PROVE ServerTypes'
    OBVIOUS
<1>1. CASE UNCHANGED vars
    BY <1>1 DEF vars, hosts, line, ServerTypes, HostTypes, FdTypes, ClientTypes, SenderTypes,
                LineTypes
<1> QED
    BY <1>1, TypesAround, TypesAccept, TypesClient, TypesSender DEF Next

\* The history variables start with theirs, and keep them.
LEMMA HistoryInit == Init => HistoryTypes
BY DEF Init, HistoryTypes

LEMMA HistoryNext == HistoryTypes /\ [Next]_vars => HistoryTypes'
<1> SUFFICES ASSUME HistoryTypes, [Next]_vars PROVE HistoryTypes'
    OBVIOUS
<1> USE DEF HistoryTypes
<1>1. ASSUME NEW c \in Conn, Accept(c) PROVE HistoryTypes'
    BY <1>1 DEF Accept
<1>2. ASSUME NEW c \in Conn, ClientSelect(c) PROVE HistoryTypes'
    BY <1>2 DEF ClientSelect
<1>3. ASSUME NEW c \in Conn, Leaves(c) PROVE HistoryTypes'
    BY <1>3 DEF Leaves
<1>4. ASSUME NEW c \in Conn, ClientCheck(c) PROVE HistoryTypes'
    BY <1>4 DEF ClientCheck
<1>5. ASSUME NEW s \in Sender, SenderTest(s) PROVE HistoryTypes'
    BY <1>5 DEF SenderTest
<1>6. CASE UNCHANGED history
    BY <1>6 DEF history
<1>7. ASSUME NEW c \in Conn, ClientThread(c) PROVE HistoryTypes'
    BY <1>2, <1>3, <1>4, <1>6, <1>7
       DEF ClientThread, ClientBegin, ClientCopy, ClientError, ClientNothing, ClientCommand,
           ClientNoCommand, Receives, ClientGpi, ClientTry, ClientAwait, ClientTimeout,
           ClientFlag, ClientEnd, ClientClose, ClientForget
<1>8. ASSUME NEW s \in Sender, SendThread(s) PROVE HistoryTypes'
    BY <1>5, <1>6, <1>8
       DEF SendThread, SenderTop, SenderRecv, SenderTimeout, SenderClear, SenderEnd,
           SenderClose, SenderForget
<1>9. CASE AcceptFails \/ ModuleAnswer \/ ModuleTag \/ UNCHANGED vars
    BY <1>6, <1>9 DEF AcceptFails, ModuleAnswer, ModuleTag, vars
<1>10. ASSUME NEW c \in Conn, Host(c) PROVE HistoryTypes'
    BY <1>6, <1>10 DEF Host, HostConnect, HostSend, HostLeave
<1> QED
    BY <1>1, <1>7, <1>8, <1>9, <1>10 DEF Next

\* The types: however hosts overlap and whichever thread closes which descriptor,
\* client_fd is one or -1, and a thread receives from a descriptor only.
THEOREM ServerTypeCorrect == Spec => []TypeOK
<1>1. ServerTypes /\ HistoryTypes => TypeOK
    BY DEF ServerTypes, HostTypes, FdTypes, ClientTypes, SenderTypes, LineTypes,
           HistoryTypes, ClientRecord, SenderRecord, TypeOK
<1> QED
    BY <1>1, TypesInit, TypesNext, HistoryInit, HistoryNext, PTL DEF Spec
-----------------------------------------------------------------------------
(* The descriptors: which are closed, and whom client threads serve.        *)

Working == {"wait", "recv", "gpi", "try", "await", "check", "flag"}

\* Descriptors are only closed, and client_fd is only forgotten.
Closes ==
    /\ clientFd' \in {clientFd, NoFd}
    /\ \A f \in Fd : fds'[f] \in {fds[f], NoConn}

\* A step of a client thread, as far as descriptors go.
LEMMA ClientFds ==
    ASSUME ServerTypes, HistoryTypes, NEW c \in Conn, ClientThread(c)
    PROVE  /\ UNCHANGED <<peer, latest>> /\ Closes
           /\ \A d \in Conn \ {c} : cl'[d] = cl[d]
           /\ cl'[c].pc \in Working =>
                \/ cl[c].pc \in Working /\ cl'[c].fd = cl[c].fd
                \/ cl[c].pc = "copy" /\ cl'[c].fd = clientFd
           /\ cl'[c].pc = "recv" => ClientSelect(c)
           /\ \A d \in Conn \ {c} : recent'[d] = recent[d]
           /\ \/ UNCHANGED snd
              \/ /\ cl[c].pc = "check"
                 /\ \E s \in Sender :
                      /\ snd'[s].pc = "top" /\ snd'[s].fd = cl[c].fd /\ snd'[s].stop = 0
                      /\ \A t \in Sender \ {s} : snd'[t] = snd[t]
<1> USE DEF Closes, Working
<1>1. cl \in [Conn -> ClientRecord] /\ snd \in [Sender -> SenderRecord]
      /\ fds \in [Fd -> Conn \cup {NoConn}]
    BY DEF ServerTypes, ClientTypes, SenderTypes, FdTypes
<1>2. Leaves(c) \/ UNCHANGED history \/ ClientSelect(c) \/ ClientCheck(c) =>
        UNCHANGED latest /\ \A d \in Conn \ {c} : recent'[d] = recent[d]
    BY DEF Leaves, history, ClientSelect, ClientCheck, HistoryTypes
<1>3. ASSUME NEW label, Goto(c, label)
      PROVE  /\ cl'[c].pc = label /\ cl'[c].fd = cl[c].fd
             /\ \A d \in Conn \ {c} : cl'[d] = cl[d]
    <2>1. \A r \in ClientRecord :
            [r EXCEPT !.pc = label].pc = label /\ [r EXCEPT !.pc = label].fd = r.fd
        BY DEF ClientRecord
    <2> QED
        BY <1>1, <1>3, <2>1 DEF Goto
<1>4. CASE ClientBegin(c) \/ ClientGpi(c) \/ ClientTry(c) \/ ClientTimeout(c)
           \/ ClientFlag(c) \/ ClientEnd(c)
    BY <1>2, <1>3, <1>4 DEF ClientBegin, ClientGpi, ClientTry, ClientTimeout, ClientFlag,
                            ClientEnd, hosts
<1>5. CASE ClientSelect(c)
    BY <1>2, <1>3, <1>5 DEF ClientSelect, hosts
<1>6. CASE ClientNothing(c) \/ ClientNoCommand(c)
    BY <1>2, <1>3, <1>6 DEF ClientNothing, ClientNoCommand, Receives, hosts
<1>7. CASE ClientCopy(c)
    <2>1. /\ cl'[c].fd = clientFd /\ cl'[c].pc = "wait"
          /\ \A d \in Conn \ {c} : cl'[d] = cl[d]
        BY <1>1, <1>7 DEF ClientCopy, ClientRecord
    <2> QED
        BY <1>2, <1>7, <2>1 DEF ClientCopy, hosts
<1>8. CASE ClientError(c)
    <2>1. cl'[c].pc = "end" /\ \A d \in Conn \ {c} : cl'[d] = cl[d]
        BY <1>1, <1>8 DEF ClientError, ClientRecord
    <2>2. Closes
        BY <1>1, <1>8 DEF ClientError
    <2> QED
        BY <1>2, <1>8, <2>1, <2>2 DEF ClientError, hosts
<1>9. CASE ClientCommand(c)
    <2>1. \E p \in {"gpi", "try"} : \E b, o :
             cl' = [cl EXCEPT ![c].pc = p, ![c].buf = b, ![c].op = o]
        BY <1>9 DEF ClientCommand
    <2>2. \A p, b, o : \A r \in ClientRecord :
            /\ [r EXCEPT !.pc = p, !.buf = b, !.op = o].fd = r.fd
            /\ [r EXCEPT !.pc = p, !.buf = b, !.op = o].pc = p
        BY DEF ClientRecord
    <2>3. /\ cl'[c].fd = cl[c].fd /\ cl'[c].pc \in {"gpi", "try"}
          /\ \A d \in Conn \ {c} : cl'[d] = cl[d]
        BY <1>1, <2>1, <2>2
    <2> QED
        BY <1>2, <1>9, <2>3 DEF ClientCommand, Receives
<1>10. CASE ClientAwait(c)
    <2>1. /\ cl'[c].fd = cl[c].fd /\ cl'[c].pc \in {"check", "try"}
          /\ \A d \in Conn \ {c} : cl'[d] = cl[d]
        <3>1. PICK label \in {"check", "try"} :
                cl' = [cl EXCEPT ![c].pc = label, ![c].buf = Head(rx).kind]
            BY <1>10 DEF ClientAwait
        <3> QED
            BY <1>1, <3>1 DEF ClientRecord
    <2> QED
        BY <1>2, <1>10, <2>1 DEF ClientAwait, hosts
<1>11. CASE ClientCheck(c)
    <2>1. cl[c].pc = "check" /\ Closes /\ UNCHANGED peer
          /\ (Goto(c, "flag") \/ Goto(c, "wait"))
        BY <1>11 DEF ClientCheck, hosts
    <2>2. UNCHANGED snd \/ \E s \in Sender :
            snd' = [snd EXCEPT ![s] = [pc |-> "top", fd |-> cl[c].fd, buf |-> "", stop |-> 0]]
        BY <1>11 DEF ClientCheck
    <2>3. ASSUME NEW s \in Sender,
            snd' = [snd EXCEPT ![s] = [pc |-> "top", fd |-> cl[c].fd, buf |-> "", stop |-> 0]]
          PROVE  /\ snd'[s].pc = "top" /\ snd'[s].fd = cl[c].fd /\ snd'[s].stop = 0
                 /\ \A t \in Sender \ {s} : snd'[t] = snd[t]
        BY <1>1, <2>3
    <2>4. /\ UNCHANGED latest /\ \A d \in Conn \ {c} : cl'[d] = cl[d] /\ recent'[d] = recent[d]
          /\ cl'[c].pc \in {"flag", "wait"} /\ cl'[c].fd = cl[c].fd
        BY <1>2, <1>3, <1>11, <2>1
    <2> QED
        BY <2>1, <2>2, <2>3, <2>4
<1>12. CASE ClientClose(c) \/ ClientForget(c)
    <2>1. \E label \in {"forget", "gone"} : Goto(c, label)
        BY <1>12 DEF ClientClose, ClientForget
    <2>2. Closes
        BY <1>1, <1>12 DEF ClientClose, ClientForget, CloseCurrent, Forget
    <2> QED
        BY <1>2, <1>3, <1>12, <2>1, <2>2 DEF ClientClose, ClientForget, hosts
<1> QED
    BY <1>4, <1>5, <1>6, <1>7, <1>8, <1>9, <1>10, <1>11, <1>12 DEF ClientThread

\* A step of a send thread, as far as descriptors go.
LEMMA SenderFds ==
    ASSUME ServerTypes, NEW s \in Sender, SendThread(s)
    PROVE  /\ UNCHANGED <<peer, latest, recent, cl>> /\ Closes /\ snd[s].pc # "none"
           /\ \A t \in Sender \ {s} : snd'[t] = snd[t]
           /\ snd'[s].fd = snd[s].fd
           /\ snd'[s].stop = 2 \/ snd'[s].pc \in {"end", "close", "forget"} =>
                \/ snd[s].stop = 2 \/ snd[s].pc \in {"end", "close", "forget"}
                \/ snd[s].fd # clientFd
<1> USE DEF Closes
<1>1. snd \in [Sender -> SenderRecord] /\ fds \in [Fd -> Conn \cup {NoConn}]
    BY DEF ServerTypes, SenderTypes, FdTypes
<1>2. ASSUME NEW label, SenderGoto(s, label)
      PROVE  /\ snd'[s].pc = label /\ snd'[s].fd = snd[s].fd /\ snd'[s].stop = snd[s].stop
             /\ \A t \in Sender \ {s} : snd'[t] = snd[t]
    <2>1. \A r \in SenderRecord :
            /\ [r EXCEPT !.pc = label].pc = label /\ [r EXCEPT !.pc = label].fd = r.fd
            /\ [r EXCEPT !.pc = label].stop = r.stop
        BY DEF SenderRecord
    <2> QED
        BY <1>1, <1>2, <2>1 DEF SenderGoto
<1>3. CASE SenderTop(s)
    <2>1. CASE SenderGoto(s, "recv")
        BY <1>2, <1>3, <2>1 DEF SenderTop, hosts, history
    <2>2. CASE /\ snd' = [snd EXCEPT ![s].pc = "recv", ![s].stop = 2]
               /\ snd[s].fd # clientFd
        <3>1. snd'[s].fd = snd[s].fd /\ \A t \in Sender \ {s} : snd'[t] = snd[t]
            BY <1>1, <2>2 DEF SenderRecord
        <3> QED
            BY <1>3, <2>2, <3>1 DEF SenderTop, hosts, history
    <2> QED
        BY <1>3, <2>1, <2>2 DEF SenderTop
<1>4. CASE SenderRecv(s)
    <2>1. \E b : \/ snd' = [snd EXCEPT ![s].pc = "test", ![s].buf = b, ![s].stop = 1]
                 \/ snd' = [snd EXCEPT ![s].pc = "test", ![s].buf = b]
        BY <1>4 DEF SenderRecv
    <2>2. \A b : \A r \in SenderRecord :
                 /\ [r EXCEPT !.pc = "test", !.buf = b, !.stop = 1].fd = r.fd
                 /\ [r EXCEPT !.pc = "test", !.buf = b, !.stop = 1].pc = "test"
                 /\ [r EXCEPT !.pc = "test", !.buf = b, !.stop = 1].stop = 1
                 /\ [r EXCEPT !.pc = "test", !.buf = b].fd = r.fd
                 /\ [r EXCEPT !.pc = "test", !.buf = b].pc = "test"
                 /\ [r EXCEPT !.pc = "test", !.buf = b].stop = r.stop
        BY DEF SenderRecord
    <2>3. /\ snd'[s].pc = "test" /\ snd'[s].fd = snd[s].fd
          /\ snd'[s].stop \in {1, snd[s].stop}
          /\ \A t \in Sender \ {s} : snd'[t] = snd[t]
        <3>1. CASE \E b : snd' = [snd EXCEPT ![s].pc = "test", ![s].buf = b, ![s].stop = 1]
            BY <1>1, <2>2, <3>1
        <3>2. CASE \E b : snd' = [snd EXCEPT ![s].pc = "test", ![s].buf = b]
            BY <1>1, <2>2, <3>2
        <3> QED
            BY <2>1, <3>1, <3>2
    <2> QED
        BY <1>4, <2>3 DEF SenderRecv, hosts, history
<1>5. CASE SenderTimeout(s) \/ SenderTest(s) \/ SenderClear(s) \/ SenderEnd(s)
    BY <1>2, <1>5 DEF SenderTimeout, SenderTest, SenderClear, SenderEnd, hosts, history
<1>6. CASE SenderClose(s) \/ SenderForget(s)
    <2>1. Closes
        BY <1>1, <1>6 DEF SenderClose, SenderForget, CloseCurrent, Forget
    <2> QED
        BY <1>2, <1>6, <2>1 DEF SenderClose, SenderForget, hosts, history
<1> QED
    BY <1>3, <1>4, <1>5, <1>6 DEF SendThread

\* Closing descriptors keeps those served recent, as long as no thread comes to recv.
LEMMA RecentKept ==
    ASSUME ServerTypes, RecentServed, \A f \in Fd : fds'[f] \in {fds[f], NoConn},
           \A c \in Conn : cl'[c].pc = "recv" => cl'[c] = cl[c] /\ recent'[c] = recent[c]
    PROVE  RecentServed'
BY DEF RecentServed, ServerTypes, ClientTypes

\* A thread comes to recv from select, when its descriptor is the newest connection's.
LEMMA RecentClient ==
    ASSUME ServerTypes, HistoryTypes, NameInv, RecentServed, NEW c \in Conn, ClientThread(c)
    PROVE  RecentServed'
<1>1. /\ \A f \in Fd : fds'[f] \in {fds[f], NoConn}
      /\ \A d \in Conn \ {c} : cl'[d] = cl[d] /\ recent'[d] = recent[d]
      /\ cl'[c].pc = "recv" => ClientSelect(c)
    BY ClientFds DEF Closes
<1>2. CASE cl'[c].pc # "recv"
    BY <1>1, <1>2, RecentKept
<1>3. CASE cl'[c].pc = "recv"
    <2>1. ClientSelect(c) /\ ~Superseded(c)
        BY <1>1, <1>3 DEF ClientSelect, Goto, ServerTypes, ClientTypes, ClientRecord
    <2>2. fds' = fds /\ fds[cl[c].fd] = latest /\ cl[c].fd \in Fd
        BY <2>1 DEF ClientSelect, Superseded, NameInv, NameIsLatest
    <2>3. cl'[c].fd = cl[c].fd /\ latest \in recent'[c]
        BY <2>1 DEF ClientSelect, Goto, ServerTypes, ClientTypes, ClientRecord, HistoryTypes
    <2> QED
        BY <1>1, <2>2, <2>3 DEF RecentServed
<1> QED
    BY <1>2, <1>3

\* Between select and recv others may be accepted: they are counted as the newest, too.
LEMMA RecentAccept ==
    ASSUME ServerTypes, RecentServed, NEW c \in Conn, Accept(c)
    PROVE  RecentServed'
<1>1. PICK f \in FreeFds : fds' = [fds EXCEPT ![f] = c]
    BY DEF Accept
<1>2. cl'[c].pc # "recv" /\ \A d \in Conn \ {c} : cl'[d] = cl[d]
    BY DEF Accept, ServerTypes, ClientTypes, ClientRecord
<1>3. \A d \in Conn : cl[d].pc = "recv" => recent'[d] = recent[d] \cup {c}
    BY DEF Accept
<1>4. \A g \in Fd : fds'[g] \in {fds[g], c}
    BY <1>1 DEF ServerTypes, FdTypes
<1> QED
    BY <1>2, <1>3, <1>4 DEF RecentServed, ServerTypes, ClientTypes

\* A client thread receives only from a connection that has been the newest since its
\* select returned.
THEOREM OnlyRecentServed == Spec => []RecentServed
<1> DEFINE Inv == ServerTypes /\ HistoryTypes /\ NameInv /\ RecentServed
<1>1. Init => Inv
    <2>1. ASSUME Init PROVE RecentServed
        <3>1. \A c \in Conn : cl[c].pc = "none"
            BY <2>1 DEF Init
        <3> QED
            BY <3>1 DEF RecentServed
    <2> QED
        BY <2>1, TypesInit, HistoryInit, NameInit
<1>2. Inv /\ [Next]_vars => Inv'
    <2> SUFFICES ASSUME Inv, [Next]_vars PROVE RecentServed'
        BY TypesNext, HistoryNext, NameNext
    <2>1. ASSUME NEW s \in Sender, SendThread(s) PROVE RecentServed'
        BY <2>1, SenderFds, RecentKept DEF Closes
    <2>2. CASE \/ AcceptFails \/ ModuleAnswer \/ ModuleTag \/ UNCHANGED vars
               \/ \E c \in Conn : Host(c)
        <3>1. UNCHANGED <<fds, cl, recent>>
            BY <2>2 DEF AcceptFails, ModuleAnswer, ModuleTag, vars, history, Host,
                        HostConnect, HostSend, HostLeave
        <3> QED
            BY <3>1, RecentKept
    <2> QED
        BY <2>1, <2>2, RecentClient, RecentAccept DEF Next
<1> QED
    BY <1>1, <1>2, PTL DEF Spec
-----------------------------------------------------------------------------
(* The serial line, when hosts come one after the other and send no gpi    *)
(* command: who reads it, and who lowers continueRead.                     *)

Live(c) == peer[c] # "none" /\ cl[c].pc # "gone"
Forwards(s) == snd[s].pc \in {"top", "recv", "test", "clear"}

\* There is one session: a host whose thread is not gone keeps others away.
Session ==
    /\ \A c \in Conn : peer[c] \in {"none", "pending"} => cl[c].pc = "none"
    /\ \A c, d \in Conn : Live(c) /\ Live(d) => c = d

\* A send thread that forwards is there exactly while continueRead is up or its
\* creator is about to raise it, and nobody awaits an answer meanwhile.
Owner ==
    /\ continueRead => \A c \in Conn : cl[c].pc \notin {"await", "flag"}
    /\ \A c \in Conn : cl[c].pc = "flag" => \E s \in Sender : Forwards(s)
    /\ continueRead => \E s \in Sender : Forwards(s)
    /\ \A s \in Sender :
         Forwards(s) => continueRead \/ \E c \in Conn : cl[c].pc = "flag"
    /\ \A s, t \in Sender : Forwards(s) /\ Forwards(t) => s = t
    /\ \A s \in Sender : snd[s].pc = "clear" => continueRead
    /\ \A c \in Conn : cl[c].pc # "gpi"

LineInv == ServerTypes /\ HistoryTypes /\ Session /\ Owner

\* What a step of a client thread means for the line: it goes on, creates a send
\* thread, or raises the flag.
LEMMA ClientMoves ==
    ASSUME ServerTypes, "gpi" \notin Command, NEW c \in Conn, ClientThread(c),
           cl[c].pc # "gpi"
    PROVE  /\ peer' = peer /\ cl[c].pc \notin {"none", "gone"}
           /\ \A d \in Conn \ {c} : cl'[d] = cl[d]
           /\ \/ /\ UNCHANGED <<continueRead, snd>>
                 /\ cl[c].pc # "flag" /\ cl'[c].pc \notin {"gpi", "flag"}
                 /\ cl'[c].pc = "await" => ~continueRead
              \/ /\ cl[c].pc = "check" /\ cl'[c].pc = "flag"
                 /\ ~continueRead /\ UNCHANGED continueRead
                 /\ \E s \in Sender : /\ snd[s].pc = "none" /\ snd'[s].pc = "top"
                                      /\ \A t \in Sender \ {s} : snd'[t] = snd[t]
              \/ /\ cl[c].pc = "flag" /\ cl'[c].pc = "wait"
                 /\ continueRead' /\ UNCHANGED snd
<1>1. cl \in [Conn -> ClientRecord] /\ snd \in [Sender -> SenderRecord]
    BY DEF ServerTypes, ClientTypes, SenderTypes
<1>2. \A r \in ClientRecord : \A label : [r EXCEPT !.pc = label].pc = label
    BY DEF ClientRecord
<1>3. ASSUME NEW label, Goto(c, label)
      PROVE  cl'[c].pc = label /\ \A d \in Conn \ {c} : cl'[d] = cl[d]
    BY <1>1, <1>2, <1>3 DEF Goto
<1>4. CASE ClientBegin(c) \/ ClientSelect(c) \/ ClientNothing(c) \/ ClientGpi(c)
           \/ ClientTry(c) \/ ClientTimeout(c) \/ ClientEnd(c) \/ ClientClose(c)
           \/ ClientForget(c)
    BY <1>3, <1>4 DEF ClientBegin, ClientSelect, ClientNothing, ClientGpi, ClientTry,
                      ClientTimeout, ClientEnd, ClientClose, ClientForget, hosts
<1>5. CASE ClientNoCommand(c)
    BY <1>3, <1>5 DEF ClientNoCommand, Receives
<1>6. CASE ClientCopy(c) \/ ClientError(c)
    <2>1. cl'[c].pc \in {"wait", "end"} /\ \A d \in Conn \ {c} : cl'[d] = cl[d]
        BY <1>1, <1>6 DEF ClientCopy, ClientError, ClientRecord
    <2> QED
        BY <1>6, <2>1 DEF ClientCopy, ClientError, hosts
<1>7. CASE ClientCommand(c)
    <2>1. Head(Received(c)) \in Command
        BY <1>7 DEF ClientCommand, Receives, Received, ServerTypes, ClientTypes, FdTypes,
                    HostTypes
    <2>2. cl'[c].pc = "try" /\ \A d \in Conn \ {c} : cl'[d] = cl[d]
        BY <1>1, <1>7, <2>1 DEF ClientCommand, ClientRecord
    <2> QED
        BY <1>7, <2>2 DEF ClientCommand, Receives
<1>8. CASE ClientAwait(c)
    <2>1. cl'[c].pc \in {"check", "try"} /\ \A d \in Conn \ {c} : cl'[d] = cl[d]
        BY <1>1, <1>8 DEF ClientAwait, ClientRecord
    <2> QED
        BY <1>8, <2>1 DEF ClientAwait, hosts
<1>9. CASE ClientCheck(c)
    <2>1. CASE ~continueRead /\ cl[c].buf = "start"
        <3>1. PICK s \in Sender :
                /\ snd[s].pc = "none"
                /\ snd' = [snd EXCEPT ![s] =
                      [pc |-> "top", fd |-> cl[c].fd, buf |-> "", stop |-> 0]]
                /\ Goto(c, "flag")
            BY <1>9, <2>1 DEF ClientCheck
        <3>2. snd'[s].pc = "top" /\ \A t \in Sender \ {s} : snd'[t] = snd[t]
            BY <1>1, <3>1
        <3> QED
            BY <1>3, <1>9, <2>1, <3>1, <3>2 DEF ClientCheck, hosts
    <2>2. CASE ~(~continueRead /\ cl[c].buf = "start")
        <3>1. UNCHANGED snd /\ Goto(c, "wait")
            BY <1>9, <2>2 DEF ClientCheck
        <3>2. cl'[c].pc = "wait" /\ \A d \in Conn \ {c} : cl'[d] = cl[d]
            BY <1>3, <3>1
        <3>3. cl[c].pc = "check" /\ UNCHANGED <<peer, continueRead>>
            BY <1>9 DEF ClientCheck, hosts
        <3> QED
            BY <3>1, <3>2, <3>3
    <2> QED
        BY <2>1, <2>2
<1>10. CASE ClientFlag(c)
    BY <1>3, <1>10 DEF ClientFlag, hosts
<1> QED
    BY <1>4, <1>5, <1>6, <1>7, <1>8, <1>9, <1>10 DEF ClientThread

\* What a step of a send thread means: it goes on to forward, or lowers the flag
\* and forwards no more.
LEMMA SenderMoves ==
    ASSUME ServerTypes, NEW s \in Sender, SendThread(s)
    PROVE  /\ UNCHANGED <<peer, cl>>
           /\ \A t \in Sender \ {s} : snd'[t] = snd[t]
           /\ \/ /\ Forwards(s) /\ Forwards(s)' /\ UNCHANGED continueRead
                 /\ snd'[s].pc = "clear" => continueRead
              \/ snd[s].pc = "clear" /\ ~continueRead' /\ ~Forwards(s)'
              \/ ~Forwards(s) /\ ~Forwards(s)' /\ UNCHANGED continueRead
<1>1. snd \in [Sender -> SenderRecord]
    BY DEF ServerTypes, SenderTypes
<1>2. ASSUME NEW label, SenderGoto(s, label)
      PROVE  snd'[s].pc = label /\ \A t \in Sender \ {s} : snd'[t] = snd[t]
    <2>1. \A r \in SenderRecord : [r EXCEPT !.pc = label].pc = label
        BY DEF SenderRecord
    <2> QED
        BY <1>1, <1>2, <2>1 DEF SenderGoto
<1>3. CASE SenderTop(s)
    <2>1. snd'[s].pc = "recv" /\ \A t \in Sender \ {s} : snd'[t] = snd[t]
        BY <1>1, <1>2, <1>3 DEF SenderTop, SenderRecord
    <2> QED
        BY <1>3, <2>1 DEF SenderTop, Forwards, hosts
<1>4. CASE SenderRecv(s)
    <2>1. snd'[s].pc = "test" /\ \A t \in Sender \ {s} : snd'[t] = snd[t]
        <3>1. \/ snd' = [snd EXCEPT ![s].pc = "test", ![s].buf = Head(rx).kind, ![s].stop = 1]
              \/ snd' = [snd EXCEPT ![s].pc = "test", ![s].buf = Head(rx).kind]
            BY <1>4 DEF SenderRecv
        <3> QED
            BY <1>1, <3>1 DEF SenderRecord
    <2> QED
        BY <1>4, <2>1 DEF SenderRecv, Forwards, hosts
<1>5. CASE SenderTimeout(s) \/ SenderTest(s) \/ SenderClear(s)
    BY <1>2, <1>5 DEF SenderTimeout, SenderTest, SenderClear, Forwards, hosts
<1>6. CASE SenderEnd(s) \/ SenderClose(s) \/ SenderForget(s)
    BY <1>2, <1>6 DEF SenderEnd, SenderClose, SenderForget, Forwards, hosts
<1> QED
    BY <1>3, <1>4, <1>5, <1>6 DEF SendThread

\* The initial state has no session and no send thread.
LEMMA LineInit == Init => LineInv
<1> SUFFICES ASSUME Init PROVE LineInv
    OBVIOUS
<1>1. /\ \A c \in Conn : cl[c].pc = "none" /\ peer[c] = "none"
      /\ \A s \in Sender : snd[s].pc = "none"
      /\ ~continueRead
    BY DEF Init
<1> QED
    BY <1>1, TypesInit, HistoryInit DEF LineInv, Session, Owner, Live, Forwards

\* The steps of the threads keep the invariant.
LEMMA LineClient ==
    ASSUME LineInv, "gpi" \notin Command, NEW c \in Conn, ClientThread(c)
    PROVE  Session' /\ Owner'
<1>1. cl[c].pc # "gpi"
    BY DEF LineInv, Owner
<1>2. /\ peer' = peer /\ cl[c].pc \notin {"none", "gone"}
      /\ \A d \in Conn \ {c} : cl'[d] = cl[d]
    BY <1>1, ClientMoves DEF LineInv
<1>3. Session'
    BY <1>2 DEF LineInv, Session, Live
<1>4. \A d \in Conn \ {c} : cl[d].pc \in {"none", "gone"}
    BY <1>2 DEF LineInv, Session, Live
<1>5. CASE /\ UNCHANGED <<continueRead, snd>>
           /\ cl[c].pc # "flag" /\ cl'[c].pc \notin {"gpi", "flag"}
           /\ cl'[c].pc = "await" => ~continueRead
    <2>1. Owner'
        BY <1>2, <1>4, <1>5 DEF LineInv, Owner, Forwards
    <2> QED
        BY <1>3, <2>1
<1>6. ASSUME cl[c].pc = "check", cl'[c].pc = "flag", ~continueRead,
             UNCHANGED continueRead, NEW s \in Sender, snd[s].pc = "none",
             snd'[s].pc = "top", \A t \in Sender \ {s} : snd'[t] = snd[t]
      PROVE  Owner'
    <2>1. \A t \in Sender : ~Forwards(t)
        BY <1>4, <1>6 DEF LineInv, Owner
    <2>2. \A t \in Sender : Forwards(t)' <=> t = s
        BY <1>6, <2>1 DEF Forwards
    <2>3. \A t \in Sender : snd'[t].pc # "clear"
        BY <1>6, <2>1 DEF Forwards
    <2> QED
        BY <1>2, <1>4, <1>6, <2>2, <2>3 DEF LineInv, Owner
<1>7. CASE /\ cl[c].pc = "flag" /\ cl'[c].pc = "wait"
           /\ continueRead' /\ UNCHANGED snd
    <2>1. Owner'
        BY <1>2, <1>4, <1>7 DEF LineInv, Owner, Forwards
    <2> QED
        BY <1>3, <2>1
<1> QED
    BY <1>1, <1>3, <1>5, <1>6, <1>7, ClientMoves DEF LineInv

LEMMA LineSender ==
    ASSUME LineInv, NEW s \in Sender, SendThread(s)
    PROVE  Session' /\ Owner'
<1>1. UNCHANGED <<peer, cl>> /\ \A t \in Sender \ {s} : snd'[t] = snd[t]
    BY SenderMoves DEF LineInv
<1>2. Session'
    BY <1>1 DEF LineInv, Session, Live
<1>3. CASE /\ Forwards(s) /\ Forwards(s)' /\ UNCHANGED continueRead
           /\ snd'[s].pc = "clear" => continueRead
    <2>1. \A t \in Sender : Forwards(t)' <=> Forwards(t)
        BY <1>1, <1>3 DEF Forwards
    <2> QED
        BY <1>1, <1>2, <1>3, <2>1 DEF LineInv, Owner
<1>4. CASE snd[s].pc = "clear" /\ ~continueRead' /\ ~Forwards(s)'
    <2>1. \A t \in Sender : ~Forwards(t)'
        BY <1>1, <1>4 DEF LineInv, Owner, Forwards
    <2>2. \A d \in Conn : cl'[d].pc # "flag"
        BY <1>1, <1>4 DEF LineInv, Owner
    <2> QED
        BY <1>1, <1>2, <1>4, <2>1, <2>2 DEF LineInv, Owner, Forwards
<1>5. CASE ~Forwards(s) /\ ~Forwards(s)' /\ UNCHANGED continueRead
    <2>1. \A t \in Sender : Forwards(t)' <=> Forwards(t)
        BY <1>1, <1>5 DEF Forwards
    <2> QED
        BY <1>1, <1>2, <1>5, <2>1 DEF LineInv, Owner, Forwards
<1> QED
    BY <1>3, <1>4, <1>5, SenderMoves DEF LineInv

\* Every step keeps it: a host connects only once nobody is live.
LEMMA LineNext ==
    ASSUME Polite, "gpi" \notin Command, LineInv, [Next]_vars
    PROVE  LineInv'
<1>1. ServerTypes' /\ HistoryTypes'
    BY TypesNext, HistoryNext DEF LineInv
<1> USE DEF LineInv
<1>2. ASSUME NEW c \in Conn, HostConnect(c) PROVE LineInv'
    <2>1. \A d \in Conn : ~Live(d)
        BY <1>2 DEF HostConnect, Idle, Live
    <2>2. peer' = [peer EXCEPT ![c] = "pending"] /\ UNCHANGED <<cl, snd, continueRead>>
        BY <1>2 DEF HostConnect
    <2>3. Session'
        BY <1>2, <2>1, <2>2 DEF HostConnect, Session, Live, ServerTypes, HostTypes
    <2> QED
        BY <1>1, <2>2, <2>3 DEF Owner, Forwards
<1>3. ASSUME NEW c \in Conn, HostLeave(c) PROVE LineInv'
    <2>1. /\ \E how \in {"closed", "reset"} : peer' = [peer EXCEPT ![c] = how]
          /\ peer[c] = "open" /\ UNCHANGED <<cl, snd, continueRead>>
        BY <1>3 DEF HostLeave
    <2>2. Session'
        BY <2>1 DEF Session, Live, ServerTypes, HostTypes
    <2> QED
        BY <1>1, <2>1, <2>2 DEF Owner, Forwards
<1>4. ASSUME NEW c \in Conn, Accept(c) PROVE LineInv'
    <2>1. /\ peer' = [peer EXCEPT ![c] = "open"] /\ peer[c] = "pending"
          /\ UNCHANGED <<snd, continueRead>>
        BY <1>4 DEF Accept
    <2>2. cl'[c].pc = "begin" /\ \A d \in Conn \ {c} : cl'[d] = cl[d]
        BY <1>4 DEF Accept, ServerTypes, ClientTypes, ClientRecord
    <2>3. Session'
        BY <2>1, <2>2 DEF Session, Live, ServerTypes, HostTypes
    <2>4. cl[c].pc = "none"
        BY <2>1 DEF Session
    <2>5. Owner'
        BY <2>1, <2>2, <2>4 DEF Owner, Forwards
    <2> QED
        BY <1>1, <2>3, <2>5
<1>5. CASE \/ UNCHANGED vars \/ AcceptFails \/ ModuleAnswer \/ ModuleTag
           \/ \E c \in Conn, k \in Command : HostSend(c, k)
    <2>1. UNCHANGED <<peer, cl, snd, continueRead>>
        BY <1>5 DEF vars, hosts, AcceptFails, ModuleAnswer, ModuleTag, HostSend
    <2> QED
        BY <1>1, <2>1 DEF Session, Live, Owner, Forwards
<1>6. ASSUME NEW c \in Conn, ClientThread(c) PROVE LineInv'
    BY <1>1, <1>6, LineClient
<1>7. ASSUME NEW s \in Sender, SendThread(s) PROVE LineInv'
    BY <1>1, <1>7, LineSender
<1> QED
    BY <1>2, <1>3, <1>4, <1>5, <1>6, <1>7 DEF Next, Host

\* Every reachable state satisfies the invariant.
THEOREM LineInvariant ==
    ASSUME Polite, "gpi" \notin Command
    PROVE  Spec => []LineInv
<1>1. LineInv /\ [Next]_vars => LineInv'
    BY LineNext
<1> QED
    BY <1>1, LineInit, PTL DEF Spec

\* At any time one thread at most waits in receiveMessage, though a client thread
\* looks at continueRead first and waits then.
THEOREM LineHasOneReceiver ==
    ASSUME Polite, "gpi" \notin Command
    PROVE  Spec => []OneReceiver
<1>1. LineInv => OneReceiver
    <2> SUFFICES ASSUME LineInv PROVE Cardinality(Receivers) <= 1
        BY DEF OneReceiver
    <2>1. \A c \in Conn : cl[c].pc \in {"await", "gpi"} =>
              cl[c].pc = "await" /\ Live(c) /\ ~continueRead
        BY DEF LineInv, Owner, Session, Live
    <2>2. \A x, y \in Receivers : x = y
        <3>1. ASSUME NEW c \in Conn, cl[c].pc \in {"await", "gpi"},
                     NEW s \in Sender, snd[s].pc = "recv"
              PROVE  FALSE
            <4>1. PICK d \in Conn : cl[d].pc = "flag"
                BY <2>1, <3>1 DEF LineInv, Owner, Forwards
            <4>2. Live(d)
                BY <4>1 DEF LineInv, Session, Live
            <4> QED
                BY <2>1, <3>1, <4>1, <4>2 DEF LineInv, Session
        <3>2. \A c, d \in Conn : cl[c].pc \in {"await", "gpi"} /\ cl[d].pc \in {"await", "gpi"}
                                 => c = d
            BY <2>1 DEF LineInv, Session
        <3>3. \A s, t \in Sender : snd[s].pc = "recv" /\ snd[t].pc = "recv" => s = t
            BY DEF LineInv, Owner, Forwards
        <3> QED
            BY <3>1, <3>2, <3>3 DEF Receivers
    <2>3. Receivers = {} \/ \E x : Receivers = {x}
        BY <2>2
    <2>4. CASE Receivers = {}
        BY <2>4, FS_EmptySet
    <2>5. ASSUME NEW x, Receivers = {x} PROVE Cardinality(Receivers) = 1
        BY <2>5, FS_Singleton
    <2> QED
        BY <2>3, <2>4, <2>5
<1> QED
    BY <1>1, LineInvariant, PTL

-----------------------------------------------------------------------------
(* The answer to the send thread's "stop".                                 *)

\* A "stop" is somewhere in q.
Stop(q) == \E k \in 1..Len(q) : q[k].kind = "stop"

\* A send thread that has asked the module to stop has the answer coming, or has
\* missed it; it lowers the flag only because of that answer.
Stopping ==
    \A s \in Sender : Forwards(s) =>
        /\ snd[s].stop # 0 => StopComing(s) \/ s \in missed
        /\ snd[s].pc = "clear" => snd[s].buf = "stop"

FlagInv == LineInv /\ Stopping

\* What is put at the end of a part of the line stays there until it is the head.
LEMMA StopAppend ==
    ASSUME NEW q \in Seq(AFrame), NEW f \in AFrame
    PROVE  Stop(Append(q, f)) <=> Stop(q) \/ f.kind = "stop"
<1>1. Len(Append(q, f)) = Len(q) + 1 /\ Append(q, f)[Len(q) + 1] = f
      /\ \A k \in 1..Len(q) : Append(q, f)[k] = q[k]
    OBVIOUS
<1>2. Len(q) \in Nat
    OBVIOUS
<1> QED
    BY <1>1, <1>2 DEF Stop

LEMMA StopTail ==
    ASSUME NEW q \in Seq(AFrame), q # <<>>
    PROVE  Stop(q) <=> Stop(Tail(q)) \/ Head(q).kind = "stop"
<1>1. Len(q) \in Nat \ {0} /\ Len(Tail(q)) = Len(q) - 1 /\ Head(q) = q[1]
      /\ \A k \in 1..Len(q) - 1 : Tail(q)[k] = q[k + 1]
    OBVIOUS
<1>2. \A k \in 1..Len(q) : k = 1 \/ k - 1 \in 1..Len(q) - 1
    BY <1>1
<1>3. \A k \in 1..Len(q) : k # 1 => Tail(q)[k - 1] = q[k]
    BY <1>1, <1>2
<1>4. ASSUME Stop(q) PROVE Stop(Tail(q)) \/ Head(q).kind = "stop"
    BY <1>1, <1>2, <1>3, <1>4 DEF Stop
<1>5. ASSUME Stop(Tail(q)) PROVE Stop(q)
    BY <1>1, <1>5 DEF Stop
<1>6. ASSUME Head(q).kind = "stop" PROVE Stop(q)
    BY <1>1, <1>6 DEF Stop
<1> QED
    BY <1>4, <1>5, <1>6

\* The answer comes from the line, or is in the thread's hands.
LEMMA ComingFrom ==
    ASSUME NEW s \in Sender
    PROVE  StopComing(s) <=> \/ Stop(cmdq) \/ Stop(rx)
                             \/ snd[s].pc \in {"test", "clear"} /\ snd[s].buf = "stop"
BY DEF StopComing, Stop

\* Hosts, the module and the accept loop take no "stop" off the line.
LEMMA StopAround ==
    ASSUME ServerTypes,
           \/ AcceptFails \/ ModuleAnswer \/ ModuleTag \/ UNCHANGED vars
           \/ \E c \in Conn : Host(c) \/ Accept(c)
    PROVE  /\ Stop(cmdq) \/ Stop(rx) => Stop(cmdq)' \/ Stop(rx)'
           /\ UNCHANGED <<snd, missed>>
<1>1. CASE ModuleAnswer
    <2>1. /\ cmdq # <<>> /\ cmdq' = Tail(cmdq) /\ rx' = Append(rx, Head(cmdq))
          /\ UNCHANGED <<snd, missed>>
        BY <1>1 DEF ModuleAnswer, history
    <2>2. cmdq \in Seq(AFrame) /\ rx \in Seq(AFrame) /\ Head(cmdq) \in AFrame
        BY <2>1, LineFacts DEF ServerTypes, LineTypes
    <2>3. Stop(cmdq) <=> Stop(Tail(cmdq)) \/ Head(cmdq).kind = "stop"
        BY <2>1, <2>2, StopTail
    <2>4. Stop(Append(rx, Head(cmdq))) <=> Stop(rx) \/ Head(cmdq).kind = "stop"
        BY <2>2, StopAppend
    <2>5. Stop(cmdq)' = Stop(Tail(cmdq)) /\ Stop(rx)' = Stop(Append(rx, Head(cmdq)))
        BY <2>1 DEF Stop
    <2> QED
        BY <2>1, <2>3, <2>4, <2>5
<1>2. CASE ModuleTag
    <2>1. rx = <<>> /\ UNCHANGED <<cmdq, snd, missed>>
        BY <1>2 DEF ModuleTag, history
    <2>2. ~Stop(rx)
        BY <2>1 DEF Stop
    <2> QED
        BY <2>1, <2>2 DEF Stop
<1>3. CASE \/ AcceptFails \/ UNCHANGED vars \/ \E c \in Conn : Host(c) \/ Accept(c)
    <2>1. UNCHANGED <<cmdq, rx, snd, missed>>
        BY <1>3 DEF AcceptFails, vars, line, history, Host, HostConnect, HostSend, HostLeave,
                    Accept
    <2> QED
        BY <2>1 DEF Stop
<1> QED
    BY <1>1, <1>2, <1>3

\* While a send thread forwards, no client thread reads the line.
LEMMA StopClient ==
    ASSUME LineInv, "gpi" \notin Command, NEW c \in Conn, ClientThread(c),
           NEW s \in Sender, Forwards(s)
    PROVE  /\ Stop(cmdq) \/ Stop(rx) => Stop(cmdq)' \/ Stop(rx)'
           /\ UNCHANGED missed
<1>1. cl[c].pc \notin {"none", "gone", "gpi"}
    BY ClientMoves DEF LineInv, Owner
<1>2. cl[c].pc # "await" /\ (continueRead \/ cl[c].pc = "flag")
    <2>1. CASE continueRead
        BY <2>1 DEF LineInv, Owner
    <2>2. ASSUME NEW d \in Conn, cl[d].pc = "flag" PROVE d = c
        BY <1>1, <2>2 DEF LineInv, Session, Live
    <2> QED
        BY <2>1, <2>2 DEF LineInv, Owner
<1>3. CASE ClientCommand(c)
    <2>1. cmdq' = Append(cmdq, Frame(Head(Received(c)), fds[cl[c].fd]))
          /\ UNCHANGED <<rx, snd, missed>>
        BY <1>3 DEF ClientCommand, Receives, Leaves
    <2>2. Frame(Head(Received(c)), fds[cl[c].fd]) \in AFrame
        <3>1. fds[cl[c].fd] \in Conn
            BY <1>3 DEF ClientCommand, Receives, LineInv, ServerTypes, ClientTypes, FdTypes
        <3>2. Received(c) \in Seq(Command) /\ Received(c) # <<>>
            BY <1>3, <3>1 DEF ClientCommand, Receives, Received, LineInv, ServerTypes,
                              HostTypes
        <3>3. Head(Received(c)) \in Command
            BY <3>2
        <3> QED
            BY <3>1, <3>3, CommandFacts
    <2>3. cmdq \in Seq(AFrame)
        BY DEF LineInv, ServerTypes, LineTypes
    <2>4. Stop(cmdq) => Stop(cmdq')
        BY <2>1, <2>2, <2>3, StopAppend
    <2> QED
        BY <2>1, <2>4 DEF Stop
<1>4. CASE UNCHANGED <<cmdq, rx, snd, missed>>
    BY <1>4 DEF Stop
<1>5. CASE ClientCheck(c)
    BY <1>2, <1>4, <1>5 DEF ClientCheck, line
<1> QED
    BY <1>1, <1>2, <1>3, <1>4, <1>5
    DEF ClientThread, ClientBegin, ClientCopy, ClientSelect, ClientError, ClientNothing,
        ClientNoCommand, Receives, Leaves, ClientGpi, ClientTry, ClientAwait, ClientTimeout,
        ClientFlag, ClientEnd, ClientClose, ClientForget, line, history

\* What the thread takes off the line is in its hands until it is dealt with, and the
\* "stop" it asks for is put on the line.
LEMMA StopSender ==
    ASSUME FlagInv, NEW s \in Sender, SendThread(s), Forwards(s)'
    PROVE  /\ snd'[s].stop # 0 => StopComing(s)' \/ s \in missed'
           /\ snd'[s].pc = "clear" => snd'[s].buf = "stop"
<1> USE DEF FlagInv, LineInv
<1>1. Forwards(s)
    BY SenderMoves
<1>2. /\ snd[s].stop # 0 =>
            \/ Stop(cmdq) \/ Stop(rx) \/ s \in missed
            \/ snd[s].pc \in {"test", "clear"} /\ snd[s].buf = "stop"
      /\ snd[s] \in SenderRecord
    BY <1>1, ComingFrom DEF Stopping, ServerTypes, SenderTypes
<1>3. StopComing(s)' <=> \/ Stop(cmdq)' \/ Stop(rx)'
                         \/ snd'[s].pc \in {"test", "clear"} /\ snd'[s].buf = "stop"
    BY DEF StopComing, Stop
<1>4. /\ cmdq \in Seq(AFrame) /\ rx \in Seq(AFrame) /\ Frame("stop", NoConn) \in AFrame
      /\ Frame("stop", NoConn).kind = "stop"
    BY CommandFacts DEF ServerTypes, LineTypes, Frame
<1>5. SendStop => Stop(cmdq)'
    <2>1. Stop(Append(cmdq, Frame("stop", NoConn)))
        BY <1>4, StopAppend
    <2> QED
        BY <2>1 DEF SendStop, Stop
<1>6. cmdq' = cmdq => Stop(cmdq)' = Stop(cmdq)
    BY DEF Stop
<1>7. rx' = rx => Stop(rx)' = Stop(rx)
    BY DEF Stop
<1>8. CASE SenderTop(s)
    <2>1. CASE SendStop
        <3>1. snd'[s].pc = "recv"
            BY <1>2, <1>8 DEF SenderTop, SenderGoto, SenderRecord, ServerTypes, SenderTypes
        <3> QED
            BY <1>3, <1>5, <2>1, <3>1
    <2>2. CASE UNCHANGED cmdq /\ SenderGoto(s, "recv")
        <3>1. snd'[s].pc = "recv" /\ snd'[s].stop = snd[s].stop
            BY <1>2, <2>2 DEF SenderGoto, SenderRecord, ServerTypes, SenderTypes
        <3>2. UNCHANGED <<rx, missed>> /\ snd[s].pc = "top"
            BY <1>8 DEF SenderTop, history
        <3> QED
            BY <1>2, <1>3, <1>6, <1>7, <2>2, <3>1, <3>2
    <2> QED
        BY <1>8, <2>1, <2>2 DEF SenderTop
<1>9. CASE SenderRecv(s)
    <2>1. /\ rx # <<>> /\ rx' = Tail(rx) /\ UNCHANGED missed /\ snd[s].pc = "recv"
          /\ (SendStop \/ UNCHANGED cmdq)
        BY <1>9 DEF SenderRecv, history
    <2>2. /\ snd'[s].pc = "test" /\ snd'[s].buf = Head(rx).kind
          /\ (SendStop \/ snd'[s].stop = snd[s].stop)
        <3>1. \/ /\ SendStop
                 /\ snd' = [snd EXCEPT ![s].pc = "test", ![s].buf = Head(rx).kind,
                                       ![s].stop = 1]
              \/ snd' = [snd EXCEPT ![s].pc = "test", ![s].buf = Head(rx).kind]
            BY <1>9 DEF SenderRecv
        <3>2. CASE snd' = [snd EXCEPT ![s].pc = "test", ![s].buf = Head(rx).kind]
            BY <1>2, <3>2 DEF SenderRecord, ServerTypes, SenderTypes
        <3>3. CASE /\ SendStop
                   /\ snd' = [snd EXCEPT ![s].pc = "test", ![s].buf = Head(rx).kind,
                                         ![s].stop = 1]
            BY <1>2, <3>3 DEF SenderRecord, ServerTypes, SenderTypes
        <3> QED
            BY <3>1, <3>2, <3>3
    <2>3. Stop(rx) <=> Stop(rx)' \/ Head(rx).kind = "stop"
        <3>1. Stop(rx) <=> Stop(Tail(rx)) \/ Head(rx).kind = "stop"
            BY <1>4, <2>1, StopTail
        <3>2. Stop(rx)' = Stop(Tail(rx))
            BY <2>1 DEF Stop
        <3> QED
            BY <3>1, <3>2
    <2> QED
        BY <1>2, <1>3, <1>5, <1>6, <2>1, <2>2, <2>3
<1>10. CASE SenderTimeout(s)
    <2>1. snd'[s].pc = "top" /\ snd'[s].stop = snd[s].stop /\ snd[s].pc = "recv"
        BY <1>2, <1>10 DEF SenderTimeout, SenderGoto, SenderRecord, ServerTypes, SenderTypes
    <2>2. UNCHANGED <<cmdq, rx, missed>>
        BY <1>10 DEF SenderTimeout, line, history
    <2> QED
        BY <1>2, <1>3, <1>6, <1>7, <2>1, <2>2
<1>11. CASE SenderTest(s)
    <2>1. /\ snd'[s].pc = IF continueRead /\ snd[s].buf = "stop" THEN "clear" ELSE "top"
          /\ snd'[s].stop = snd[s].stop /\ snd'[s].buf = snd[s].buf /\ snd[s].pc = "test"
        BY <1>2, <1>11 DEF SenderTest, SenderGoto, SenderRecord, ServerTypes, SenderTypes
    <2>2. UNCHANGED <<cmdq, rx>>
        BY <1>11 DEF SenderTest, line
    <2>3. /\ missed \subseteq missed'
          /\ ~continueRead /\ snd[s].buf = "stop" => s \in missed'
        BY <1>11 DEF SenderTest
    <2> QED
        BY <1>2, <1>3, <1>6, <1>7, <2>1, <2>2, <2>3
<1>12. CASE SenderClear(s) \/ SenderEnd(s) \/ SenderClose(s) \/ SenderForget(s)
    <2>1. \E label \in {"end", "close", "forget", "none"} : SenderGoto(s, label)
        BY <1>12 DEF SenderClear, SenderEnd, SenderClose, SenderForget
    <2>2. snd'[s].pc \in {"end", "close", "forget", "none"}
        BY <1>2, <2>1 DEF SenderGoto, SenderRecord, ServerTypes, SenderTypes
    <2> QED
        BY <2>2 DEF Forwards
<1> QED
    BY <1>8, <1>9, <1>10, <1>11, <1>12 DEF SendThread

\* Every step keeps the invariant: a new send thread has asked for nothing yet, and there
\* is no other that forwards.
LEMMA FlagNext ==
    ASSUME Polite, "gpi" \notin Command, FlagInv, [Next]_vars
    PROVE  FlagInv'
<1>1. LineInv'
    BY LineNext DEF FlagInv
<1> SUFFICES ASSUME NEW s \in Sender, Forwards(s)'
             PROVE  /\ snd'[s].stop # 0 => StopComing(s)' \/ s \in missed'
                    /\ snd'[s].pc = "clear" => snd'[s].buf = "stop"
    BY <1>1 DEF FlagInv, Stopping
<1>2. ASSUME snd'[s] = snd[s], Stop(cmdq) \/ Stop(rx) => Stop(cmdq)' \/ Stop(rx)',
             s \in missed => s \in missed'
      PROVE  /\ snd'[s].stop # 0 => StopComing(s)' \/ s \in missed'
             /\ snd'[s].pc = "clear" => snd'[s].buf = "stop"
    <2>1. Forwards(s)
        BY <1>2 DEF Forwards
    <2>2. StopComing(s)' <=> \/ Stop(cmdq)' \/ Stop(rx)'
                             \/ snd'[s].pc \in {"test", "clear"} /\ snd'[s].buf = "stop"
        BY DEF StopComing, Stop
    <2> QED
        BY <1>2, <2>1, <2>2, ComingFrom DEF FlagInv, Stopping
<1>3. CASE \/ AcceptFails \/ ModuleAnswer \/ ModuleTag \/ UNCHANGED vars
           \/ \E c \in Conn : Host(c) \/ Accept(c)
    BY <1>2, <1>3, StopAround DEF FlagInv, LineInv
<1>4. ASSUME NEW c \in Conn, ClientThread(c), Forwards(s)
      PROVE  /\ snd'[s].stop # 0 => StopComing(s)' \/ s \in missed'
             /\ snd'[s].pc = "clear" => snd'[s].buf = "stop"
    <2>1. /\ Stop(cmdq) \/ Stop(rx) => Stop(cmdq)' \/ Stop(rx)'
          /\ UNCHANGED missed
        BY <1>4, StopClient DEF FlagInv
    <2>2. snd'[s] = snd[s]
        <3>1. \/ UNCHANGED snd
              \/ \E t \in Sender : /\ snd[t].pc = "none"
                                   /\ \A u \in Sender \ {t} : snd'[u] = snd[u]
            BY <1>4, ClientMoves DEF FlagInv, LineInv, Owner
        <3> QED
            BY <1>4, <3>1 DEF Forwards
    <2> QED
        BY <1>2, <2>1, <2>2
<1>5. ASSUME NEW c \in Conn, ClientThread(c), ~Forwards(s)
      PROVE  /\ snd'[s].stop # 0 => StopComing(s)' \/ s \in missed'
             /\ snd'[s].pc = "clear" => snd'[s].buf = "stop"
    <2>1. \E t \in Sender : /\ snd'[t].pc = "top" /\ snd'[t].stop = 0
                            /\ \A u \in Sender \ {t} : snd'[u] = snd[u]
        BY <1>5, ClientFds DEF FlagInv, LineInv, Forwards
    <2>2. snd'[s].pc = "top" /\ snd'[s].stop = 0
        BY <1>5, <2>1 DEF Forwards
    <2> QED
        BY <2>2
<1>6. ASSUME NEW t \in Sender, SendThread(t), t # s
      PROVE  /\ snd'[s].stop # 0 => StopComing(s)' \/ s \in missed'
             /\ snd'[s].pc = "clear" => snd'[s].buf = "stop"
    <2>1. snd'[s] = snd[s]
        BY <1>6, SenderMoves DEF FlagInv, LineInv
    <2>2. ~Forwards(t)
        BY <1>6, <2>1 DEF FlagInv, LineInv, Owner, Forwards
    <2>3. UNCHANGED <<cmdq, rx, missed>>
        BY <1>6, <2>2 DEF Forwards, SendThread, SenderTop, SenderRecv, SenderTimeout,
                          SenderTest, SenderClear, SenderEnd, SenderClose, SenderForget, line,
                          history
    <2>4. Stop(cmdq) \/ Stop(rx) => Stop(cmdq)' \/ Stop(rx)'
        BY <2>3 DEF Stop
    <2> QED
        BY <1>2, <2>1, <2>3, <2>4
<1>7. ASSUME SendThread(s)
      PROVE  /\ snd'[s].stop # 0 => StopComing(s)' \/ s \in missed'
             /\ snd'[s].pc = "clear" => snd'[s].buf = "stop"
    BY <1>7, StopSender
<1> QED
    BY <1>3, <1>4, <1>5, <1>6, <1>7 DEF Next

\* While continueRead is up one send thread is there, and once it has asked the module
\* to stop, the answer that makes it lower the flag is coming to it; unless it took the
\* answer before the flag was raised: then it waits for another for ever.
THEOREM RaisedFlagWillFall ==
    ASSUME Polite, "gpi" \notin Command
    PROVE  Spec => []FlagWillFall
<1>1. Init => FlagInv
    <2>1. ASSUME Init PROVE Stopping
        <3>1. \A s \in Sender : snd[s].pc = "none"
            BY <2>1 DEF Init
        <3> QED
            BY <3>1 DEF Stopping, Forwards
    <2> QED
        BY <2>1, LineInit DEF FlagInv
<1>2. FlagInv /\ [Next]_vars => FlagInv'
    BY FlagNext
<1>3. FlagInv => FlagWillFall
    <2> SUFFICES ASSUME FlagInv, continueRead
                 PROVE  /\ Cardinality(Alive) = 1
                        /\ \A s \in Alive : snd[s].stop # 0 => StopComing(s) \/ s \in missed
        BY DEF FlagWillFall
    <2>1. Alive = {s \in Sender : Forwards(s)}
        BY DEF Alive, Forwards
    <2>2. \E x : Alive = {x}
        BY <2>1 DEF FlagInv, LineInv, Owner
    <2>3. Cardinality(Alive) = 1
        BY <2>2, FS_Singleton
    <2> QED
        BY <2>1, <2>3 DEF FlagInv, Stopping
<1> QED
    BY <1>1, <1>2, <1>3, PTL DEF Spec
-----------------------------------------------------------------------------
(* The connections, when hosts come one after the other: whom m6e_shutdown *)
(* closes.                                                                 *)

\* A thread at work has the descriptor of its own connection, and client_fd is
\* the same or none; so it is for a send thread, which is to shut down the
\* connection only when client_fd is none.
Own ==
    /\ \A c \in Conn : Live(c) /\ peer[c] # "pending" => latest = c
    /\ \A c \in Conn : cl[c].pc \in Working =>
         /\ clientFd \in {NoFd, cl[c].fd}
         /\ cl[c].fd \in Fd => fds[cl[c].fd] \in {NoConn, c}
    /\ (\E c \in Conn : peer[c] = "pending") => \A s \in Sender : snd[s].pc = "none"
    /\ \A s \in Sender : snd[s].pc # "none" =>
         /\ clientFd \in {NoFd, snd[s].fd}
         /\ snd[s].stop = 2 \/ snd[s].pc \in {"end", "close", "forget"} => clientFd = NoFd

OwnInv == LineInv /\ NameInv /\ Own

\* The initial state has no thread.
LEMMA OwnInit == Init => OwnInv
<1> SUFFICES ASSUME Init PROVE OwnInv
    OBVIOUS
<1>1. /\ \A c \in Conn : cl[c].pc = "none" /\ peer[c] = "none"
      /\ \A s \in Sender : snd[s].pc = "none"
    BY DEF Init
<1> QED
    BY <1>1, LineInit, NameInit DEF OwnInv, Own, Live, Working

\* Every step keeps the invariant: a connection is accepted only when no thread
\* of another is left.
LEMMA OwnNext ==
    ASSUME Polite, "gpi" \notin Command, OwnInv, [Next]_vars
    PROVE  OwnInv'
<1>1. LineInv' /\ NameInv'
    BY LineNext, NameNext DEF OwnInv
<1> USE DEF OwnInv, LineInv
<1>2. ASSUME NEW c \in Conn, HostConnect(c) PROVE OwnInv'
    <2>1. /\ \A d \in Conn : ~Live(d)
          /\ \A s \in Sender : snd[s].pc = "none"
        BY <1>2 DEF HostConnect, Idle, Live
    <2>2. peer' = [peer EXCEPT ![c] = "pending"]
          /\ UNCHANGED <<cl, snd, fds, clientFd, latest>>
        BY <1>2 DEF HostConnect, history
    <2>3. \A d \in Conn : Live(d)' => d = c
        BY <2>1, <2>2 DEF Live
    <2> QED
        BY <1>1, <2>1, <2>2, <2>3 DEF Own, ServerTypes, HostTypes
<1>3. ASSUME NEW c \in Conn, HostLeave(c) PROVE OwnInv'
    <2>1. /\ \E how \in {"closed", "reset"} : peer' = [peer EXCEPT ![c] = how]
          /\ peer[c] = "open" /\ UNCHANGED <<cl, snd, fds, clientFd, latest>>
        BY <1>3 DEF HostLeave, history
    <2> QED
        BY <1>1, <2>1 DEF Own, Live, ServerTypes, HostTypes
<1>4. ASSUME NEW c \in Conn, Accept(c) PROVE OwnInv'
    <2>1. /\ peer' = [peer EXCEPT ![c] = "open"] /\ peer[c] = "pending"
          /\ UNCHANGED snd /\ latest' = c
        BY <1>4 DEF Accept
    <2>2. cl'[c].pc = "begin" /\ \A d \in Conn \ {c} : cl'[d] = cl[d]
        BY <1>4 DEF Accept, ServerTypes, ClientTypes, ClientRecord
    <2>3. \A d \in Conn \ {c} : cl[d].pc \in {"none", "gone"} /\ ~Live(d)
        BY <2>1 DEF Session, Live
    <2>4. \A d \in Conn \ {c} : ~Live(d)'
        BY <2>1, <2>2, <2>3 DEF Live, ServerTypes, HostTypes
    <2>5. \A d \in Conn : cl'[d].pc \notin Working
        BY <2>2, <2>3 DEF Working
    <2>6. \A s \in Sender : snd'[s].pc = "none"
        BY <2>1 DEF Own
    <2> QED
        BY <1>1, <2>1, <2>4, <2>5, <2>6 DEF Own
<1>5. CASE AcceptFails
    <2>1. clientFd' = NoFd /\ UNCHANGED <<peer, cl, snd, fds, latest>>
        BY <1>5 DEF AcceptFails, hosts, history
    <2> QED
        BY <1>1, <2>1 DEF Own, Live
<1>6. CASE \/ UNCHANGED vars \/ ModuleAnswer \/ ModuleTag
           \/ \E c \in Conn, k \in Command : HostSend(c, k)
    <2>1. UNCHANGED <<peer, cl, snd, fds, clientFd, latest>>
        BY <1>6 DEF vars, hosts, history, ModuleAnswer, ModuleTag, HostSend
    <2> QED
        BY <1>1, <2>1 DEF Own, Live
<1>7. ASSUME NEW c \in Conn, ClientThread(c) PROVE OwnInv'
    <2>1. /\ UNCHANGED <<peer, latest>> /\ Closes
          /\ \A d \in Conn \ {c} : cl'[d] = cl[d]
        BY <1>7, ClientFds
    <2>2. cl[c].pc \notin {"none", "gone"}
        BY <1>7, ClientMoves DEF Owner
    <2>3. Live(c) /\ peer[c] # "pending" /\ latest = c
        BY <2>2 DEF Session, Own, Live
    <2>4. \A d \in Conn \ {c} : ~Live(d) /\ cl[d].pc \in {"none", "gone"}
        BY <2>3 DEF Session, Live
    <2>5. \A d \in Conn : Live(d)' /\ peer'[d] # "pending" => latest' = d
        BY <2>1, <2>3, <2>4 DEF Live
    <2>6. ASSUME cl'[c].pc \in Working
          PROVE  /\ clientFd' \in {NoFd, cl'[c].fd}
                 /\ cl'[c].fd \in Fd => fds'[cl'[c].fd] \in {NoConn, c}
        <3>1. CASE cl[c].pc \in Working /\ cl'[c].fd = cl[c].fd
            BY <2>1, <3>1 DEF Own, Closes
        <3>2. CASE cl[c].pc = "copy" /\ cl'[c].fd = clientFd
            BY <2>1, <2>3, <3>2 DEF Closes, NameInv, NameIsLatest
        <3> QED
            BY <1>7, <2>6, <3>1, <3>2, ClientFds
    <2>7. \A d \in Conn \ {c} : cl'[d].pc \notin Working
        BY <2>1, <2>4 DEF Working
    <2>8. \A d \in Conn : peer'[d] # "pending"
        BY <2>1, <2>3, <2>4 DEF Live, Session
    <2> DEFINE Bound(s) == snd'[s].pc # "none" =>
            /\ clientFd' \in {NoFd, snd'[s].fd}
            /\ snd'[s].stop = 2 \/ snd'[s].pc \in {"end", "close", "forget"} => clientFd' = NoFd
    <2>9. \A s \in Sender : Bound(s)
        <3>1. CASE UNCHANGED snd
            BY <2>1, <3>1 DEF Own, Closes
        <3>2. ASSUME cl[c].pc = "check", NEW s \in Sender,
                     snd'[s].pc = "top", snd'[s].fd = cl[c].fd, snd'[s].stop = 0,
                     \A t \in Sender \ {s} : snd'[t] = snd[t]
              PROVE  \A t \in Sender : Bound(t)
            <4>1. clientFd' \in {NoFd, cl[c].fd}
                BY <2>1, <3>2 DEF Own, Closes, Working
            <4>2. Bound(s)
                BY <3>2, <4>1
            <4>3. ASSUME NEW t \in Sender \ {s} PROVE Bound(t)
                BY <2>1, <3>2 DEF Own, Closes
            <4> QED
                BY <4>2, <4>3
        <3> HIDE DEF Bound
        <3> QED
            BY <1>7, <3>1, <3>2, ClientFds
    <2> QED
        BY <1>1, <2>5, <2>6, <2>7, <2>8, <2>9 DEF Own
<1>8. ASSUME NEW s \in Sender, SendThread(s) PROVE OwnInv'
    <2>1. /\ UNCHANGED <<peer, latest, cl>> /\ Closes /\ snd[s].pc # "none"
          /\ \A t \in Sender \ {s} : snd'[t] = snd[t]
          /\ snd'[s].fd = snd[s].fd
          /\ snd'[s].stop = 2 \/ snd'[s].pc \in {"end", "close", "forget"} =>
                \/ snd[s].stop = 2 \/ snd[s].pc \in {"end", "close", "forget"}
                \/ snd[s].fd # clientFd
        BY <1>8, SenderFds
    <2>2. \A t \in Sender : snd'[t].pc # "none" =>
            /\ clientFd' \in {NoFd, snd'[t].fd}
            /\ snd'[t].stop = 2 \/ snd'[t].pc \in {"end", "close", "forget"} => clientFd' = NoFd
        BY <2>1 DEF Own, Closes
    <2>3. \A c \in Conn : cl[c].pc \in Working =>
            /\ clientFd' \in {NoFd, cl[c].fd}
            /\ cl[c].fd \in Fd => fds'[cl[c].fd] \in {NoConn, c}
        BY <2>1 DEF Own, Closes
    <2>4. \A c \in Conn : peer[c] # "pending"
        BY <2>1 DEF Own
    <2>5. \A c \in Conn : Live(c)' /\ peer'[c] # "pending" => latest' = c
        BY <2>1 DEF Own, Live
    <2> QED
        BY <1>1, <2>1, <2>2, <2>3, <2>4, <2>5 DEF Own
<1> QED
    BY <1>2, <1>3, <1>4, <1>5, <1>6, <1>7, <1>8 DEF Next, Host

\* Every reachable state satisfies the invariant.
THEOREM OwnInvariant ==
    ASSUME Polite, "gpi" \notin Command
    PROVE  Spec => []OwnInv
<1>1. OwnInv /\ [Next]_vars => OwnInv'
    BY OwnNext
<1> QED
    BY <1>1, OwnInit, PTL DEF Spec

\* When hosts come one after the other nobody closes the connection of a host
\* that is still there but its own thread, though m6e_shutdown closes whatever
\* client_fd names and the send thread calls it, too.
THEOREM ClosedByOwnThread ==
    ASSUME Polite, "gpi" \notin Command
    PROVE  Spec => ClosedByItself
<1> DEFINE Closed == \A d \in Conn :
        (\E f \in Fd : fds[f] = d) /\ (\A f \in Fd : fds'[f] # d) /\ peer[d] = "open"
           => cl'[d] # cl[d]
<1>1. OwnInv /\ [Next]_vars => [Closed]_vars
    <2> SUFFICES ASSUME OwnInv, [Next]_vars, NEW d \in Conn, NEW f \in Fd,
                        fds[f] = d, \A g \in Fd : fds'[g] # d
                 PROVE  cl'[d] # cl[d]
        OBVIOUS
    <2> USE DEF OwnInv, LineInv
    <2>1. fds'[f] # fds[f] /\ d # NoConn
        BY ServerAssumption
    <2>2. ASSUME NEW c \in Conn, Accept(c) PROVE FALSE
        <3>1. PICK g \in FreeFds : fds' = [fds EXCEPT ![g] = c]
            BY <2>2 DEF Accept
        <3>2. g # f
            BY <2>1, <3>1 DEF FreeFds
        <3> QED
            BY <2>1, <3>1, <3>2 DEF ServerTypes, FdTypes
    <2>3. ASSUME NEW c \in Conn, ClientError(c) PROVE cl'[d] # cl[d]
        <3>1. f = cl[c].fd /\ cl[c].pc = "recv"
            BY <2>1, <2>3 DEF ClientError, ServerTypes, FdTypes
        <3>2. d = c
            BY <2>1, <3>1 DEF Own, Working
        <3>3. cl'[c].pc = "end"
            BY <2>3 DEF ClientError, ServerTypes, ClientTypes, ClientRecord
        <3> QED
            BY <3>1, <3>2, <3>3
    <2>4. ASSUME NEW c \in Conn, ClientClose(c) PROVE cl'[d] # cl[d]
        <3>1. f = clientFd /\ clientFd \in Fd /\ cl[c].pc = "close"
            BY <2>1, <2>4 DEF ClientClose, CloseCurrent, ServerTypes, FdTypes
        <3>2. latest = c
            BY <3>1 DEF Own, Session, Live
        <3>3. d = c
            BY <2>1, <3>1, <3>2 DEF NameInv, NameIsLatest
        <3>4. cl'[c].pc = "forget"
            BY <2>4 DEF ClientClose, Goto, ServerTypes, ClientTypes, ClientRecord
        <3> QED
            BY <3>1, <3>3, <3>4
    <2>5. ASSUME NEW s \in Sender, SenderClose(s) PROVE FALSE
        BY <2>1, <2>5 DEF SenderClose, CloseCurrent, Own
    <2>6. CASE UNCHANGED fds
        BY <2>1, <2>6
    <2> QED
        BY <2>2, <2>3, <2>4, <2>5, <2>6
        DEF Next, Host, HostConnect, HostSend, HostLeave, AcceptFails, ModuleAnswer, ModuleTag,
            vars, ClientThread, ClientBegin, ClientCopy, ClientSelect, ClientNothing,
            ClientCommand, ClientNoCommand, ClientGpi, ClientTry, ClientAwait, ClientTimeout,
            ClientCheck, ClientFlag, ClientEnd, ClientForget, SendThread, SenderTop,
            SenderRecv, SenderTimeout, SenderTest, SenderClear, SenderEnd, SenderForget
<1> QED
    BY <1>1, OwnInvariant, PTL DEF Spec, ClosedByItself
-----------------------------------------------------------------------------
(* Answers, when hosts come one after the other, the module is prompt and  *)
(* nobody asks it to read continuously.                                    *)

Waiting(c) == cl[c].pc \in {"try", "await"}
Asked == [kind : Command, for : Conn \cup {NoConn}]
GpiFrame == [kind : {"gpi"}, for : Conn \cup {NoConn}]

\* Nothing has to do with continuous reading.
NoReading ==
    /\ ~continueRead /\ ~reading
    /\ \A s \in Sender : snd[s].pc = "none"
    /\ \A c \in Conn : cl[c].buf # "start" /\ cl[c].pc # "flag"
    /\ cmdq \in Seq(Asked) /\ rx \in Seq(Asked)

\* All that is on the line, in the order in which it will be received.
Whole == rx \o cmdq

\* The command of a thread that waits, or the answer to it, is the last on the line; all
\* before it, and all there is while nobody waits, is left over from gpi commands.
Answers(c, frame) ==
    /\ frame.for = fds[cl[c].fd]
    /\ Op(frame.kind) = cl[c].op /\ frame.kind # "gpi"
    /\ \E q \in Seq(GpiFrame) : Whole = Append(q, frame)
OneAnswer ==
    /\ \A c \in Conn : Waiting(c) => \E frame \in Asked : Answers(c, frame)
    /\ (\A c \in Conn : ~Waiting(c)) => Whole \in Seq(GpiFrame)

AnswerInv == ServerTypes /\ HistoryTypes /\ Session /\ NoReading /\ OneAnswer

\* Hosts one after the other keep it at one session, whatever they send.
LEMMA SessionNext ==
    ASSUME Polite, ServerTypes, HistoryTypes, Session, [Next]_vars
    PROVE  Session'
<1> USE DEF Session, Live
<1>1. ASSUME NEW c \in Conn, HostConnect(c) PROVE Session'
    <2>1. \A d \in Conn : ~Live(d)
        BY <1>1 DEF HostConnect, Idle
    <2>2. peer' = [peer EXCEPT ![c] = "pending"] /\ UNCHANGED cl /\ peer[c] = "none"
        BY <1>1 DEF HostConnect
    <2> QED
        BY <2>1, <2>2 DEF ServerTypes, HostTypes
<1>2. ASSUME NEW c \in Conn, HostLeave(c) PROVE Session'
    <2>1. \E how \in {"closed", "reset"} : peer' = [peer EXCEPT ![c] = how]
        BY <1>2 DEF HostLeave
    <2>2. peer[c] = "open" /\ UNCHANGED cl
        BY <1>2 DEF HostLeave
    <2> QED
        BY <2>1, <2>2 DEF ServerTypes, HostTypes
<1>3. ASSUME NEW c \in Conn, Accept(c) PROVE Session'
    <2>1. peer' = [peer EXCEPT ![c] = "open"] /\ peer[c] = "pending"
        BY <1>3 DEF Accept
    <2>2. cl'[c].pc = "begin" /\ \A d \in Conn \ {c} : cl'[d] = cl[d]
        BY <1>3 DEF Accept, ServerTypes, ClientTypes, ClientRecord
    <2> QED
        BY <2>1, <2>2 DEF ServerTypes, HostTypes
<1>4. ASSUME NEW c \in Conn, ClientThread(c) PROVE Session'
    <2>1. peer' = peer /\ \A d \in Conn \ {c} : cl'[d] = cl[d]
        BY <1>4, ClientFds
    <2>2. cl[c].pc \notin {"none", "gone"}
        BY <1>4 DEF ClientThread, ClientBegin, ClientCopy, ClientSelect, ClientError,
                    ClientNothing, ClientCommand, ClientNoCommand, Receives, ClientGpi,
                    ClientTry, ClientAwait, ClientTimeout, ClientCheck, ClientFlag, ClientEnd,
                    ClientClose, ClientForget
    <2> QED
        BY <2>1, <2>2
<1>5. ASSUME NEW s \in Sender, SendThread(s) PROVE Session'
    BY <1>5, SenderFds
<1>6. CASE \/ UNCHANGED vars \/ AcceptFails \/ ModuleAnswer \/ ModuleTag
           \/ \E c \in Conn, k \in Command : HostSend(c, k)
    <2>1. UNCHANGED <<peer, cl>>
        BY <1>6 DEF vars, hosts, AcceptFails, ModuleAnswer, ModuleTag, HostSend
    <2> QED
        BY <2>1
<1> QED
    BY <1>1, <1>2, <1>3, <1>4, <1>5, <1>6 DEF Next, Host

\* The line as a whole does not change when the module answers.
LEMMA WholeMoved ==
    ASSUME NEW S, NEW r \in Seq(S), NEW q \in Seq(S), q # <<>>
    PROVE  Append(r, Head(q)) \o Tail(q) = r \o q
<1>1. q = <<Head(q)>> \o Tail(q) /\ Head(q) \in S
    OBVIOUS
<1>2. Tail(q) \in Seq(S) /\ <<Head(q)>> \in Seq(S)
    BY <1>1
<1>3. Append(r, Head(q)) = r \o <<Head(q)>>
    BY <1>1, AppendIsConcat
<1>4. (r \o <<Head(q)>>) \o Tail(q) = r \o (<<Head(q)>> \o Tail(q))
    BY <1>2, ConcatAssociative
<1> QED
    BY <1>1, <1>3, <1>4, Zenon

\* What is received is the head of the whole, and what is asked is put at its end.
LEMMA WholeTaken ==
    ASSUME NEW S, NEW r \in Seq(S), NEW q \in Seq(S), r # <<>>
    PROVE  /\ r \o q # <<>> /\ Head(r \o q) = Head(r)
           /\ Tail(r) \o q = Tail(r \o q)
<1>1. r = <<Head(r)>> \o Tail(r) /\ Head(r) \in S
    OBVIOUS
<1>2. Tail(r) \in Seq(S) /\ <<Head(r)>> \in Seq(S)
    BY <1>1
<1>3. (<<Head(r)>> \o Tail(r)) \o q = <<Head(r)>> \o (Tail(r) \o q)
    BY <1>2, ConcatAssociative
<1>4. Tail(r) \o q \in Seq(S)
    BY <1>2, ConcatProperties
<1>5. ASSUME NEW t \in Seq(S), NEW e \in S
      PROVE  <<e>> \o t # <<>> /\ Head(<<e>> \o t) = e /\ Tail(<<e>> \o t) = t
    OBVIOUS
<1>6. r \o q = <<Head(r)>> \o (Tail(r) \o q)
    BY <1>1, <1>3, Zenon
<1> QED
    BY <1>1, <1>4, <1>5, <1>6, Zenon

LEMMA WholeAppended ==
    ASSUME NEW S, NEW r \in Seq(S), NEW q \in Seq(S), NEW e \in S
    PROVE  r \o Append(q, e) = Append(r \o q, e)
<1>1. Append(q, e) = q \o <<e>> /\ <<e>> \in Seq(S)
    BY AppendIsConcat
<1>2. (r \o q) \o <<e>> = r \o (q \o <<e>>)
    BY <1>1, ConcatAssociative
<1>3. r \o q \in Seq(S)
    BY ConcatProperties
<1>4. (r \o q) \o <<e>> = Append(r \o q, e)
    BY <1>3, AppendIsConcat
<1> QED
    BY <1>1, <1>2, <1>4, Zenon

\* What is received next is the head of the whole line.
LEMMA HeadOfWhole ==
    ASSUME NoReading, rx # <<>>
    PROVE  /\ rx' = Tail(rx) /\ cmdq' = cmdq => Whole' = Tail(Whole)
           /\ Head(rx) = Head(Whole) /\ Whole # <<>>
           /\ Head(rx) \in Asked /\ Tail(rx) \in Seq(Asked)
<1>1. rx \in Seq(Asked) /\ cmdq \in Seq(Asked)
    BY DEF NoReading
<1>2. /\ rx \o cmdq # <<>> /\ Head(rx \o cmdq) = Head(rx)
      /\ Tail(rx) \o cmdq = Tail(rx \o cmdq)
    BY <1>1, WholeTaken
<1>3. Head(rx) \in Asked /\ Tail(rx) \in Seq(Asked)
    BY <1>1
<1> QED
    BY <1>2, <1>3 DEF Whole

\* The initial state has an empty line.
LEMMA AnswerInit == Init => AnswerInv
<1> SUFFICES ASSUME Init PROVE AnswerInv
    OBVIOUS
<1>1. /\ \A c \in Conn : cl[c].pc = "none" /\ cl[c].buf = "" /\ peer[c] = "none"
      /\ \A s \in Sender : snd[s].pc = "none"
      /\ ~continueRead /\ ~reading /\ cmdq = <<>> /\ rx = <<>>
    BY DEF Init
<1>2. Session
    BY <1>1 DEF Session, Live
<1>3. NoReading
    BY <1>1, EmptySeq DEF NoReading
<1>4. OneAnswer
    <2>1. <<>> \o <<>> = <<>>
        OBVIOUS
    <2>2. Whole \in Seq(GpiFrame)
        BY <1>1, <2>1, EmptySeq, Zenon DEF Whole
    <2> QED
        BY <1>1, <2>2 DEF OneAnswer, Waiting
<1> QED
    BY <1>2, <1>3, <1>4, TypesInit, HistoryInit DEF AnswerInv

\* A step that no thread takes part in, and that leaves the line as a whole alone.
LEMMA AnswerFrame ==
    ASSUME NoReading, OneAnswer,
           UNCHANGED <<cl, snd, continueRead, reading>>, Whole' = Whole,
           cmdq' \in Seq(Asked), rx' \in Seq(Asked),
           \A c \in Conn : Waiting(c) => fds'[cl[c].fd] = fds[cl[c].fd]
    PROVE  NoReading' /\ OneAnswer'
<1>1. NoReading'
    BY DEF NoReading
<1>2. ASSUME NEW c \in Conn, NEW f \in Asked, Waiting(c), Answers(c, f)
      PROVE  Answers(c, f)'
    BY <1>2 DEF Answers
<1>3. \A c \in Conn : Waiting(c)' <=> Waiting(c)
    BY DEF Waiting
<1> QED
    BY <1>1, <1>2, <1>3 DEF OneAnswer

\* A step after which nobody waits.
LEMMA AnswerAway ==
    ASSUME NoReading, NEW c \in Conn, UNCHANGED <<snd, continueRead, reading>>,
           cmdq' \in Seq(Asked), rx' \in Seq(Asked), Whole' \in Seq(GpiFrame),
           \A d \in Conn \ {c} : ~Waiting(d) /\ cl'[d] = cl[d],
           ~Waiting(c)', cl'[c].buf # "start", cl'[c].pc # "flag"
    PROVE  NoReading' /\ OneAnswer'
<1>1. NoReading'
    BY DEF NoReading
<1>2. \A d \in Conn : ~Waiting(d)'
    BY DEF Waiting
<1> QED
    BY <1>1, <1>2 DEF OneAnswer

\* What the module receives is answered, in its place.
LEMMA AnswerModule ==
    ASSUME AnswerInv, {"start", "stop"} \cap Command = {}, ModuleAnswer
    PROVE  NoReading' /\ OneAnswer'
<1> USE DEF AnswerInv
<1>1. /\ cmdq # <<>> /\ cmdq' = Tail(cmdq) /\ rx' = Append(rx, Head(cmdq))
      /\ UNCHANGED <<fds, continueRead, cl, snd>>
    BY DEF ModuleAnswer
<1>2. cmdq \in Seq(Asked) /\ rx \in Seq(Asked)
    BY DEF NoReading
<1>3. Head(cmdq) \in Asked /\ Tail(cmdq) \in Seq(Asked) /\ Append(rx, Head(cmdq)) \in Seq(Asked)
    BY <1>1, <1>2
<1>4. Head(cmdq).kind \in Command
    BY <1>3 DEF Asked
<1>5. reading' = reading
    BY <1>4 DEF ModuleAnswer
<1>6. Whole' = Whole
    BY <1>1, <1>2, WholeMoved DEF Whole
<1> QED
    BY <1>1, <1>3, <1>5, <1>6, AnswerFrame

\* Only the thread that takes a step is there, and waits if anyone does.
LEMMA AnswerAlone ==
    ASSUME Session, NEW c \in Conn, cl[c].pc \notin {"none", "gone"}
    PROVE  \A d \in Conn \ {c} : ~Waiting(d)
BY DEF Session, Live, Waiting

\* A client thread puts its command behind what is left of gpi, and takes the answer to
\* it before it goes on.
LEMMA AnswerClient ==
    ASSUME Prompt, {"start", "stop"} \cap Command = {}, AnswerInv,
           NEW c \in Conn, ClientThread(c)
    PROVE  NoReading' /\ OneAnswer'
<1> USE DEF AnswerInv
<1>1. \A d \in Conn \ {c} : cl'[d] = cl[d]
    BY ClientFds
<1>2. cl[c].pc \notin {"none", "gone"}
    BY DEF ClientThread, ClientBegin, ClientCopy, ClientSelect, ClientError,
           ClientNothing, ClientCommand, ClientNoCommand, Receives, ClientGpi,
           ClientTry, ClientAwait, ClientTimeout, ClientCheck, ClientFlag, ClientEnd,
           ClientClose, ClientForget
<1>3. \A d \in Conn \ {c} : ~Waiting(d) /\ cl'[d] = cl[d]
    BY <1>1, <1>2, AnswerAlone
<1>4. ASSUME NEW l, Goto(c, l)
      PROVE  /\ cl'[c].pc = l /\ cl'[c].buf = cl[c].buf
             /\ cl'[c].fd = cl[c].fd /\ cl'[c].op = cl[c].op
    BY <1>4 DEF Goto, ServerTypes, ClientTypes, ClientRecord
<1>5. ~continueRead /\ \A d \in Conn : cl[d].buf # "start" /\ cl[d].pc # "flag"
    BY DEF NoReading
<1>6. cmdq \in Seq(Asked) /\ rx \in Seq(Asked)
    BY DEF NoReading
<1>7. ASSUME ~Waiting(c) PROVE Whole \in Seq(GpiFrame)
    BY <1>3, <1>7 DEF OneAnswer
<1>8. ASSUME ~Waiting(c), UNCHANGED <<snd, continueRead, line>>,
             ~Waiting(c)', cl'[c].buf # "start", cl'[c].pc # "flag"
      PROVE  NoReading' /\ OneAnswer'
    <2>1. UNCHANGED <<cmdq, rx, reading>>
        BY <1>8 DEF line
    <2>2. Whole' \in Seq(GpiFrame)
        BY <1>7, <1>8, <2>1 DEF Whole
    <2> QED
        BY <1>3, <1>6, <1>8, <2>1, <2>2, AnswerAway
<1>9. ASSUME NEW l \in ClientPc \ {"try", "await", "flag"},
             Goto(c, l), ~Waiting(c), UNCHANGED <<snd, continueRead, line>>
      PROVE  NoReading' /\ OneAnswer'
    <2>1. cl'[c].pc = l /\ cl'[c].buf = cl[c].buf
        BY <1>4, <1>9
    <2>2. ~Waiting(c)' /\ cl'[c].buf # "start" /\ cl'[c].pc # "flag"
        BY <1>5, <1>9, <2>1 DEF Waiting
    <2> QED
        BY <1>8, <1>9, <2>2
<1>10. CASE \/ ClientBegin(c) \/ ClientSelect(c) \/ ClientNothing(c) \/ ClientNoCommand(c)
           \/ ClientEnd(c) \/ ClientClose(c) \/ ClientForget(c)
    <2>1. /\ ~Waiting(c) /\ UNCHANGED <<snd, continueRead, line>>
          /\ \E l \in ClientPc \ {"try", "await", "flag"} : Goto(c, l)
        BY <1>10 DEF ClientBegin, ClientSelect, ClientNothing, ClientNoCommand, Receives,
                    ClientEnd, ClientClose, ClientForget, Waiting, ClientPc
    <2> QED
        BY <1>9, <2>1
<1>11. CASE ClientCheck(c)
    <2>1. Goto(c, "wait") /\ ~Waiting(c) /\ UNCHANGED <<snd, continueRead, line>>
        BY <1>5, <1>11 DEF ClientCheck, Waiting
    <2> QED
        BY <1>9, <2>1 DEF ClientPc
<1>12. CASE ClientCopy(c) \/ ClientError(c)
    <2>1. ~Waiting(c) /\ UNCHANGED <<snd, continueRead, line>>
        <3>1. CASE ClientCopy(c)
            BY <3>1 DEF ClientCopy, Waiting
        <3>2. CASE ClientError(c)
            BY <3>2 DEF ClientError, Waiting
        <3> QED
            BY <1>12, <3>1, <3>2
    <2>2. cl'[c].pc \in {"wait", "end"} /\ cl'[c].buf = cl[c].buf
        <3>1. CASE ClientCopy(c)
            BY <3>1 DEF ClientCopy, ServerTypes, ClientTypes, ClientRecord
        <3>2. CASE ClientError(c)
            BY <3>2 DEF ClientError, ServerTypes, ClientTypes, ClientRecord
        <3> QED
            BY <1>12, <3>1, <3>2
    <2> QED
        BY <1>5, <1>8, <2>1, <2>2 DEF Waiting
<1>13. CASE ClientFlag(c)
    BY <1>5, <1>13 DEF ClientFlag
<1>14. CASE ClientGpi(c)
    <2>1. /\ ~Waiting(c) /\ Goto(c, "wait")
          /\ UNCHANGED <<snd, continueRead, cmdq, reading>>
          /\ rx' = rx \/ (rx # <<>> /\ rx' = Tail(rx))
        BY <1>14 DEF ClientGpi, Waiting
    <2>2. cl'[c].pc = "wait" /\ cl'[c].buf = cl[c].buf
        BY <1>4, <2>1
    <2>3. Whole' \in Seq(GpiFrame) /\ rx' \in Seq(Asked)
        <3>1. CASE rx' = rx
            BY <1>6, <1>7, <2>1, <3>1 DEF Whole
        <3>2. CASE rx # <<>> /\ rx' = Tail(rx)
            <4>1. Whole' = Tail(Whole) /\ Whole # <<>> /\ Tail(rx) \in Seq(Asked)
                BY <2>1, <3>2, HeadOfWhole
            <4>2. Tail(Whole) \in Seq(GpiFrame)
                BY <1>7, <2>1, <4>1
            <4> QED
                BY <3>2, <4>1, <4>2
        <3> QED
            BY <2>1, <3>1, <3>2
    <2>4. ~Waiting(c)' /\ cl'[c].buf # "start" /\ cl'[c].pc # "flag"
        BY <1>5, <2>2 DEF Waiting
    <2> QED
        BY <1>3, <1>6, <2>1, <2>3, <2>4, AnswerAway
<1>15. CASE ClientTimeout(c)
    <2>1. Waiting(c) /\ rx = <<>> /\ cmdq = <<>>
        BY <1>15 DEF ClientTimeout, Silent, Waiting
    <2>2. PICK f \in Asked, q \in Seq(GpiFrame) : Whole = Append(q, f)
        BY <2>1 DEF OneAnswer, Answers
    <2>3. Whole = <<>> \o <<>>
        BY <2>1 DEF Whole
    <2>4. Append(q, f) # <<>> /\ <<>> \o <<>> = <<>>
        OBVIOUS
    <2> QED
        BY <2>2, <2>3, <2>4, Zenon
<1>16. CASE ClientTry(c)
    <2>1. /\ Goto(c, "await") /\ Waiting(c) /\ cl[c].pc = "try"
          /\ UNCHANGED <<fds, snd, continueRead, line>>
        BY <1>5, <1>16 DEF ClientTry, Waiting
    <2>2. /\ cl'[c].pc = "await" /\ cl'[c].buf = cl[c].buf
          /\ cl'[c].fd = cl[c].fd /\ cl'[c].op = cl[c].op
        BY <1>4, <2>1
    <2>3. UNCHANGED <<cmdq, rx, reading>> /\ Whole' = Whole
        BY <2>1 DEF line, Whole
    <2>4. NoReading'
        <3>1. \A d \in Conn : cl'[d].buf # "start" /\ cl'[d].pc # "flag"
            BY <1>1, <1>5, <2>2
        <3> QED
            BY <2>1, <2>3, <3>1 DEF NoReading
    <2>5. PICK f \in Asked : Answers(c, f)
        BY <2>1 DEF OneAnswer
    <2>6. Answers(c, f)'
        BY <2>1, <2>2, <2>3, <2>5 DEF Answers
    <2>7. Waiting(c)' /\ \A d \in Conn \ {c} : ~Waiting(d)'
        BY <1>3, <2>2 DEF Waiting
    <2> QED
        BY <2>4, <2>6, <2>7 DEF OneAnswer
<1>17. CASE ClientAwait(c)
    <2>1. /\ Waiting(c) /\ rx # <<>> /\ rx' = Tail(rx)
          /\ UNCHANGED <<fds, snd, continueRead, cmdq, reading>>
        BY <1>17 DEF ClientAwait, Waiting
    <2>2. PICK f \in Asked : Answers(c, f)
        BY <2>1 DEF OneAnswer
    <2>3. PICK q \in Seq(GpiFrame) : Whole = Append(q, f)
        BY <2>2 DEF Answers
    <2>4. /\ Whole' = Tail(Whole) /\ Head(rx) = Head(Whole)
          /\ Head(rx) \in Asked /\ rx' \in Seq(Asked)
        BY <2>1, HeadOfWhole
    <2>5. Head(rx).kind \in Command
        BY <2>4 DEF Asked
    <2>6. /\ cl'[c].buf = Head(rx).kind /\ cl'[c].fd = cl[c].fd /\ cl'[c].op = cl[c].op
          /\ cl'[c].pc = IF Matches(c, Head(rx)) THEN "check" ELSE "try"
        <3>1. CASE Matches(c, Head(rx))
            <4>1. cl' = [cl EXCEPT ![c].pc = "check", ![c].buf = Head(rx).kind]
                BY <1>17, <3>1 DEF ClientAwait
            <4> QED
                BY <3>1, <4>1 DEF ServerTypes, ClientTypes, ClientRecord
        <3>2. CASE ~Matches(c, Head(rx))
            <4>1. cl' = [cl EXCEPT ![c].pc = "try", ![c].buf = Head(rx).kind]
                BY <1>17, <3>2 DEF ClientAwait
            <4> QED
                BY <3>2, <4>1 DEF ServerTypes, ClientTypes, ClientRecord
        <3> QED
            BY <3>1, <3>2
    <2>7. cl'[c].buf # "start" /\ cl'[c].pc # "flag"
        BY <2>5, <2>6
    <2>8. CASE q = <<>>
        <3>1. Head(Whole) = f /\ Tail(Whole) = <<>>
            BY <2>3, <2>8
        <3>2. Matches(c, Head(rx))
            BY <2>2, <2>4, <3>1 DEF Answers, Matches
        <3>3. ~Waiting(c)'
            BY <2>6, <3>2 DEF Waiting
        <3>4. Whole' \in Seq(GpiFrame)
            BY <2>4, <3>1, EmptySeq
        <3> QED
            BY <1>3, <1>6, <2>1, <2>4, <2>7, <3>3, <3>4, AnswerAway
    <2>9. CASE q # <<>>
        <3>1. Head(Whole) = Head(q) /\ Tail(Whole) = Append(Tail(q), f)
            BY <2>3, <2>9, HeadTailAppend
        <3>2. Head(q) \in GpiFrame /\ Tail(q) \in Seq(GpiFrame)
            BY <2>9
        <3>3. ~Matches(c, Head(rx))
            BY <2>2, <2>4, <3>1, <3>2 DEF Answers, Matches, Op, GpiFrame
        <3>4. Answers(c, f)'
            BY <2>1, <2>2, <2>4, <2>6, <3>1, <3>2 DEF Answers
        <3>5. Waiting(c)' /\ \A d \in Conn \ {c} : ~Waiting(d)'
            BY <1>3, <2>6, <3>3 DEF Waiting
        <3>6. NoReading'
            <4>1. \A d \in Conn : cl'[d].buf # "start" /\ cl'[d].pc # "flag"
                BY <1>1, <1>5, <2>7
            <4> QED
                BY <2>1, <2>4, <4>1 DEF NoReading
        <3> QED
            BY <3>4, <3>5, <3>6 DEF OneAnswer
    <2> QED
        BY <2>8, <2>9
<1>18. CASE ClientCommand(c)
    <2> DEFINE k == Head(Received(c))
               d0 == fds[cl[c].fd]
    <2>1. ~Waiting(c)
        BY <1>18 DEF ClientCommand, Receives, Waiting
    <2>2. d0 \in Conn
        BY <1>18 DEF ClientCommand, Receives, ServerTypes, FdTypes, ClientTypes
    <2>3. Received(c) \in Seq(Command) /\ Len(Received(c)) = 1
        BY <1>18, <2>2 DEF ClientCommand, Received, ServerTypes, HostTypes
    <2>4. k \in Command /\ k \notin {"start", "stop"}
        BY <2>3
    <2>5. PICK f : f = Frame(k, d0)
        OBVIOUS
    <2>6. f \in Asked /\ f.kind = k /\ f.for = d0
        BY <2>2, <2>4, <2>5 DEF Frame, Asked
    <2>7. /\ cmdq' = Append(cmdq, f)
          /\ cl' = [cl EXCEPT ![c].pc = IF k = "gpi" THEN "gpi" ELSE "try",
                              ![c].buf = k, ![c].op = Op(k)]
          /\ UNCHANGED <<fds, continueRead, snd, rx, reading>>
        BY <1>18, <2>5 DEF ClientCommand
    <2> HIDE DEF k
    <2>8. /\ cl'[c].pc = IF k = "gpi" THEN "gpi" ELSE "try"
          /\ cl'[c].buf = k /\ cl'[c].op = Op(k) /\ cl'[c].fd = cl[c].fd
        <3>1. CASE k = "gpi"
            BY <2>7, <3>1 DEF ServerTypes, ClientTypes, ClientRecord
        <3>2. CASE k # "gpi"
            BY <2>7, <3>2 DEF ServerTypes, ClientTypes, ClientRecord
        <3> QED
            BY <3>1, <3>2
    <2>9. Whole' = Append(Whole, f) /\ cmdq' \in Seq(Asked) /\ rx' \in Seq(Asked)
        <3>1. rx \o Append(cmdq, f) = Append(rx \o cmdq, f)
            BY <1>6, <2>6, WholeAppended
        <3>2. Append(cmdq, f) \in Seq(Asked)
            BY <1>6, <2>6, AppendProperties
        <3> QED
            BY <1>6, <2>7, <3>1, <3>2 DEF Whole
    <2>10. cl'[c].buf # "start" /\ cl'[c].pc # "flag"
        BY <2>4, <2>8
    <2>11. Whole \in Seq(GpiFrame)
        BY <1>7, <2>1
    <2>12. CASE k = "gpi"
        <3>1. f \in GpiFrame
            BY <2>2, <2>5, <2>12 DEF Frame, GpiFrame
        <3>2. Append(Whole, f) \in Seq(GpiFrame)
            BY <2>11, <3>1, AppendProperties
        <3>3. ~Waiting(c)'
            BY <2>8, <2>12 DEF Waiting
        <3> QED
            BY <1>3, <2>7, <2>9, <2>10, <3>2, <3>3, AnswerAway
    <2>13. CASE k # "gpi"
        <3>1. Answers(c, f)'
            BY <2>6, <2>7, <2>8, <2>9, <2>11, <2>13 DEF Answers
        <3>2. Waiting(c)' /\ \A d \in Conn \ {c} : ~Waiting(d)'
            BY <1>3, <2>8, <2>13 DEF Waiting
        <3>3. NoReading'
            <4>1. \A d \in Conn : cl'[d].buf # "start" /\ cl'[d].pc # "flag"
                BY <1>1, <1>5, <2>10
            <4> QED
                BY <2>7, <2>9, <4>1 DEF NoReading
        <3> QED
            BY <2>6, <3>1, <3>2, <3>3 DEF OneAnswer
    <2> QED
        BY <2>12, <2>13
<1> QED
    BY <1>10, <1>11, <1>12, <1>13, <1>14, <1>15, <1>16, <1>17, <1>18 DEF ClientThread

\* Every step keeps it: there is no send thread, and nobody is accepted while
\* another waits.
LEMMA AnswerNext ==
    ASSUME Polite, Prompt, {"start", "stop"} \cap Command = {}, AnswerInv, [Next]_vars
    PROVE  AnswerInv'
<1> USE DEF AnswerInv
<1>1. ServerTypes' /\ HistoryTypes' /\ Session'
    BY TypesNext, HistoryNext, SessionNext
<1>2. cmdq \in Seq(Asked) /\ rx \in Seq(Asked)
    BY DEF NoReading
<1>3. CASE \/ UNCHANGED vars \/ AcceptFails \/ \E c \in Conn : Host(c)
    <2>1. UNCHANGED <<fds, cl, snd, continueRead, cmdq, rx, reading>>
        <3>1. CASE UNCHANGED vars
            BY <3>1 DEF vars, line
        <3>2. CASE AcceptFails
            BY <3>2 DEF AcceptFails, line
        <3>3. ASSUME NEW c \in Conn, Host(c)
              PROVE  UNCHANGED <<fds, cl, snd, continueRead, cmdq, rx, reading>>
            BY <3>3 DEF Host, HostConnect, HostSend, HostLeave, line
        <3> QED
            BY <1>3, <3>1, <3>2, <3>3
    <2>2. Whole' = Whole
        BY <2>1 DEF Whole
    <2> QED
        BY <1>1, <1>2, <2>1, <2>2, AnswerFrame
<1>4. ASSUME NEW c \in Conn, Accept(c) PROVE NoReading' /\ OneAnswer'
    <2>1. peer[c] = "pending" /\ cl[c].pc = "none" /\ Live(c)
        BY <1>4 DEF Accept, Session, Live
    <2>2. \A d \in Conn : ~Waiting(d)
        BY <2>1 DEF Session, Live, Waiting
    <2>3. /\ UNCHANGED <<snd, continueRead, cmdq, rx, reading>>
          /\ cl' = [cl EXCEPT ![c].pc = "begin"]
        BY <1>4 DEF Accept, line
    <2>4. /\ cl'[c].pc = "begin" /\ cl'[c].buf = cl[c].buf
          /\ \A d \in Conn \ {c} : cl'[d] = cl[d]
        BY <2>3 DEF ServerTypes, ClientTypes, ClientRecord
    <2>5. ~Waiting(c)' /\ cl'[c].buf # "start" /\ cl'[c].pc # "flag"
        BY <2>4 DEF Waiting, NoReading
    <2>6. Whole' \in Seq(GpiFrame)
        BY <2>2, <2>3 DEF Whole, OneAnswer
    <2> QED
        BY <1>2, <2>2, <2>3, <2>4, <2>5, <2>6, AnswerAway
<1>5. ASSUME NEW c \in Conn, ClientThread(c) PROVE NoReading' /\ OneAnswer'
    BY <1>5, AnswerClient
<1>6. ASSUME NEW s \in Sender, SendThread(s) PROVE NoReading' /\ OneAnswer'
    BY <1>6, SenderFds DEF NoReading
<1>7. CASE ModuleTag
    <2>1. reading = TRUE
        BY <1>7 DEF ModuleTag, ServerTypes, LineTypes
    <2>2. ~reading
        BY DEF NoReading
    <2> QED
        BY <2>1, <2>2
<1>8. ModuleAnswer => NoReading' /\ OneAnswer'
    BY AnswerModule
<1> QED
    BY <1>1, <1>3, <1>4, <1>5, <1>6, <1>7, <1>8 DEF Next

\* Every reachable state satisfies the invariant.
THEOREM AnswerInvariant ==
    ASSUME Polite, Prompt, {"start", "stop"} \cap Command = {}
    PROVE  Spec => []AnswerInv
<1>1. AnswerInv /\ [Next]_vars => AnswerInv'
    BY AnswerNext
<1> QED
    BY <1>1, AnswerInit, PTL DEF Spec

\* What a thread at await or gpi does next it does itself.
LEMMA OwnStep ==
    ASSUME AnswerInv, Next, NEW c \in Conn, cl'[c].pc # cl[c].pc,
           cl[c].pc \in {"await", "gpi"}
    PROVE  ClientAwait(c) \/ ClientTimeout(c) \/ ClientGpi(c)
<1> USE DEF AnswerInv
<1>1. ClientThread(c)
    <2>1. ASSUME NEW d \in Conn, Accept(d) PROVE cl'[c] = cl[c]
        BY <2>1 DEF Accept, Session
    <2>2. ASSUME NEW d \in Conn, ClientThread(d) PROVE d = c
        BY <2>2, ClientFds
    <2>3. ASSUME NEW s \in Sender, SendThread(s) PROVE UNCHANGED cl
        BY <2>3, SenderFds
    <2>4. ASSUME NEW d \in Conn, Host(d) PROVE UNCHANGED cl
        BY <2>4 DEF Host, HostConnect, HostSend, HostLeave
    <2>5. AcceptFails \/ ModuleAnswer \/ ModuleTag => UNCHANGED cl
        BY DEF AcceptFails, ModuleAnswer, ModuleTag
    <2> QED
        BY <2>1, <2>2, <2>3, <2>4, <2>5 DEF Next
<1> QED
    BY <1>1 DEF ClientThread, ClientBegin, ClientCopy, ClientSelect, ClientError,
                ClientNothing, ClientCommand, ClientNoCommand, Receives, ClientTry,
                ClientCheck, ClientFlag, ClientEnd, ClientClose, ClientForget

\* A host is given the answers to its own commands only, although frames on the line do
\* not say for whom they are and answers to gpi, for which a thread waits 5 s only, may
\* come when nobody waits for them any more; and gpi is given no answer but to a gpi.
THEOREM AnswerGoesToItsHost ==
    ASSUME Polite, Prompt, {"start", "stop"} \cap Command = {}
    PROVE  Spec => AnswerIsOwn
<1> DEFINE Own1 == \A c \in Conn :
        /\ cl[c].pc = "await" /\ cl'[c].pc = "check" => Head(rx).for = fds[cl[c].fd]
        /\ cl[c].pc = "gpi" /\ cl'[c].pc = "wait" /\ rx # <<>> => Head(rx).kind = "gpi"
<1>1. AnswerInv /\ [Next]_vars => [Own1]_vars
    <2> SUFFICES ASSUME AnswerInv, Next, NEW c \in Conn
                 PROVE  /\ cl[c].pc = "await" /\ cl'[c].pc = "check"
                             => Head(rx).for = fds[cl[c].fd]
                        /\ cl[c].pc = "gpi" /\ cl'[c].pc = "wait" /\ rx # <<>>
                             => Head(rx).kind = "gpi"
        BY DEF Own1
    <2> USE DEF AnswerInv
    <2>1. ASSUME cl[c].pc = "await", cl'[c].pc = "check"
          PROVE  Head(rx).for = fds[cl[c].fd]
        <3>1. ClientAwait(c)
            <4>1. ClientAwait(c) \/ ClientTimeout(c)
                BY <2>1, OwnStep DEF ClientGpi
            <4>2. ~ClientTimeout(c)
                BY <2>1 DEF ClientTimeout, Goto, ServerTypes, ClientTypes, ClientRecord
            <4> QED
                BY <4>1, <4>2
        <3>2. rx # <<>> /\ Matches(c, Head(rx))
            BY <2>1, <3>1 DEF ClientAwait, ServerTypes, ClientTypes, ClientRecord
        <3>3. PICK f \in Asked : Answers(c, f)
            BY <2>1 DEF OneAnswer, Waiting
        <3>4. PICK q \in Seq(GpiFrame) : Whole = Append(q, f)
            BY <3>3 DEF Answers
        <3>5. Head(rx) = Head(Whole)
            BY <3>2, HeadOfWhole
        <3>6. Head(Whole) = IF q = <<>> THEN f ELSE Head(q)
            BY <3>4, HeadTailAppend
        <3>7. q # <<>> => Head(q).kind = "gpi"
            <4>1. q # <<>> => Head(q) \in GpiFrame
                OBVIOUS
            <4> QED
                BY <4>1 DEF GpiFrame
        <3>8. Head(rx).kind # "gpi"
            BY <3>2, <3>3 DEF Matches, Answers, Op
        <3> QED
            BY <3>3, <3>5, <3>6, <3>7, <3>8 DEF Answers
    <2>2. ASSUME cl[c].pc = "gpi", rx # <<>> PROVE Head(rx).kind = "gpi"
        <3>1. \A d \in Conn : ~Waiting(d)
            BY <2>2, AnswerAlone DEF Waiting
        <3>2. Whole \in Seq(GpiFrame)
            BY <3>1 DEF OneAnswer
        <3>3. Head(rx) = Head(Whole) /\ Whole # <<>>
            BY <2>2, HeadOfWhole
        <3>4. Head(Whole) \in GpiFrame
            BY <3>2, <3>3
        <3> QED
            BY <3>3, <3>4 DEF GpiFrame
    <2> QED
        BY <2>1, <2>2
<1> HIDE DEF Own1
<1>2. Spec => [][Own1]_vars
    BY <1>1, AnswerInvariant, PTL DEF Spec
<1> QED
    BY <1>2 DEF AnswerIsOwn, Own1
=============================================================================
