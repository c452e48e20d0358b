------------------------------ MODULE Upgrade ------------------------------
(***************************************************************************)
(* The firmware upgrade: m6e_upgrade.c and the part of m6e_pthread_client   *)
(* that uses it.  A host sends an image in blocks, each of which is        *)
(* appended to a file and answered; a block that is not full ends the      *)
(* upload: the file is closed, its program is taken out of it and moved    *)
(* over the running one, and a restart is asked for, until which the       *)
(* program goes on.  Hosts break off, begin again or leave the rest to     *)
(* another; the disk may be full, files may fail to open, power may go.    *)
(*                                                                         *)
(* A byte is the upload it is of and its position.  A block is handled to  *)
(* its end before a block of another connection comes.                     *)
(***************************************************************************)
EXTENDS Integers, Sequences

CONSTANTS
    Image,      \* images hosts upload
    Size,       \* their sizes in bytes
    Signed,     \* those that begin with the signature "789654"
    Block,      \* data bytes of a full block: 240
    Sig,        \* bytes of the signature: 6; the program starts one behind it
    DiskFull,   \* TRUE: a write may fall short
    MaxBegin,   \* bound: how many uploads are begun
    MaxLoss,    \* bound: how often the power goes
    NoImage, NoFile, Stray

\* What files hold: bytes of uploads, and one that no host has sent.
AByte == [up : Image, pos : Nat] \cup {Stray}

ASSUME UpgradeAssumption ==
    /\ Size \in [Image -> Nat \ {0}] /\ Signed \subseteq Image
    /\ Sig \in Nat \ {0} /\ Block \in Nat /\ Block >= Sig + 2
    /\ DiskFull \in BOOLEAN /\ MaxBegin \in Nat /\ MaxLoss \in Nat
    /\ NoImage \notin Image /\ NoFile \notin Seq(AByte)

VARIABLES
    host,       \* the image a host is sending
    next,       \* how many of its bytes it has sent
    fp,         \* null, open, or closed and yet not NULL
    buffer,     \* what fwrite has and the file has not
    temp,       \* upgrade_temp.bin, if it is there
    staged,     \* /opt/upgrade/reader
    installed,  \* /opt/app/reader
    pc,         \* the thread that handles a block
    error,      \* what m6e_upgrade_resolve returned
    rebooting,  \* a restart has been asked for, and has not come yet
    begun, losses,
    sole,       \* history: the file was opened for this upload
    short,      \* history: since the file was opened a write fell short, or a file
                \* could not be read or opened
    marked,     \* history: the file looked at last began with the signature
    fresh, torn \* history: staged is out of that file; is not all of a program

files == <<buffer, temp, staged, installed>>
history == <<begun, losses, sole, short, marked, fresh, torn>>
vars == <<host, next, fp, files, pc, error, rebooting, history>>

-----------------------------------------------------------------------------
Byte(u, k) == [up |-> u, pos |-> k]
Bytes(u, from, to) == [k \in 1..(to - from + 1) |-> Byte(u, from + k - 1)]
Whole(u) == Bytes(u, 1, Size[u])

\* What is on disk of s when only some of it got there.
Prefixes(s) == {SubSeq(s, 1, n) : n \in 0..Len(s)}

\* The program: what is behind the signature and the byte after it, and as it is
\* written with the length from the signature on, one byte more.
\* A slip: the byte after the signature is taken for part of it.
ProgramEarly(file) == SubSeq(Append(file, Stray), Sig + 1, Len(file) + 1)
Program(file) == SubSeq(Append(file, Stray), Sig + 2, Len(file) + 1)

HasSignature(file) ==
    /\ Len(file) >= Sig
    /\ \A k \in 1..Sig : file[k].up \in Signed /\ file[k].pos = k

Init ==
    /\ host = NoImage /\ next = 0
    /\ fp = "null" /\ buffer = <<>> /\ temp = NoFile /\ staged = NoFile
    /\ installed = NoFile /\ pc = "recv" /\ error = 0 /\ rebooting = FALSE
    /\ begun = 0 /\ losses = 0
    /\ sole = FALSE /\ short = FALSE /\ marked = FALSE /\ fresh = FALSE /\ torn = FALSE

-----------------------------------------------------------------------------
\* Hosts.

Begin(u) ==
    /\ pc = "recv" /\ host = NoImage /\ begun < MaxBegin
    /\ host' = u /\ next' = 0 /\ begun' = begun + 1
    /\ sole' = FALSE
    /\ UNCHANGED <<fp, files, pc, error, rebooting, losses, short, marked, fresh,
                   torn>>

\* The host is gone, or its connection, or it has sent all.
BreakOff ==
    /\ pc = "recv" /\ host # NoImage
    /\ host' = NoImage
    /\ UNCHANGED <<next, fp, files, pc, error, rebooting, history>>

\* The bytes of the next block; a last full block may be followed by an empty one.
\* A slip: blocks of any size are taken.
BlockAll == Size[host] - next
BlockLen == IF Size[host] - next < Block THEN Size[host] - next ELSE Block

-----------------------------------------------------------------------------
\* A block.

\* fopen fails: the block is dropped without an answer, and the host gives up.
OpenFails ==
    /\ pc = "recv" /\ host # NoImage /\ fp = "null"
    /\ host' = NoImage
    /\ UNCHANGED <<next, fp, files, pc, error, rebooting, history>>

\* m6e_upgrade_openfile: what is appended to.
\* A slip: a file that is open is opened, and emptied, again.
OpenedAnew == [new |-> TRUE, temp |-> <<>>, buffer |-> <<>>]
Opened ==
    IF fp = "null" THEN [new |-> TRUE, temp |-> <<>>, buffer |-> <<>>]
    ELSE [new |-> FALSE, temp |-> temp, buffer |-> buffer]

\* m6e_upgrade_resolve: fwrite takes n bytes, and some of what it has goes to disk.
TakeBlock ==
    /\ pc = "recv" /\ host # NoImage /\ fp # "closed"
    /\ \E n \in 0..BlockLen :
         LET held == Opened.buffer \o Bytes(host, next + 1, next + n) IN
         /\ n = BlockLen \/ DiskFull
         /\ \E done \in 0..Len(held) :
              /\ temp' = Opened.temp \o SubSeq(held, 1, done)
              /\ buffer' = SubSeq(held, done + 1, Len(held))
         /\ error' = n
         /\ pc' = IF n > 0 THEN "answer" ELSE "close"
         /\ short' = (n < BlockLen \/ (short /\ ~Opened.new))
    /\ fp' = "open"
    /\ next' = next + BlockLen
    /\ sole' = IF Opened.new THEN next = 0 ELSE sole
    /\ UNCHANGED <<host, staged, installed, rebooting, begun, losses, marked, fresh, torn>>

\* The same when the file is closed and fp not NULL, until the restart comes: what
\* fwrite does is not defined.  The block is lost, whatever is returned, or the
\* process dies.
TakeLate ==
    /\ pc = "recv" /\ host # NoImage /\ fp = "closed"
    /\ error' \in 0..BlockLen
    /\ pc' \in {IF error' > 0 THEN "answer" ELSE "close", "dead"}
    /\ next' = next + BlockLen
    /\ UNCHANGED <<host, fp, files, rebooting, history>>

\* The test whether the block was full.  A slip: it always is.
GoesOnAlways == TRUE
GoesOn == error = Block

\* m6e_upgrade_response, and what follows it.
AnswerBlock ==
    /\ pc = "answer"
    /\ pc' = IF GoesOn THEN "recv" ELSE "close"
    /\ UNCHANGED <<host, next, fp, files, error, rebooting, history>>

-----------------------------------------------------------------------------
\* The end of an upload.

\* A slip: the file is given up without the rest of its buffer.
CloseDrops == buffer' = <<>> /\ temp' = temp /\ short' = short
CloseFlushes ==
    /\ buffer' = <<>>
    /\ \E rest \in IF DiskFull THEN Prefixes(buffer) ELSE {buffer} :
         temp' = temp \o rest /\ short' = (short \/ rest # buffer)

\* m6e_upgrade_close; fp keeps its value.
Close ==
    /\ pc = "close" /\ fp = "open"
    /\ CloseFlushes /\ fp' = "closed"
    /\ pc' = "check"
    /\ UNCHANGED <<host, next, staged, installed, error, rebooting, begun, losses, sole,
                   marked, fresh, torn>>

\* It closes a file that is closed, here behind a block that came too late and in
\* m6e_upgrade_reboot: what becomes of the process is not defined.
CloseLate ==
    /\ pc = "close" /\ fp = "closed"
    /\ pc' \in {"check", "dead"}
    /\ UNCHANGED <<host, next, fp, files, error, rebooting, history>>

\* m6e_upgrade_check.  The file is gone: the block is not looked at any further.
CheckMisses ==
    /\ pc = "check" /\ temp = NoFile
    /\ pc' = "recv"
    /\ UNCHANGED <<host, next, fp, files, error, rebooting, history>>

\* What is staged: a file with the signature.  A slip: any file is.
StagesAny(file) == file # NoFile
Stages(file) == file # NoFile /\ HasSignature(file)

\* Opening for staging empties what was staged before.  A slip: it is appended to.
StagedKept == IF staged = NoFile THEN <<>> ELSE staged
StagedAnew == <<>>

CheckStages ==
    /\ pc = "check" /\ Stages(temp)
    /\ staged' = StagedAnew /\ marked' = TRUE /\ fresh' = TRUE /\ torn' = TRUE
    /\ pc' = "stage"
    /\ UNCHANGED <<host, next, fp, buffer, temp, installed, error, rebooting, begun, losses,
                   sole, short>>

\* The file has no signature; or it fails: it is not read to its end, or what was
\* staged before does not open.  That stays, whatever it is.
CheckSkips ==
    /\ pc = "check" /\ temp # NoFile
    /\ \E fails \in BOOLEAN : (fails \/ ~Stages(temp)) /\ short' = (short \/ fails)
    /\ marked' = HasSignature(temp) /\ fresh' = FALSE
    /\ pc' = "remove"
    /\ UNCHANGED <<host, next, fp, files, error, rebooting, begun, losses, sole, torn>>

\* The file does not open, and is read all the same.
CheckDies ==
    /\ pc = "check" /\ temp # NoFile
    /\ fresh' = FALSE
    /\ pc' = "dead"
    /\ UNCHANGED <<host, next, fp, files, error, rebooting, begun, losses, sole, short, marked,
                   torn>>

Check == CheckMisses \/ CheckStages \/ CheckSkips \/ CheckDies

Stage ==
    /\ pc = "stage"
    /\ \E written \in IF DiskFull THEN Prefixes(Program(temp)) ELSE {Program(temp)} :
         staged' = staged \o written /\ short' = (short \/ written # Program(temp))
    /\ torn' = (staged' # Program(temp))
    /\ pc' = "remove"
    /\ UNCHANGED <<host, next, fp, buffer, temp, installed, error, rebooting, begun, losses,
                   sole, marked, fresh>>

Remove ==
    /\ pc = "remove"
    /\ temp' = NoFile
    /\ pc' = "reclose"
    /\ UNCHANGED <<host, next, fp, buffer, staged, installed, error, rebooting, history>>

\* m6e_upgrade_reboot.
Reclose ==
    /\ pc = "reclose"
    /\ pc' \in {"move", "dead"}
    /\ UNCHANGED <<host, next, fp, files, error, rebooting, history>>

\* mv, which fails when nothing is staged.
Move ==
    /\ pc = "move"
    /\ IF staged = NoFile THEN UNCHANGED <<staged, installed>>
       ELSE staged' = NoFile /\ installed' = staged
    /\ pc' = "reboot"
    /\ UNCHANGED <<host, next, fp, buffer, temp, error, rebooting, history>>

\* system("reboot") returns before the restart, and the thread goes on.
Reboot ==
    /\ pc = "reboot"
    /\ rebooting' = TRUE
    /\ pc' = "recv"
    /\ UNCHANGED <<host, next, fp, files, error, history>>

\* What a new process starts from.
Fresh ==
    /\ host' = NoImage /\ next' = 0 /\ fp' = "null" /\ buffer' = <<>> /\ pc' = "recv"
    /\ rebooting' = FALSE

\* The restart, whatever the program is at by then.
Restart ==
    /\ rebooting /\ Fresh
    /\ UNCHANGED <<temp, staged, installed, error, history>>

\* The power goes.  Until the sync in m6e_upgrade_close what was staged may be on
\* disk in part.  (That the mv is not there yet is a loss before it.)
PowerLoss ==
    /\ losses < MaxLoss /\ losses' = losses + 1
    /\ Fresh
    /\ IF pc \in {"remove", "reclose", "dead"} /\ staged # NoFile /\ fresh
       THEN /\ staged' \in Prefixes(staged)
            /\ torn' = (torn \/ staged' # staged)
       ELSE UNCHANGED <<staged, torn>>
    /\ UNCHANGED <<temp, installed, error, begun, sole, short, marked, fresh>>

-----------------------------------------------------------------------------
Server ==
    \/ TakeBlock \/ TakeLate \/ AnswerBlock \/ Close \/ CloseLate \/ Check \/ Stage
    \/ Remove \/ Reclose \/ Move \/ Reboot

Next ==
    \/ \E u \in Image : Begin(u)
    \/ BreakOff \/ OpenFails \/ Server \/ Restart \/ PowerLoss

Spec == Init /\ [][Next]_vars

\* The thread goes on with what it has begun, and the system restarts.
FairSpec == Spec /\ WF_vars(pc # "recv" /\ Server) /\ WF_vars(Restart)
-----------------------------------------------------------------------------
\* Properties.

\* The type invariant.
TypeOK ==
    /\ host \in Image \cup {NoImage} /\ next \in Nat
    /\ fp \in {"null", "open", "closed"}
    /\ buffer \in Seq(AByte)
    /\ \A file \in {temp, staged, installed} : file = NoFile \/ file \in Seq(AByte)
    /\ pc \in {"recv", "answer", "close", "check", "stage", "remove", "reclose", "move",
               "reboot", "dead"}
    /\ error \in 0..Block /\ rebooting \in BOOLEAN

\* The file as far as it has been written.
File == IF temp = NoFile THEN buffer ELSE temp \o buffer

\* No byte of an upload is lost or taken twice: the file holds beginnings of
\* uploads, one behind the other, whoever broke off and began when.
FileIsUploads ==
    \A k \in 1..Len(File) :
        \/ File[k].pos = 1
        \/ k > 1 /\ File[k].pos = File[k - 1].pos + 1 /\ File[k].up = File[k - 1].up

\* What a host has sent is at the end of the file as long as the upload lasts, and
\* out of the buffer when the file is looked at.  (What it sends to a program that
\* waits for its restart is lost.)
SentIsKept ==
    /\ pc \in {"recv", "answer", "close", "check"} /\ ~rebooting
    /\ host # NoImage /\ ~short /\ next > 0
    => /\ Len(File) >= next
       /\ SubSeq(File, Len(File) - next + 1, Len(File)) = Bytes(host, 1, next)
       /\ pc = "check" => buffer = <<>>

\* Of a signed image that is uploaded in one piece, when nothing fell short and every
\* file opened, the program is installed by the time the restart is asked for: all of
\* it, and one byte that is not part of it.
WholeIsInstalled ==
    pc = "reboot" /\ sole /\ ~short /\ host \in Signed /\ next = Size[host] /\ next > Sig
    => installed = Append(SubSeq(Whole(host), Sig + 2, Size[host]), Stray)

\* What is installed comes out of a file that began with the signature.
SignedOnly ==
    installed # NoFile /\ installed # <<>> =>
        installed[1] = Stray \/ installed[1].up \in Signed

\* What an upload with the signature moves over the running program is a whole one,
\* whenever the power has gone before, unless a write fell short or a file failed.  (An
\* upload without the signature moves what an earlier one left, and that may be torn.)
WholeIsMoved == [][installed' # installed /\ torn => ~marked \/ short]_vars

\* An upload with a last block ends with a restart, or with a process that is no more.
UploadEnds ==
    pc \in {"answer", "close"} /\ error < Block ~> pc = "dead" \/ host = NoImage
=============================================================================
