--------------------------- MODULE UpgradeProofs ---------------------------
(***************************************************************************)
(* Proofs about Upgrade, for all images and sizes of blocks, with disks    *)
(* that fill up and power that goes at any time.  The inductive invariant  *)
(* follows an upload through the program: while it comes in, the file ends *)
(* with what the host has sent; then the file, then what is staged, then   *)
(* what is installed is the image.                                         *)
(***************************************************************************)
EXTENDS Upgrade, SequenceTheorems, TLAPS

Uploaded == [up : Image, pos : Nat]

\* The types, with no stray byte in the file of an upload.
Types ==
    /\ host \in Image \cup {NoImage} /\ next \in Nat
    /\ fp \in {"null", "open", "closed"}
    /\ buffer \in Seq(Uploaded) /\ (temp = NoFile \/ temp \in Seq(Uploaded))
    /\ staged = NoFile \/ staged \in Seq(AByte)
    /\ installed = NoFile \/ installed \in Seq(AByte)
    /\ pc \in {"recv", "answer", "close", "check", "stage", "remove", "reclose", "move",
               "reboot", "dead"}
    /\ error \in 0..Block /\ rebooting \in BOOLEAN
    /\ short \in BOOLEAN /\ sole \in BOOLEAN /\ marked \in BOOLEAN
    /\ fresh \in BOOLEAN /\ torn \in BOOLEAN

\* What fp is at each place; only an open file has a buffer, and a block that comes
\* while the restart is awaited finds fp closed and the file gone.
FileOpen ==
    /\ pc = "recv" => (fp = "closed" <=> rebooting)
    /\ pc \in {"answer", "close"} => fp = IF rebooting THEN "closed" ELSE "open"
    /\ pc \in {"check", "dead"} => fp = "closed"
    /\ pc \in {"stage", "remove", "reclose", "move", "reboot"} => fp = "closed" /\ ~rebooting
    /\ rebooting => temp = NoFile
    /\ pc \in {"recv", "answer", "close"} /\ fp = "open" => temp # NoFile
    /\ pc = "check" /\ ~rebooting => temp # NoFile
    /\ pc = "stage" => temp # NoFile /\ staged = <<>>
    /\ pc \in {"reclose", "move", "reboot"} => temp = NoFile
    /\ fp # "open" => buffer = <<>>
    /\ pc # "recv" => host # NoImage
    /\ fp = "null" /\ host # NoImage => next = 0

Opening == Types /\ FileOpen

-----------------------------------------------------------------------------
(* Bytes and files. *)

\* A file that is not there is not taken for one that is.
LEMMA NoFileIsNoSeq == NoFile \notin Seq(Uploaded) /\ NoFile \notin Seq(AByte)
<1>1. \A s \in Seq(Uploaded) : s \in Seq(AByte)
    BY SeqMonotonic DEF Uploaded, AByte
<1> QED
    BY <1>1, UpgradeAssumption

\* Bytes of an upload, from the one behind the first a.
LEMMA BytesFacts ==
    ASSUME NEW u \in Image, NEW a \in Nat, NEW n \in Nat
    PROVE  /\ Bytes(u, a + 1, a + n) \in Seq(Uploaded)
           /\ Len(Bytes(u, a + 1, a + n)) = n
           /\ \A k \in 1..n : Bytes(u, a + 1, a + n)[k] = Byte(u, a + k)
<1>1. (a + n) - (a + 1) + 1 = n
    OBVIOUS
<1>2. Bytes(u, a + 1, a + n) = [k \in 1..n |-> Byte(u, (a + 1) + k - 1)]
    BY <1>1 DEF Bytes
<1>3. \A k \in 1..n : (a + 1) + k - 1 = a + k /\ Byte(u, a + k) \in Uploaded
    BY DEF Byte, Uploaded
<1>4. Bytes(u, a + 1, a + n) \in [1..n -> Uploaded]
    BY <1>2, <1>3
<1> QED
    BY <1>2, <1>3, <1>4

\* Flushing moves bytes from the buffer to the file and changes nothing in all.
LEMMA SplitFacts ==
    ASSUME NEW S, NEW t \in Seq(S), NEW s \in Seq(S), NEW d \in 0..Len(s)
    PROVE  /\ t \o SubSeq(s, 1, d) \in Seq(S)
           /\ SubSeq(s, d + 1, Len(s)) \in Seq(S)
           /\ (t \o SubSeq(s, 1, d)) \o SubSeq(s, d + 1, Len(s)) = t \o s
<1>1. SubSeq(s, 1, d) \in Seq(S) /\ SubSeq(s, d + 1, Len(s)) \in Seq(S)
    OBVIOUS
<1>2. SubSeq(s, 1, d) \o SubSeq(s, d + 1, Len(s)) = s
    <2>1. /\ 1 \in 1..Len(s) + 1 /\ d \in 1 - 1..Len(s) /\ Len(s) \in d..Len(s)
        BY LenProperties
    <2>2. SubSeq(s, 1, d) \o SubSeq(s, d + 1, Len(s)) = SubSeq(s, 1, Len(s))
        BY <2>1, ConcatAdjacentSubSeq
    <2>3. SubSeq(s, 1, Len(s)) = s
        BY SubSeqFull
    <2> QED
        BY <2>2, <2>3
<1>3. ASSUME NEW a \in Seq(S), NEW b \in Seq(S), a \o b = s
      PROVE  t \o a \in Seq(S) /\ (t \o a) \o b = t \o s
    <2>1. t \o a \in Seq(S)
        BY ConcatProperties
    <2>2. (t \o a) \o b = t \o (a \o b)
        BY ConcatAssociative
    <2> QED
        BY <1>3, <2>1, <2>2
<1> DEFINE first == SubSeq(s, 1, d)
           rest == SubSeq(s, d + 1, Len(s))
<1>4. first \in Seq(S) /\ rest \in Seq(S) /\ first \o rest = s
    BY <1>1, <1>2
<1> HIDE DEF first, rest
<1>5. t \o first \in Seq(S) /\ (t \o first) \o rest = t \o s
    BY <1>3, <1>4
<1> QED
    BY <1>4, <1>5 DEF first, rest

\* The beginnings of a file.
LEMMA PrefixFacts ==
    ASSUME NEW S, NEW s \in Seq(S), NEW p \in Prefixes(s)
    PROVE  /\ p \in Seq(S) /\ Len(p) \in 0..Len(s)
           /\ \A k \in 1..Len(p) : p[k] = s[k]
<1>1. PICK n \in 0..Len(s) : p = SubSeq(s, 1, n)
    BY DEF Prefixes
<1> QED
    BY <1>1

\* The file is a sequence of uploaded bytes.
LEMMA FileFacts ==
    ASSUME Types
    PROVE  /\ File \in Seq(Uploaded)
           /\ temp # NoFile => File = temp \o buffer
           /\ temp # NoFile /\ buffer = <<>> => File = temp
<1>1. temp # NoFile => temp \o buffer \in Seq(Uploaded)
    BY ConcatProperties DEF Types
<1>2. temp # NoFile => temp \o <<>> = temp
    BY ConcatEmptySeq DEF Types
<1> QED
    BY <1>1, <1>2 DEF File, Types

\* What a block is appended to.
Base == IF fp = "null" THEN <<>> ELSE File

\* A block goes to the end of the file: n bytes of it.
LEMMA TakeFacts ==
    ASSUME Opening, TakeBlock
    PROVE  /\ host \in Image /\ BlockLen \in Nat /\ BlockLen <= Block
           /\ Base \in Seq(Uploaded)
           /\ temp' \in Seq(Uploaded) /\ buffer' \in Seq(Uploaded)
           /\ \E n \in 0..BlockLen :
                /\ error' = n
                /\ pc' = IF n > 0 THEN "answer" ELSE "close"
                /\ short' = (n < BlockLen \/ (short /\ fp # "null"))
                /\ Len(File') = Len(Base) + n
                /\ \A k \in 1..Len(Base) : File'[k] = Base[k]
                /\ \A k \in 1..n : File'[Len(Base) + k] = Byte(host, next + k)
<1> USE DEF Opening
<1>1. host \in Image
    BY DEF TakeBlock, Types
<1>2. PICK n \in 0..BlockLen :
        LET all == Opened.buffer \o Bytes(host, next + 1, next + n) IN
        /\ \E done \in 0..Len(all) :
             /\ temp' = Opened.temp \o SubSeq(all, 1, done)
             /\ buffer' = SubSeq(all, done + 1, Len(all))
        /\ error' = n
        /\ pc' = IF n > 0 THEN "answer" ELSE "close"
        /\ short' = (n < BlockLen \/ (short /\ ~Opened.new))
    BY DEF TakeBlock
<1>3. BlockLen \in Nat /\ BlockLen <= Block /\ n \in Nat
    BY <1>1, <1>2, UpgradeAssumption DEF BlockLen, Types
<1> DEFINE bytes == Bytes(host, next + 1, next + n)
           held == Opened.buffer \o bytes
<1>4. bytes \in Seq(Uploaded) /\ Len(bytes) = n
      /\ \A k \in 1..n : bytes[k] = Byte(host, next + k)
    BY <1>1, <1>3, BytesFacts DEF Types
<1>5. /\ Opened.temp \in Seq(Uploaded) /\ Opened.buffer \in Seq(Uploaded)
      /\ Opened.temp \o Opened.buffer = Base /\ (Opened.new <=> fp = "null")
    <2>1. CASE fp = "null"
        BY <2>1, EmptySeq, ConcatEmptySeq DEF Opened, Base
    <2>2. CASE fp # "null"
        <3>1. fp = "open" /\ temp # NoFile
            BY <2>2 DEF TakeBlock, FileOpen, Types
        <3> QED
            BY <2>2, <3>1, FileFacts DEF Opened, Base, Types
    <2> QED
        BY <2>1, <2>2
<1>6. Base \in Seq(Uploaded)
    BY <1>5, ConcatProperties
<1>7. held \in Seq(Uploaded) /\ Opened.temp \o held = Base \o bytes
    <2>1. \A r, s, t \in Seq(Uploaded) :
            s \o t \in Seq(Uploaded) /\ (r \o s) \o t = r \o (s \o t)
        BY ConcatProperties, ConcatAssociative
    <2> HIDE DEF bytes
    <2> QED
        BY <1>4, <1>5, <2>1
<1>8. PICK done \in 0..Len(held) :
        /\ temp' = Opened.temp \o SubSeq(held, 1, done)
        /\ buffer' = SubSeq(held, done + 1, Len(held))
    BY <1>2
<1> HIDE DEF held
<1>9. /\ temp' \in Seq(Uploaded) /\ buffer' \in Seq(Uploaded)
      /\ temp' \o buffer' = Opened.temp \o held
    <2>1. \A t, s \in Seq(Uploaded) : \A d \in 0..Len(s) :
            /\ t \o SubSeq(s, 1, d) \in Seq(Uploaded)
            /\ SubSeq(s, d + 1, Len(s)) \in Seq(Uploaded)
            /\ (t \o SubSeq(s, 1, d)) \o SubSeq(s, d + 1, Len(s)) = t \o s
        BY SplitFacts
    <2> QED
        BY <1>5, <1>7, <1>8, <2>1
<1>10. File' = Base \o bytes
    BY <1>7, <1>9, NoFileIsNoSeq DEF File
<1> HIDE DEF bytes
<1>11. /\ Len(File') = Len(Base) + n
       /\ \A k \in 1..Len(Base) : File'[k] = Base[k]
       /\ \A k \in 1..n : File'[Len(Base) + k] = bytes[k]
    <2>1. \A s, t \in Seq(Uploaded) :
            /\ Len(s \o t) = Len(s) + Len(t) /\ Len(s) \in Nat
            /\ \A i \in 1..Len(s) + Len(t) :
                 (s \o t)[i] = IF i <= Len(s) THEN s[i] ELSE t[i - Len(s)]
        BY ConcatProperties, LenProperties
    <2>2. Len(Base) \in Nat /\ \A i \in 1..Len(Base) + n :
            File'[i] = IF i <= Len(Base) THEN Base[i] ELSE bytes[i - Len(Base)]
        BY <1>4, <1>6, <1>10, <2>1
    <2>3. Len(File') = Len(Base) + n
        BY <1>4, <1>6, <1>10, <2>1
    <2>4. \A k \in 1..n : /\ Len(Base) + k \in 1..Len(Base) + n
                          /\ ~(Len(Base) + k <= Len(Base))
                          /\ (Len(Base) + k) - Len(Base) = k
        BY <1>3, <2>2
    <2>5. \A k \in 1..Len(Base) : k \in 1..Len(Base) + n /\ k <= Len(Base)
        BY <1>3, <2>2
    <2> QED
        BY <2>2, <2>3, <2>4, <2>5
<1>12. short' = (n < BlockLen \/ (short /\ fp # "null"))
    BY <1>2, <1>5
<1> QED
    BY <1>1, <1>2, <1>3, <1>4, <1>6, <1>9, <1>11, <1>12

\* The program in a file: one byte behind the signature it begins, and a stray
\* byte ends it.
LEMMA ProgramFacts ==
    ASSUME NEW file \in Seq(Uploaded)
    PROVE  /\ Program(file) \in Seq(AByte)
           /\ Len(file) >= Sig => Len(Program(file)) = Len(file) - Sig
           /\ \A k \in 1..Len(file) - Sig :
                Program(file)[k] = IF k = Len(file) - Sig THEN Stray ELSE file[Sig + 1 + k]
<1> DEFINE whole == Append(file, Stray)
<1>1. Len(file) \in Nat /\ Sig \in Nat \ {0}
    BY UpgradeAssumption, LenProperties
<1>2. file \in Seq(AByte) /\ Stray \in AByte
    <2>1. Uploaded \subseteq AByte
        BY DEF Uploaded, AByte
    <2> QED
        BY <2>1, SeqMonotonic DEF AByte
<1>3. /\ \A i \in 1..Len(file) : whole[i] = file[i]
      /\ whole[Len(file) + 1] = Stray
      /\ \A i \in 1..Len(file) + 1 : whole[i] \in AByte
    BY <1>1, <1>2
<1> HIDE DEF whole
<1>4. \A i \in Sig + 2..Len(file) + 1 : whole[i] \in AByte
    BY <1>1, <1>3
<1>5. /\ SubSeq(whole, Sig + 2, Len(file) + 1) \in Seq(AByte)
      /\ Sig + 2 <= Len(file) + 1 =>
           Len(SubSeq(whole, Sig + 2, Len(file) + 1)) = (Len(file) + 1) - (Sig + 2) + 1
      /\ ~(Sig + 2 <= Len(file) + 1) => Len(SubSeq(whole, Sig + 2, Len(file) + 1)) = 0
      /\ \A i \in 1..(Len(file) + 1) - (Sig + 2) + 1 :
           SubSeq(whole, Sig + 2, Len(file) + 1)[i] = whole[(Sig + 2) + i - 1]
    BY <1>1, <1>4, SubSeqProperties
<1>6. Program(file) = SubSeq(whole, Sig + 2, Len(file) + 1)
    BY DEF Program, whole
<1>7. \A k \in 1..Len(file) - Sig :
        /\ k \in 1..(Len(file) + 1) - (Sig + 2) + 1 /\ (Sig + 2) + k - 1 = Sig + 1 + k
        /\ k # Len(file) - Sig => Sig + 1 + k \in 1..Len(file)
        /\ k = Len(file) - Sig => Sig + 1 + k = Len(file) + 1
    BY <1>1
<1>8. Len(file) >= Sig => Len(Program(file)) = Len(file) - Sig
    BY <1>1, <1>5, <1>6
<1>9. Program(file) \in Seq(AByte)
    BY <1>5, <1>6
<1>10. ASSUME NEW k \in 1..Len(file) - Sig
       PROVE  Program(file)[k] = IF k = Len(file) - Sig THEN Stray ELSE file[Sig + 1 + k]
    <2>1. Program(file)[k] = whole[(Sig + 2) + k - 1]
        BY <1>5, <1>6, <1>7
    <2>2. (Sig + 2) + k - 1 = Sig + 1 + k
        BY <1>7
    <2>3. Program(file)[k] = whole[Sig + 1 + k]
        BY <2>1, <2>2
    <2>4. CASE k = Len(file) - Sig
        BY <1>3, <1>7, <2>3, <2>4
    <2>5. CASE k # Len(file) - Sig
        BY <1>3, <1>7, <2>3, <2>5
    <2> QED
        BY <2>4, <2>5
<1> QED
    BY <1>8, <1>9, <1>10

-----------------------------------------------------------------------------
(* Types, and what fp is. *)

LEMMA OpeningInit == Init => Opening
<1> SUFFICES ASSUME Init PROVE Opening
    OBVIOUS
<1>1. buffer \in Seq(Uploaded)
    BY EmptySeq DEF Init
<1>2. Types
    <2>1. next \in Nat /\ error \in 0..Block
        BY UpgradeAssumption DEF Init
    <2>2. /\ short \in BOOLEAN /\ sole \in BOOLEAN /\ marked \in BOOLEAN
          /\ fresh \in BOOLEAN /\ torn \in BOOLEAN
        BY DEF Init
    <2> QED
        BY <1>1, <2>1, <2>2 DEF Init, Types
<1>3. FileOpen
    BY DEF Init, FileOpen
<1> QED
    BY <1>2, <1>3 DEF Opening

\* Every step keeps the types, and fp is what it should be.
LEMMA OpeningNext == Opening /\ [Next]_vars => Opening'
<1> SUFFICES ASSUME Opening, [Next]_vars PROVE Opening'
    OBVIOUS
<1>1. Opening
    OBVIOUS
<1> USE UpgradeAssumption DEF Opening
<1>2. ASSUME NEW u \in Image, Begin(u) PROVE Opening'
    BY <1>2 DEF Begin, Types, FileOpen, files
<1>3. CASE BreakOff \/ OpenFails
    BY <1>3 DEF BreakOff, OpenFails, Types, FileOpen, files, history
<1>4. CASE TakeBlock
    <2>1. /\ host \in Image /\ BlockLen \in Nat /\ BlockLen <= Block
          /\ temp' \in Seq(Uploaded) /\ buffer' \in Seq(Uploaded)
          /\ \E n \in 0..BlockLen :
               /\ error' = n
               /\ pc' = IF n > 0 THEN "answer" ELSE "close"
               /\ short' = (n < BlockLen \/ (short /\ fp # "null"))
        BY <1>4, TakeFacts
    <2>2. error' \in 0..Block /\ pc' \in {"answer", "close"} /\ short' \in BOOLEAN
        BY <2>1
    <2>3. fp' = "open" /\ next' = next + BlockLen /\ temp' # NoFile /\ sole' \in BOOLEAN
          /\ UNCHANGED <<host, staged, installed, rebooting, marked, fresh, torn>>
        BY <1>4, <2>1, NoFileIsNoSeq DEF TakeBlock, Types, Opened
    <2>4. ~rebooting
        BY <1>4 DEF TakeBlock, FileOpen
    <2> QED
        BY <2>1, <2>2, <2>3, <2>4 DEF Types, FileOpen
<1>5. CASE AnswerBlock
    BY <1>5 DEF AnswerBlock, Types, FileOpen, files, history
<1>6. CASE Close
    <2>1. PICK rest \in Prefixes(buffer) \cup {buffer} :
            temp' = temp \o rest /\ short' = (short \/ rest # buffer)
        BY <1>6 DEF Close, CloseFlushes
    <2>2. rest \in Seq(Uploaded)
        BY <2>1, PrefixFacts DEF Types
    <2>3. temp' \in Seq(Uploaded)
        BY <1>6, <2>1, <2>2, ConcatProperties DEF Close, Types, FileOpen
    <2>4. /\ short' \in BOOLEAN /\ buffer' = <<>> /\ fp' = "closed"
          /\ pc' = "check" /\ pc = "close"
          /\ ~rebooting /\ rebooting' = rebooting
          /\ UNCHANGED <<host, next, staged, installed, error, sole, marked, fresh, torn>>
        BY <1>6, <2>1 DEF Close, CloseFlushes, FileOpen
    <2> QED
        BY <2>3, <2>4, EmptySeq, NoFileIsNoSeq DEF Types, FileOpen
<1>7. CASE CheckStages
    <2>1. staged' \in Seq(AByte) /\ temp # NoFile /\ ~rebooting
        BY <1>7, EmptySeq DEF CheckStages, StagedAnew, Stages, FileOpen
    <2> QED
        BY <1>7, <2>1 DEF CheckStages, StagedAnew, Types, FileOpen
<1>8. CASE CheckSkips
    <2>1. short' \in BOOLEAN /\ marked' \in BOOLEAN /\ fresh' = FALSE /\ ~rebooting
        BY <1>8 DEF CheckSkips, HasSignature, Types, FileOpen
    <2> QED
        BY <1>8, <2>1 DEF CheckSkips, Types, FileOpen, files
<1>9. CASE CheckMisses \/ CheckDies
    <2>1. CASE CheckMisses
        BY <2>1 DEF CheckMisses, Types, FileOpen, files, history
    <2>2. CASE CheckDies
        BY <2>2 DEF CheckDies, Types, FileOpen, files
    <2> QED
        BY <1>9, <2>1, <2>2
<1>10. CASE TakeLate
    <2>1. BlockLen \in Nat /\ BlockLen <= Block /\ rebooting
        BY <1>10 DEF TakeLate, BlockLen, Types, FileOpen
    <2>2. error' \in 0..Block /\ pc' \in {"answer", "close", "dead"} /\ next' \in Nat
        BY <1>10, <2>1 DEF TakeLate, Types
    <2>3. Types'
        BY <1>10, <2>2 DEF TakeLate, Types, files, history
    <2>4. FileOpen'
        BY <1>10, <2>1, <2>2 DEF TakeLate, FileOpen, files
    <2> QED
        BY <2>3, <2>4
<1>11. CASE CloseLate \/ Reboot
    <2>1. CASE CloseLate
        BY <2>1 DEF CloseLate, Types, FileOpen, files, history
    <2>2. CASE Reboot
        BY <2>2 DEF Reboot, Types, FileOpen, files, history
    <2> QED
        BY <1>11, <2>1, <2>2
<1>12. CASE Stage
    <2>1. temp \in Seq(Uploaded)
        BY <1>12 DEF Stage, Types, FileOpen
    <2>2. staged' \in Seq(AByte)
        <3>1. PICK written \in Prefixes(Program(temp)) \cup {Program(temp)} :
                staged' = staged \o written
            BY <1>12 DEF Stage
        <3>2. written \in Seq(AByte)
            BY <2>1, <3>1, ProgramFacts, PrefixFacts
        <3> QED
            BY <1>12, <3>1, <3>2, EmptySeq, ConcatProperties DEF Stage, FileOpen
    <2>3. torn' \in BOOLEAN /\ short' \in BOOLEAN
        BY <1>12 DEF Stage, Types
    <2> QED
        BY <1>12, <2>2, <2>3 DEF Stage, Types, FileOpen
<1>13. CASE Remove \/ Reclose
    <2>1. CASE Remove
        BY <2>1 DEF Remove, Types, FileOpen, files, history
    <2>2. CASE Reclose
        BY <2>2 DEF Reclose, Types, FileOpen, files, history
    <2> QED
        BY <1>13, <2>1, <2>2
<1>14. CASE Move
    <2>1. (staged' = NoFile \/ staged' \in Seq(AByte))
          /\ (installed' = NoFile \/ installed' \in Seq(AByte))
        BY <1>14 DEF Move, Types
    <2> QED
        BY <1>14, <2>1 DEF Move, Types, FileOpen, history
<1>15. CASE Restart
    BY <1>15, EmptySeq DEF Restart, Fresh, Types, FileOpen, history
<1>16. CASE PowerLoss
    <2>1. (staged' = NoFile \/ staged' \in Seq(AByte)) /\ torn' \in BOOLEAN
        <3>1. CASE pc \in {"remove", "reclose", "dead"} /\ staged # NoFile /\ fresh
            BY <1>16, <3>1, PrefixFacts DEF PowerLoss, Types
        <3>2. CASE ~(pc \in {"remove", "reclose", "dead"} /\ staged # NoFile /\ fresh)
            BY <1>16, <3>2 DEF PowerLoss, Types
        <3> QED
            BY <3>1, <3>2
    <2> QED
        BY <1>16, <2>1, EmptySeq DEF PowerLoss, Fresh, Types, FileOpen
<1>17. CASE UNCHANGED vars
    BY <1>17 DEF vars, files, history, Types, FileOpen
<1> QED
    BY <1>2, <1>3, <1>4, <1>5, <1>6, <1>7, <1>12, <1>13, <1>14, <1>15, <1>16, <1>17, <1>8,
       <1>9, <1>10, <1>11
    DEF Next, Server, Check

-----------------------------------------------------------------------------
(* An upload while it comes in. *)

\* The upload goes on; it is known to be complete so far; it is all there is.
Going == ~rebooting /\ ((pc = "recv" /\ fp = "open") \/ (pc = "answer" /\ error = Block))
Sure ==
    /\ host # NoImage /\ next > 0
    /\ Going \/ (pc \in {"answer", "close", "check", "stage"} /\ ~short /\ ~rebooting)
Alone ==
    /\ sole /\ ~short /\ ~rebooting /\ host # NoImage /\ fp # "null"
    /\ pc \in {"recv", "answer", "close", "check", "stage"}

\* What a host has sent is at the end of the file.
Kept ==
    /\ Len(File) >= next
    /\ \A k \in 1..next : File[Len(File) - next + k] = Byte(host, k)

UploadInv ==
    /\ FileIsUploads
    /\ \A k \in 1..Len(File) : k <= Block => File[k].up = File[1].up
    /\ Going => Len(File) >= Block
    /\ Sure => Kept
    /\ Alone => Len(File) = next

\* But for a block that comes the file only loses what is at its end, and what is
\* known of it stays true.
LEMMA FileSteps ==
    ASSUME Opening, [Next]_vars, ~TakeBlock
    PROVE  /\ Len(File') \in 0..Len(File)
           /\ \A k \in 1..Len(File') : File'[k] = File[k]
           /\ Going' => Going /\ File' = File
           /\ Sure' => Sure /\ File' = File /\ UNCHANGED <<host, next>>
           /\ Alone' => Alone /\ File' = File /\ UNCHANGED <<host, next>>
<1> DEFINE Begins == /\ Len(File') \in 0..Len(File)
                     /\ \A k \in 1..Len(File') : File'[k] = File[k]
           Goal == /\ Begins
                   /\ Going' => Going /\ File' = File
                   /\ Sure' => Sure /\ File' = File /\ UNCHANGED <<host, next>>
                   /\ Alone' => Alone /\ File' = File /\ UNCHANGED <<host, next>>
<1> SUFFICES Goal
    OBVIOUS
<1>1. File \in Seq(Uploaded) /\ Len(File) \in Nat
    BY FileFacts, LenProperties DEF Opening
<1>2. File' = File => Begins
    BY <1>1
<1>3. UNCHANGED <<temp, buffer>> => File' = File
    BY DEF File
<1> HIDE DEF Begins
<1>4. CASE \E u \in Image : Begin(u)
    BY <1>2, <1>3, <1>4 DEF Begin, files, Going, Sure, Alone
<1>5. CASE BreakOff \/ OpenFails
    BY <1>2, <1>3, <1>5 DEF BreakOff, OpenFails, files, history, Going, Sure, Alone
<1>6. CASE AnswerBlock
    BY <1>2, <1>3, <1>6 DEF AnswerBlock, GoesOn, files, history, Going, Sure, Alone, FileOpen,
                            Opening
<1>7. CASE Close
    <2>1. PICK rest \in Prefixes(buffer) \cup {buffer} :
            temp' = temp \o rest /\ short' = (short \/ rest # buffer)
        BY <1>7 DEF Close, CloseFlushes
    <2>2. temp \in Seq(Uploaded) /\ temp # NoFile /\ buffer \in Seq(Uploaded)
        BY <1>7 DEF Close, Opening, Types, FileOpen
    <2>3. rest \in Seq(Uploaded) /\ Len(rest) \in 0..Len(buffer)
          /\ \A k \in 1..Len(rest) : rest[k] = buffer[k]
        <3>1. CASE rest = buffer
            BY <2>2, <3>1, LenProperties
        <3>2. CASE rest \in Prefixes(buffer)
            BY <2>2, <3>2, PrefixFacts
        <3> QED
            BY <2>1, <3>1, <3>2
    <2>4. temp \o rest \in Seq(Uploaded) /\ (temp \o rest) \o <<>> = temp \o rest
        BY <2>2, <2>3, ConcatProperties, ConcatEmptySeq
    <2>5. /\ buffer' = <<>> /\ pc = "close" /\ pc' = "check" /\ fp = "open"
          /\ UNCHANGED <<host, next, sole, rebooting>>
        BY <1>7 DEF Close, CloseFlushes
    <2>6. File' = temp \o rest /\ File = temp \o buffer
        BY <2>1, <2>2, <2>4, <2>5, NoFileIsNoSeq DEF File
    <2>7. Begins
        <3>1. /\ Len(temp \o rest) = Len(temp) + Len(rest)
              /\ Len(temp \o buffer) = Len(temp) + Len(buffer)
              /\ \A i \in 1..Len(temp) + Len(rest) :
                   (temp \o rest)[i] = IF i <= Len(temp) THEN temp[i] ELSE rest[i - Len(temp)]
              /\ \A i \in 1..Len(temp) + Len(buffer) : (temp \o buffer)[i] =
                   IF i <= Len(temp) THEN temp[i] ELSE buffer[i - Len(temp)]
            BY <2>2, <2>3, ConcatProperties
        <3>2. Len(temp) \in Nat /\ Len(rest) \in Nat /\ Len(buffer) \in Nat
              /\ Len(rest) <= Len(buffer)
            BY <2>2, <2>3, LenProperties
        <3>3. Len(File') \in 0..Len(File)
            BY <2>6, <3>1, <3>2
        <3>4. ASSUME NEW k \in 1..Len(File') PROVE File'[k] = File[k]
            <4>1. k \in 1..Len(temp) + Len(rest) /\ k \in 1..Len(temp) + Len(buffer)
                BY <2>6, <3>1, <3>2
            <4>2. ~(k <= Len(temp)) => k - Len(temp) \in 1..Len(rest)
                BY <3>2, <4>1
            <4> QED
                BY <2>3, <2>6, <3>1, <4>1, <4>2
        <3> QED
            BY <3>3, <3>4 DEF Begins
    <2>8. ~short' => ~short /\ File' = File
        BY <2>1, <2>6
    <2> QED
        BY <2>5, <2>7, <2>8 DEF Going, Sure, Alone
<1>8. CASE CheckMisses \/ CheckStages \/ CheckSkips \/ CheckDies
    BY <1>2, <1>3, <1>8 DEF CheckMisses, CheckStages, CheckSkips, CheckDies, files, history,
                            Going, Sure, Alone, FileOpen, Opening
<1>9. CASE Stage \/ Reclose \/ Move \/ Reboot
    BY <1>2, <1>3, <1>9 DEF Stage, Reclose, Move, Reboot, files, history, Going, Sure, Alone
<1>10. CASE TakeLate \/ CloseLate
    BY <1>2, <1>3, <1>10 DEF TakeLate, CloseLate, files, history, Going, Sure, Alone,
                             FileOpen, Opening
<1>11. CASE Remove
    <2>1. File' = <<>>
        BY <1>11 DEF Remove, File, Opening, FileOpen
    <2>2. Begins
        BY <1>1, <2>1 DEF Begins
    <2> QED
        BY <1>11, <2>2 DEF Remove, Going, Sure, Alone
<1>12. CASE Restart
    <2>1. UNCHANGED <<temp, buffer>>
        BY <1>12 DEF Restart, Fresh, Opening, Types, FileOpen
    <2> QED
        BY <1>2, <1>3, <1>12, <2>1 DEF Restart, Fresh, Going, Sure, Alone
<1>13. CASE PowerLoss
    <2>1. temp' = temp /\ buffer' = <<>> /\ fp' = "null" /\ host' = NoImage
          /\ pc' = "recv"
        BY <1>13 DEF PowerLoss, Fresh
    <2>2. File' = IF temp = NoFile THEN <<>> ELSE temp
        BY <2>1, ConcatEmptySeq DEF File, Opening, Types
    <2>3. Begins
        <3>1. CASE temp = NoFile
            BY <1>1, <2>2, <3>1 DEF Begins
        <3>2. CASE temp # NoFile
            <4>1. temp \in Seq(Uploaded) /\ buffer \in Seq(Uploaded) /\ File = temp \o buffer
                BY <3>2 DEF File, Opening, Types
            <4>2. Len(temp) \in Nat /\ Len(buffer) \in Nat
                  /\ Len(File) = Len(temp) + Len(buffer)
                  /\ \A i \in 1..Len(temp) : File[i] = temp[i]
                BY <4>1
            <4> QED
                BY <2>2, <3>2, <4>2 DEF Begins
        <3> QED
            BY <3>1, <3>2
    <2> QED
        BY <2>1, <2>3 DEF Going, Sure, Alone
<1>14. CASE UNCHANGED vars
    BY <1>2, <1>3, <1>14 DEF vars, files, history, Going, Sure, Alone
<1> HIDE DEF Goal
<1> QED
    BY <1>4, <1>5, <1>6, <1>7, <1>8, <1>9, <1>11, <1>12, <1>13, <1>14, <1>10
    DEF Next, Server, Check

\* A block is appended where the upload ended, or begins a file.
LEMMA TakeKeepsUpload ==
    ASSUME Opening, UploadInv, TakeBlock
    PROVE  UploadInv'
<1> DEFINE b == Len(Base)
<1>1. /\ host \in Image /\ BlockLen \in Nat /\ BlockLen <= Block
      /\ Base \in Seq(Uploaded)
    BY TakeFacts
<1>2. PICK n \in 0..BlockLen :
        /\ error' = n
        /\ pc' = IF n > 0 THEN "answer" ELSE "close"
        /\ short' = (n < BlockLen \/ (short /\ fp # "null"))
        /\ Len(File') = b + n
        /\ \A k \in 1..b : File'[k] = Base[k]
        /\ \A k \in 1..n : File'[b + k] = Byte(host, next + k)
    BY TakeFacts
<1>3. b \in Nat /\ n \in Nat /\ next \in Nat /\ Block \in Nat \ {0}
    BY <1>1, LenProperties, UpgradeAssumption DEF Opening, Types
<1>4. /\ pc = "recv" /\ fp' = "open" /\ next' = next + BlockLen /\ host' = host
      /\ sole' = IF fp = "null" THEN next = 0 ELSE sole
    BY <1>1 DEF TakeBlock, Opened
<1>5. ~rebooting /\ ~rebooting'
    BY DEF TakeBlock, Opening, FileOpen
<1>6. host # NoImage
    BY <1>1, UpgradeAssumption
<1>7. fp = "null" => b = 0 /\ next = 0
    BY <1>6, EmptySeq DEF Base, Opening, FileOpen
<1>8. fp # "null" => Base = File /\ b >= Block /\ fp = "open"
    BY <1>4, <1>5 DEF Base, Opening, Types, FileOpen, UploadInv, Going
<1>9. next > 0 => /\ Base = File /\ b >= next
                  /\ \A k \in 1..next : Base[b - next + k] = Byte(host, k)
    <2>1. ASSUME next > 0 PROVE Sure
        BY <1>3, <1>4, <1>6, <1>7, <1>8, <1>5, <2>1 DEF Sure, Going
    <2> QED
        BY <1>3, <1>7, <1>8, <2>1 DEF UploadInv, Kept
<1>10. \A u, k : Byte(u, k).up = u /\ Byte(u, k).pos = k
    BY DEF Byte
<1> HIDE DEF b
<1>11. FileIsUploads'
    <2> DEFINE Fits(k) ==
            \/ File'[k].pos = 1
            \/ k > 1 /\ File'[k].pos = File'[k - 1].pos + 1 /\ File'[k].up = File'[k - 1].up
    <2>1. ASSUME NEW k \in 1..b PROVE Fits(k)
        <3>1. Base = File
            BY <1>3, <1>7, <1>8, <2>1
        <3>2. k \in 1..Len(File) /\ (k > 1 => k - 1 \in 1..b)
            BY <1>3, <2>1, <3>1 DEF b
        <3> QED
            BY <1>2, <2>1, <3>1, <3>2 DEF UploadInv, FileIsUploads
    <2>2. ASSUME NEW j \in 1..n PROVE Fits(b + j)
        <3>1. File'[b + j].pos = next + j /\ File'[b + j].up = host
            BY <1>2, <1>10, <2>2
        <3>2. CASE j = 1 /\ next = 0
            BY <1>3, <3>1, <3>2
        <3>3. CASE j = 1 /\ next > 0
            <4>1. next \in 1..next /\ b - next + next = b /\ b \in 1..b /\ b + 1 > 1
                BY <1>3, <1>9, <3>3
            <4>2. File'[b] = Byte(host, next)
                BY <1>2, <1>9, <3>3, <4>1
            <4> QED
                BY <1>3, <1>10, <3>1, <3>3, <4>1, <4>2
        <3>4. CASE j > 1
            <4>1. j - 1 \in 1..n /\ b + (j - 1) = (b + j) - 1 /\ b + j > 1
                BY <1>3, <3>4
            <4>2. File'[(b + j) - 1] = Byte(host, next + (j - 1))
                BY <1>2, <4>1
            <4> QED
                BY <1>3, <1>10, <3>1, <4>1, <4>2
        <3> QED
            BY <1>3, <3>2, <3>3, <3>4
    <2>3. \A k \in 1..b + n : k \in 1..b \/ (k - b \in 1..n /\ k = b + (k - b))
        BY <1>3
    <2> HIDE DEF Fits
    <2>4. \A k \in 1..b + n : Fits(k)
        BY <2>1, <2>2, <2>3
    <2> QED
        BY <1>2, <2>4 DEF FileIsUploads, Fits
<1>12. \A k \in 1..Len(File') : k <= Block => File'[k].up = File'[1].up
    <2>1. CASE fp = "null"
        <3>1. \A k \in 1..n : File'[k].up = host
            BY <1>2, <1>3, <1>7, <1>10, <2>1
        <3> QED
            BY <1>2, <1>3, <1>7, <2>1, <3>1
    <2>2. CASE fp # "null"
        <3>1. \A k \in 1..b + n : k <= Block => k \in 1..b /\ 1 \in 1..b
            BY <1>3, <1>8, <2>2
        <3> QED
            BY <1>2, <1>8, <2>2, <3>1 DEF UploadInv, b
    <2> QED
        BY <2>1, <2>2
<1>13. Going' => Len(File') >= Block
    BY <1>2, <1>3 DEF Going
<1>14. ASSUME n = BlockLen PROVE Kept'
    <2>1. Len(File') >= next'
        BY <1>2, <1>3, <1>4, <1>9, <1>14
    <2>2. ASSUME NEW k \in 1..next' PROVE File'[Len(File') - next' + k] = Byte(host, k)
        <3>1. Len(File') - next' + k = b - next + k
            BY <1>2, <1>3, <1>4, <1>14
        <3>2. CASE k <= next
            <4>1. next > 0 /\ k \in 1..next /\ b - next + k \in 1..b
                BY <1>3, <1>4, <1>9, <1>14, <3>2
            <4>2. Base[b - next + k] = Byte(host, k)
                BY <1>9, <4>1
            <4> QED
                BY <1>2, <3>1, <4>1, <4>2
        <3>3. CASE k > next
            <4>1. k - next \in 1..n /\ b + (k - next) = b - next + k /\ next + (k - next) = k
                BY <1>3, <1>4, <1>14, <3>3
            <4> QED
                BY <1>2, <3>1, <4>1
        <3> QED
            BY <1>3, <1>4, <1>14, <3>2, <3>3
    <2> QED
        BY <1>4, <2>1, <2>2 DEF Kept
<1>15. /\ Sure' => n = BlockLen
       /\ Alone' => n = BlockLen
    <2>1. n = BlockLen \/ (n < BlockLen /\ n # Block)
        BY <1>1, <1>3
    <2>2. n < BlockLen => short'
        BY <1>2
    <2>3. pc' # "recv"
        BY <1>2
    <2> QED
        BY <1>2, <2>1, <2>2, <2>3 DEF Sure, Alone, Going
<1>16. Alone' => Len(File') = next'
    <2>1. ASSUME Alone' PROVE Len(File') = next'
        <3>1. n = BlockLen
            BY <1>15, <2>1
        <3>2. CASE fp = "null"
            BY <1>2, <1>3, <1>4, <1>7, <3>1, <3>2
        <3>3. CASE fp # "null"
            <4>1. sole /\ ~short
                BY <1>2, <1>4, <2>1, <3>3 DEF Alone
            <4>2. Alone
                BY <1>4, <1>6, <1>5, <3>3, <4>1 DEF Alone
            <4> QED
                BY <1>2, <1>3, <1>4, <1>8, <3>1, <3>3, <4>2 DEF UploadInv, b
        <3> QED
            BY <3>2, <3>3
    <2> QED
        BY <2>1
<1> QED
    BY <1>11, <1>12, <1>13, <1>14, <1>15, <1>16 DEF UploadInv

\* The initial state satisfies it, and every step keeps it.
LEMMA UploadInit == Init => UploadInv
<1> SUFFICES ASSUME Init PROVE UploadInv
    OBVIOUS
<1>1. File = <<>> /\ Len(File) = 0 /\ pc = "recv" /\ fp = "null" /\ host = NoImage
    BY EmptySeq DEF Init, File
<1> QED
    BY <1>1 DEF UploadInv, FileIsUploads, Going, Sure, Alone

LEMMA UploadNext == Opening /\ UploadInv /\ [Next]_vars => UploadInv'
<1> SUFFICES ASSUME Opening, UploadInv, [Next]_vars, ~TakeBlock PROVE UploadInv'
    BY TakeKeepsUpload
<1>1. /\ Len(File') \in 0..Len(File)
      /\ \A k \in 1..Len(File') : File'[k] = File[k]
      /\ Going' => Going /\ File' = File
      /\ Sure' => Sure /\ File' = File /\ UNCHANGED <<host, next>>
      /\ Alone' => Alone /\ File' = File /\ UNCHANGED <<host, next>>
    BY FileSteps
<1>2. Len(File) \in Nat
    BY FileFacts, LenProperties DEF Opening
<1>3. \A k \in 1..Len(File') : /\ k \in 1..Len(File) /\ 1 \in 1..Len(File')
                               /\ k > 1 => k - 1 \in 1..Len(File')
    BY <1>1, <1>2
<1>4. FileIsUploads'
    BY <1>1, <1>3 DEF UploadInv, FileIsUploads
<1>5. \A k \in 1..Len(File') : k <= Block => File'[k].up = File'[1].up
    BY <1>1, <1>3 DEF UploadInv
<1>6. (Going' => Len(File') >= Block) /\ (Alone' => Len(File') = next')
    BY <1>1 DEF UploadInv
<1>7. Sure' => Kept'
    BY <1>1 DEF UploadInv, Kept
<1> QED
    BY <1>4, <1>5, <1>6, <1>7 DEF UploadInv

-----------------------------------------------------------------------------
(* What becomes of the file. *)

\* The upload is one that is to be installed.
Wanted == sole /\ ~short /\ host \in Signed /\ next = Size[host] /\ next > Sig

\* A program that came behind a signature.
FromSigned(file) ==
    file # NoFile /\ file # <<>> => file[1] = Stray \/ file[1].up \in Signed

OutInv ==
    /\ pc = "stage" => HasSignature(temp)
    /\ FromSigned(staged) /\ FromSigned(installed)
    /\ pc \in {"remove", "reclose", "move"} /\ torn /\ marked => short
    /\ pc \in {"remove", "reclose", "move"} /\ Wanted => staged = Program(Whole(host))
    /\ pc = "reboot" /\ Wanted => installed = Program(Whole(host))

UpgradeInv == Opening /\ UploadInv /\ OutInv

\* An image that is to be installed is what the file holds when it is looked at.
LEMMA WholeFile ==
    ASSUME Opening, UploadInv, Wanted, pc \in {"check", "stage"}, temp # NoFile
    PROVE  temp = Whole(host) /\ HasSignature(temp)
<1>1. /\ host \in Image /\ host # NoImage /\ Size[host] \in Nat
      /\ Sig \in Nat \ {0} /\ next \in Nat
    BY UpgradeAssumption DEF Wanted, Opening, Types
<1>2. temp \in Seq(Uploaded) /\ temp = File /\ fp = "closed" /\ ~rebooting
    BY FileFacts DEF Opening, Types, FileOpen
<1>3. Sure /\ Alone
    BY <1>1, <1>2 DEF Wanted, Sure, Alone
<1>4. Len(temp) = next /\ \A k \in 1..next : temp[next - next + k] = Byte(host, k)
    BY <1>2, <1>3 DEF UploadInv, Kept
<1>5. \A k \in 1..next : temp[k] = Byte(host, k)
    <2>1. \A k \in 1..next : next - next + k = k
        BY <1>1
    <2> QED
        BY <1>4, <2>1
<1>6. /\ Whole(host) \in Seq(Uploaded) /\ Len(Whole(host)) = next
      /\ \A k \in 1..next : Whole(host)[k] = Byte(host, k)
    <2>1. 0 + 1 = 1 /\ 0 + next = next /\ \A k \in 1..next : 0 + k = k
        BY <1>1
    <2>2. /\ Bytes(host, 0 + 1, 0 + next) \in Seq(Uploaded)
          /\ Len(Bytes(host, 0 + 1, 0 + next)) = next
          /\ \A k \in 1..next : Bytes(host, 0 + 1, 0 + next)[k] = Byte(host, 0 + k)
        BY <1>1, BytesFacts
    <2> QED
        BY <2>1, <2>2 DEF Whole, Wanted
<1>7. temp = Whole(host)
    <2>1. \A s, t \in Seq(Uploaded) :
            Len(s) = Len(t) /\ (\A i \in 1..Len(s) : s[i] = t[i]) => s = t
        BY SeqEqual
    <2>2. Len(temp) = Len(Whole(host)) /\ \A i \in 1..Len(temp) : temp[i] = Whole(host)[i]
        BY <1>4, <1>5, <1>6
    <2> QED
        BY <1>2, <1>6, <2>1, <2>2
<1>8. Len(temp) >= Sig /\ \A k \in 1..Sig : temp[k].up \in Signed /\ temp[k].pos = k
    <2>1. next > Sig /\ \A k \in 1..Sig : k \in 1..next
        BY <1>1 DEF Wanted
    <2>2. \A k : Byte(host, k).up = host /\ Byte(host, k).pos = k
        BY DEF Byte
    <2>3. Len(temp) >= Sig
        BY <1>1, <1>4, <2>1
    <2>4. \A k \in 1..Sig : temp[k] = Byte(host, k)
        BY <1>5, <2>1
    <2> QED
        BY <2>2, <2>3, <2>4 DEF Wanted
<1> QED
    BY <1>7, <1>8 DEF HasSignature

\* A part of a program that came behind a signature is one, too.
LEMMA PrefixFromSigned ==
    ASSUME NEW s \in Seq(AByte), FromSigned(s), NEW p \in Prefixes(s)
    PROVE  FromSigned(p)
<1> SUFFICES ASSUME p # <<>> PROVE p[1] = Stray \/ p[1].up \in Signed
    BY DEF FromSigned
<1>1. p \in Seq(AByte) /\ Len(p) \in 0..Len(s) /\ \A k \in 1..Len(p) : p[k] = s[k]
    BY PrefixFacts
<1>2. 1 \in 1..Len(p) /\ s # <<>>
    BY <1>1, EmptySeq
<1> QED
    BY <1>1, <1>2, NoFileIsNoSeq DEF FromSigned

\* The program in a file with the signature came behind a signature: the first
\* block holds the signature and the byte the program begins with.
LEMMA ProgramFromSigned ==
    ASSUME Opening, UploadInv, pc = "stage", HasSignature(temp)
    PROVE  Program(temp) \in Seq(AByte) /\ FromSigned(Program(temp))
<1>1. temp \in Seq(Uploaded) /\ temp = File
    BY FileFacts DEF Opening, Types, FileOpen
<1>2. Program(temp) \in Seq(AByte) /\ Len(Program(temp)) = Len(temp) - Sig
      /\ \A k \in 1..Len(temp) - Sig :
           Program(temp)[k] = IF k = Len(temp) - Sig THEN Stray ELSE temp[Sig + 1 + k]
    BY <1>1, ProgramFacts DEF HasSignature
<1>3. Len(temp) \in Nat /\ Sig \in Nat \ {0} /\ Block \in Nat /\ Sig + 2 <= Block
    BY <1>1, LenProperties, UpgradeAssumption
<1>4. ASSUME Program(temp) # <<>>
      PROVE  Program(temp)[1] = Stray \/ Program(temp)[1].up \in Signed
    <2>1. Len(Program(temp)) # 0
        BY <1>2, <1>4, EmptySeq
    <2>2. 1 \in 1..Len(temp) - Sig
        BY <1>2, <1>3, <2>1
    <2>3. CASE 1 = Len(temp) - Sig
        BY <1>2, <2>2, <2>3
    <2>4. CASE 1 # Len(temp) - Sig
        <3>1. Sig + 2 \in 1..Len(temp) /\ Sig + 1 + 1 = Sig + 2
            BY <1>3, <2>2, <2>4
        <3>2. Program(temp)[1] = temp[Sig + 2]
            BY <1>2, <2>2, <2>4, <3>1
        <3>3. temp[Sig + 2].up = temp[1].up
            BY <1>1, <1>3, <3>1 DEF UploadInv
        <3>4. 1 \in 1..Sig
            BY <1>3
        <3> QED
            BY <3>2, <3>3, <3>4 DEF HasSignature
    <2> QED
        BY <2>3, <2>4
<1> QED
    BY <1>2, <1>4 DEF FromSigned

\* Every step keeps what is known of the outcome.
LEMMA OutNext == UpgradeInv /\ [Next]_vars => OutInv'
<1> SUFFICES ASSUME UpgradeInv, [Next]_vars PROVE OutInv'
    OBVIOUS
<1> USE DEF UpgradeInv
<1> DEFINE Quiet == pc' \in {"recv", "answer", "close", "check", "dead"}
                    /\ UNCHANGED <<staged, installed>>
<1>1. CASE Quiet
    BY <1>1 DEF OutInv
<1>2. CASE TakeBlock
    BY <1>1, <1>2 DEF TakeBlock
<1>3. CASE \/ (\E u \in Image : Begin(u)) \/ BreakOff \/ OpenFails \/ AnswerBlock \/ Close
           \/ CheckMisses \/ CheckDies \/ Reboot \/ Restart
    BY <1>1, <1>3 DEF Begin, BreakOff, OpenFails, AnswerBlock, Close, CheckMisses, CheckDies,
                      Reboot, Restart, Fresh, files
<1>4. CASE TakeLate \/ CloseLate
    <2>1. Quiet
        BY <1>4 DEF TakeLate, CloseLate, files
    <2> QED
        BY <1>1, <2>1
<1>5. CASE CheckStages
    <2>1. /\ temp' = temp /\ HasSignature(temp) /\ pc' = "stage"
          /\ staged' = <<>> /\ installed' = installed
        BY <1>5 DEF CheckStages, Stages, StagedAnew
    <2> QED
        BY <2>1 DEF OutInv, FromSigned, HasSignature
<1>6. CASE CheckSkips
    <2>1. /\ pc = "check" /\ pc' = "remove" /\ temp # NoFile /\ marked' = HasSignature(temp)
          /\ UNCHANGED <<host, next, staged, installed, sole>>
        BY <1>6 DEF CheckSkips, files
    <2>2. short' \/ (~HasSignature(temp) /\ short' = short)
        BY <1>6 DEF CheckSkips, Stages, Opening, Types
    <2>3. ASSUME Wanted' PROVE FALSE
        <3>1. Wanted /\ ~HasSignature(temp)
            BY <2>1, <2>2, <2>3 DEF Wanted
        <3> QED
            BY <2>1, <3>1, WholeFile
    <2>4. FromSigned(staged)' /\ FromSigned(installed)'
        BY <2>1 DEF OutInv, FromSigned
    <2> QED
        BY <2>1, <2>2, <2>3, <2>4 DEF OutInv
<1>7. CASE Stage
    <2>1. PICK written \in Prefixes(Program(temp)) \cup {Program(temp)} :
            staged' = staged \o written /\ short' = (short \/ written # Program(temp))
        BY <1>7 DEF Stage
    <2>2. staged' = written
        <3>1. temp \in Seq(Uploaded) /\ staged = <<>>
            BY <1>7 DEF Stage, Opening, Types, FileOpen
        <3>2. written \in Seq(AByte)
            BY <2>1, <3>1, ProgramFacts, PrefixFacts
        <3> QED
            BY <2>1, <3>1, <3>2, ConcatEmptySeq
    <2>3. /\ pc = "stage" /\ pc' = "remove" /\ torn' = (staged' # Program(temp))
          /\ short' = (short \/ staged' # Program(temp))
          /\ staged' \in Prefixes(Program(temp)) \cup {Program(temp)}
          /\ UNCHANGED <<host, next, installed, sole, marked>>
        BY <1>7, <2>1, <2>2 DEF Stage
    <2>4. HasSignature(temp)
        BY <2>3 DEF OutInv
    <2>5. Program(temp) \in Seq(AByte) /\ FromSigned(Program(temp))
        BY <2>3, <2>4, ProgramFromSigned
    <2>6. FromSigned(staged)'
        <3>1. \A p \in Prefixes(Program(temp)) : FromSigned(p)
            BY <2>5, PrefixFromSigned
        <3>2. FromSigned(staged')
            BY <2>3, <2>5, <3>1
        <3> QED
            BY <3>2 DEF FromSigned
    <2>7. torn' => short'
        BY <2>3
    <2>8. ASSUME Wanted' PROVE staged' = Program(Whole(host'))
        <3>1. ~short' /\ sole /\ host \in Signed /\ next = Size[host] /\ next > Sig
            BY <2>3, <2>8 DEF Wanted
        <3>2. ~short /\ staged' = Program(temp)
            BY <2>3, <3>1
        <3>3. Wanted
            BY <3>1, <3>2 DEF Wanted
        <3>4. temp = Whole(host)
            BY <2>3, <3>3, WholeFile DEF Opening, FileOpen
        <3> QED
            BY <2>3, <3>2, <3>4
    <2>9. Whole(host)' = Whole(host')
        BY DEF Whole
    <2>10. FromSigned(installed)'
        BY <2>3 DEF OutInv, FromSigned
    <2> QED
        BY <2>3, <2>6, <2>7, <2>8, <2>10 DEF OutInv, Whole, Program
<1>8. CASE Remove \/ Reclose
    <2>1. /\ pc \in {"remove", "reclose"} /\ pc' \in {"reclose", "move", "dead"}
          /\ UNCHANGED <<host, next, staged, installed, sole, short, marked, torn>>
        BY <1>8 DEF Remove, Reclose, files, history
    <2> QED
        BY <2>1 DEF OutInv, FromSigned, Wanted, Whole, Program
<1>9. CASE Move
    <2>1. /\ pc = "move" /\ pc' = "reboot" /\ UNCHANGED <<host, next, sole, short>>
          /\ \/ staged = NoFile /\ UNCHANGED <<staged, installed>>
             \/ staged # NoFile /\ staged' = NoFile /\ installed' = staged
        BY <1>9 DEF Move, history
    <2>2. FromSigned(staged)' /\ FromSigned(installed)'
        BY <2>1 DEF OutInv, FromSigned
    <2>3. ASSUME Wanted PROVE installed' = Program(Whole(host))
        <3>1. staged = Program(Whole(host))
            BY <2>1, <2>3 DEF OutInv
        <3>2. Whole(host) \in Seq(Uploaded)
            <4>1. Bytes(host, 0 + 1, 0 + Size[host]) \in Seq(Uploaded)
                  /\ 0 + 1 = 1 /\ 0 + Size[host] = Size[host]
                BY <2>3, BytesFacts, UpgradeAssumption DEF Wanted
            <4> QED
                BY <4>1 DEF Whole
        <3>3. staged # NoFile
            BY <3>1, <3>2, ProgramFacts, NoFileIsNoSeq
        <3> QED
            BY <2>1, <3>1, <3>3
    <2>4. Wanted' => Wanted
        BY <2>1 DEF Wanted
    <2> QED
        BY <2>1, <2>2, <2>3, <2>4 DEF OutInv, Whole, Program
<1>10. CASE PowerLoss
    <2>1. pc' = "recv" /\ installed' = installed
          /\ staged' \in Prefixes(staged) \cup {staged} /\ (staged' = staged \/ staged # NoFile)
        BY <1>10 DEF PowerLoss, Fresh
    <2>2. FromSigned(staged')
        <3>1. CASE staged' = staged
            BY <3>1 DEF OutInv
        <3>2. CASE staged' # staged
            BY <2>1, <3>2, PrefixFromSigned DEF OutInv, Opening, Types
        <3> QED
            BY <3>1, <3>2
    <2> QED
        BY <2>1, <2>2 DEF OutInv, FromSigned
<1>11. CASE UNCHANGED vars
    BY <1>11 DEF vars, files, history, OutInv, FromSigned, Wanted, HasSignature, Whole, Program
<1> QED
    BY <1>2, <1>3, <1>5, <1>7, <1>8, <1>9, <1>10, <1>11, <1>4, <1>6 DEF Next, Server, Check

\* Every reachable state satisfies the invariant.
THEOREM UpgradeInvariant == Spec => []UpgradeInv
<1>1. Init => UpgradeInv
    <2> SUFFICES ASSUME Init PROVE OutInv
        BY OpeningInit, UploadInit DEF UpgradeInv
    <2> QED
        BY DEF Init, OutInv, FromSigned, Wanted
<1>2. UpgradeInv /\ [Next]_vars => UpgradeInv'
    BY OpeningNext, UploadNext, OutNext DEF UpgradeInv
<1> QED
    BY <1>1, <1>2, PTL DEF Spec

-----------------------------------------------------------------------------
(* The properties. *)

\* The type invariant.
THEOREM UpgradeTypes == Spec => []TypeOK
<1>1. UpgradeInv => TypeOK
    <2> SUFFICES ASSUME Types PROVE TypeOK
        BY DEF UpgradeInv, Opening
    <2>1. \A s \in Seq(Uploaded) : s \in Seq(AByte)
        BY SeqMonotonic DEF Uploaded, AByte
    <2>2. \A file \in {temp, staged, installed} : file = NoFile \/ file \in Seq(AByte)
        BY <2>1 DEF Types
    <2> QED
        BY <2>1, <2>2 DEF Types, TypeOK
<1> QED
    BY <1>1, UpgradeInvariant, PTL

\* The file holds beginnings of uploads, whoever breaks off and begins when, and
\* however little of a block finds room.
THEOREM OnlyUploadsInFile == Spec => []FileIsUploads
<1>1. UpgradeInv => FileIsUploads
    BY DEF UpgradeInv, UploadInv
<1> QED
    BY <1>1, UpgradeInvariant, PTL

\* Until the restart is asked for, what a host has sent is at the end of the file, and
\* on disk when that is looked at, unless a write fell short.
THEOREM SentIsInFile == Spec => []SentIsKept
<1>1. UpgradeInv => SentIsKept
    <2> SUFFICES ASSUME Opening, UploadInv, pc \in {"recv", "answer", "close", "check"},
                        ~rebooting, host # NoImage, ~short, next > 0
                 PROVE  /\ Len(File) >= next
                        /\ SubSeq(File, Len(File) - next + 1, Len(File)) = Bytes(host, 1, next)
                        /\ pc = "check" => buffer = <<>>
        BY DEF UpgradeInv, SentIsKept
    <2>1. host \in Image /\ next \in Nat /\ File \in Seq(Uploaded) /\ Len(File) \in Nat
        BY FileFacts, LenProperties DEF Opening, Types
    <2>2. pc = "recv" => fp = "open"
        BY <2>1 DEF Opening, Types, FileOpen
    <2>3. Kept
        BY <2>2 DEF Sure, Going, UploadInv
    <2> DEFINE m == Len(File) - next + 1
    <2>4. \A i \in m..Len(File) : File[i] \in Uploaded
        BY <2>1, <2>3 DEF Kept
    <2>5. /\ SubSeq(File, m, Len(File)) \in Seq(Uploaded)
          /\ Len(SubSeq(File, m, Len(File))) = next
          /\ \A i \in 1..next : SubSeq(File, m, Len(File))[i] = File[Len(File) - next + i]
        <3>1. Len(File) - m + 1 = next /\ m \in Int /\ m <= Len(File)
              /\ \A i \in 1..next : m + i - 1 = Len(File) - next + i
            BY <2>1
        <3> HIDE DEF m
        <3> QED
            BY <2>1, <2>4, <3>1, SubSeqProperties
    <2>6. /\ Bytes(host, 1, next) \in Seq(Uploaded) /\ Len(Bytes(host, 1, next)) = next
          /\ \A i \in 1..next : Bytes(host, 1, next)[i] = Byte(host, i)
        <3>1. 0 + 1 = 1 /\ 0 + next = next /\ \A k \in 1..next : 0 + k = k
            BY <2>1
        <3>2. /\ Bytes(host, 0 + 1, 0 + next) \in Seq(Uploaded)
              /\ Len(Bytes(host, 0 + 1, 0 + next)) = next
              /\ \A k \in 1..next : Bytes(host, 0 + 1, 0 + next)[k] = Byte(host, 0 + k)
            BY <2>1, BytesFacts
        <3> QED
            BY <3>1, <3>2
    <2>7. SubSeq(File, m, Len(File)) = Bytes(host, 1, next)
        <3>1. \A s, t \in Seq(Uploaded) :
                Len(s) = Len(t) /\ (\A i \in 1..Len(s) : s[i] = t[i]) => s = t
            BY SeqEqual
        <3>2. \A i \in 1..next : SubSeq(File, m, Len(File))[i] = Bytes(host, 1, next)[i]
            BY <2>3, <2>5, <2>6 DEF Kept
        <3> QED
            BY <2>5, <2>6, <3>1, <3>2
    <2>8. pc = "check" => buffer = <<>>
        BY DEF Opening, FileOpen
    <2> QED
        BY <2>3, <2>7, <2>8 DEF Kept
<1> QED
    BY <1>1, UpgradeInvariant, PTL

\* What is installed came behind a signature.
THEOREM InstalledIsSigned == Spec => []SignedOnly
<1>1. UpgradeInv => SignedOnly
    BY DEF UpgradeInv, OutInv, FromSigned, SignedOnly
<1> QED
    BY <1>1, UpgradeInvariant, PTL

\* A signed image that is uploaded in one piece is installed as it is, with one byte
\* more, unless a write falls short or a file cannot be read or opened.
THEOREM ImageIsInstalled == Spec => []WholeIsInstalled
<1>1. ASSUME NEW file \in Seq(Uploaded), Len(file) > Sig
      PROVE  Program(file) = Append(SubSeq(file, Sig + 2, Len(file)), Stray)
    <2> DEFINE part == SubSeq(file, Sig + 2, Len(file))
    <2>1. Len(file) \in Nat /\ Sig \in Nat \ {0}
        BY LenProperties, UpgradeAssumption
    <2>2. file \in Seq(AByte) /\ Stray \in AByte
        <3>1. Uploaded \subseteq AByte
            BY DEF Uploaded, AByte
        <3> QED
            BY <3>1, SeqMonotonic DEF AByte
    <2>3. part \in Seq(AByte) /\ Len(part) = Len(file) - Sig - 1
          /\ \A i \in 1..Len(file) - Sig - 1 : part[i] = file[Sig + 1 + i]
        <3>1. \A i \in Sig + 2..Len(file) : file[i] \in AByte
            BY <2>1, <2>2
        <3>2. /\ part \in Seq(AByte)
              /\ Len(part) = IF Sig + 2 <= Len(file) THEN Len(file) - (Sig + 2) + 1 ELSE 0
              /\ \A i \in 1..Len(file) - (Sig + 2) + 1 : part[i] = file[(Sig + 2) + i - 1]
            BY <2>1, <3>1, SubSeqProperties
        <3>3. /\ Len(file) - (Sig + 2) + 1 = Len(file) - Sig - 1
              /\ \A i \in 1..Len(file) - Sig - 1 : (Sig + 2) + i - 1 = Sig + 1 + i
              /\ ~(Sig + 2 <= Len(file)) => Len(file) - Sig - 1 = 0
            BY <1>1, <2>1
        <3> HIDE DEF part
        <3> QED
            BY <3>2, <3>3
    <2> HIDE DEF part
    <2>4. /\ Append(part, Stray) \in Seq(AByte) /\ Len(Append(part, Stray)) = Len(part) + 1
          /\ \A i \in 1..Len(part) : Append(part, Stray)[i] = part[i]
          /\ Append(part, Stray)[Len(part) + 1] = Stray
        BY <2>2, <2>3, AppendProperties
    <2>5. /\ Program(file) \in Seq(AByte) /\ Len(Program(file)) = Len(file) - Sig
          /\ \A k \in 1..Len(file) - Sig :
               Program(file)[k] = IF k = Len(file) - Sig THEN Stray ELSE file[Sig + 1 + k]
        BY <1>1, <2>1, ProgramFacts
    <2>6. ASSUME NEW k \in 1..Len(file) - Sig
          PROVE  Program(file)[k] = Append(part, Stray)[k]
        <3>1. CASE k = Len(file) - Sig
            <4>1. k = Len(part) + 1
                BY <2>1, <2>3, <3>1
            <4> QED
                BY <2>4, <2>5, <3>1, <4>1
        <3>2. CASE k # Len(file) - Sig
            <4>1. k \in 1..Len(file) - Sig - 1
                BY <2>1, <3>2
            <4>2. k \in 1..Len(part)
                BY <2>3, <4>1
            <4> QED
                BY <2>3, <2>4, <2>5, <3>2, <4>1, <4>2
        <3> QED
            BY <3>1, <3>2
    <2>7. Len(Append(part, Stray)) = Len(file) - Sig
        BY <2>1, <2>3, <2>4
    <2>8. \A s, t \in Seq(AByte) :
            Len(s) = Len(t) /\ (\A i \in 1..Len(s) : s[i] = t[i]) => s = t
        BY SeqEqual
    <2> QED
        BY <2>4, <2>5, <2>6, <2>7, <2>8 DEF part
<1>2. UpgradeInv => WholeIsInstalled
    <2> SUFFICES ASSUME OutInv, pc = "reboot", Wanted
                 PROVE  installed = Append(SubSeq(Whole(host), Sig + 2, Size[host]), Stray)
        BY DEF UpgradeInv, WholeIsInstalled, Wanted
    <2>1. host \in Image /\ Size[host] \in Nat /\ Size[host] > Sig
        BY UpgradeAssumption DEF Wanted
    <2>2. Whole(host) \in Seq(Uploaded) /\ Len(Whole(host)) = Size[host]
        <3>1. /\ Bytes(host, 0 + 1, 0 + Size[host]) \in Seq(Uploaded)
              /\ Len(Bytes(host, 0 + 1, 0 + Size[host])) = Size[host]
              /\ 0 + 1 = 1 /\ 0 + Size[host] = Size[host]
            BY <2>1, BytesFacts
        <3> QED
            BY <3>1 DEF Whole
    <2>3. installed = Program(Whole(host))
        BY DEF OutInv
    <2> QED
        BY <1>1, <2>1, <2>2, <2>3
<1> QED
    BY <1>2, UpgradeInvariant, PTL

\* Whenever the power has gone before, what an upload with the signature moves over
\* the running program is all of a program, unless a write fell short or a file failed.
THEOREM MovedIsWhole == Spec => WholeIsMoved
<1> DEFINE Moves == installed' # installed /\ torn => ~marked \/ short
<1>1. UpgradeInv /\ [Next]_vars => [Moves]_vars
    <2> SUFFICES ASSUME OutInv, [Next]_vars, installed' # installed, torn, marked
                 PROVE  short
        BY DEF UpgradeInv
    <2>1. Move
        BY DEF Next, Server, Begin, BreakOff, OpenFails, TakeBlock, TakeLate, AnswerBlock,
               Close, CloseLate, Check, CheckMisses, CheckStages, CheckSkips, CheckDies, Stage,
               Remove, Reclose, Reboot, Restart, PowerLoss, vars, files
    <2>2. pc = "move"
        BY <2>1 DEF Move
    <2> QED
        BY <2>2 DEF OutInv
<1> QED
    BY <1>1, UpgradeInvariant, PTL DEF Spec, WholeIsMoved
=============================================================================
