------------------------------ MODULE MtdWrite ------------------------------
(* mtd write (package/system/mtd): mtd_write of mtd.c and the part of       *)
(* jffs2.c that appends the saved configuration. The unit is one erase      *)
(* block; all devices of a command have the same number of blocks.          *)
(* ar71xx: no FIS table, and no fix-up for images without a known header.   *)
EXTENDS Naturals, Sequences, FiniteSets

CONSTANTS
    Size,     \* mtdsize of a device, in blocks
    MaxDev,   \* bound: devices of a command
    MaxData,  \* bound: blocks of an image before its end markers
    MaxMark,  \* bound: end markers of an image
    MaxConf,  \* bound: blocks of jffs2 data that -j makes
    MaxBad,   \* bound: bad blocks
    MaxWorn   \* bound: blocks that do not erase

ASSUME SizeAssumption == Size \in Nat \ {0}
ASSUME BoundAssumption ==
    /\ MaxDev \in Nat \ {0} /\ MaxData \in Nat /\ MaxMark \in Nat
    /\ MaxConf \in Nat /\ MaxBad \in Nat /\ MaxWorn \in Nat

VARIABLES
    cmd,     \* what the command asks for, and the devices it finds
    flash,   \* what is in each block
    dev,     \* the device that is open
    pos,     \* its file position
    w, e,    \* blocks written and blocks erased on it
    skipBad, \* skip_bad_blocks
    rd,      \* blocks of the image that were read
    buf,     \* the buffer: <<>> where buflen = 0
    off,     \* offset: where in the buffer the next write begins
    skip,    \* blocks of the image that the jffs2 data took the place of
    append,  \* jffs2file is not NULL
    mtdofs,  \* of jffs2.c
    left,    \* blocks that mtd_replace_jffs2 still has to write
    pc,
    fault    \* history: "read" or "write" when that failed

setupVars == <<cmd, fault>>
imageVars == <<rd, buf, skip, append>>
placeVars == <<dev, pos, w, e, skipBad, off>>
appendVars == <<mtdofs, left>>
vars == <<cmd, flash, dev, pos, w, e, skipBad, rd, buf, off, skip, append, mtdofs,
          left, pc, fault>>

Dev == 1 .. MaxDev
Block == 0 .. Size - 1

\* Contents of a block. Garbage: written without having been erased, or from
\* behind the end of the buffer.
Old == <<"old", 0>>
Erased == <<"erased", 0>>
Garbage == <<"garbage", 0>>
Mark == <<"mark", 0>>                   \* JFFS2_EOF
Img(i) == <<"img", i>>
Conf(i) == <<"conf", i>>
Content == {Old, Erased, Garbage, Mark}
           \union {Img(i) : i \in 1 .. MaxData} \union {Conf(i) : i \in 1 .. MaxConf}

\* Images as the build makes them: data, then end markers up to the block
\* sizes it is meant for.
Image(n, m) == [i \in 1 .. n + m |-> IF i <= n THEN Img(i) ELSE Mark]

Few(d, n) == {s \in SUBSET ((1 .. d) \X Block) : Cardinality(s) <= n}

\* join: -j, with conf = 0 where the file is missing. noErase: -n, after -e.
\* start: -p. worn: blocks that do not erase.
CommandGiven ==
    \E d \in Dev, n \in 0 .. MaxData, m \in 0 .. MaxMark, k \in 0 .. MaxConf,
       j \in BOOLEAN, p \in 0 .. 1, q \in BOOLEAN, t \in BOOLEAN :
        \E f \in Few(d, MaxWorn), b \in IF t THEN Few(d, MaxBad) ELSE {{}} :
            /\ k > 0 => j
            /\ cmd = [data |-> n, marks |-> m, join |-> j, conf |-> k, devs |-> d,
                      start |-> p, noErase |-> q, nand |-> t, bad |-> b, worn |-> f]

IsBad(d, b) == <<d, b>> \in cmd.bad
CanErase(d, b) == b < Size /\ ~IsBad(d, b) /\ <<d, b>> \notin cmd.worn

Init ==
    /\ CommandGiven
    /\ flash = [d \in Dev |-> [b \in Block |->
                  IF cmd.noErase /\ CanErase(d, b) THEN Erased ELSE Old]]
    /\ dev = 1 /\ pos = cmd.start
    /\ w = 0 /\ e = 0 /\ skipBad = 0
    /\ rd = 0 /\ buf = <<>> /\ off = 0 /\ skip = 0
    /\ append = cmd.join
    /\ mtdofs = 0 /\ left = 0
    /\ pc = "loop" /\ fault = "none"

TypeOK ==
    /\ flash \in [Dev -> [Block -> Content]]
    /\ dev \in 1 .. cmd.devs
    /\ pos \in 0 .. 2 * Size + 1
    /\ w \in Nat /\ e \in Nat /\ skipBad \in Nat
    /\ rd \in 0 .. cmd.data + cmd.marks
    /\ buf = <<>> \/ buf \in {<<c>> : c \in Content}
    /\ off \in Nat /\ skip \in Nat /\ append \in BOOLEAN
    /\ mtdofs \in Nat /\ left \in 0 .. MaxConf + 1
    /\ pc \in {"loop", "append", "done", "failed"}
    /\ fault \in {"none", "read", "write"}

----------------------------------------------------------------------------
(* The flash.                                                               *)

EraseAt(f, b) == IF CanErase(dev, b) THEN [f EXCEPT ![dev][b] = Erased] ELSE f
WriteAt(f, b, c) ==
    IF b >= Size THEN f
    ELSE [f EXCEPT ![dev][b] = IF f[dev][b] = Erased THEN c ELSE Garbage]

----------------------------------------------------------------------------
(* The loop of mtd_write.                                                   *)

Stop(how) == /\ pc' = how
             /\ UNCHANGED <<flash, imageVars, placeVars, appendVars>>

ReadEndDropsLast ==                     \* mutant: a partial block is not padded
    /\ pc = "loop" /\ buf = <<>>
    /\ rd + 1 >= cmd.data + cmd.marks
    /\ Stop("done")
    /\ UNCHANGED setupVars

\* The end of the image. A failing read ends it as well, and the command
\* returns 0.
ReadEnd ==
    /\ pc = "loop" /\ buf = <<>>
    /\ \/ rd = cmd.data + cmd.marks /\ UNCHANGED fault
       \/ fault' = "read"
    /\ Stop("done")
    /\ UNCHANGED cmd

\* The next block, padded. It is dropped while jffs2 data took its place.
ReadBlock ==
    /\ pc = "loop" /\ buf = <<>> /\ rd < cmd.data + cmd.marks
    /\ rd' = rd + 1
    /\ IF skip > 0
         THEN skip' = skip - 1 /\ UNCHANGED buf
         ELSE buf' = <<Image(cmd.data, cmd.marks)[rd + 1]>> /\ UNCHANGED skip
    /\ UNCHANGED <<setupVars, flash, placeVars, append, appendVars, pc>>

\* The end marker: mtd_replace_jffs2 at e, not at the file position.
AppendBegin ==
    /\ pc = "loop" /\ append /\ buf = <<Mark>>
    /\ pc' = "append"
    /\ mtdofs' = e
    /\ left' = cmd.conf + 1
    /\ UNCHANGED <<setupVars, flash, imageVars, placeVars>>

\* A block that is written goes on to here.
Plain == pc = "loop" /\ buf # <<>> /\ ~(append /\ buf = <<Mark>>)
NeedEraseAhead == ~cmd.noErase /\ w + 1 + skipBad >= e  \* mutant: >= for >
NeedErase == ~cmd.noErase /\ w + 1 + skipBad > e

\* MEMGETBADBLOCK behind the end of the device fails.
BadCheckFails ==
    /\ Plain /\ NeedErase
    /\ cmd.nand /\ e >= Size
    /\ Stop("failed")
    /\ UNCHANGED setupVars

SkipBadBlockInPlace ==                  \* mutant: the file pointer stays
    /\ Plain /\ NeedErase
    /\ e < Size /\ IsBad(dev, e)
    /\ skipBad' = skipBad + 1
    /\ e' = e + 1
    /\ UNCHANGED <<setupVars, flash, imageVars, dev, pos, w, off, appendVars, pc>>

SkipBadBlockForEver ==                  \* mutant: e stays
    /\ Plain /\ NeedErase
    /\ e < Size /\ IsBad(dev, e)
    /\ UNCHANGED vars

\* The block at e, without part_offset, is asked for.
SkipBadBlock ==
    /\ Plain /\ NeedErase
    /\ e < Size /\ IsBad(dev, e)
    /\ skipBad' = skipBad + 1
    /\ e' = e + 1
    /\ pos' = pos + 1
    /\ UNCHANGED <<setupVars, flash, imageVars, dev, w, off, appendVars, pc>>

ErasesNext == Plain /\ NeedErase /\ (cmd.nand => e < Size) /\ ~IsBad(dev, e)

EraseBlock ==
    /\ ErasesNext /\ CanErase(dev, e + cmd.start)
    /\ flash' = EraseAt(flash, e + cmd.start)
    /\ e' = e + 1
    /\ UNCHANGED <<setupVars, imageVars, dev, pos, w, skipBad, off, appendVars, pc>>

\* What write is given: behind offset the buffer ends too early.
Written == IF off = 0 THEN buf[1] ELSE Garbage

ResumeAlways ==                         \* mutant: next is not looked at
    /\ ErasesNext /\ ~CanErase(dev, e + cmd.start)
    /\ dev' = dev + 1 /\ pos' = cmd.start
    /\ w' = 0 /\ e' = 0
    /\ UNCHANGED <<setupVars, flash, imageVars, off, skipBad, appendVars, pc>>

\* It does not erase, as behind the end of a NOR device: on to the next device.
\* What seems erased and not written yet is filled up first.
Resume ==
    /\ ErasesNext /\ ~CanErase(dev, e + cmd.start) /\ dev < cmd.devs
    /\ IF w < e
         THEN /\ flash' = [flash EXCEPT ![dev] = [b \in Block |->
                   IF b = pos THEN WriteAt(flash, b, Written)[dev][b]
                   ELSE IF b \in pos + 1 .. pos + (e - w) - 1 THEN Garbage
                   ELSE flash[dev][b]]]
              /\ off' = e - w
         ELSE UNCHANGED <<flash, off>>
    /\ dev' = dev + 1 /\ pos' = cmd.start
    /\ w' = 0 /\ e' = 0
    /\ UNCHANGED <<setupVars, imageVars, skipBad, appendVars, pc>>

EraseFails ==
    /\ ErasesNext /\ ~CanErase(dev, e + cmd.start) /\ dev = cmd.devs
    /\ Stop("failed")
    /\ UNCHANGED setupVars

WriteBlock ==
    /\ Plain /\ ~NeedErase
    /\ pos < Size
    /\ flash' = WriteAt(flash, pos, Written)
    /\ pos' = pos + 1 /\ w' = w + 1
    /\ buf' = <<>> /\ off' = 0
    /\ UNCHANGED <<setupVars, dev, e, skipBad, rd, skip, append, appendVars, pc>>

\* The device is full, or the write fails.
WriteFails ==
    /\ Plain /\ ~NeedErase
    /\ IF pos < Size THEN fault' = "write" ELSE UNCHANGED fault
    /\ Stop("failed")
    /\ UNCHANGED cmd

----------------------------------------------------------------------------
(* mtd_replace_jffs2: the data of the file and an end marker, block by      *)
(* block. Failures to erase and to write are not noticed.                   *)

AppendCheckFails ==
    /\ pc = "append" /\ left > 0 /\ cmd.nand /\ mtdofs >= Size
    /\ Stop("failed")
    /\ UNCHANGED setupVars

AppendSkipBad ==
    /\ pc = "append" /\ left > 0 /\ mtdofs < Size /\ IsBad(dev, mtdofs)
    /\ mtdofs' = mtdofs + 1
    /\ pos' = pos + 1
    /\ UNCHANGED <<setupVars, flash, imageVars, dev, w, e, skipBad, off, left, pc>>

AppendBlock ==
    /\ pc = "append" /\ left > 0
    /\ cmd.nand => mtdofs < Size
    /\ ~IsBad(dev, mtdofs)
    /\ LET c == IF left = 1 THEN Mark ELSE Conf(cmd.conf + 2 - left)
       IN  flash' = WriteAt(EraseAt(flash, mtdofs), pos, c)
    /\ mtdofs' = mtdofs + 1
    /\ pos' = IF pos < Size THEN pos + 1 ELSE pos
    /\ left' = left - 1
    /\ UNCHANGED <<setupVars, imageVars, dev, w, e, skipBad, off, pc>>

\* skip counts the bad blocks, too.
AppendEnd ==
    /\ pc = "append" /\ left = 0
    /\ w' = w + (mtdofs - e) /\ e' = mtdofs
    /\ skip' = mtdofs - e - 1
    /\ buf' = <<>> /\ off' = 0 /\ append' = FALSE
    /\ pc' = "loop"
    /\ UNCHANGED <<setupVars, flash, dev, pos, skipBad, rd, appendVars>>

Next ==
    \/ ReadEnd \/ ReadBlock \/ AppendBegin \/ BadCheckFails \/ SkipBadBlock
    \/ EraseBlock \/ Resume \/ EraseFails \/ WriteBlock \/ WriteFails
    \/ AppendCheckFails \/ AppendSkipBad \/ AppendBlock \/ AppendEnd

Spec == Init /\ [][Next]_vars

----------------------------------------------------------------------------
(* Properties.                                                              *)

\* Where an image can go on a device: from part_offset to the first block that
\* does not erase, without the bad ones.
Usable(d, b) ==
    /\ d <= cmd.devs /\ cmd.start <= b
    /\ \A c \in cmd.start .. b : IsBad(d, c) \/ CanErase(d, c)
    /\ ~IsBad(d, b)
Places == {l \in Dev \X Block : Usable(l[1], l[2])}
Before(d, b) == {l \in Places : l[1] < d \/ (l[1] = d /\ l[2] < b)}

\* The image, its first end marker replaced by the data of -j and a marker.
Result ==
    IF cmd.join /\ cmd.marks > 0
      THEN Image(cmd.data, 0) \o [i \in 1 .. cmd.conf |-> Conf(i)] \o <<Mark>>
      ELSE Image(cmd.data, cmd.marks)
Item(i) == IF i <= Len(Result) THEN Result[i] ELSE Mark

\* Commands the code is written for. part_offset is not heeded where bad blocks
\* and jffs2 data are placed; jffs2 data does not go on on the next device and
\* needs e, which -n leaves at 0; on NAND the end of a device ends the command;
\* and bad blocks are not forgotten on the next device.
Supported ==
    /\ cmd.start > 0 => cmd.bad = {} /\ ~cmd.join
    /\ cmd.join => cmd.devs = 1 /\ ~cmd.noErase /\ cmd.worn = {}
    /\ cmd.nand => cmd.devs = 1
    /\ cmd.noErase => cmd.devs = 1 /\ cmd.bad = {} /\ cmd.worn = {}

\* At every moment, also when the power fails: what was written lies in order
\* on the good blocks, and holds nothing else.
LaidInOrder ==
    Supported => \A l \in Places :
        l[1] < dev \/ (l[1] = dev /\ l[2] < pos)
            => flash[l[1]][l[2]] = Item(Cardinality(Before(l[1], l[2])) + 1)

\* A command that ends with 0 has written everything, unless a read failed (or
\* the data of -j did not fit, which is not noticed); one that ends with 1 had
\* no room for the image, or a write failed.
Fits == Cardinality(Places) >= Len(Result)
ExitTells ==
    Supported =>
        /\ pc = "done" /\ fault = "none" /\ (cmd.join => Fits)
             => Cardinality(Before(dev, pos)) >= Len(Result)
        /\ pc = "failed" /\ fault = "none"
             => Cardinality(Places) < Len(Result) \/ Cardinality(Places) < cmd.data + cmd.marks

\* Nothing behind the image is lost: at most the block that is next is erased
\* ahead, and none once the command is done; nor anything before part_offset.
RestUntouched ==
    Supported /\ ~cmd.noErase => \A d \in Dev, b \in Block :
        \/ b < cmd.start
        \/ d > dev
        \/ d = dev /\ (b > pos \/ (b = pos /\ pc = "done" /\ fault = "none"))
            => flash[d][b] = Old

\* mtd.c: "need to erase the next block before writing data to it".
ErasedBeforeWritten ==
    cmd.start = 0 /\ ~cmd.join /\ ~cmd.noErase =>
        \A d \in Dev, b \in Block : flash[d][b] # Garbage
=============================================================================
