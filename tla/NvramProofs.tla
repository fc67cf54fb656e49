---------------------------- MODULE NvramProofs ----------------------------
(* Theorems about the nvram command, for any number of processes, any       *)
(* variables, sizes and images, and however many commands run.              *)
EXTENDS NvramTables

----------------------------------------------------------------------------
(* The invariant                                                            *)

\* Flash, files and mappings hold images.
Images ==
    /\ mtd \in Image
    /\ inode \in [File -> Image]
    /\ buf \in [Proc -> Image]

\* Files and places exist.
Places ==
    /\ stg \in File \union {None}
    /\ pc \in [Proc -> Active \union {"idle"}]
    /\ cmd \in [Proc -> Command \union {NoCommand}]
    /\ ino \in [Proc -> File \union {None}]
    /\ wrote \in [Proc -> BOOLEAN] /\ stale \in [Proc -> BOOLEAN]
    /\ alone \in [Proc -> BOOLEAN] /\ mixed \in BOOLEAN

\* A parser is in the image, unless the image changed under it; and what it
\* makes of it, whether it changed or not, is a table.
Positions ==
    /\ pos \in [Proc -> Nat \ {0}]
    /\ \A p \in Proc : pc[p] = "marked" /\ ~stale[p] /\ Shares(p) =>
                         pos[p] <= Len(inode[ino[p]].data)
Tables ==
    /\ table \in [Proc -> [1 .. Buckets -> Seq(Tuple)]]
    /\ \A p \in Proc : Proper(table[p])

\* Which command is where, and which of them has mapped a file.
Mapped == {"parse", "marked", "apply"} \union Rewriting
Phases ==
    \A p \in Proc :
        /\ pc[p] = "idle" => cmd[p] = NoCommand /\ ino[p] = None /\ ~wrote[p]
        /\ pc[p] \in {"copy", "create", "fill", "tuples"} => cmd[p].write
        /\ pc[p] = "openmtd" => ~cmd[p].write
        /\ pc[p] \in {"flash", "unlink"} => cmd[p].commit
        /\ pc[p] = "fill" => ino[p] # None
        /\ pc[p] \in Mapped /\ cmd[p].write => ino[p] # None
        /\ ~cmd[p].write => ino[p] = None /\ ~wrote[p]

\* A commit begins with an image.
SavesImage == \A p \in Proc : pc[p] = "flash" => buf[p].magic

\* What the history variables say.
Apart ==
    /\ \A p \in Proc : alone[p] /\ pc[p] # "idle" => Modifiers \subseteq {p}
    /\ ~mixed => \A p, q \in Modifiers : p = q
    /\ \A p \in Proc : alone[p] /\ pc[p] = "openmtd" => stg = None

\* While writing commands take turns, the one at work has the staging file.
Stages ==
    ~mixed => \A p \in Proc :
        /\ cmd[p].write /\ pc[p] \notin {"idle", "copy", "create"} => stg # None
        /\ cmd[p].write /\ pc[p] \in Mapped \union {"fill"} => ino[p] = stg
        /\ ~stale[p]

\* And an image of which power loss has left only a part comes from flash.
Refills(p) == pc[p] \in {"fill", "tuples"} /\ ino[p] = stg
StagedEnded ==
    ~mixed /\ stg # None /\ mtd.ended => inode[stg].ended \/ \E p \in Proc : Refills(p)
CopiesEnded ==
    ~mixed => \A p \in Proc :
        /\ pc[p] \in {"create", "fill"} /\ mtd.ended => buf[p].ended
        /\ pc[p] \in Parsing /\ ~cmd[p].write /\ alone[p] /\ mtd.ended => buf[p].ended
        /\ pc[p] = "flash" /\ stg # None /\ buf[p].ended => inode[stg].ended

NvramInv ==
    /\ Images /\ Places /\ Positions /\ Tables /\ Phases /\ SavesImage
    /\ Apart /\ Stages /\ StagedEnded /\ CopiesEnded

\* While writing commands take turns, flash and staging file hold each name
\* once and agree with their headers.
Sound(img) == Distinct(img.data) /\ Agrees(img)
Sounds == ~mixed => Sound(mtd) /\ (stg # None => Sound(inode[stg]))

\* And a command at work has what its steps so far have made: a copy of the
\* flash; the table of the tuples it has parsed, and then the map of its
\* image; the new header and the first of the new tuples; what it commits.
Copies(p) ==
    /\ pc[p] \in {"copy", "create"} => stg = None
    /\ pc[p] \in {"create", "fill"} => buf[p] = mtd
Starts(p) ==
    /\ pc[p] \notin Parsing \union {"tuples"} => pos[p] = 1
    /\ pc[p] \in {"idle", "copy", "create", "fill", "open", "openmtd"} =>
          table[p] = EmptyTable
Parses(p) ==
    /\ pc[p] \in Parsing \union {"apply"} => Mapping(p).magic
    /\ pc[p] \in Parsing => /\ pos[p] - 1 <= Len(Mapping(p).data)
                            /\ Read(table[p], Mapping(p).data, pos[p] - 1)
    /\ pc[p] = "marked" => pos[p] <= Len(Mapping(p).data)
    /\ pc[p] = "apply" => IsMap(table[p], MapOf(Mapping(p)))
Sees(p) ==
    pc[p] \in Parsing \union {"apply"} /\ ~cmd[p].write /\ alone[p] => buf[p] = Visible
Rewrites(p) ==
    pc[p] = "tuples" =>
        /\ inode[stg].magic /\ inode[stg].hdr = Header(table[p])
        /\ pos[p] - 1 <= Len(Fitting(table[p]))
        /\ inode[stg].data = SubSeq(Fitting(table[p]), 1, pos[p] - 1)
Commits(p) ==
    /\ pc[p] \in {"flash", "unlink"} => stg # None
    /\ pc[p] = "flash" => buf[p] = inode[stg]
    /\ pc[p] = "unlink" => mtd = inode[stg]
Local(p) == Copies(p) /\ Starts(p) /\ Parses(p) /\ Sees(p) /\ Rewrites(p) /\ Commits(p)
Locals == ~mixed => \A p \in Proc : Local(p)

TurnsInv == NvramInv /\ Sounds /\ Locals

----------------------------------------------------------------------------
(* Images and files                                                         *)

(* Changing fields of an image leaves an image, and the other fields.       *)
LEMMA FieldTypes ==
    ASSUME NEW img \in Image
    PROVE  /\ img.magic \in BOOLEAN /\ img.len \in Nat /\ img.hdr \in [Sdram -> Value]
           /\ img.data \in Seq(Tuple) /\ img.ended \in BOOLEAN
           /\ img = [magic |-> img.magic, len |-> img.len, hdr |-> img.hdr,
                     data |-> img.data, ended |-> img.ended]
BY DEF Image

LEMMA EditImage ==
    ASSUME NEW img \in Image, NEW x \in Seq(Tuple), NEW new, new = [img EXCEPT !.data = x]
    PROVE  /\ new \in Image /\ new.data = x
           /\ new.magic = img.magic /\ new.len = img.len /\ new.hdr = img.hdr
           /\ new.ended = img.ended
BY DEF Image

LEMMA NoImageIsImage == NoImage \in Image /\ ~NoImage.magic /\ NoImage.data = <<>>
BY SdramAssumption DEF Image, NoImage

(* There are more inodes than processes, so there is one to create.         *)
LEMMA FreeFile ==
    ASSUME Places
    PROVE  Min({f \in File : \A q \in Proc : ino[q] # f}) \in
             {f \in File : \A q \in Proc : ino[q] # f}
<1> DEFINE free == {f \in File : \A q \in Proc : ino[q] # f}
<1>1. IsFiniteSet(Proc) /\ Cardinality(Proc) \in Nat
  BY ProcAssumption, FS_CardinalityType
<1>2. IsFiniteSet(File) /\ Cardinality(File) = Cardinality(Proc) + 1
  BY <1>1, FS_Interval DEF File
<1>3. free # {}
  <2> SUFFICES ASSUME free = {} PROVE FALSE
    OBVIOUS
  <2> DEFINE g == [f \in File |-> CHOOSE q \in Proc : ino[q] = f]
  <2>1. \A f \in File : g[f] \in Proc /\ ino[g[f]] = f
    OBVIOUS
  <2>2. g \in [File -> Proc]
    BY <2>1
  <2>3. Cardinality(Proc) < Cardinality(File)
    BY <1>1, <1>2
  <2> HIDE DEF g
  <2>4. \E x, y \in File : x # y /\ g[x] = g[y]
    BY <1>1, <1>2, <2>2, <2>3, FS_PigeonHole
  <2> QED BY <2>1, <2>4
<1>4. free \subseteq Nat
  BY <1>1 DEF File
<1>5. \E x \in free : \A y \in free : x <= y
  <2> HIDE DEF free
  <2> QED BY <1>3, <1>4, Least
<1> QED BY <1>5 DEF Min

(* What another process finds in a file.                                    *)
LEMMA SnapshotIsImage ==
    ASSUME Images, Positions, NEW i \in File, NEW p
    PROVE  /\ Snapshot(i, p) \in Image
           /\ Snapshot(i, p).magic = inode[i].magic
           /\ Marks(i, p) = {} => Snapshot(i, p) = inode[i]
<1>1. inode[i] \in Image
  BY DEF Images
<1>2. CASE Marks(i, p) = {}
  BY <1>1, <1>2 DEF Snapshot
<1>3. CASE Marks(i, p) # {}
  <2> DEFINE M == Marks(i, p)
  <2>1. \A k \in M : k \in Nat \ {0} /\ k <= Len(inode[i].data)
    BY DEF Marks, Positions
  <2>2. \E x \in M : \A y \in M : x <= y
    <3>1. M \subseteq Nat
      BY <2>1
    <3> HIDE DEF M
    <3> QED BY <1>3, <3>1, Least DEF M
  <2>3. Min(M) \in M
    BY <2>2 DEF Min
  <2> HIDE DEF M
  <2>4. PICK img \in Image : img = inode[i]
    BY <1>1
  <2>5. img.data \in Seq(Tuple)
    BY FieldTypes
  <2>6. Min(M) - 1 \in 0 .. Len(img.data)
    BY <2>1, <2>3, <2>4, <2>5
  <2>7. PICK d : d = SubSeq(img.data, 1, Min(M) - 1)
    OBVIOUS
  <2>8. d \in Seq(Tuple)
    BY <2>5, <2>6, <2>7, Prefix
  <2>9. PICK new : new = [img EXCEPT !.data = d, !.ended = TRUE]
    OBVIOUS
  <2>10. Snapshot(i, p) = new
    BY <1>3, <2>4, <2>7, <2>9, Zenon DEF Snapshot, M
  <2>11. new \in Image /\ new.magic = img.magic
    BY <2>8, <2>9 DEF Image
  <2> QED BY <1>3, <2>4, <2>10, <2>11, Zenon
<1> QED BY <1>2, <1>3

(* The arguments of a command that runs.                                    *)
LEMMA CommandType ==
    ASSUME Places, NEW p \in Proc PROVE cmd[p].ops \in Seq(Op)
<1>1. cmd[p] \in Command \/ cmd[p] = NoCommand
  BY DEF Places
<1>2. CASE cmd[p] \in Command
  BY <1>2, CommandAssumption
<1>3. CASE cmd[p] = NoCommand
  <2>1. <<>> \in Seq(Op)
    OBVIOUS
  <2> QED BY <1>3, <2>1 DEF NoCommand
<1> QED BY <1>1, <1>2, <1>3

----------------------------------------------------------------------------
(* Types                                                                    *)

LEMMA PlacesInit == Init => Places
<1> SUFFICES ASSUME Init PROVE Places
  OBVIOUS
<1>1. stg \in File \union {None}
  BY DEF Init
<1>2. /\ pc \in [Proc -> Active \union {"idle"}]
      /\ cmd \in [Proc -> Command \union {NoCommand}]
      /\ ino \in [Proc -> File \union {None}]
  BY DEF Init
<1>3. /\ wrote \in [Proc -> BOOLEAN] /\ stale \in [Proc -> BOOLEAN]
      /\ alone \in [Proc -> BOOLEAN] /\ mixed \in BOOLEAN
  BY DEF Init
<1> QED BY <1>1, <1>2, <1>3 DEF Places

\* How a command ends, and how it goes on when it has parsed its image.
Leaves(p) == Exit(p) \/ Exits(p, Disturbed(ino[p], p))
GoesOn(p) == Parsed(p, stale) \/ Parsed(p, Disturbed(ino[p], p))

LEMMA LostGoes ==
    ASSUME NEW p, ParseLost(p)
    PROVE  \/ GoesOn(p)
           \/ Leaves(p) /\ UNCHANGED <<mtd, stg, mixed>>
BY DEF ParseLost, Stop, GoesOn, Leaves, Exit

LEMMA PlacesExit ==
    ASSUME Places, NEW p \in Proc, Leaves(p)
    PROVE  /\ pc' \in [Proc -> Active \union {"idle"}]
           /\ cmd' \in [Proc -> Command \union {NoCommand}]
           /\ ino' \in [Proc -> File \union {None}]
           /\ wrote' \in [Proc -> BOOLEAN] /\ stale' \in [Proc -> BOOLEAN]
           /\ alone' \in [Proc -> BOOLEAN]
BY DEF Places, Leaves, Exit, Exits, Disturbed

LEMMA PlacesNext == ASSUME Places, [Next]_vars PROVE Places'
<1> USE DEF GoTo, fileVars, dataVars
<1>1. ASSUME NEW p \in Proc, NEW c \in Command, Start(p, c) PROVE Places'
  BY <1>1 DEF Places, Start, Active
<1>2. ASSUME NEW p \in Proc, Copy(p) PROVE Places'
  BY <1>2 DEF Places, Copy, Active
<1>3. ASSUME NEW p \in Proc, Create(p) PROVE Places'
  BY <1>3, FreeFile DEF Places, Create, Active
<1>4. ASSUME NEW p \in Proc, Fill(p) PROVE Places'
  BY <1>4 DEF Places, Fill, Active, Disturb, Disturbed
<1>5. ASSUME NEW p \in Proc, Open(p) PROVE Places'
  BY <1>5 DEF Places, Open, Active, Parsing
<1>6. ASSUME NEW p \in Proc, OpenMtd(p) PROVE Places'
  BY <1>6 DEF Places, OpenMtd, Active, Parsing
<1>7. ASSUME NEW p \in Proc, OpenFails(p) PROVE Places'
  BY <1>7, PlacesExit DEF Places, Leaves, OpenFails
<1>8. ASSUME NEW p \in Proc, ParseMark(p) PROVE Places'
  BY <1>8 DEF Places, ParseMark, Active, Parsing
<1>9. ASSUME NEW p \in Proc, ParseTake(p) PROVE Places'
  BY <1>9 DEF Places, ParseTake, Active, Parsing
<1>10. ASSUME NEW p \in Proc, GoesOn(p) PROVE Places'
  BY <1>10 DEF Places, GoesOn, Parsed, Disturbed, Active
<1>11. ASSUME NEW p \in Proc, ParseEnd(p) PROVE Places'
  BY <1>10, <1>11 DEF ParseEnd, GoesOn
<1>12. ASSUME NEW p \in Proc, ParseLost(p) PROVE Places'
  <2>1. CASE Leaves(p) /\ UNCHANGED <<mtd, stg, mixed>>
    BY <2>1, PlacesExit DEF Places
  <2> QED BY <1>10, <1>12, <2>1, LostGoes
<1>13. ASSUME NEW p \in Proc, Answer(p) PROVE Places'
  BY <1>13 DEF Places, Answer, Active
<1>14. ASSUME NEW p \in Proc, Apply(p) PROVE Places'
  BY <1>14 DEF Places, Apply, Active, Rewriting, Disturb, Disturbed
<1>15. ASSUME NEW p \in Proc, WriteTuple(p) PROVE Places'
  BY <1>15 DEF Places, WriteTuple, Disturb, Disturbed
<1>16. ASSUME NEW p \in Proc, Finish(p) PROVE Places'
  BY <1>16 DEF Places, Finish, Active, Parsing, Disturb, Disturbed
<1>17. ASSUME NEW p \in Proc, Close(p) PROVE Places'
  BY <1>17, PlacesExit DEF Places, Leaves, Close
<1>18. ASSUME NEW p \in Proc, Save(p) PROVE Places'
  BY <1>18 DEF Places, Save, Active
<1>19. ASSUME NEW p \in Proc, SaveFails(p) PROVE Places'
  BY <1>19, PlacesExit DEF Places, Leaves, SaveFails
<1>20. ASSUME NEW p \in Proc, Flash(p) PROVE Places'
  BY <1>20 DEF Places, Flash, Active
<1>21. ASSUME NEW p \in Proc, Unlink(p) PROVE Places'
  BY <1>21, PlacesExit DEF Places, Leaves, Unlink
<1>22. CASE PowerLoss
  BY <1>22 DEF Places, PowerLoss
<1>23. CASE UNCHANGED vars
  BY <1>23 DEF Places, vars
<1> QED
  BY <1>1, <1>2, <1>3, <1>4, <1>5, <1>6, <1>7, <1>8, <1>9, <1>11, <1>12, <1>13, <1>14,
     <1>15, <1>16, <1>17, <1>18, <1>19, <1>20, <1>21, <1>22, <1>23 DEF Next, Step


----------------------------------------------------------------------------
(* Files                                                                    *)

(* A file that a process writes to, and those that it leaves alone.         *)
Writes(i) == inode' \in [File -> Image] /\ \A j \in File \ {i} : inode'[j] = inode[j]

LEMMA WriteFile ==
    ASSUME Images, NEW i \in File, NEW img \in Image, inode' = [inode EXCEPT ![i] = img]
    PROVE  Writes(i) /\ inode'[i] = img
BY DEF Images, Writes

LEMMA WriteBuffer ==
    ASSUME Images, NEW p \in Proc, NEW img \in Image, buf' = [buf EXCEPT ![p] = img]
    PROVE  /\ buf' \in [Proc -> Image]
           /\ buf'[p] = img /\ \A q \in Proc \ {p} : buf'[q] = buf[q]
BY DEF Images

LEMMA CreateWrites ==
    ASSUME Images, Places, NEW p \in Proc, Create(p), stg = None
    PROVE  /\ stg' \in File /\ Writes(stg') /\ inode'[stg'] = NoImage
           /\ \A q \in Proc : ino[q] # stg'
<1>1. PICK i : i = Min({f \in File : \A q \in Proc : ino[q] # f})
  OBVIOUS
<1>2. i \in File /\ \A q \in Proc : ino[q] # i
  BY <1>1, FreeFile
<1>3. stg' = i /\ inode' = [inode EXCEPT ![i] = NoImage]
  BY <1>1, Zenon DEF Create
<1> QED BY <1>2, <1>3, WriteFile, NoImageIsImage

LEMMA FillWrites ==
    ASSUME Images, Places, NEW p \in Proc, Fill(p), ino[p] # None
    PROVE  Writes(ino[p]) /\ inode'[ino[p]] = buf[p]
<1>1. ino[p] \in File /\ buf[p] \in Image
  BY DEF Places, Images
<1> QED BY <1>1, WriteFile DEF Fill

(* The arguments leave a table, whatever the parser made of the image.      *)
LEMMA AppliedIsTable ==
    ASSUME Places, Tables, NEW p \in Proc
    PROVE  /\ Edit(table[p], cmd[p].ops) \in [1 .. Buckets -> Seq(Tuple)]
           /\ Proper(Edit(table[p], cmd[p].ops))
<1>1. Proper(table[p])
  BY DEF Tables
<1>2. Proper(Edit(table[p], cmd[p].ops))
  BY <1>1, CommandType, EditIs
<1> QED BY <1>2 DEF Proper

LEMMA ApplyWrites ==
    ASSUME Images, Places, Tables, NEW p \in Proc, Apply(p), ino[p] # None
    PROVE  /\ Writes(ino[p])
           /\ inode'[ino[p]].magic /\ inode'[ino[p]].data = <<>>
           /\ inode'[ino[p]].hdr = Header(table'[p])
           /\ table'[p] = Edit(table[p], cmd[p].ops)
<1>1. PICK i \in File : i = ino[p]
  BY DEF Places
<1>2. PICK img : img = inode[i]
  OBVIOUS
<1>3. PICK tb : tb = Edit(table[p], cmd[p].ops)
  OBVIOUS
<1>4. PICK h : h = Header(tb)
  OBVIOUS
<1>5. PICK d : d = <<>>
  OBVIOUS
<1>6. PICK new : new = [img EXCEPT !.magic = TRUE, !.hdr = h, !.data = d, !.ended = FALSE]
  OBVIOUS
<1>7. inode' = [inode EXCEPT ![i] = new] /\ table' = [table EXCEPT ![p] = tb]
  BY <1>1, <1>2, <1>3, <1>4, <1>5, <1>6, Zenon DEF Apply
<1>8. img \in Image
  BY <1>1, <1>2 DEF Images
<1>9. h \in [Sdram -> Value] /\ d \in Seq(Tuple)
  BY <1>3, <1>4, <1>5, AppliedIsTable, HeaderIs
<1>10. new \in Image /\ new.magic /\ new.hdr = h /\ new.data = d
  BY <1>6, <1>8, <1>9 DEF Image
<1>11. Writes(i) /\ inode'[i] = new
  BY <1>7, <1>10, WriteFile
<1>12. table'[p] = tb
  BY <1>7 DEF Tables
<1> QED BY <1>1, <1>3, <1>4, <1>5, <1>10, <1>11, <1>12, Zenon

LEMMA DataWritten ==
    ASSUME Images, NEW i \in File, NEW d \in Seq(Tuple), inode' = [inode EXCEPT ![i].data = d]
    PROVE  /\ Writes(i) /\ inode'[i].data = d
           /\ inode'[i].ended = inode[i].ended /\ inode'[i].hdr = inode[i].hdr
           /\ inode'[i].magic = inode[i].magic /\ inode'[i].len = inode[i].len
<1>1. PICK img : img = inode[i]
  OBVIOUS
<1>2. PICK new : new = [img EXCEPT !.data = d]
  OBVIOUS
<1>3. inode' = [inode EXCEPT ![i] = new]
  BY <1>1, <1>2, Zenon
<1>4. img \in Image
  BY <1>1 DEF Images
<1>5. /\ new \in Image /\ new.ended = img.ended /\ new.hdr = img.hdr /\ new.data = d
      /\ new.magic = img.magic /\ new.len = img.len
  BY <1>2, <1>4, EditImage
<1> QED BY <1>1, <1>3, <1>5, WriteFile, Zenon

(* One sprintf of a tuple.                                                  *)
LEMMA PutIs ==
    ASSUME NEW ts \in Seq(Tuple), NEW k \in Nat \ {0}, NEW t \in Tuple
    PROVE  /\ Put(ts, k, t) \in Seq(Tuple)
           /\ k <= Len(ts) => Len(Put(ts, k, t)) = Len(ts)
           /\ k = Len(ts) + 1 =>
                /\ Len(Put(ts, k, t)) = k /\ Put(ts, k, t)[k] = t
                /\ \A j \in 1 .. Len(ts) : Put(ts, k, t)[j] = ts[j]
           /\ Len(Put(ts, k, t)) >= Len(ts)
<1>1. CASE k > Len(ts) + 1
  BY <1>1 DEF Put
<1>2. CASE k <= Len(ts) + 1
  <2> DEFINE m == Max({k, Len(ts)})
             new == [j \in 1 .. m |-> IF j = k THEN t ELSE ts[j]]
  <2>1. m = IF k > Len(ts) THEN k ELSE Len(ts)
    BY DEF Max
  <2>2. Put(ts, k, t) = new
    BY <1>2 DEF Put
  <2> HIDE DEF m
  <2>3. new \in Seq(Tuple) /\ Len(new) = m
    <3>1. m \in Nat /\ \A j \in 1 .. m : (IF j = k THEN t ELSE ts[j]) \in Tuple
      BY <1>2, <2>1
    <3> QED BY <3>1
  <2> QED BY <1>2, <2>1, <2>2, <2>3
<1> QED BY <1>1, <1>2

LEMMA TupleWrites ==
    ASSUME Images, Places, Phases, Positions, Tables, NEW p \in Proc, WriteTuple(p)
    PROVE  /\ Writes(ino[p]) /\ Len(inode'[ino[p]].data) >= Len(inode[ino[p]].data)
           /\ inode'[ino[p]].data =
                Put(inode[ino[p]].data, pos[p], Fitting(table[p])[pos[p]])
           /\ inode'[ino[p]].ended = inode[ino[p]].ended
           /\ inode'[ino[p]].hdr = inode[ino[p]].hdr
           /\ inode'[ino[p]].magic = inode[ino[p]].magic
<1>1. PICK i \in File : i = ino[p]
  BY DEF Places, Phases, WriteTuple, Mapped, Rewriting
<1>2. PICK d : d = Put(inode[i].data, pos[p], Fitting(table[p])[pos[p]])
  OBVIOUS
<1>3. inode' = [inode EXCEPT ![i].data = d]
  BY <1>1, <1>2, Zenon DEF WriteTuple
<1>4. pos[p] \in Nat \ {0} /\ pos[p] <= Len(Fitting(table[p]))
  BY DEF Positions, WriteTuple
<1>5. Fitting(table[p]) \in Seq(Tuple)
  BY FittingIs DEF Tables
<1>6. Fitting(table[p])[pos[p]] \in Tuple
  BY <1>4, <1>5
<1>7. inode[i].data \in Seq(Tuple)
  BY FieldTypes DEF Images
<1>8. d \in Seq(Tuple) /\ Len(d) >= Len(inode[i].data)
  BY <1>2, <1>4, <1>6, <1>7, PutIs
<1> QED BY <1>1, <1>2, <1>3, <1>8, DataWritten, Zenon

LEMMA FinishWrites ==
    ASSUME Images, Places, Tables, NEW p \in Proc, Finish(p), ino[p] # None
    PROVE  /\ Writes(ino[p]) /\ inode'[ino[p]].ended
           /\ inode'[ino[p]].magic = inode[ino[p]].magic
           /\ inode'[ino[p]].hdr = inode[ino[p]].hdr
           /\ inode'[ino[p]].data = inode[ino[p]].data
<1>1. PICK i \in File : i = ino[p]
  BY DEF Places
<1>2. PICK img : img = inode[i]
  OBVIOUS
<1>3. PICK n : n = Length(Fitting(table[p]))
  OBVIOUS
<1>4. PICK new : new = [img EXCEPT !.len = n, !.ended = TRUE]
  OBVIOUS
<1>5. inode' = [inode EXCEPT ![i] = new]
  BY <1>1, <1>2, <1>3, <1>4, Zenon DEF Finish
<1>6. img \in Image
  BY <1>1, <1>2 DEF Images
<1>7. n \in Nat
  BY <1>3, FittingIs, LengthIsNat DEF Tables
<1>8. /\ new \in Image /\ new.ended /\ new.magic = img.magic /\ new.hdr = img.hdr
      /\ new.data = img.data
  BY <1>4, <1>6, <1>7 DEF Image
<1> QED BY <1>1, <1>2, <1>5, <1>8, WriteFile, Zenon

(* A parser that is lost changes no more than the tuples of its file, and   *)
(* then every other parser of the file is told.                             *)
LEMMA LostWrites ==
    ASSUME Images, Places, NEW p \in Proc, ParseLost(p)
    PROVE  /\ inode' \in [File -> Image]
           /\ \A j \in File : inode'[j].ended = inode[j].ended
           /\ inode' = inode \/ Shares(p)
           /\ \A j \in File \ {ino[p]} : inode'[j] = inode[j]
<1>1. CASE inode' = inode
  BY <1>1 DEF Images
<1>2. CASE /\ Shares(p)
           /\ \E k \in DOMAIN inode[ino[p]].data :
                inode' = [inode EXCEPT ![ino[p]].data = RemoveAt(@, k)]
  <2>1. PICK i \in File : i = ino[p]
    BY <1>2 DEF Places, Shares
  <2>2. PICK k \in DOMAIN inode[i].data :
          inode' = [inode EXCEPT ![i].data = RemoveAt(inode[i].data, k)]
    BY <1>2, <2>1, Zenon
  <2>3. PICK d : d = RemoveAt(inode[i].data, k)
    OBVIOUS
  <2>4. inode[i].data \in Seq(Tuple)
    BY FieldTypes DEF Images
  <2>5. k \in 1 .. Len(inode[i].data)
    BY <2>4
  <2>6. d \in Seq(Tuple)
    BY <2>3, <2>4, <2>5, Removed
  <2>7. Writes(i) /\ inode'[i].ended = inode[i].ended
    BY <2>2, <2>3, <2>6, DataWritten
  <2> QED BY <1>2, <2>1, <2>7, Zenon DEF Writes
<1> QED BY <1>1, <1>2 DEF ParseLost

(* Power loss leaves images, if only a part of one.                         *)
LEMMA TornIs ==
    ASSUME NEW img \in Image, NEW t \in Torn(img)
    PROVE  /\ t \in Image
           /\ \/ t = NoImage
              \/ \E k \in 0 .. Len(img.data) :
                    /\ t.magic = img.magic /\ t.hdr = img.hdr
                    /\ t.data = SubSeq(img.data, 1, k)
<1>1. CASE t = NoImage
  BY <1>1, NoImageIsImage
<1>2. CASE \E k \in 0 .. Len(img.data) :
             t = [img EXCEPT !.data = SubSeq(@, 1, k), !.ended = FALSE]
  <2>1. PICK k \in 0 .. Len(img.data) :
          t = [img EXCEPT !.data = SubSeq(img.data, 1, k), !.ended = FALSE]
    BY <1>2, Zenon
  <2>2. PICK d : d = SubSeq(img.data, 1, k)
    OBVIOUS
  <2>3. PICK e \in BOOLEAN : e = FALSE
    OBVIOUS
  <2>4. t = [img EXCEPT !.data = d, !.ended = e]
    BY <2>1, <2>2, <2>3, Zenon
  <2>5. d \in Seq(Tuple)
    BY <2>2, FieldTypes, Prefix
  <2>6. /\ t \in Image /\ t.magic = img.magic /\ t.hdr = img.hdr /\ t.data = d
    BY <2>4, <2>5 DEF Image
  <2> QED BY <2>2, <2>6
<1> QED BY <1>1, <1>2, Zenon DEF Torn

LEMMA ImagesInit == Init => Images
<1> SUFFICES ASSUME Init PROVE Images
  OBVIOUS
<1>1. mtd \in Image
  BY FactoryAssumption DEF Init
<1>2. inode \in [File -> Image] /\ buf \in [Proc -> Image]
  BY NoImageIsImage DEF Init
<1> QED BY <1>1, <1>2 DEF Images

LEMMA ImagesExit ==
    ASSUME Images, NEW p \in Proc, Leaves(p)
    PROVE  buf' \in [Proc -> Image]
BY WriteBuffer, NoImageIsImage DEF Leaves, Exit, Exits

LEMMA ImagesNext ==
    ASSUME Images, Places, Phases, Positions, Tables, [Next]_vars PROVE Images'
<1> USE DEF fileVars, dataVars
<1>1. ASSUME NEW p \in Proc, NEW c \in Command, Start(p, c) PROVE Images'
  BY <1>1 DEF Images, Start
<1>2. ASSUME NEW p \in Proc, Copy(p) PROVE Images'
  BY <1>2, WriteBuffer DEF Images, Copy
<1>3. ASSUME NEW p \in Proc, Create(p) PROVE Images'
  BY <1>3, CreateWrites DEF Images, Create, Writes
<1>4. ASSUME NEW p \in Proc, Fill(p) PROVE Images'
  <2>1. Writes(ino[p])
    BY <1>4, FillWrites DEF Phases, Fill
  <2>2. buf' \in [Proc -> Image]
    BY <1>4, WriteBuffer, NoImageIsImage DEF Fill
  <2> QED BY <1>4, <2>1, <2>2 DEF Images, Fill, Writes
<1>5. ASSUME NEW p \in Proc, Open(p) PROVE Images'
  <2>1. CASE cmd[p].write
    BY <1>5, <2>1 DEF Images, Open
  <2>2. CASE ~cmd[p].write
    <3>1. Snapshot(stg, p) \in Image
      BY <1>5, SnapshotIsImage DEF Places, Open
    <3> QED BY <1>5, <2>2, <3>1, WriteBuffer DEF Images, Open
  <2> QED BY <2>1, <2>2
<1>6. ASSUME NEW p \in Proc, OpenMtd(p) PROVE Images'
  BY <1>6, WriteBuffer DEF Images, OpenMtd
<1>7. ASSUME NEW p \in Proc,
             OpenFails(p) \/ Close(p) \/ SaveFails(p) \/ Unlink(p)
      PROVE  Images'
  BY <1>7, ImagesExit DEF Images, OpenFails, Close, SaveFails, Unlink, Leaves
<1>8. ASSUME NEW p \in Proc, ParseMark(p) \/ ParseTake(p) \/ Answer(p) PROVE Images'
  BY <1>8 DEF Images, ParseMark, ParseTake, Answer
<1>9. ASSUME NEW p \in Proc, ParseEnd(p) PROVE Images'
  BY <1>9 DEF Images, ParseEnd, Parsed
<1>10. ASSUME NEW p \in Proc, ParseLost(p) PROVE Images'
  BY <1>10, LostWrites, LostGoes, ImagesExit DEF Images, GoesOn, Parsed
<1>11. ASSUME NEW p \in Proc, Apply(p) PROVE Images'
  <2>1. Writes(ino[p])
    BY <1>11, ApplyWrites DEF Phases, Apply, Mapped
  <2> QED BY <1>11, <2>1 DEF Images, Apply, Writes
<1>12. ASSUME NEW p \in Proc, WriteTuple(p) PROVE Images'
  BY <1>12, TupleWrites DEF Images, WriteTuple, Writes
<1>13. ASSUME NEW p \in Proc, Finish(p) PROVE Images'
  <2>1. Writes(ino[p])
    BY <1>13, FinishWrites DEF Phases, Finish, Mapped, Rewriting
  <2> QED BY <1>13, <2>1 DEF Images, Finish, Writes
<1>14. ASSUME NEW p \in Proc, Save(p) PROVE Images'
  <2>1. Snapshot(stg, p) \in Image
    BY <1>14, SnapshotIsImage DEF Places, Save, Readable
  <2> QED BY <1>14, <2>1, WriteBuffer DEF Images, Save
<1>15. ASSUME NEW p \in Proc, Flash(p) PROVE Images'
  BY <1>15 DEF Images, Flash
<1>16. CASE PowerLoss
  <2>1. mtd' \in Image
    <3>1. ASSUME NEW q \in Proc, mtd' \in Torn(buf[q]) PROVE mtd' \in Image
      BY <3>1, TornIs DEF Images
    <3> QED BY <1>16, <3>1 DEF PowerLoss, Images
  <2>2. inode' \in [File -> Image] /\ buf' \in [Proc -> Image]
    BY <1>16, NoImageIsImage DEF PowerLoss
  <2> QED BY <2>1, <2>2 DEF Images
<1>17. CASE UNCHANGED vars
  BY <1>17 DEF Images, vars
<1> QED
  BY <1>1, <1>2, <1>3, <1>4, <1>5, <1>6, <1>7, <1>8, <1>9, <1>10, <1>11, <1>12, <1>13,
     <1>14, <1>15, <1>16, <1>17 DEF Next, Step

----------------------------------------------------------------------------
(* What a step of one process leaves to the others                          *)

(* It does nothing to their places, arguments, copies and tables, and the   *)
(* history keeps what it knows.                                             *)
LEMMA OthersKeep ==
    ASSUME Images, Places, Positions, Tables, NEW p \in Proc, Step(p), NEW q \in Proc \ {p}
    PROVE  /\ pc'[q] = pc[q] /\ cmd'[q] = cmd[q] /\ ino'[q] = ino[q] /\ buf'[q] = buf[q]
           /\ table'[q] = table[q] /\ pos'[q] = pos[q] /\ wrote'[q] = wrote[q]
           /\ alone'[q] = alone[q] /\ (stale[q] => stale'[q])
<1> DEFINE Same ==
      /\ pc'[q] = pc[q] /\ cmd'[q] = cmd[q] /\ ino'[q] = ino[q] /\ buf'[q] = buf[q]
      /\ table'[q] = table[q] /\ pos'[q] = pos[q] /\ wrote'[q] = wrote[q]
      /\ alone'[q] = alone[q] /\ (stale[q] => stale'[q])
<1> USE DEF fileVars, dataVars, GoTo, Places, Images, Positions, Tables
<1>1. ASSUME Leaves(p) PROVE Same
  BY <1>1 DEF Leaves, Exit, Exits, Disturbed
<1>2. ASSUME GoesOn(p) PROVE Same
  BY <1>2 DEF GoesOn, Parsed, Disturbed
<1>3. CASE Copy(p) \/ OpenMtd(p)
  BY <1>3 DEF Copy, OpenMtd
<1>4. CASE Fill(p)
  BY <1>4 DEF Fill, Disturb, Disturbed
<1>5. CASE Create(p)
  BY <1>5 DEF Create
<1>6. CASE Open(p)
  BY <1>6 DEF Open
<1>7. CASE OpenFails(p) \/ Close(p) \/ SaveFails(p) \/ Unlink(p)
  BY <1>1, <1>7 DEF OpenFails, Close, SaveFails, Unlink, Leaves
<1>8. CASE ParseMark(p) \/ ParseTake(p)
  BY <1>8 DEF ParseMark, ParseTake
<1>9. CASE ParseEnd(p) \/ ParseLost(p)
  BY <1>1, <1>2, <1>9, LostGoes DEF ParseEnd, GoesOn
<1>10. CASE Answer(p)
  BY <1>10 DEF Answer
<1>11. CASE Apply(p) \/ WriteTuple(p) \/ Finish(p)
  BY <1>11 DEF Apply, WriteTuple, Finish, Disturb, Disturbed
<1>12. CASE Save(p)
  BY <1>12 DEF Save
<1>13. CASE Flash(p)
  BY <1>13 DEF Flash
<1> QED
  BY <1>3, <1>4, <1>5, <1>6, <1>7, <1>8, <1>9, <1>10, <1>11, <1>12, <1>13 DEF Step

(* And if it changes the file that another one parses, the history says so. *)
LEMMA Told ==
    ASSUME Images, Places, Phases, Positions, Tables, NEW p \in Proc, Step(p),
           NEW q \in Proc \ {p}, Shares(q), pc[q] \in Parsing
    PROVE  inode'[ino[q]] = inode[ino[q]] \/ stale'[q]
<1> USE DEF fileVars, dataVars
<1>1. ino[q] \in File
  BY DEF Places, Shares
<1>2. CASE Create(p)
  <2>1. CASE stg = None
    BY <1>1, <1>2, <2>1, CreateWrites DEF Writes
  <2>2. CASE stg # None
    BY <1>2, <2>2 DEF Create
  <2> QED BY <2>1, <2>2
<1>3. CASE Fill(p) \/ Apply(p) \/ WriteTuple(p) \/ Finish(p)
  <2>1. Writes(ino[p])
    BY <1>3, FillWrites, ApplyWrites, TupleWrites, FinishWrites
    DEF Phases, Mapped, Rewriting, Fill, Apply, Finish
  <2>2. ino[p] = ino[q] => stale'[q]
    BY <1>3 DEF Fill, Apply, WriteTuple, Finish, Disturb, Disturbed
  <2> QED BY <1>1, <2>1, <2>2 DEF Writes
<1>4. CASE ParseLost(p)
  <2>1. CASE inode' = inode
    BY <2>1
  <2>2. CASE inode' # inode
    <3>1. Stop(p, Disturbed(ino[p], p))
      BY <1>4, <2>2 DEF ParseLost
    <3>2. ino[p] = ino[q] => Disturbed(ino[p], p)[q]
      BY DEF Disturbed
    <3>3. stale' = [Disturbed(ino[p], p) EXCEPT ![p] = FALSE]
      BY <3>1 DEF Stop, Parsed, Exits
    <3>4. stale'[q] = Disturbed(ino[p], p)[q]
      BY <3>3 DEF Disturbed
    <3> QED BY <1>1, <1>4, <3>2, <3>4, LostWrites
  <2> QED BY <2>1, <2>2
<1>5. CASE \/ Copy(p) \/ Open(p) \/ OpenMtd(p) \/ OpenFails(p) \/ ParseMark(p)
           \/ ParseTake(p) \/ ParseEnd(p) \/ Answer(p) \/ Close(p) \/ Save(p)
           \/ SaveFails(p) \/ Flash(p) \/ Unlink(p)
  BY <1>5 DEF Copy, Open, OpenMtd, OpenFails, ParseMark, ParseTake, ParseEnd, Answer,
     Close, Save, SaveFails, Flash, Unlink
<1> QED BY <1>2, <1>3, <1>4, <1>5 DEF Step

----------------------------------------------------------------------------
(* Parsers and tables                                                       *)

LEMMA MappingIsImage ==
    ASSUME Images, Places, NEW p \in Proc PROVE Mapping(p) \in Image
BY DEF Images, Places, Mapping, Shares

LEMMA PositionsInit == Init => Positions
BY DEF Init, Positions

LEMMA PositionsNext ==
    ASSUME Images, Places, Phases, Positions, Tables, [Next]_vars PROVE Positions'
<1> USE DEF fileVars, dataVars, GoTo
<1>1. ASSUME NEW p \in Proc, NEW c \in Command, Start(p, c) PROVE Positions'
  BY <1>1 DEF Start, Places, Positions, Shares
<1>2. ASSUME NEW p \in Proc, Step(p) PROVE Positions'
  <2>1. pos' \in [Proc -> Nat \ {0}]
    <3>1. ASSUME Leaves(p) \/ GoesOn(p) PROVE pos' \in [Proc -> Nat \ {0}]
      BY <3>1 DEF Leaves, GoesOn, Exit, Exits, Parsed, Positions
    <3>2. CASE OpenFails(p) \/ Close(p) \/ SaveFails(p) \/ Unlink(p)
      BY <3>1, <3>2 DEF OpenFails, Close, SaveFails, Unlink, Leaves
    <3>3. CASE ParseEnd(p) \/ ParseLost(p)
      BY <3>1, <3>3, LostGoes DEF ParseEnd, GoesOn
    <3>4. CASE ParseTake(p) \/ WriteTuple(p)
      <4>1. pos' = [pos EXCEPT ![p] = pos[p] + 1] /\ pos[p] \in Nat \ {0}
        BY <3>4 DEF ParseTake, WriteTuple, Positions
      <4> QED BY <4>1 DEF Positions
    <3>5. CASE Finish(p)
      BY <3>5 DEF Finish, Positions
    <3>6. CASE \/ Copy(p) \/ Create(p) \/ Fill(p) \/ Open(p) \/ OpenMtd(p) \/ ParseMark(p)
               \/ Answer(p) \/ Apply(p) \/ Save(p) \/ Flash(p)
      BY <3>6 DEF Copy, Create, Fill, Open, OpenMtd, ParseMark, Answer, Apply, Save, Flash,
         Positions
    <3> QED BY <1>2, <3>2, <3>3, <3>4, <3>5, <3>6 DEF Step
  <2>2. ASSUME NEW q \in Proc \ {p}, pc'[q] = "marked", ~stale'[q], Shares(q)'
        PROVE  pos'[q] <= Len(inode'[ino'[q]].data)
    <3>1. /\ pc[q] = "marked" /\ ~stale[q] /\ Shares(q)
          /\ pos'[q] = pos[q] /\ ino'[q] = ino[q]
      BY <1>2, <2>2, OthersKeep DEF Shares
    <3>2. inode'[ino[q]] = inode[ino[q]]
      BY <1>2, <2>2, <3>1, Told DEF Parsing
    <3> QED BY <3>1, <3>2 DEF Positions
  <2>3. ASSUME pc'[p] = "marked", Shares(p)'
        PROVE  pos'[p] <= Len(inode'[ino'[p]].data)
    <3>1. ParseMark(p)
      <4>1. \/ ParseMark(p)
            \/ Leaves(p) \/ GoesOn(p)
            \/ Copy(p) \/ Create(p) \/ Fill(p) \/ Open(p) \/ OpenMtd(p) \/ ParseTake(p)
            \/ Answer(p) \/ Apply(p) \/ WriteTuple(p) \/ Finish(p) \/ Save(p) \/ Flash(p)
        BY <1>2, LostGoes DEF Step, Leaves, GoesOn, OpenFails, ParseEnd, Close, SaveFails,
           Unlink
      <4> QED BY <2>3, <4>1 DEF Places, Leaves, Exit, Exits, GoesOn, Parsed, Copy, Create,
                 Fill, Open, OpenMtd, ParseTake, Answer, Apply, WriteTuple, Finish, Save,
                 Flash
    <3> QED BY <2>3, <3>1 DEF ParseMark, Mapping, Shares
  <2> QED BY <2>1, <2>2, <2>3 DEF Positions
<1>3. CASE PowerLoss
  BY <1>3 DEF PowerLoss, Positions
<1>4. CASE UNCHANGED vars
  BY <1>4 DEF vars, Positions, Shares
<1> QED BY <1>1, <1>2, <1>3, <1>4 DEF Next

LEMMA TablesInit == Init => Tables
<1> SUFFICES ASSUME Init PROVE Tables
  OBVIOUS
<1>1. table = [p \in Proc |-> EmptyTable]
  BY DEF Init
<1>2. Proper(EmptyTable) /\ EmptyTable \in [1 .. Buckets -> Seq(Tuple)]
  BY EmptyIsProper DEF Proper
<1> QED BY <1>1, <1>2 DEF Tables

(* The tuple that the parser takes.                                         *)
LEMMA TakenIsTuple ==
    ASSUME Images, Places, Positions, NEW p \in Proc, ParseTake(p)
    PROVE  /\ Mapping(p).data[pos[p]] \in Tuple
           /\ table' = [table EXCEPT ![p] =
                Set(table[p], Mapping(p).data[pos[p]].name, Mapping(p).data[pos[p]].value)]
<1>1. Mapping(p).data \in Seq(Tuple)
  BY MappingIsImage, FieldTypes
<1>2. pos[p] \in 1 .. Len(Mapping(p).data)
  BY <1>1 DEF Positions, ParseTake
<1> QED BY <1>1, <1>2 DEF ParseTake

LEMMA TablesNext ==
    ASSUME Images, Places, Positions, Tables, [Next]_vars PROVE Tables'
<1> USE DEF fileVars, dataVars
<1>1. ASSUME NEW p \in Proc, NEW tb, Proper(tb), table' = [table EXCEPT ![p] = tb]
      PROVE  Tables'
  <2>1. tb \in [1 .. Buckets -> Seq(Tuple)]
    BY <1>1 DEF Proper
  <2>2. /\ table' \in [Proc -> [1 .. Buckets -> Seq(Tuple)]] /\ table'[p] = tb
        /\ \A q \in Proc \ {p} : table'[q] = table[q]
    BY <1>1, <2>1 DEF Tables
  <2>3. \A q \in Proc : Proper(table'[q])
    BY <1>1, <2>2 DEF Tables
  <2> QED BY <2>2, <2>3 DEF Tables
<1>2. ASSUME table' = table PROVE Tables'
  BY <1>2 DEF Tables
<1>3. ASSUME NEW p \in Proc, Step(p) PROVE Tables'
  <2>1. ASSUME Leaves(p) PROVE Tables'
    BY <1>1, <2>1, EmptyIsProper DEF Leaves, Exit, Exits
  <2>2. ASSUME GoesOn(p) PROVE Tables'
    <3>1. table' = [table EXCEPT ![p] = IF wrote[p] THEN EmptyTable
                                        ELSE FromHeader(table[p], Mapping(p).hdr)]
      BY <2>2 DEF GoesOn, Parsed
    <3>2. Mapping(p).hdr \in [Sdram -> Value]
      BY MappingIsImage, FieldTypes
    <3>3. Proper(FromHeader(table[p], Mapping(p).hdr))
      BY <3>2, FromHeaderIs DEF Tables
    <3> QED BY <1>1, <3>1, <3>3, EmptyIsProper
  <2>3. CASE OpenFails(p) \/ Close(p) \/ SaveFails(p) \/ Unlink(p)
    BY <2>1, <2>3 DEF OpenFails, Close, SaveFails, Unlink, Leaves
  <2>4. CASE ParseEnd(p) \/ ParseLost(p)
    BY <2>1, <2>2, <2>4, LostGoes DEF ParseEnd, GoesOn
  <2>5. CASE ParseTake(p)
    <3>1. PICK t \in Tuple : table' = [table EXCEPT ![p] = Set(table[p], t.name, t.value)]
      BY <2>5, TakenIsTuple
    <3>2. t.name \in Name /\ t.value \in Value
      BY DEF Tuple
    <3>3. Proper(Set(table[p], t.name, t.value))
      BY <3>2, SetIs DEF Tables
    <3> QED BY <1>1, <3>1, <3>3
  <2>6. CASE Answer(p) \/ Apply(p)
    <3>1. table' = [table EXCEPT ![p] = Edit(table[p], cmd[p].ops)]
      BY <2>6 DEF Answer, Apply
    <3> QED BY <1>1, <3>1, AppliedIsTable
  <2>7. CASE Finish(p)
    BY <1>1, <2>7, EmptyIsProper DEF Finish
  <2>8. CASE \/ Copy(p) \/ Create(p) \/ Fill(p) \/ Open(p) \/ OpenMtd(p) \/ ParseMark(p)
             \/ WriteTuple(p) \/ Save(p) \/ Flash(p)
    BY <1>2, <2>8 DEF Copy, Create, Fill, Open, OpenMtd, ParseMark, WriteTuple, Save, Flash
  <2> QED BY <1>3, <2>3, <2>4, <2>5, <2>6, <2>7, <2>8 DEF Step
<1>4. CASE \E p \in Proc : \E c \in Command : Start(p, c)
  BY <1>2, <1>4 DEF Start
<1>5. CASE PowerLoss
  <2>1. table' = [p \in Proc |-> EmptyTable]
    BY <1>5 DEF PowerLoss
  <2>2. Proper(EmptyTable) /\ EmptyTable \in [1 .. Buckets -> Seq(Tuple)]
    BY EmptyIsProper DEF Proper
  <2> QED BY <2>1, <2>2 DEF Tables
<1>6. CASE UNCHANGED vars
  BY <1>2, <1>6 DEF vars
<1> QED BY <1>3, <1>4, <1>5, <1>6 DEF Next

----------------------------------------------------------------------------
(* Phases                                                                   *)

LEMMA PhasesInit == Init => Phases
BY DEF Init, Phases, Mapped, Rewriting, NoCommand

LEMMA PhasesExit ==
    ASSUME Phases, Places, NEW p \in Proc, Leaves(p) PROVE Phases'
<1>1. /\ pc'[p] = "idle" /\ cmd'[p] = NoCommand /\ ino'[p] = None /\ ~wrote'[p]
      /\ \A q \in Proc \ {p} : /\ pc'[q] = pc[q] /\ cmd'[q] = cmd[q]
                               /\ ino'[q] = ino[q] /\ wrote'[q] = wrote[q]
  BY DEF Leaves, Exit, Exits, Places
<1> QED BY <1>1, SMTT(30) DEF Phases, Mapped, Rewriting

LEMMA PhasesNext == ASSUME Phases, Places, [Next]_vars PROVE Phases'
<1> USE DEF fileVars, dataVars, GoTo, Mapped, Rewriting
<1>1. ASSUME NEW p \in Proc, NEW c \in Command, Start(p, c) PROVE Phases'
  BY <1>1 DEF Places, Phases, Start
<1>2. ASSUME NEW p \in Proc, Copy(p) PROVE Phases'
  BY <1>2 DEF Places, Phases, Copy
<1>3. ASSUME NEW p \in Proc, Create(p) PROVE Phases'
  <2>1. ino' \in [Proc -> File \union {None}] /\ ino'[p] # None
    <3>1. \A i \in File : i # None
      BY DEF File, None
    <3> QED BY <1>3, <3>1, FreeFile DEF Places, Create
  <2>2. \A q \in Proc \ {p} : ino'[q] = ino[q]
    BY <1>3 DEF Places, Create
  <2> QED BY <1>3, <2>1, <2>2 DEF Places, Phases, Create
<1>4. ASSUME NEW p \in Proc, Fill(p) PROVE Phases'
  BY <1>4 DEF Places, Phases, Fill
<1>5. ASSUME NEW p \in Proc, Open(p) PROVE Phases'
  <2>1. cmd[p].write => ino'[p] # None
    BY <1>5 DEF Places, Open
  <2>2. ~cmd[p].write => ino'[p] = ino[p]
    BY <1>5 DEF Places, Open
  <2>3. \A q \in Proc \ {p} : ino'[q] = ino[q]
    BY <1>5 DEF Places, Open
  <2> QED BY <1>5, <2>1, <2>2, <2>3 DEF Places, Phases, Open
<1>6. ASSUME NEW p \in Proc, OpenMtd(p) PROVE Phases'
  BY <1>6 DEF Places, Phases, OpenMtd
<1>7. ASSUME NEW p \in Proc,
             OpenFails(p) \/ Close(p) \/ SaveFails(p) \/ Unlink(p)
      PROVE  Phases'
  BY <1>7, PhasesExit DEF OpenFails, Close, SaveFails, Unlink, Leaves
<1>8. ASSUME NEW p \in Proc, ParseMark(p) \/ ParseTake(p) PROVE Phases'
  BY <1>8 DEF Places, Phases, ParseMark, ParseTake
<1>9. ASSUME NEW p \in Proc, pc[p] \in Parsing, GoesOn(p) PROVE Phases'
  BY <1>9 DEF Places, Phases, Parsing, Parsed, GoesOn
<1>10. ASSUME NEW p \in Proc, ParseEnd(p) \/ ParseLost(p) PROVE Phases'
  <2>1. pc[p] \in Parsing
    BY <1>10 DEF ParseEnd, ParseLost, Parsing
  <2> QED BY <1>9, <1>10, <2>1, PhasesExit, LostGoes DEF ParseEnd, GoesOn
<1>11. ASSUME NEW p \in Proc, Answer(p) \/ Apply(p) PROVE Phases'
  BY <1>11 DEF Places, Phases, Answer, Apply
<1>12. ASSUME NEW p \in Proc, WriteTuple(p) \/ Finish(p) PROVE Phases'
  BY <1>12 DEF Places, Phases, WriteTuple, Finish
<1>13. ASSUME NEW p \in Proc, Save(p) \/ Flash(p) PROVE Phases'
  BY <1>13 DEF Places, Phases, Save, Flash
<1>14. CASE PowerLoss
  BY <1>14 DEF Phases, PowerLoss, NoCommand
<1>15. CASE UNCHANGED vars
  BY <1>15 DEF Phases, vars
<1> QED
  BY <1>1, <1>2, <1>3, <1>4, <1>5, <1>6, <1>7, <1>8, <1>10, <1>11, <1>12, <1>13, <1>14,
     <1>15 DEF Next, Step

----------------------------------------------------------------------------
(* A commit begins with an image                                            *)

LEMMA SavesImageNext ==
    ASSUME Images, Places, Positions, Tables, SavesImage, [Next]_vars PROVE SavesImage'
<1> USE DEF fileVars, dataVars, GoTo
<1>1. ASSUME NEW p \in Proc, NEW c \in Command, Start(p, c) PROVE SavesImage'
  BY <1>1 DEF Places, SavesImage, Start
<1>2. ASSUME NEW p \in Proc, Step(p) PROVE SavesImage'
  <2>1. pc'[p] = "flash" => buf'[p].magic
    <3>1. CASE Save(p)
      <4>1. inode[stg].magic /\ stg \in File
        BY <3>1 DEF Places, Save, Readable
      <4> QED BY <3>1, <4>1, SnapshotIsImage, WriteBuffer DEF Save
    <3>2. CASE ~Save(p)
      <4>1. pc'[p] # "flash"
        BY <1>2, <3>2 DEF Places, Step, Copy, Create, Fill, Open, OpenMtd, OpenFails, Exit,
           Exits, ParseMark, ParseTake, ParseEnd, ParseLost, Stop, Parsed, Answer, Apply,
           WriteTuple, Finish, Close, SaveFails, Flash, Unlink
      <4> QED BY <4>1
    <3> QED BY <3>1, <3>2
  <2> QED BY <1>2, <2>1, OthersKeep DEF SavesImage
<1>3. CASE PowerLoss
  BY <1>3 DEF SavesImage, PowerLoss
<1>4. CASE UNCHANGED vars
  BY <1>4 DEF SavesImage, vars
<1> QED BY <1>1, <1>2, <1>3, <1>4 DEF Next

----------------------------------------------------------------------------
(* Commands that overlap                                                    *)

(* A step of a process starts no command and changes no history but its     *)
(* own, when it ends.                                                       *)
LEMMA StepHistory ==
    ASSUME Places, NEW p \in Proc, Step(p)
    PROVE  /\ mixed' = mixed
           /\ pc[p] \in Active
           /\ pc'[p] = "idle" \/ (cmd'[p] = cmd[p] /\ alone'[p] = alone[p])
           /\ pc'[p] # "openmtd"
<1> USE DEF fileVars, dataVars, GoTo, Places
<1>1. ASSUME Leaves(p) PROVE pc'[p] = "idle"
  BY <1>1 DEF Leaves, Exit, Exits
<1>2. CASE Copy(p) \/ Create(p) \/ Fill(p) \/ Open(p) \/ OpenMtd(p)
  BY <1>2 DEF Copy, Create, Fill, Open, OpenMtd, Active
<1>3. CASE OpenFails(p) \/ Close(p) \/ SaveFails(p) \/ Unlink(p)
  BY <1>1, <1>3 DEF OpenFails, Close, SaveFails, Unlink, Active, Leaves
<1>4. CASE ParseMark(p) \/ ParseTake(p)
  BY <1>4 DEF ParseMark, ParseTake, Active, Parsing
<1>5. CASE ParseEnd(p) \/ ParseLost(p)
  <2>1. pc[p] \in Active
    BY <1>5 DEF ParseEnd, ParseLost, Active, Parsing
  <2> QED BY <1>1, <1>5, <2>1, LostGoes DEF ParseEnd, GoesOn, Parsed
<1>6. CASE Answer(p) \/ Apply(p) \/ WriteTuple(p) \/ Finish(p)
  BY <1>6 DEF Answer, Apply, WriteTuple, Finish, Active, Rewriting
<1>7. CASE Save(p) \/ Flash(p)
  BY <1>7 DEF Save, Flash, Active
<1> QED BY <1>2, <1>3, <1>4, <1>5, <1>6, <1>7 DEF Step

LEMMA ModifiersShrink ==
    ASSUME Images, Places, Positions, Tables, NEW p \in Proc, Step(p) PROVE Modifiers' \subseteq Modifiers
<1>1. "idle" \notin Active
  BY DEF Active, Parsing, Rewriting
<1> QED BY <1>1, StepHistory, OthersKeep DEF Modifiers

(* Which commands those at these places are.                                *)
LEMMA WhoModifies ==
    ASSUME Places, Phases, NEW p \in Proc,
           \/ pc[p] \in {"copy", "create", "fill", "tuples", "flash", "unlink"}
           \/ cmd[p].write /\ pc[p] # "idle"
           \/ Shares(p) /\ pc[p] # "idle"
    PROVE  p \in Modifiers
<1>1. pc[p] \in Active
  BY DEF Places
<1>2. cmd[p].write \/ cmd[p].commit
  BY DEF Phases, Shares
<1> QED BY <1>1, <1>2 DEF Modifiers, Modifies

LEMMA TakeTurns ==
    ASSUME Apart, ~mixed, NEW p \in Modifiers PROVE Modifiers = {p}
BY DEF Apart

LEMMA NobodyMarks ==
    ASSUME Places, Phases, NEW p \in Proc, Modifiers \subseteq {p}, NEW i
    PROVE  Marks(i, p) = {}
<1> SUFFICES ASSUME NEW r \in Proc \ {p}, pc[r] = "marked", Shares(r) PROVE FALSE
  BY DEF Marks
<1> QED BY WhoModifies

LEMMA ApartNext ==
    ASSUME Images, Places, Positions, Tables, Phases, Apart, [Next]_vars PROVE Apart'
<1>1. ASSUME NEW p \in Proc, NEW c \in Command, Start(p, c) PROVE Apart'
  <2>1. Modifiers' \subseteq Modifiers \union {p}
    BY <1>1 DEF Start, Places, Modifiers, GoTo
  <2>2. p \in Modifiers' => Modifies(c)
    BY <1>1 DEF Start, Places, Modifiers
  <2>3. \A q \in Proc : alone'[q] /\ pc'[q] # "idle" => Modifiers' \subseteq {q}
    <3>1. alone'[p] => Modifiers = {}
      BY <1>1 DEF Start
    <3>2. \A q \in Proc \ {p} : alone'[q] => alone[q] /\ ~Modifies(c)
      BY <1>1 DEF Start
    <3>3. \A q \in Proc \ {p} : pc'[q] = pc[q]
      BY <1>1 DEF Start, GoTo, Places
    <3> QED BY <2>1, <2>2, <3>1, <3>2, <3>3 DEF Apart
  <2>4. ~mixed' => \A q, r \in Modifiers' : q = r
    <3> SUFFICES ASSUME ~mixed' PROVE \A q, r \in Modifiers' : q = r
      OBVIOUS
    <3>1. ~mixed /\ (Modifies(c) => Modifiers = {})
      BY <1>1 DEF Start
    <3> QED BY <2>1, <2>2, <3>1 DEF Apart
  <2>5. \A q \in Proc : alone'[q] /\ pc'[q] = "openmtd" => stg' = None
    BY <1>1 DEF Start, GoTo, Places, Apart, fileVars
  <2> QED BY <2>3, <2>4, <2>5 DEF Apart
<1>2. ASSUME NEW p \in Proc, Step(p) PROVE Apart'
  <2>1. \A q \in Proc : alone'[q] /\ pc'[q] # "idle" => alone[q] /\ pc[q] # "idle"
    <3>1. "idle" \notin Active
      BY DEF Active, Parsing, Rewriting
    <3> QED BY <1>2, <3>1, StepHistory, OthersKeep
  <2>2. \A q \in Proc : alone'[q] /\ pc'[q] = "openmtd" => stg' = None
    <3> SUFFICES ASSUME NEW q \in Proc, alone'[q], pc'[q] = "openmtd" PROVE stg' = None
      OBVIOUS
    <3>1. q # p /\ alone[q] /\ pc[q] = "openmtd"
      BY <1>2, StepHistory, OthersKeep
    <3>2. stg = None /\ Modifiers \subseteq {q}
      BY <3>1 DEF Apart
    <3>3. ~Create(p)
      BY <3>1, <3>2, WhoModifies DEF Create
    <3> QED BY <1>2, <3>2, <3>3 DEF Step, Copy, Fill, Open, OpenMtd, OpenFails, ParseMark,
               ParseTake, ParseEnd, ParseLost, Stop, Parsed, Answer, Apply, WriteTuple,
               Finish, Close, Save, SaveFails, Flash, Unlink, fileVars
  <2> QED BY <1>2, <2>1, <2>2, StepHistory, ModifiersShrink DEF Apart
<1>3. CASE PowerLoss
  BY <1>3 DEF Apart, Modifiers, PowerLoss, Active, Parsing, Rewriting
<1>4. CASE UNCHANGED vars
  BY <1>4 DEF Apart, Modifiers, vars, fileVars, dataVars
<1> QED BY <1>1, <1>2, <1>3, <1>4 DEF Next

----------------------------------------------------------------------------
(* The staging file, while writing commands take turns                      *)

(* Nobody else parses the file that a command has mapped.                   *)
LEMMA LostAlone ==
    ASSUME Places, Phases, Apart, Stages, ~mixed, NEW p \in Proc, ParseLost(p)
    PROVE  /\ pc[p] \in Parsing
           /\ Parsed(p, stale) \/ (Exit(p) /\ UNCHANGED <<mtd, stg, mixed>>)
<1>1. pc[p] \in Parsing
  BY DEF ParseLost
<1>2. \A q \in Proc : ~stale[q]
  BY DEF Stages
<1>3. ASSUME NEW q \in Proc \ {p}, pc[q] \in Parsing, Shares(q), ino[q] = ino[p]
      PROVE  FALSE
  <2>1. Shares(p)
    BY <1>3 DEF Shares
  <2>2. pc[p] # "idle" /\ pc[q] # "idle"
    BY <1>1, <1>3 DEF Parsing
  <2> QED BY <1>3, <2>1, <2>2, WhoModifies, TakeTurns
<1>4. Disturbed(ino[p], p) = stale
  <2>1. stale = [q \in Proc |-> stale[q]]
    BY DEF Places
  <2>2. \A q \in Proc :
          stale[q] = \/ stale[q]
                     \/ q # p /\ pc[q] \in Parsing /\ Shares(q) /\ ino[q] = ino[p]
    <3> SUFFICES ASSUME NEW q \in Proc
                 PROVE  stale[q] = \/ stale[q]
                                   \/ /\ q # p /\ pc[q] \in Parsing
                                      /\ Shares(q) /\ ino[q] = ino[p]
      OBVIOUS
    <3>1. stale[q] = FALSE
      <4>1. stale[q] \in BOOLEAN
        BY DEF Places
      <4> QED BY <1>2, <4>1
    <3>2. ~(q # p /\ pc[q] \in Parsing /\ Shares(q) /\ ino[q] = ino[p])
      BY <1>3
    <3> QED BY <3>1, <3>2, Zenon
  <2> QED BY <2>1, <2>2, Zenon DEF Disturbed
<1> QED BY <1>1, <1>4 DEF ParseLost, Stop, Exit

LEMMA StagesNext ==
    ASSUME Images, Places, Positions, Tables, Phases, Apart, Stages, [Next]_vars PROVE Stages'
<1> USE DEF Mapped, Rewriting, GoTo
<1>1. ASSUME NEW p \in Proc, NEW c \in Command, Start(p, c) PROVE Stages'
  BY <1>1 DEF Start, Places, Stages, fileVars, dataVars
<1>2. ASSUME NEW p \in Proc, Step(p) PROVE Stages'
  <2> SUFFICES ASSUME ~mixed PROVE Stages'
    BY <1>2, StepHistory DEF Stages
  <2>1. CASE Copy(p)
    BY <2>1 DEF Copy, Places, Stages, fileVars
  <2>2. CASE Create(p)
    <3>1. Modifiers = {p} /\ cmd[p].write
      BY <2>2, WhoModifies, TakeTurns DEF Create, Phases
    <3>2. \A q \in Proc \ {p} : cmd[q].write => pc[q] = "idle"
      BY <3>1, WhoModifies
    <3>3. stg' # None /\ ino'[p] = stg'
      <4>1. \A i \in File : i # None
        BY DEF File, None
      <4> QED BY <2>2, <4>1, FreeFile DEF Create, Places
    <3> QED BY <2>2, <3>2, <3>3 DEF Create, Places, Stages
  <2>3. CASE Fill(p) \/ Apply(p) \/ WriteTuple(p) \/ Finish(p)
    <3>1. Modifiers = {p} /\ cmd[p].write
      BY <2>3, WhoModifies, TakeTurns DEF Fill, Apply, WriteTuple, Finish, Phases
    <3>2. \A q \in Proc \ {p} : ~(pc[q] \in Parsing /\ Shares(q))
      BY <3>1, WhoModifies DEF Parsing
    <3>3. \A q \in Proc : ~stale'[q]
      BY <2>3, <3>2 DEF Fill, Apply, WriteTuple, Finish, Disturb, Disturbed, Stages
    <3> QED BY <2>3, <3>3 DEF Fill, Apply, WriteTuple, Finish, Places, Stages
  <2>4. CASE Open(p)
    <3>1. cmd[p].write => ino'[p] = stg
      BY <2>4 DEF Open, Places
    <3>2. \A q \in Proc \ {p} : ino'[q] = ino[q]
      BY <2>4 DEF Open, Places
    <3> QED BY <2>4, <3>1, <3>2 DEF Open, Places, Stages, fileVars
  <2>5. CASE OpenMtd(p)
    BY <2>5 DEF OpenMtd, Places, Stages, Phases, fileVars
  <2>6. ASSUME Exit(p), stg' = stg, mixed' = mixed PROVE Stages'
    BY <2>6 DEF Exit, Exits, Places, Stages
  <2>7. CASE OpenFails(p) \/ Close(p) \/ SaveFails(p)
    BY <2>6, <2>7 DEF OpenFails, Close, SaveFails, fileVars
  <2>8. CASE Unlink(p)
    <3>1. Modifiers = {p}
      BY <2>8, WhoModifies, TakeTurns DEF Unlink
    <3>2. \A q \in Proc \ {p} : cmd[q].write => pc[q] = "idle"
      BY <3>1, WhoModifies
    <3> QED BY <2>8, <3>2 DEF Unlink, Exit, Exits, Places, Stages
  <2>9. CASE ParseMark(p) \/ ParseTake(p) \/ Answer(p)
    BY <2>9 DEF ParseMark, ParseTake, Answer, Places, Stages, fileVars, dataVars
  <2>10. ASSUME pc[p] \in Parsing, Parsed(p, stale) PROVE Stages'
    BY <2>10 DEF Parsed, Parsing, Places, Stages
  <2>11. CASE ParseEnd(p) \/ ParseLost(p)
    BY <2>6, <2>10, <2>11, LostAlone DEF ParseEnd, Parsing
  <2>12. CASE Save(p) \/ Flash(p)
    BY <2>12 DEF Save, Flash, Places, Stages, fileVars, dataVars
  <2> QED BY <1>2, <2>1, <2>2, <2>3, <2>4, <2>5, <2>7, <2>8, <2>9, <2>11, <2>12 DEF Step
<1>3. CASE PowerLoss
  BY <1>3 DEF Stages, PowerLoss, NoCommand
<1>4. CASE UNCHANGED vars
  BY <1>4 DEF Stages, vars, fileVars, dataVars
<1> QED BY <1>1, <1>2, <1>3, <1>4 DEF Next

----------------------------------------------------------------------------
(* Images that power loss has torn                                          *)

(* What a process reads from a file that nobody else can be writing.        *)
LEMMA SnapshotAlone ==
    ASSUME Images, Places, Positions, Phases, NEW p \in Proc, Modifiers \subseteq {p}, stg # None
    PROVE  Snapshot(stg, p) = inode[stg]
<1>1. stg \in File
  BY DEF Places
<1> QED BY <1>1, NobodyMarks, SnapshotIsImage

(* When a step leaves flash, the staging file and who refills it alone.     *)
LEMMA StagedEndedSame ==
    ASSUME StagedEnded, mtd' = mtd, stg' = stg, mixed' = mixed,
           stg # None => inode'[stg].ended = inode[stg].ended,
           \A q \in Proc : Refills(q) => Refills(q)'
    PROVE  StagedEnded'
<1> SUFFICES ASSUME ~mixed, stg # None, mtd.ended
             PROVE  inode'[stg].ended \/ \E q \in Proc : Refills(q)'
  BY DEF StagedEnded
<1> QED BY DEF StagedEnded

LEMMA StagedEndedNext ==
    ASSUME Images, Places, Positions, Tables, Phases, Apart, Stages, StagedEnded, CopiesEnded, [Next]_vars
    PROVE  StagedEnded'
<1> USE DEF GoTo, fileVars, dataVars
<1>1. ASSUME NEW p \in Proc, NEW c \in Command, Start(p, c) PROVE StagedEnded'
  <2>1. \A q \in Proc : Refills(q) => Refills(q)'
    BY <1>1 DEF Start, Places, Refills
  <2>2. ~mixed' => ~mixed
    BY <1>1 DEF Start
  <2>3. /\ mtd' = mtd /\ stg' = stg /\ inode' = inode
    BY <1>1 DEF Start
  <2> SUFFICES ASSUME ~mixed, stg # None, mtd.ended
               PROVE  inode[stg].ended \/ \E q \in Proc : Refills(q)'
    BY <2>2, <2>3 DEF StagedEnded
  <2> QED BY <2>1 DEF StagedEnded
<1>2. ASSUME NEW p \in Proc, Step(p) PROVE StagedEnded'
  <2> SUFFICES ASSUME ~mixed PROVE StagedEnded'
    BY <1>2, StepHistory DEF StagedEnded
  <2>1. mixed' = mixed
    BY <1>2, StepHistory
  <2>2. \A q \in Proc \ {p} : stg' = stg /\ Refills(q) => Refills(q)'
    BY <1>2, OthersKeep DEF Refills
  <2>3. CASE Create(p)
    <3>1. CASE stg = None
      <4>1. ino'[p] = stg' /\ pc'[p] = "fill"
        BY <2>3, <3>1 DEF Create, Places
      <4> QED BY <4>1 DEF StagedEnded, Refills
    <3>2. CASE stg # None
      <4>1. ino'[p] = stg' /\ pc'[p] = "fill"
        BY <2>3, <3>2 DEF Create, Places
      <4> QED BY <4>1 DEF StagedEnded, Refills
    <3> QED BY <3>1, <3>2
  <2>4. CASE Fill(p)
    <3>1. ino[p] = stg /\ ino[p] # None
      BY <2>4 DEF Fill, Phases, Stages, Mapped
    <3>2. mtd.ended => buf[p].ended
      BY <2>4 DEF Fill, CopiesEnded
    <3>3. inode'[stg] = buf[p] /\ mtd' = mtd /\ stg' = stg
      BY <2>4, <3>1, FillWrites DEF Fill
    <3> QED BY <3>2, <3>3 DEF StagedEnded
  <2>5. CASE Apply(p)
    <3>1. ino[p] = stg
      BY <2>5 DEF Apply, Stages, Mapped
    <3>2. pc'[p] = "tuples" /\ ino'[p] = stg'
      BY <2>5, <3>1 DEF Apply, Places
    <3> QED BY <3>2 DEF StagedEnded, Refills
  <2>6. CASE WriteTuple(p)
    <3>1. ino[p] = stg
      BY <2>6 DEF WriteTuple, Stages, Phases, Mapped, Rewriting
    <3>2. pc'[p] = "tuples" /\ ino'[p] = stg'
      BY <2>6, <3>1 DEF WriteTuple, Places
    <3> QED BY <3>2 DEF StagedEnded, Refills
  <2>7. CASE Finish(p)
    <3>1. ino[p] = stg /\ ino[p] # None
      BY <2>7 DEF Finish, Phases, Stages, Mapped, Rewriting
    <3>2. inode'[stg].ended /\ stg' = stg
      BY <2>7, <3>1, FinishWrites DEF Finish
    <3> QED BY <3>2 DEF StagedEnded
  <2>8. CASE Flash(p)
    <3>1. mtd' = buf[p] /\ stg' = stg /\ inode' = inode
      BY <2>8 DEF Flash
    <3>2. stg # None /\ buf[p].ended => inode[stg].ended
      BY <2>8 DEF Flash, CopiesEnded
    <3> QED BY <3>1, <3>2 DEF StagedEnded
  <2>9. CASE Unlink(p)
    BY <2>9 DEF Unlink, StagedEnded
  <2>10. CASE ParseLost(p)
    <3>1. mtd' = mtd /\ stg' = stg
      BY <2>10 DEF ParseLost, Stop, Parsed
    <3>2. stg # None => inode'[stg].ended = inode[stg].ended
      BY <2>10, LostWrites DEF Places
    <3>3. ~Refills(p)
      BY <2>10 DEF ParseLost, Parsing, Refills
    <3> QED BY <2>1, <2>2, <3>1, <3>2, <3>3, StagedEndedSame
  <2>11. CASE \/ Copy(p) \/ Open(p) \/ OpenMtd(p) \/ OpenFails(p) \/ ParseMark(p)
              \/ ParseTake(p) \/ ParseEnd(p) \/ Answer(p) \/ Close(p) \/ Save(p)
              \/ SaveFails(p)
    <3>1. mtd' = mtd /\ stg' = stg /\ inode' = inode
      BY <2>11 DEF Copy, Open, OpenMtd, OpenFails, ParseMark, ParseTake, ParseEnd, Parsed,
         Answer, Close, Save, SaveFails
    <3>2. ~Refills(p)
      BY <2>11 DEF Copy, Open, OpenMtd, OpenFails, ParseMark, ParseTake, ParseEnd,
         Answer, Close, Save, SaveFails, Refills
    <3> QED BY <2>1, <2>2, <3>1, <3>2, StagedEndedSame
  <2> QED
    BY <1>2, <2>3, <2>4, <2>5, <2>6, <2>7, <2>8, <2>9, <2>10, <2>11 DEF Step
<1>3. CASE PowerLoss
  BY <1>3 DEF StagedEnded, PowerLoss
<1>4. CASE UNCHANGED vars
  BY <1>4 DEF StagedEnded, Refills, vars
<1> QED BY <1>1, <1>2, <1>3, <1>4 DEF Next

(* A command that only reads leaves flash and files alone.                  *)
LEMMA ReadersLeaveFiles ==
    ASSUME Images, Places, Positions, Tables, Phases, NEW p \in Proc \ Modifiers, Step(p)
    PROVE  UNCHANGED <<mtd, inode, stg>>
<1> USE DEF fileVars, dataVars
<1>1. ~cmd[p].write /\ ~Shares(p) /\ pc[p] \notin {"copy", "create", "fill", "tuples",
                                                 "flash", "unlink"}
  <2>1. pc[p] # "idle"
    BY StepHistory DEF Active, Parsing, Rewriting
  <2> QED BY <2>1, WhoModifies
<1>2. CASE ParseLost(p)
  BY <1>1, <1>2, LostWrites DEF ParseLost, Stop, Parsed
<1>3. CASE ~ParseLost(p)
  BY <1>1, <1>3 DEF Step, Copy, Create, Fill, Open, OpenMtd, OpenFails, ParseMark, ParseTake,
     ParseEnd, Parsed, Answer, Apply, WriteTuple, Finish, Close, Save, SaveFails, Flash,
     Unlink
<1> QED BY <1>2, <1>3

LEMMA CopiesEndedNext ==
    ASSUME Images, Places, Positions, Tables, Phases, Apart, Stages, StagedEnded, CopiesEnded, [Next]_vars
    PROVE  CopiesEnded'
<1> USE DEF GoTo, fileVars, dataVars
<1>1. ASSUME NEW p \in Proc, NEW c \in Command, Start(p, c) PROVE CopiesEnded'
  <2>1. pc'[p] \in {"open", "copy", "openmtd"}
    BY <1>1 DEF Start, Places
  <2>2. \A q \in Proc \ {p} : /\ pc'[q] = pc[q] /\ cmd'[q] = cmd[q]
                              /\ alone'[q] => alone[q]
    BY <1>1 DEF Start, Places
  <2>3. UNCHANGED <<mtd, stg, inode, buf>> /\ (~mixed' => ~mixed)
    BY <1>1 DEF Start
  <2> QED BY <2>1, <2>2, <2>3 DEF CopiesEnded, Parsing
<1>2. ASSUME NEW p \in Proc, Step(p) PROVE CopiesEnded'
  <2> SUFFICES ASSUME ~mixed PROVE CopiesEnded'
    BY <1>2, StepHistory DEF CopiesEnded
  <2> DEFINE Holds(q) ==
        /\ pc[q] \in {"create", "fill"} /\ mtd.ended => buf[q].ended
        /\ pc[q] \in Parsing /\ ~cmd[q].write /\ alone[q] /\ mtd.ended => buf[q].ended
        /\ pc[q] = "flash" /\ stg # None /\ buf[q].ended => inode[stg].ended
  <2>1. \A q \in Proc : Holds(q)
    BY DEF CopiesEnded
  <2>2. ASSUME NEW q \in Proc \ {p} PROVE Holds(q)'
    <3>1. pc'[q] = pc[q] /\ cmd'[q] = cmd[q] /\ buf'[q] = buf[q] /\ alone'[q] = alone[q]
      BY <1>2, OthersKeep, StepHistory
    <3>2. CASE p \in Modifiers
      <4>1. Modifiers = {p}
        BY <3>2, TakeTurns
      <4>2. pc[q] \notin {"create", "fill", "flash"}
        BY <4>1, WhoModifies
      <4>3. ~(pc[q] \in Parsing /\ alone[q])
        BY <4>1 DEF Apart, Parsing
      <4> QED BY <3>1, <4>2, <4>3
    <3>3. CASE p \notin Modifiers
      BY <1>2, <2>1, <3>1, <3>3, ReadersLeaveFiles
    <3> QED BY <3>2, <3>3
  <2>3. Holds(p)'
    <3>1. CASE Copy(p)
      BY <3>1, WriteBuffer DEF Copy, Places, Images, Parsing
    <3>2. CASE Create(p)
      BY <2>1, <3>2 DEF Create, Places, Parsing
    <3>3. CASE Open(p)
      <4>1. CASE cmd[p].write
        BY <3>3, <4>1 DEF Open, Places, Parsing
      <4>2. CASE ~cmd[p].write
        <5> SUFFICES ASSUME alone[p], mtd.ended PROVE buf'[p].ended
          BY <3>3 DEF Open, Places, Parsing
        <5>1. Modifiers \subseteq {p}
          BY <3>3 DEF Open, Apart
        <5>2. buf'[p] = inode[stg]
          <6>1. inode[stg] \in Image /\ Snapshot(stg, p) = inode[stg]
            BY <3>3, <5>1, SnapshotAlone DEF Open, Images, Places
          <6> QED BY <3>3, <4>2, <6>1, WriteBuffer DEF Open
        <5>3. \A r \in Proc : ~Refills(r)
          BY <3>3, <5>1, WhoModifies DEF Refills, Open
        <5> QED BY <3>3, <5>2, <5>3 DEF StagedEnded, Open
      <4> QED BY <4>1, <4>2
    <3>4. CASE OpenMtd(p)
      BY <3>4, WriteBuffer DEF OpenMtd, Places, Images, Parsing
    <3>5. CASE ParseMark(p) \/ ParseTake(p)
      <4>1. pc[p] \in Parsing /\ pc'[p] \in Parsing
        BY <3>5 DEF ParseMark, ParseTake, Places, Parsing
      <4>2. UNCHANGED <<mtd, buf, cmd, alone>>
        BY <3>5 DEF ParseMark, ParseTake
      <4> QED BY <2>1, <4>1, <4>2 DEF Parsing
    <3>6. CASE Save(p)
      <4>1. Modifiers = {p}
        <5>1. p \in Modifiers
          BY <3>6 DEF Save, Modifiers, Modifies, Active
        <5> QED BY <5>1, TakeTurns
      <4>2. stg # None
        BY <3>6 DEF Save, Readable
      <4>3. inode[stg] \in Image /\ Snapshot(stg, p) = inode[stg]
        BY <4>1, <4>2, SnapshotAlone DEF Images, Places
      <4>4. buf'[p] = inode[stg]
        BY <3>6, <4>3, WriteBuffer DEF Save
      <4> QED BY <3>6, <4>4 DEF Save, Places, Parsing
    <3>7. CASE Finish(p)
      <4>1. cmd'[p].write /\ pc'[p] = "parse"
        BY <3>7 DEF Finish, Places, Phases
      <4> QED BY <4>1
    <3>8. CASE \/ Fill(p) \/ OpenFails(p) \/ ParseEnd(p) \/ ParseLost(p) \/ Answer(p)
               \/ Apply(p) \/ WriteTuple(p) \/ Close(p) \/ SaveFails(p) \/ Flash(p)
               \/ Unlink(p)
      <4>1. pc'[p] \notin {"create", "fill", "flash"} \union Parsing
        BY <3>8 DEF Fill, OpenFails, ParseEnd, ParseLost, Stop, Parsed, Answer, Apply,
           WriteTuple, Close, SaveFails, Flash, Unlink, Exit, Exits, Places, Parsing
      <4> QED BY <4>1
    <3> QED BY <1>2, <3>1, <3>2, <3>3, <3>4, <3>5, <3>6, <3>7, <3>8 DEF Step
  <2>4. \A q \in Proc : Holds(q)'
    BY <2>2, <2>3
  <2> QED BY <2>4 DEF CopiesEnded
<1>3. CASE PowerLoss
  BY <1>3 DEF CopiesEnded, PowerLoss, Parsing
<1>4. CASE UNCHANGED vars
  BY <1>4 DEF CopiesEnded, vars
<1> QED BY <1>1, <1>2, <1>3, <1>4 DEF Next


----------------------------------------------------------------------------
(* What a command has, while writing commands take turns                    *)

(* Steps of others that leave the files alone.                              *)
LEMMA LocalSame ==
    ASSUME NEW q \in Proc, Local(q), UNCHANGED <<mtd, inode, stg>>,
           pc'[q] = pc[q], cmd'[q] = cmd[q], ino'[q] = ino[q], buf'[q] = buf[q],
           table'[q] = table[q], pos'[q] = pos[q], alone'[q] => alone[q]
    PROVE  Local(q)'
<1>1. Mapping(q)' = Mapping(q) /\ Visible' = Visible
  BY DEF Mapping, Shares, Visible
<1>2. Copies(q)' /\ Starts(q)' /\ Commits(q)'
  BY DEF Local, Copies, Starts, Commits, EmptyTable
<1>3. Parses(q)' /\ Sees(q)'
  BY <1>1 DEF Local, Parses, Sees
<1>4. Rewrites(q)'
  BY DEF Local, Rewrites
<1> QED BY <1>2, <1>3, <1>4 DEF Local

(* A command that writes leaves those that read with what they have.        *)
LEMMA LocalOthers ==
    ASSUME TurnsInv, ~mixed, NEW p \in Proc, Step(p), NEW q \in Proc \ {p}
    PROVE  Local(q)'
<1> USE DEF TurnsInv, NvramInv
<1>1. /\ pc'[q] = pc[q] /\ cmd'[q] = cmd[q] /\ ino'[q] = ino[q] /\ buf'[q] = buf[q]
      /\ table'[q] = table[q] /\ pos'[q] = pos[q] /\ alone'[q] = alone[q]
  BY OthersKeep
<1>2. Local(q)
  BY DEF Locals
<1>3. CASE p \notin Modifiers
  BY <1>1, <1>2, <1>3, LocalSame, ReadersLeaveFiles
<1>4. CASE p \in Modifiers
  <2>1. Modifiers = {p}
    BY <1>4, TakeTurns
  <2>2. /\ pc[q] \notin {"copy", "create", "fill", "tuples", "flash", "unlink"}
        /\ ~Shares(q)
        /\ pc[q] # "idle" => ~alone[q]
    <3>1. pc[q] = "idle" => ~Shares(q)
      BY DEF Phases, Shares
    <3> QED BY <2>1, <3>1, WhoModifies DEF Apart
  <2>3. Mapping(q) = buf[q] /\ Mapping(q)' = buf[q]
    BY <1>1, <2>2 DEF Mapping, Shares
  <2>4. Copies(q)' /\ Starts(q)' /\ Commits(q)' /\ Rewrites(q)'
    BY <1>1, <1>2, <2>2 DEF Local, Copies, Starts, Commits, Rewrites, EmptyTable
  <2>5. Parses(q)'
    BY <1>1, <1>2, <2>3 DEF Local, Parses
  <2>6. Sees(q)'
    BY <1>1, <2>2 DEF Sees, Parsing
  <2> QED BY <2>4, <2>5, <2>6 DEF Local
<1> QED BY <1>3, <1>4

(* What a parser finds that nobody writes over: it has read all of its      *)
(* image when it ends, and it never changes the file.                       *)
LEMMA ParsedAll ==
    ASSUME TurnsInv, ~mixed, NEW p \in Proc, ParseEnd(p) \/ ParseLost(p)
    PROVE  /\ pc[p] = "parse" /\ inode' = inode
           /\ Parsed(p, stale) \/ (Exit(p) /\ UNCHANGED <<mtd, stg, mixed>>)
           /\ IsMap(FromHeader(table[p], Mapping(p).hdr), MapOf(Mapping(p)))
<1> USE DEF TurnsInv, NvramInv
<1>1. pc[p] \in Parsing /\ Local(p)
  BY DEF ParseEnd, ParseLost, Parsing, Locals
<1>2. Mapping(p).data \in Seq(Tuple) /\ pos[p] \in Nat \ {0} /\ IsLegible(Mapping(p))
  BY <1>1, MappingIsImage, FieldTypes DEF Positions, IsLegible, Local, Parses
<1>3. pos[p] - 1 <= Len(Mapping(p).data)
  BY <1>1 DEF Local, Parses
<1>4. ~Marked(p)
  <2> SUFFICES ASSUME Shares(p) PROVE Marks(ino[p], p) = {}
    BY DEF Marked
  <2>1. Modifiers = {p}
    BY <1>1, WhoModifies, TakeTurns DEF Parsing
  <2> QED BY <2>1, NobodyMarks
<1>5. ~stale[p]
  BY DEF Stages
<1>6. pos[p] > Len(Mapping(p).data)
  BY <1>4, <1>5 DEF ParseEnd, ParseLost
<1>7. pc[p] = "parse"
  BY <1>1, <1>2, <1>6 DEF Local, Parses, Parsing
<1>8. inode' = inode
  BY <1>7 DEF ParseEnd, ParseLost
<1>9. Parsed(p, stale) \/ (Exit(p) /\ UNCHANGED <<mtd, stg, mixed>>)
  BY LostAlone DEF ParseEnd
<1>10. Read(table[p], Mapping(p).data, Len(Mapping(p).data))
  <2>1. pos[p] - 1 = Len(Mapping(p).data)
    BY <1>2, <1>3, <1>6
  <2> QED BY <1>1, <2>1 DEF Local, Parses
<1>11. Proper(table[p])
  BY DEF Tables
<1> QED BY <1>2, <1>7, <1>8, <1>9, <1>10, <1>11, ReadAll

(* One more of the new tuples.                                              *)
LEMMA RewritesNext ==
    ASSUME NEW all \in Seq(Tuple), NEW m \in 1 .. Len(all)
    PROVE  Put(SubSeq(all, 1, m - 1), m, all[m]) = SubSeq(all, 1, m)
<1> DEFINE ts == SubSeq(all, 1, m - 1)
           us == SubSeq(all, 1, m)
           new == Put(ts, m, all[m])
<1>1. m - 1 \in 0 .. Len(all) /\ m \in 0 .. Len(all) /\ m \in Nat \ {0} /\ all[m] \in Tuple
  OBVIOUS
<1>2. ts \in Seq(Tuple) /\ Len(ts) = m - 1 /\ \A k \in 1 .. m - 1 : ts[k] = all[k]
  BY <1>1, Prefix
<1>3. us \in Seq(Tuple) /\ Len(us) = m /\ \A k \in 1 .. m : us[k] = all[k]
  BY <1>1, Prefix
<1> HIDE DEF ts, us
<1>4. new \in Seq(Tuple) /\ Len(new) = m /\ new[m] = all[m] /\ \A k \in 1 .. m - 1 : new[k] = ts[k]
  <2>1. m = Len(ts) + 1 /\ Len(ts) = m - 1
    BY <1>2
  <2>2. PICK u \in Tuple : u = all[m]
    BY <1>1
  <2>3. /\ Put(ts, m, u) \in Seq(Tuple) /\ Len(Put(ts, m, u)) = m /\ Put(ts, m, u)[m] = u
        /\ \A k \in 1 .. Len(ts) : Put(ts, m, u)[k] = ts[k]
    BY <1>1, <1>2, <2>1, PutIs
  <2> QED BY <2>1, <2>2, <2>3
<1> HIDE DEF new
<1>5. \A k \in 1 .. m : new[k] = us[k]
  BY <1>2, <1>3, <1>4
<1>6. new = us
  BY <1>3, <1>4, <1>5
<1> QED BY <1>6 DEF new, ts, us

LEMMA LocalExit ==
    ASSUME NvramInv, NEW p \in Proc, Exit(p) PROVE Local(p)'
<1>1. pc'[p] = "idle" /\ pos'[p] = 1 /\ table'[p] = EmptyTable
  BY DEF NvramInv, Places, Positions, Tables, Exit, Exits
<1> QED BY <1>1 DEF Local, Copies, Starts, Parses, Sees, Rewrites, Commits, Parsing, EmptyTable

(* The image a command has just begun to parse.                             *)
LEMMA LocalOpened ==
    ASSUME NEW p \in Proc, pc'[p] = "parse", pos'[p] = 1, table'[p] = EmptyTable,
           NEW img \in Image, Mapping(p)' = img, img.magic, Sees(p)'
    PROVE  Local(p)'
<1>1. img.data \in Seq(Tuple)
  BY FieldTypes
<1>2. Parses(p)'
  <2>1. Read(EmptyTable, img.data, 0)
    BY ReadNone
  <2>2. pos'[p] - 1 = 0 /\ 0 <= Len(img.data)
    BY <1>1
  <2> QED BY <2>1, <2>2 DEF Parses
<1> QED BY <1>2 DEF Local, Copies, Starts, Rewrites, Commits, Parsing

LEMMA LocalStep ==
    ASSUME TurnsInv, ~mixed, NEW p \in Proc, Step(p)
    PROVE  Local(p)'
<1> USE DEF TurnsInv, NvramInv, GoTo, fileVars, dataVars
<1>1. Local(p)
  BY DEF Locals
<1>2. CASE Copy(p)
  BY <1>1, <1>2 DEF Copy, Places, Images, Local, Copies, Starts, Parses, Sees, Rewrites,
     Commits, Parsing, EmptyTable
<1>3. CASE Create(p)
  BY <1>1, <1>3 DEF Create, Places, Local, Copies, Starts, Parses, Sees, Rewrites,
     Commits, Parsing, EmptyTable
<1>4. CASE Fill(p)
  BY <1>1, <1>4 DEF Fill, Places, Local, Copies, Starts, Parses, Sees, Rewrites,
     Commits, Parsing, EmptyTable
<1>5. CASE Open(p)
  <2>1. pc'[p] = "parse" /\ pos'[p] = 1 /\ table'[p] = EmptyTable /\ stg \in File
    BY <1>1, <1>5 DEF Open, Places, Local, Starts, Parsing
  <2>2. inode[stg] \in Image /\ inode[stg].magic
    BY <1>5, <2>1 DEF Open, Images, Acceptable
  <2>3. CASE cmd[p].write
    <3>1. ino'[p] = stg /\ stg # None /\ inode' = inode /\ cmd'[p].write
      BY <1>5, <2>3 DEF Open, Places
    <3>2. Mapping(p)' = inode[stg] /\ Sees(p)'
      BY <3>1 DEF Mapping, Shares, Sees
    <3> QED BY <2>1, <2>2, <3>2, LocalOpened
  <2>4. CASE ~cmd[p].write
    <3>1. ino'[p] = None /\ buf'[p] = Snapshot(stg, p)
      BY <1>5, <2>4 DEF Open, Phases, Images
    <3>2. Snapshot(stg, p) \in Image /\ Snapshot(stg, p).magic
      BY <2>1, <2>2, SnapshotIsImage
    <3>3. Mapping(p)' = Snapshot(stg, p)
      BY <3>1 DEF Mapping, Shares
    <3>4. Sees(p)'
      <4> SUFFICES ASSUME alone[p] PROVE buf'[p] = Visible'
        BY <1>5 DEF Sees, Open
      <4>1. Modifiers \subseteq {p} /\ stg # None
        BY <1>5 DEF Open, Apart
      <4>2. Snapshot(stg, p) = inode[stg]
        BY <4>1, SnapshotAlone
      <4> QED BY <1>5, <3>1, <4>1, <4>2 DEF Visible, Open
    <3> QED BY <2>1, <3>2, <3>3, <3>4, LocalOpened
  <2> QED BY <2>3, <2>4
<1>6. CASE OpenMtd(p)
  <2>1. pc'[p] = "parse" /\ pos'[p] = 1 /\ table'[p] = EmptyTable /\ ino'[p] = None
    BY <1>1, <1>6 DEF OpenMtd, Places, Local, Starts, Parsing, Phases
  <2>2. mtd \in Image /\ mtd.magic /\ buf'[p] = mtd
    BY <1>6 DEF OpenMtd, Images, Acceptable
  <2>3. Mapping(p)' = mtd
    BY <2>1, <2>2 DEF Mapping, Shares
  <2>4. Sees(p)'
    BY <1>6, <2>2 DEF Sees, OpenMtd, Apart, Visible
  <2> QED BY <2>1, <2>2, <2>3, <2>4, LocalOpened
<1>7. CASE OpenFails(p) \/ Close(p) \/ SaveFails(p) \/ Unlink(p)
  BY <1>7, LocalExit DEF OpenFails, Close, SaveFails, Unlink
<1>8. CASE ParseMark(p)
  <2>1. pc[p] = "parse" /\ pc'[p] = "marked" /\ pos[p] <= Len(Mapping(p).data)
    BY <1>8 DEF ParseMark, Places
  <2>2. UNCHANGED <<fileVars, cmd, ino, buf, table, pos, alone>>
    BY <1>8 DEF ParseMark
  <2>3. Mapping(p)' = Mapping(p) /\ Visible' = Visible
    BY <2>2 DEF Mapping, Shares, Visible
  <2> QED BY <1>1, <2>1, <2>2, <2>3 DEF Local, Copies, Starts, Parses, Sees, Rewrites,
             Commits, Parsing
<1>9. CASE ParseTake(p)
  <2>1. pc[p] = "marked" /\ pc'[p] = "parse" /\ pos[p] <= Len(Mapping(p).data)
    BY <1>9 DEF ParseTake, Places
  <2>2. UNCHANGED <<fileVars, cmd, ino, buf, alone>>
    BY <1>9 DEF ParseTake
  <2>3. Mapping(p)' = Mapping(p) /\ Visible' = Visible
    BY <2>2 DEF Mapping, Shares, Visible
  <2> DEFINE ts == Mapping(p).data
             m == pos[p]
  <2>4. ts \in Seq(Tuple) /\ m \in 1 .. Len(ts)
    BY <2>1, MappingIsImage, FieldTypes DEF Positions
  <2>5. pos'[p] = m + 1 /\ table'[p] = Set(table[p], ts[m].name, ts[m].value)
    BY <1>9, TakenIsTuple DEF ParseTake, Positions, Tables
  <2>6. Proper(table[p]) /\ Read(table[p], ts, m - 1)
    BY <1>1, <2>1 DEF Tables, Local, Parses, Parsing
  <2>7. Read(table'[p], ts, m)
    BY <2>4, <2>5, <2>6, ReadNext
  <2>8. pos'[p] - 1 = m /\ m <= Len(ts)
    BY <2>4, <2>5
  <2>9. Parses(p)'
    BY <1>1, <2>1, <2>3, <2>7, <2>8 DEF Local, Parses, Parsing
  <2> QED BY <1>1, <2>1, <2>2, <2>3, <2>9 DEF Local, Copies, Starts, Sees, Rewrites,
             Commits, Parsing
<1>10. CASE ParseEnd(p) \/ ParseLost(p)
  <2>1. /\ pc[p] = "parse" /\ inode' = inode
        /\ Parsed(p, stale) \/ Exit(p)
        /\ IsMap(FromHeader(table[p], Mapping(p).hdr), MapOf(Mapping(p)))
    BY <1>10, ParsedAll
  <2>2. CASE Parsed(p, stale)
    <3>1. /\ pc'[p] = IF wrote[p] THEN "save" ELSE "apply"
          /\ ~wrote[p] => table'[p] = FromHeader(table[p], Mapping(p).hdr)
          /\ pos'[p] = 1
      BY <2>2 DEF Parsed, Places, Positions, Tables
    <3>2. UNCHANGED <<mtd, inode, stg, cmd, ino, buf, alone>>
      BY <2>1, <2>2 DEF Parsed
    <3>3. Mapping(p)' = Mapping(p) /\ Visible' = Visible
      BY <3>2 DEF Mapping, Shares, Visible
    <3>4. Parses(p)' /\ Sees(p)'
      BY <1>1, <2>1, <3>1, <3>2, <3>3 DEF Local, Parses, Sees, Parsing
    <3> QED BY <3>1, <3>4 DEF Local, Copies, Starts, Rewrites, Commits, Parsing
  <2> QED BY <2>1, <2>2, LocalExit
<1>11. CASE Answer(p)
  BY <1>1, <1>11 DEF Answer, Places, Local, Copies, Starts, Parses, Sees, Rewrites,
     Commits, Parsing
<1>12. CASE Apply(p)
  <2>1. ino[p] = stg /\ stg # None /\ stg' = stg
    BY <1>12 DEF Apply, Stages, Mapped
  <2>2. inode'[stg].magic /\ inode'[stg].data = <<>> /\ inode'[stg].hdr = Header(table'[p])
    BY <1>12, <2>1, ApplyWrites
  <2>3. pc'[p] = "tuples" /\ pos'[p] = 1
    BY <1>1, <1>12 DEF Apply, Places, Local, Starts, Parsing
  <2>4. Fitting(table'[p]) \in Seq(Tuple)
    BY <1>12, ApplyWrites, AppliedIsTable, FittingIs DEF Phases, Apply, Mapped
  <2>5. SubSeq(Fitting(table'[p]), 1, 0) = <<>> /\ 0 <= Len(Fitting(table'[p]))
    BY <2>4
  <2>6. Rewrites(p)'
    BY <2>1, <2>2, <2>3, <2>5 DEF Rewrites
  <2> QED BY <2>3, <2>6 DEF Local, Copies, Starts, Parses, Sees, Commits, Parsing
<1>13. CASE WriteTuple(p)
  <2> DEFINE all == Fitting(table[p])
             m == pos[p]
  <2>1. ino[p] = stg /\ stg # None /\ stg' = stg /\ pc[p] = "tuples"
    BY <1>13 DEF WriteTuple, Stages, Phases, Mapped, Rewriting
  <2>2. all \in Seq(Tuple) /\ m \in 1 .. Len(all)
    BY <1>13, FittingIs DEF Tables, Positions, WriteTuple
  <2>3. /\ inode[stg].magic /\ inode[stg].hdr = Header(table[p])
        /\ inode[stg].data = SubSeq(all, 1, m - 1)
    BY <1>1, <2>1 DEF Local, Rewrites
  <2>4. /\ inode'[stg].magic = inode[stg].magic /\ inode'[stg].hdr = inode[stg].hdr
        /\ inode'[stg].data = Put(inode[stg].data, m, all[m])
    BY <1>13, <2>1, TupleWrites
  <2>5. inode'[stg].data = SubSeq(all, 1, m)
    BY <2>2, <2>3, <2>4, RewritesNext
  <2>6. pc'[p] = "tuples" /\ table' = table /\ pos'[p] = m + 1
    BY <1>13, <2>1 DEF WriteTuple, Positions
  <2>7. pos'[p] - 1 = m /\ m <= Len(all)
    BY <2>2, <2>6
  <2>8. Rewrites(p)'
    BY <2>1, <2>3, <2>4, <2>5, <2>6, <2>7 DEF Rewrites
  <2> QED BY <2>6, <2>8 DEF Local, Copies, Starts, Parses, Sees, Commits, Parsing
<1>14. CASE Finish(p)
  <2>1. /\ ino[p] = stg /\ stg # None /\ stg' = stg /\ pc[p] = "tuples" /\ ino' = ino
        /\ cmd'[p].write /\ stg \in File
    BY <1>14 DEF Finish, Stages, Phases, Mapped, Rewriting, Places
  <2>2. inode'[stg].magic = inode[stg].magic /\ inode'[stg] \in Image
    BY <1>14, <2>1, FinishWrites DEF Writes
  <2>3. inode'[stg].magic
    BY <1>1, <2>1, <2>2 DEF Local, Rewrites
  <2>4. pc'[p] = "parse" /\ pos'[p] = 1 /\ table'[p] = EmptyTable
    BY <1>14 DEF Finish, Places, Positions, Tables
  <2>5. Mapping(p)' = inode'[stg]
    BY <2>1 DEF Mapping, Shares
  <2>6. Sees(p)'
    BY <2>1 DEF Sees
  <2> QED BY <2>2, <2>3, <2>4, <2>5, <2>6, LocalOpened
<1>15. CASE Save(p)
  <2>1. Modifiers = {p}
    <3>1. p \in Modifiers
      BY <1>15 DEF Save, Modifiers, Modifies, Active
    <3> QED BY <3>1, TakeTurns
  <2>2. stg # None /\ Snapshot(stg, p) = inode[stg]
    BY <1>15, <2>1, SnapshotAlone DEF Save, Readable
  <2>3. /\ pc'[p] = "flash" /\ buf'[p] = inode[stg] /\ stg' = stg /\ inode' = inode
        /\ pos'[p] = 1
    BY <1>1, <1>15, <2>2 DEF Save, Places, Images, Local, Starts, Parsing
  <2> QED BY <2>2, <2>3 DEF Local, Copies, Starts, Parses, Sees, Rewrites, Commits, Parsing
<1>16. CASE Flash(p)
  BY <1>1, <1>16 DEF Flash, Places, Local, Copies, Starts, Parses, Sees, Rewrites, Commits,
     Parsing
<1> QED
  BY <1>2, <1>3, <1>4, <1>5, <1>6, <1>7, <1>8, <1>9, <1>10, <1>11, <1>12, <1>13, <1>14,
     <1>15, <1>16 DEF Step

LEMMA LocalsNext == ASSUME TurnsInv, [Next]_vars PROVE Locals'
<1> USE DEF TurnsInv, NvramInv, GoTo, fileVars, dataVars
<1>1. ASSUME NEW p \in Proc, NEW c \in Command, Start(p, c) PROVE Locals'
  <2> SUFFICES ASSUME ~mixed, NEW q \in Proc PROVE Local(q)'
    BY <1>1 DEF Locals, Start
  <2>1. Local(q) /\ Local(p)
    BY DEF Locals
  <2>2. CASE q = p
    <3>1. /\ pc[p] = "idle"
          /\ pc'[p] = (IF stg # None THEN "open" ELSE IF c.write THEN "copy" ELSE "openmtd")
          /\ UNCHANGED <<stg, pos, table>>
      BY <1>1 DEF Start, Places
    <3> QED BY <2>1, <2>2, <3>1 DEF Local, Copies, Starts, Parses, Sees, Rewrites, Commits,
               Parsing, EmptyTable
  <2>3. CASE q # p
    <3>1. pc'[q] = pc[q] /\ cmd'[q] = cmd[q] /\ (alone'[q] => alone[q])
      BY <1>1, <2>3 DEF Start, Places
    <3> QED BY <1>1, <2>1, <3>1, LocalSame DEF Start
  <2> QED BY <2>2, <2>3
<1>2. ASSUME NEW p \in Proc, Step(p) PROVE Locals'
  BY <1>2, StepHistory, LocalStep, LocalOthers DEF Locals
<1>3. CASE PowerLoss
  <2> SUFFICES ASSUME NEW q \in Proc PROVE Local(q)'
    BY DEF Locals
  <2>1. pc'[q] = "idle" /\ pos'[q] = 1 /\ table'[q] = EmptyTable
    BY <1>3 DEF PowerLoss
  <2> QED BY <2>1 DEF Local, Copies, Starts, Parses, Sees, Rewrites, Commits, Parsing,
             EmptyTable
<1>4. CASE UNCHANGED vars
  <2> SUFFICES ASSUME ~mixed, NEW q \in Proc PROVE Local(q)'
    BY <1>4 DEF Locals, vars
  <2>1. Local(q)
    BY <1>4 DEF Locals, vars
  <2> QED BY <1>4, <2>1, LocalSame DEF vars
<1> QED BY <1>1, <1>2, <1>3, <1>4 DEF Next

----------------------------------------------------------------------------
(* Images that agree with their headers                                     *)

(* Every table is the table of a map.                                       *)
LEMMA TableIsMap ==
    ASSUME NEW tb, Proper(tb)
    PROVE  IsMap(tb, [n \in {m \in Name : Has(tb, m)} |-> Get(tb, n)])
<1> DEFINE f == [n \in {m \in Name : Has(tb, m)} |-> Get(tb, n)]
<1>1. ASSUME NEW t \in Content(tb)
      PROVE  t.name \in DOMAIN f /\ t = [name |-> t.name, value |-> f[t.name]]
  <2>1. t.name \in Name /\ t = [name |-> t.name, value |-> t.value]
    BY DEF Content, Tuple
  <2>2. Has(tb, t.name) /\ Get(tb, t.name) = t.value
    BY ContentIs
  <2>3. t.name \in DOMAIN f /\ f[t.name] = t.value
    BY <2>1, <2>2
  <2> QED BY <2>1, <2>3
<1>2. ASSUME NEW n \in DOMAIN f PROVE [name |-> n, value |-> f[n]] \in Content(tb)
  BY ContentIs
<1> HIDE DEF f
<1>3. IsMap(tb, f)
  BY <1>1, <1>2 DEF IsMap
<1> QED BY <1>3 DEF f

LEMMA SoundSame ==
    ASSUME NEW img, Sound(img), NEW new, new.hdr = img.hdr, new.data = img.data
    PROVE  Sound(new)
BY DEF Sound, Agrees

LEMMA SoundNone == ASSUME NEW img, img.data = <<>> PROVE Sound(img)
<1>1. ToSet(<<>>) = {} /\ Distinct(<<>>)
  BY DEF ToSet, Distinct
<1> QED BY <1>1 DEF Sound, Agrees

(* What nvram_commit has written of an image at any moment.                 *)
LEMMA SoundRewritten ==
    ASSUME NEW tb, Proper(tb), NEW img, img.magic, img.hdr = Header(tb),
           NEW m \in 0 .. Len(Fitting(tb)), img.data = SubSeq(Fitting(tb), 1, m)
    PROVE  Sound(img)
<1> DEFINE all == [magic |-> TRUE, hdr |-> Header(tb), data |-> Fitting(tb)]
<1>1. all.magic /\ all.hdr = Header(tb) /\ all.data = Fitting(tb)
  OBVIOUS
<1> HIDE DEF all
<1>2. IsLegible(all) /\ Distinct(all.data) /\ Agrees(all)
  BY <1>1, TableIsMap, RewrittenIs
<1>3. img.hdr = all.hdr /\ m \in 0 .. Len(all.data) /\ img.data = SubSeq(all.data, 1, m)
  BY <1>1
<1> QED BY <1>2, <1>3, CutIs DEF Sound

LEMMA SoundsNext == ASSUME TurnsInv, [Next]_vars PROVE Sounds'
<1> USE DEF TurnsInv, NvramInv, fileVars
<1>1. ASSUME UNCHANGED <<mtd, inode, stg>>, mixed' = mixed PROVE Sounds'
  BY <1>1 DEF Sounds
<1>2. ASSUME NEW p \in Proc, NEW c \in Command, Start(p, c) PROVE Sounds'
  BY <1>2 DEF Start, Sounds
<1>3. ASSUME NEW p \in Proc, Step(p) PROVE Sounds'
  <2> SUFFICES ASSUME ~mixed PROVE Sounds'
    BY <1>3, StepHistory DEF Sounds
  <2>1. mixed' = mixed /\ Local(p)
    BY <1>3, StepHistory DEF Locals
  <2>2. CASE Create(p)
    <3>1. stg = None /\ mtd' = mtd
      BY <2>1, <2>2 DEF Create, Local, Copies
    <3>2. inode'[stg'].data = <<>>
      BY <2>2, <3>1, CreateWrites, NoImageIsImage
    <3> QED BY <3>1, <3>2, SoundNone DEF Sounds
  <2>3. CASE Fill(p)
    <3>1. ino[p] = stg /\ stg # None /\ UNCHANGED <<mtd, stg>>
      BY <2>3 DEF Fill, Phases, Stages, Mapped
    <3>2. inode'[stg] = mtd
      BY <2>1, <2>3, <3>1, FillWrites DEF Fill, Local, Copies
    <3> QED BY <3>1, <3>2 DEF Sounds
  <2>4. CASE Apply(p)
    <3>1. ino[p] = stg /\ stg # None /\ UNCHANGED <<mtd, stg>>
      BY <2>4 DEF Apply, Stages, Mapped
    <3>2. inode'[stg].data = <<>>
      BY <2>4, <3>1, ApplyWrites
    <3> QED BY <3>1, <3>2, SoundNone DEF Sounds
  <2>5. CASE WriteTuple(p)
    <3> DEFINE m == pos[p]
    <3>1. /\ ino[p] = stg /\ stg # None /\ UNCHANGED <<mtd, stg>> /\ pc[p] = "tuples"
          /\ Proper(table[p])
      BY <2>5 DEF WriteTuple, Stages, Phases, Mapped, Rewriting, Tables
    <3>2. Fitting(table[p]) \in Seq(Tuple) /\ m \in 1 .. Len(Fitting(table[p]))
      BY <2>5, <3>1, FittingIs DEF Positions, WriteTuple
    <3>3. /\ inode[stg].magic /\ inode[stg].hdr = Header(table[p])
          /\ inode[stg].data = SubSeq(Fitting(table[p]), 1, m - 1)
      BY <2>1, <3>1 DEF Local, Rewrites
    <3>4. /\ inode'[stg].magic = inode[stg].magic /\ inode'[stg].hdr = inode[stg].hdr
          /\ inode'[stg].data = Put(inode[stg].data, m, Fitting(table[p])[m])
      BY <2>5, <3>1, TupleWrites
    <3>5. inode'[stg].data = SubSeq(Fitting(table[p]), 1, m)
      BY <3>2, <3>3, <3>4, RewritesNext
    <3>6. m \in 0 .. Len(Fitting(table[p]))
      BY <3>2
    <3>7. Sound(inode'[stg])
      BY <3>1, <3>3, <3>4, <3>5, <3>6, SoundRewritten
    <3> QED BY <3>1, <3>7 DEF Sounds
  <2>6. CASE Finish(p)
    <3>1. ino[p] = stg /\ stg # None /\ UNCHANGED <<mtd, stg>>
      BY <2>6 DEF Finish, Stages, Phases, Mapped, Rewriting
    <3>2. inode'[stg].hdr = inode[stg].hdr /\ inode'[stg].data = inode[stg].data
      BY <2>6, <3>1, FinishWrites
    <3> QED BY <3>1, <3>2, SoundSame DEF Sounds
  <2>7. CASE Flash(p)
    BY <2>1, <2>7 DEF Flash, Sounds, Local, Commits
  <2>8. CASE Unlink(p)
    BY <2>8 DEF Unlink, Sounds
  <2>9. CASE ParseEnd(p) \/ ParseLost(p)
    BY <1>1, <2>1, <2>9, ParsedAll DEF Parsed
  <2>10. CASE \/ Copy(p) \/ Open(p) \/ OpenMtd(p) \/ OpenFails(p) \/ ParseMark(p)
              \/ ParseTake(p) \/ Answer(p) \/ Close(p) \/ Save(p) \/ SaveFails(p)
    BY <1>1, <2>1, <2>10 DEF Copy, Open, OpenMtd, OpenFails, ParseMark, ParseTake, Answer,
       Close, Save, SaveFails
  <2> QED
    BY <1>3, <2>2, <2>3, <2>4, <2>5, <2>6, <2>7, <2>8, <2>9, <2>10 DEF Step
<1>4. CASE PowerLoss
  <2> SUFFICES ASSUME ~mixed PROVE Sound(mtd')
    BY <1>4 DEF PowerLoss, Sounds
  <2>1. ASSUME NEW q \in Proc, pc[q] = "flash", mtd' \in Torn(buf[q]) PROVE Sound(mtd')
    <3>1. Sound(buf[q]) /\ buf[q].magic /\ buf[q] \in Image
      BY <2>1 DEF Locals, Local, Commits, Sounds, SavesImage, Images
    <3>2. IsLegible(buf[q])
      BY <3>1, FieldTypes DEF IsLegible
    <3>3. CASE mtd' = NoImage
      BY <3>3, NoImageIsImage, SoundNone
    <3>4. CASE \E k \in 0 .. Len(buf[q].data) :
                  /\ mtd'.magic = buf[q].magic /\ mtd'.hdr = buf[q].hdr
                  /\ mtd'.data = SubSeq(buf[q].data, 1, k)
      BY <3>1, <3>2, <3>4, CutIs DEF Sound
    <3> QED BY <2>1, <3>1, <3>3, <3>4, TornIs
  <2> QED BY <1>4, <2>1 DEF PowerLoss, Sounds
<1>5. CASE UNCHANGED vars
  BY <1>1, <1>5 DEF vars
<1> QED BY <1>2, <1>3, <1>4, <1>5 DEF Next

----------------------------------------------------------------------------
(* The staged image, from the moment a command decides what it will be      *)

StagedAs ==
    /\ stg = None => Staged = mtd
    /\ \A p \in Proc : pc[p] = "fill" => Staged = mtd
    /\ \A p \in Proc : pc[p] = "tuples" =>
          Staged = [inode[stg] EXCEPT !.data = Fitting(table[p])]
    /\ stg # None /\ (\A p \in Proc : pc[p] \notin {"fill", "tuples"}) => Staged = inode[stg]

LEMMA StagedIs == TurnsInv /\ ~mixed => StagedAs
<1> SUFFICES ASSUME TurnsInv, ~mixed PROVE StagedAs
  OBVIOUS
<1> USE DEF TurnsInv, NvramInv
<1>1. ASSUME NEW p \in Proc, pc[p] = "fill" PROVE Staged = mtd
  <2>1. p \in Filler /\ stg # None
    BY <1>1 DEF Filler, Phases, Stages, Mapped
  <2>2. \A q \in Filler : buf[q] = mtd
    BY DEF Filler, Locals, Local, Copies
  <2> QED BY <2>1, <2>2 DEF Staged
<1>2. ASSUME NEW p \in Proc, pc[p] = "tuples"
      PROVE  Staged = [inode[stg] EXCEPT !.data = Fitting(table[p])]
  <2>1. p \in Rewriter /\ stg # None
    BY <1>2 DEF Rewriter, Phases, Stages, Mapped, Rewriting
  <2>2. Modifiers = {p}
    BY <1>2, WhoModifies, TakeTurns
  <2>3. Filler = {}
    BY <1>2, <2>2, WhoModifies DEF Filler
  <2>4. \A q \in Rewriter : q = p
    BY <2>2, WhoModifies DEF Rewriter
  <2>5. (CHOOSE q \in Rewriter : TRUE) = p
    BY <2>1, <2>4
  <2> QED BY <2>1, <2>3, <2>5 DEF Staged
<1>3. ASSUME stg # None, \A p \in Proc : pc[p] \notin {"fill", "tuples"}
      PROVE  Staged = inode[stg]
  BY <1>3 DEF Staged, Filler, Rewriter
<1> QED BY <1>1, <1>2, <1>3 DEF StagedAs, Staged

----------------------------------------------------------------------------
(* The theorems                                                             *)

(* What the next theorems rest on: how places, files, buffers and history    *)
(* hang together, however many commands run.                                *)
THEOREM NvramInvariant == Spec => []NvramInv
<1>1. Init => NvramInv
  <2> SUFFICES ASSUME Init PROVE NvramInv
    OBVIOUS
  <2>1. Images /\ Places /\ Positions /\ Tables /\ Phases
    BY ImagesInit, PlacesInit, PositionsInit, TablesInit, PhasesInit
  <2>2. SavesImage /\ StagedEnded /\ CopiesEnded
    BY DEF Init, SavesImage, StagedEnded, CopiesEnded, Parsing
  <2>3. Apart /\ Stages
    BY DEF Init, Apart, Stages, Modifiers, Active, Parsing, Rewriting, NoCommand
  <2> QED BY <2>1, <2>2, <2>3 DEF NvramInv
<1>2. NvramInv /\ [Next]_vars => NvramInv'
  BY ImagesNext, PlacesNext, PositionsNext, TablesNext, PhasesNext, SavesImageNext, ApartNext,
     StagesNext, StagedEndedNext, CopiesEndedNext DEF NvramInv
<1> QED BY <1>1, <1>2, PTL DEF Spec

(* However commands overlap, and however many they are, what a commit       *)
(* writes to flash is an image: only power loss can take it away.           *)
THEOREM FlashIsAlwaysImage == Spec => FlashStaysImage
<1>1. NvramInv /\ [Next]_vars => [mtd.magic => mtd'.magic \/ PowerLoss]_vars
  <2> SUFFICES ASSUME NvramInv, Next, mtd.magic, ~PowerLoss PROVE mtd'.magic
    BY Zenon
  <2>1. ASSUME NEW p \in Proc, NEW c \in Command, Start(p, c) PROVE mtd'.magic
    BY <2>1 DEF Start, fileVars
  <2>2. ASSUME NEW p \in Proc, Step(p) PROVE mtd'.magic
    <3>1. CASE Flash(p)
      BY <3>1 DEF Flash, NvramInv, SavesImage
    <3>2. CASE ~Flash(p)
      <4>1. mtd' = mtd
        BY <2>2, <3>2 DEF Step, Copy, Create, Fill, Open, OpenMtd, OpenFails, ParseMark,
           ParseTake, ParseEnd, ParseLost, Stop, Parsed, Answer, Apply, WriteTuple, Finish, Close,
           Save, SaveFails, Unlink, fileVars
      <4> QED BY <4>1
    <3> QED BY <3>1, <3>2
  <2> QED BY <2>1, <2>2 DEF Next
<1> QED BY <1>1, NvramInvariant, PTL DEF Spec, FlashStaysImage

(* A command that no writing command overlapped fails only where there is   *)
(* no image, no room or nothing to commit, and is crashed only by an image  *)
(* that power loss has torn in flash: whatever readers run beside it, and   *)
(* whatever ran before.                                                     *)
THEOREM FailuresAlwaysTell == Spec => FailuresTell
<1> DEFINE Tells(p) ==
      /\ Fails(p) /\ Visible.magic /\ Visible.len < Area => stg = None /\ ~cmd[p].write
      /\ Crashes(p) => ~mtd.ended
<1>1. ASSUME NvramInv, NEW p \in Proc, alone[p], ~mixed PROVE Tells(p)
  <2> USE <1>1 DEF NvramInv
  <2>1. ASSUME OpenFails(p), Visible.magic, Visible.len < Area
        PROVE  stg = None /\ ~cmd[p].write
    <3>1. CASE pc[p] = "open"
      <4>1. CASE stg = None
        BY <3>1, <4>1 DEF Stages
      <4>2. CASE stg # None
        BY <2>1, <3>1, <4>2 DEF OpenFails, Acceptable, Visible
      <4> QED BY <4>1, <4>2
    <3>2. CASE pc[p] = "openmtd"
      <4>1. stg = None /\ ~cmd[p].write
        BY <3>2 DEF Apart, Phases
      <4> QED BY <4>1
    <3> QED BY <2>1, <3>1, <3>2 DEF OpenFails
  <2>2. ASSUME SaveFails(p), Visible.magic PROVE stg = None /\ ~cmd[p].write
    <3>1. stg = None
      BY <2>2 DEF SaveFails, Readable, Visible
    <3> QED BY <2>2, <3>1 DEF SaveFails, Stages
  <2>3. ASSUME Unlink(p), stg = None PROVE ~cmd[p].write
    BY <2>3 DEF Unlink, Stages
  <2>4. ASSUME Crashes(p) PROVE ~mtd.ended
    <3>1. pc[p] \in Parsing /\ ParseLost(p)
      BY <2>4 DEF Crashes, ParseLost
    <3>2. ~stale[p]
      BY DEF Stages
    <3>3. ~Mapping(p).ended
      BY <3>1, <3>2 DEF ParseLost
    <3>4. CASE cmd[p].write
      <4>1. ino[p] = stg /\ stg # None
        BY <3>1, <3>4 DEF Stages, Mapped, Parsing
      <4>2. ~inode[stg].ended
        BY <3>3, <4>1 DEF Mapping, Shares
      <4>3. Modifiers = {p}
        BY <3>1, <3>4, WhoModifies, TakeTurns DEF Parsing
      <4>4. \A q \in Proc : ~Refills(q)
        BY <3>1, <4>3, WhoModifies DEF Refills, Parsing
      <4> QED BY <4>1, <4>2, <4>4 DEF StagedEnded
    <3>5. CASE ~cmd[p].write
      <4>1. ~buf[p].ended
        BY <3>3, <3>5 DEF Mapping, Shares, Phases
      <4> QED BY <3>1, <3>5, <4>1 DEF CopiesEnded
    <3> QED BY <3>4, <3>5
  <2> QED BY <2>1, <2>2, <2>3, <2>4 DEF Fails
<1>2. NvramInv /\ [Next]_vars =>
        [\A p \in Proc : alone[p] /\ ~mixed => Tells(p)]_vars
  BY <1>1
<1> QED BY <1>2, NvramInvariant, PTL DEF Spec, FailuresTell

(* What the rest needs: while writing commands take turns, each has what    *)
(* its steps so far should have made.                                       *)
THEOREM NvramTurns == Spec => []TurnsInv
<1>1. Init => Sounds /\ Locals
  <2> SUFFICES ASSUME Init PROVE Sounds /\ Locals
    OBVIOUS
  <2>1. Sounds
    BY FactoryAssumption DEF Init, Sounds, Sound
  <2>2. Locals
    BY DEF Init, Locals, Local, Copies, Starts, Parses, Sees, Rewrites, Commits, Parsing
  <2> QED BY <2>1, <2>2
<1>2. Sounds /\ Locals /\ NvramInv /\ [Next]_vars => Sounds' /\ Locals'
  BY SoundsNext, LocalsNext DEF TurnsInv
<1> QED BY <1>1, <1>2, NvramInvariant, PTL DEF Spec, TurnsInv

(* The files, copies and tables of all commands have the types they should, *)
(* whatever other commands write under them.                                *)
THEOREM TypesAreRight == Spec => []TypeOK
<1>1. NvramInv => TypeOK
  BY DEF NvramInv, Images, Places, Positions, Tables, TypeOK
<1> QED BY <1>1, NvramInvariant, PTL

(* While writing commands take turns, an image that has all the SDRAM       *)
(* variables as tuples, in flash or staged, has their values in its header, *)
(* also after power loss.                                                   *)
THEOREM HeaderAlwaysAgrees == Spec => []HeaderAgrees
<1>1. TurnsInv => HeaderAgrees
  <2> SUFFICES ASSUME TurnsInv, ~mixed PROVE Agrees(mtd) /\ Agrees(Staged)
    BY DEF HeaderAgrees
  <2> USE DEF TurnsInv, NvramInv
  <2>1. Agrees(mtd) /\ (stg # None => Agrees(inode[stg]))
    BY DEF Sounds, Sound
  <2>2. StagedAs
    BY StagedIs
  <2>3. ASSUME NEW p \in Proc, pc[p] = "tuples" PROVE Agrees(Staged)
    <3>1. stg \in File /\ inode[stg].magic /\ inode[stg].hdr = Header(table[p])
      BY <2>3 DEF Locals, Local, Rewrites, Places, Stages, Phases, Mapped, Rewriting
    <3>2. Proper(table[p]) /\ inode[stg] \in Image
      BY <3>1 DEF Tables, Images
    <3>3. PICK ts \in Seq(Tuple) : ts = Fitting(table[p])
      BY <3>2, FittingIs
    <3>4. Staged = [inode[stg] EXCEPT !.data = ts]
      BY <2>2, <2>3, <3>3 DEF StagedAs
    <3>5. Staged.magic /\ Staged.hdr = Header(table[p]) /\ Staged.data = Fitting(table[p])
      BY <3>1, <3>2, <3>3, <3>4, EditImage
    <3> QED BY <3>2, <3>5, TableIsMap, RewrittenIs
  <2> QED BY <2>1, <2>2, <2>3 DEF StagedAs
<1> QED BY <1>1, NvramTurns, PTL

(* A reading command that no writing command overlapped answers with the    *)
(* variables as they are, whatever other readers run beside it.             *)
THEOREM AnswersAlwaysTell == Spec => AnswersTell
<1>1. ASSUME TurnsInv, NEW p \in Proc, alone[p], ~mixed, Answer(p) PROVE Answers(p)
  <2> USE <1>1 DEF TurnsInv, NvramInv
  <2>1. pc[p] = "apply" /\ ~cmd[p].write /\ Local(p)
    BY DEF Answer, Locals
  <2>2. Mapping(p) = Visible
    BY <2>1 DEF Mapping, Shares, Phases, Local, Sees
  <2>3. Proper(table[p]) /\ IsMap(table[p], MapOf(Visible))
    BY <2>1, <2>2 DEF Tables, Local, Parses
  <2> QED BY <2>3, MapGives DEF Answers
<1>2. TurnsInv /\ [Next]_vars =>
        [\A p \in Proc : alone[p] /\ ~mixed /\ Answer(p) => Answers(p)]_vars
  BY <1>1
<1> QED BY <1>2, NvramTurns, PTL DEF Spec, AnswersTell

----------------------------------------------------------------------------
(* The refinement of NvramMap                                               *)

(* Of an image, the map depends on the header and the tuples.               *)
LEMMA MapSame ==
    ASSUME NEW img, NEW new, new.magic <=> img.magic, new.hdr = img.hdr, new.data = img.data
    PROVE  MapOf(new) = MapOf(img)
BY DEF MapOf

LEMMA ImageIsLegible == ASSUME NEW img \in Image, img.magic PROVE IsLegible(img)
BY FieldTypes DEF IsLegible

(* The image that a command is rewriting will have this map.                *)
LEMMA StagedRewrite ==
    ASSUME TurnsInv, ~mixed, NEW p \in Proc, pc[p] = "tuples"
    PROVE  /\ stg \in File /\ ino[p] = stg /\ Modifiers = {p} /\ Proper(table[p])
           /\ Staged.magic /\ Staged.hdr = Header(table[p])
           /\ Staged.data = Fitting(table[p])
<1> USE DEF TurnsInv, NvramInv
<1>1. stg \in File /\ ino[p] = stg
  BY DEF Places, Stages, Phases, Mapped, Rewriting
<1>2. inode[stg] \in Image /\ inode[stg].magic /\ inode[stg].hdr = Header(table[p])
  BY <1>1 DEF Images, Locals, Local, Rewrites
<1>3. Proper(table[p])
  BY DEF Tables
<1>4. PICK ts \in Seq(Tuple) : ts = Fitting(table[p])
  BY <1>3, FittingIs
<1>5. Staged = [inode[stg] EXCEPT !.data = ts]
  BY <1>4, StagedIs DEF StagedAs
<1>6. Staged.magic /\ Staged.hdr = Header(table[p]) /\ Staged.data = Fitting(table[p])
  BY <1>2, <1>4, <1>5, EditImage
<1>7. Modifiers = {p}
  BY WhoModifies, TakeTurns
<1> QED BY <1>1, <1>3, <1>6, <1>7

LEMMA StagedThen ==
    /\ TurnsInv' /\ ~mixed' => StagedAs'
    /\ \A p \in Proc : TurnsInv' /\ ~mixed' /\ pc'[p] = "tuples" =>
          /\ Staged'.magic /\ Staged'.hdr = Header(table'[p])
          /\ Staged'.data = Fitting(table'[p])
<1>1. TurnsInv /\ ~mixed => StagedAs
  BY StagedIs
<1>2. TurnsInv /\ ~mixed => \A p \in Proc : pc[p] = "tuples" =>
          /\ Staged.magic /\ Staged.hdr = Header(table[p])
          /\ Staged.data = Fitting(table[p])
  BY StagedRewrite
<1>3. TurnsInv' /\ ~mixed' => StagedAs'
  BY <1>1, PTL
<1>4. TurnsInv' /\ ~mixed' => (\A p \in Proc : pc[p] = "tuples" =>
          /\ Staged.magic /\ Staged.hdr = Header(table[p])
          /\ Staged.data = Fitting(table[p]))'
  BY <1>2, PTL
<1> QED BY <1>3, <1>4

(* A step that touches neither the files nor who rewrites them.             *)
LEMMA StagedSame ==
    ASSUME TurnsInv, TurnsInv', ~mixed, ~mixed', UNCHANGED <<mtd, inode, stg>>,
           \A q \in Proc : pc[q] \in {"fill", "tuples"} \/ pc'[q] \in {"fill", "tuples"} =>
                              pc'[q] = pc[q] /\ table'[q] = table[q]
    PROVE  Staged' = Staged
<1>1. StagedAs /\ StagedAs'
  BY StagedIs, StagedThen
<1>2. CASE stg = None
  BY <1>1, <1>2 DEF StagedAs
<1>3. CASE \E q \in Proc : pc[q] = "fill"
  <2>1. PICK q \in Proc : pc[q] = "fill"
    BY <1>3
  <2>2. pc'[q] = "fill"
    BY <2>1
  <2> QED BY <1>1, <2>1, <2>2 DEF StagedAs
<1>4. CASE \E q \in Proc : pc[q] = "tuples"
  <2>1. PICK q \in Proc : pc[q] = "tuples"
    BY <1>4
  <2>2. pc'[q] = "tuples" /\ table'[q] = table[q]
    BY <2>1
  <2>3. Staged = [inode[stg] EXCEPT !.data = Fitting(table[q])]
    BY <1>1, <2>1 DEF StagedAs
  <2>4. Staged' = [inode'[stg'] EXCEPT !.data = Fitting(table'[q])]
    BY <1>1, <2>2 DEF StagedAs
  <2> QED BY <2>2, <2>3, <2>4
<1>5. CASE stg # None /\ \A q \in Proc : pc[q] \notin {"fill", "tuples"}
  BY <1>1, <1>5 DEF StagedAs
<1> QED BY <1>2, <1>3, <1>4, <1>5

LEMMA SavingSame ==
    ASSUME \A q \in Proc : pc[q] = "flash" <=> pc'[q] = "flash" PROVE Saving' = Saving
BY DEF Saving

(* What the other processes are not doing while one changes the files.      *)
LEMMA OthersWait ==
    ASSUME TurnsInv, ~mixed, NEW p \in Modifiers, Step(p)
    PROVE  \A q \in Proc \ {p} :
             pc'[q] = pc[q] /\ pc[q] \notin {"fill", "tuples", "flash"}
<1> USE DEF TurnsInv, NvramInv
<1>1. Modifiers = {p} /\ p \in Proc
  BY TakeTurns DEF Modifiers
<1> QED BY <1>1, WhoModifies, OthersKeep

LEMMA CreateMaps ==
    ASSUME TurnsInv, TurnsInv', ~mixed, ~mixed', NEW p \in Proc, Create(p)
    PROVE  Map!Stage
<1> USE DEF TurnsInv, NvramInv
<1>1. Step(p) /\ p \in Modifiers
  BY WhoModifies DEF Create, Step
<1>2. stg = None /\ mtd' = mtd /\ pc'[p] = "fill"
  BY DEF Create, Locals, Local, Copies, Places, GoTo
<1>3. stg' # None
  BY <1>2, CreateWrites DEF File, None
<1>4. Staged' = mtd
  BY <1>2, StagedThen DEF StagedAs
<1>5. Saving' = Saving
  BY <1>1, <1>2, OthersWait, SavingSame DEF Create
<1> QED BY <1>2, <1>3, <1>4, <1>5 DEF Map!Stage

LEMMA FillMaps ==
    ASSUME TurnsInv, TurnsInv', ~mixed, ~mixed', NEW p \in Proc, Fill(p)
    PROVE  UNCHANGED Map!vars
<1> USE DEF TurnsInv, NvramInv
<1>1. Step(p) /\ p \in Modifiers
  BY WhoModifies DEF Fill, Step
<1>2. /\ ino[p] = stg /\ stg # None /\ UNCHANGED <<mtd, stg>>
      /\ pc[p] = "fill" /\ pc'[p] = "open"
  BY DEF Fill, Phases, Stages, Mapped, Places, GoTo
<1>3. inode'[stg] = mtd
  BY <1>2, FillWrites DEF Fill, Locals, Local, Copies
<1>4. \A q \in Proc \ {p} : pc'[q] = pc[q] /\ pc[q] \notin {"fill", "tuples", "flash"}
  BY <1>1, OthersWait
<1>5. Staged = mtd
  BY <1>2, StagedIs DEF StagedAs
<1>6. Staged' = mtd
  BY <1>2, <1>3, <1>4, StagedThen DEF StagedAs
<1>7. Saving' = Saving
  BY <1>2, <1>4, SavingSame
<1> QED BY <1>2, <1>5, <1>6, <1>7 DEF Map!vars

(* The arguments change the staged map as the command says, as far as there *)
(* is room.                                                                 *)
LEMMA ApplyMaps ==
    ASSUME TurnsInv, TurnsInv', ~mixed, ~mixed', NEW p \in Proc, Apply(p)
    PROVE  Map!Change(Effect(cmd[p])) /\ Effect(cmd[p]) \in Effects
<1> USE DEF TurnsInv, NvramInv
<1> DEFINE c == cmd[p]
           f == MapOf(Staged)
           g == Map!Edited(f, Effect(c))
           kept == Names(Staged'.data)
<1>1. c \in Command /\ c.write /\ pc[p] = "apply" /\ pc'[p] = "tuples"
  BY DEF Apply, Places, NoCommand, GoTo
<1>2. Step(p) /\ p \in Modifiers
  BY <1>1, WhoModifies DEF Step
<1>3. ino[p] = stg /\ stg # None /\ stg \in File /\ UNCHANGED <<mtd, stg>>
  BY <1>1 DEF Apply, Stages, Mapped, Places
<1>4. \A q \in Proc \ {p} : pc'[q] = pc[q] /\ pc[q] \notin {"fill", "tuples", "flash"}
  BY <1>2, OthersWait
<1>5. Mapping(p) = inode[stg]
  BY <1>3 DEF Mapping, Shares
<1>6. Staged = inode[stg]
  BY <1>1, <1>3, <1>4, StagedIs DEF StagedAs
<1>7. IsMap(table[p], f) /\ IsLegible(inode[stg]) /\ Proper(table[p])
  <2>1. Local(p)
    BY DEF Locals
  <2>2. inode[stg].magic /\ IsMap(table[p], MapOf(inode[stg]))
    BY <1>1, <1>5, <2>1 DEF Local, Parses
  <2> QED BY <1>3, <1>6, <2>2, ImageIsLegible DEF Images, Tables
<1>8. table'[p] = Edit(table[p], c.ops)
  BY <1>3, ApplyWrites
<1>9. Proper(table'[p]) /\ IsMap(table'[p], g)
  BY <1>1, <1>7, <1>8, EditedIs
<1>10. Staged'.magic /\ Staged'.hdr = Header(table'[p]) /\ Staged'.data = Fitting(table'[p])
  BY <1>1, StagedThen
<1>11. IsFiniteSet(DOMAIN f) /\ DOMAIN f # {}
  BY <1>6, <1>7, MapIsFinite
<1>12. IsFiniteSet(DOMAIN g)
  BY <1>1, <1>11, EditedIsFinite
<1> HIDE DEF c, f, g
<1>13. /\ kept \subseteq DOMAIN g /\ MapOf(Staged') = Map!ReadBack(g, kept)
       /\ IsFiniteSet(DOMAIN g) /\ MapWeight(g) <= End => kept = DOMAIN g
  BY <1>9, <1>10, RewrittenIs
<1> HIDE DEF kept
<1>14. IF MapWeight(g) <= End THEN MapOf(Staged') = Map!ReadBack(g, DOMAIN g)
       ELSE \E k \in SUBSET DOMAIN g : MapOf(Staged') = Map!ReadBack(g, k)
  BY <1>12, <1>13
<1>15. Saving' = Saving
  BY <1>1, <1>4, SavingSame
<1>16. Map!Change(Effect(c))
  <2>1. stg # None /\ DOMAIN MapOf(Staged) # {}
    BY <1>3, <1>11 DEF f
  <2>2. MapOf(mtd)' = MapOf(mtd) /\ (stg # None)' = (stg # None) /\ Saving' = Saving
    BY <1>3, <1>15
  <2> QED BY <1>14, <2>1, <2>2, Zenon DEF Map!Change, f, g
<1>17. Effect(c) \in Effects
  BY <1>1 DEF Effects, c
<1> QED BY <1>16, <1>17 DEF c

LEMMA WriteTupleMaps ==
    ASSUME TurnsInv, TurnsInv', ~mixed, ~mixed', NEW p \in Proc, WriteTuple(p)
    PROVE  UNCHANGED Map!vars
<1>1. pc[p] = "tuples" /\ UNCHANGED <<mtd, stg, pc, table>>
  BY DEF WriteTuple
<1>2. Staged.magic /\ Staged.hdr = Header(table[p]) /\ Staged.data = Fitting(table[p])
  BY <1>1, StagedRewrite
<1>3. Staged'.magic /\ Staged'.hdr = Header(table[p]) /\ Staged'.data = Fitting(table[p])
  BY <1>1, StagedThen
<1>4. MapOf(Staged') = MapOf(Staged)
  BY <1>2, <1>3, MapSame
<1>5. Saving' = Saving
  BY <1>1, SavingSame
<1> QED BY <1>1, <1>4, <1>5 DEF Map!vars

LEMMA FinishMaps ==
    ASSUME TurnsInv, TurnsInv', ~mixed, ~mixed', NEW p \in Proc, Finish(p)
    PROVE  UNCHANGED Map!vars
<1> USE DEF TurnsInv, NvramInv
<1>1. pc[p] = "tuples" /\ pc'[p] = "parse" /\ UNCHANGED <<mtd, stg>>
  BY DEF Finish, Places, GoTo
<1>2. /\ stg \in File /\ ino[p] = stg /\ Modifiers = {p} /\ Proper(table[p])
      /\ Staged.magic /\ Staged.hdr = Header(table[p]) /\ Staged.data = Fitting(table[p])
  BY <1>1, StagedRewrite
<1>3. stg # None
  BY <1>2 DEF File, None
<1>4. \A q \in Proc \ {p} : pc'[q] = pc[q] /\ pc[q] \notin {"fill", "tuples", "flash"}
  BY <1>2, OthersWait DEF Step
<1>5. Staged' = inode'[stg]
  BY <1>1, <1>3, <1>4, StagedThen DEF StagedAs
<1>6. /\ inode'[stg].magic = inode[stg].magic /\ inode'[stg].hdr = inode[stg].hdr
      /\ inode'[stg].data = inode[stg].data
  BY <1>2, <1>3, FinishWrites
<1>7. inode[stg].magic /\ inode[stg].hdr = Header(table[p])
  BY <1>1 DEF Locals, Local, Rewrites
<1>8. inode[stg].data = Fitting(table[p])
  <2> DEFINE all == Fitting(table[p])
  <2>1. all \in Seq(Tuple) /\ pos[p] \in Nat
    BY <1>2, FittingIs DEF Positions
  <2>2. /\ inode[stg].data = SubSeq(all, 1, pos[p] - 1)
        /\ pos[p] - 1 <= Len(all) /\ pos[p] > Len(all)
    BY <1>1 DEF Finish, Locals, Local, Rewrites
  <2> HIDE DEF all
  <2>3. pos[p] - 1 = Len(all)
    BY <2>1, <2>2
  <2>4. SubSeq(all, 1, Len(all)) = all
    BY <2>1
  <2> QED BY <2>2, <2>3, <2>4 DEF all
<1>9. MapOf(Staged') = MapOf(Staged)
  BY <1>2, <1>5, <1>6, <1>7, <1>8, MapSame
<1>10. Saving' = Saving
  BY <1>1, <1>4, SavingSame
<1> QED BY <1>1, <1>9, <1>10 DEF Map!vars

LEMMA SaveMaps ==
    ASSUME TurnsInv, TurnsInv', ~mixed, ~mixed', NEW p \in Proc, Save(p)
    PROVE  Map!BeginCommit
<1> USE DEF TurnsInv, NvramInv
<1>1. Step(p) /\ p \in Modifiers
  BY DEF Save, Step, Modifiers, Modifies, Active
<1>2. stg # None /\ pc[p] = "save" /\ pc'[p] = "flash" /\ UNCHANGED <<mtd, inode, stg>>
  BY DEF Save, Readable, Places, GoTo, fileVars
<1>3. \A q \in Proc \ {p} : pc'[q] = pc[q] /\ pc[q] \notin {"fill", "tuples", "flash"}
  BY <1>1, OthersWait
<1>4. Staged' = Staged
  BY <1>2, <1>3, StagedSame
<1>5. ~Saving /\ Saving'
  BY <1>2, <1>3 DEF Saving
<1>6. Saving' = TRUE
  BY <1>5 DEF Saving
<1>7. MapOf(Staged)' = MapOf(Staged) /\ MapOf(mtd)' = MapOf(mtd) /\ (stg # None)' = (stg # None)
  BY <1>2, <1>4
<1> QED BY <1>2, <1>5, <1>6, <1>7, Zenon DEF Map!BeginCommit

LEMMA FlashMaps ==
    ASSUME TurnsInv, TurnsInv', ~mixed, ~mixed', NEW p \in Proc, Flash(p)
    PROVE  Map!EndCommit
<1> USE DEF TurnsInv, NvramInv
<1>1. Step(p) /\ p \in Modifiers
  BY WhoModifies DEF Flash, Step
<1>2. /\ pc[p] = "flash" /\ pc'[p] = "unlink" /\ UNCHANGED <<inode, stg>>
      /\ stg # None /\ mtd' = inode[stg]
  BY DEF Flash, Places, GoTo, Locals, Local, Commits
<1>3. \A q \in Proc \ {p} : pc'[q] = pc[q] /\ pc[q] \notin {"fill", "tuples", "flash"}
  BY <1>1, OthersWait
<1>4. Staged = inode[stg]
  BY <1>2, <1>3, StagedIs DEF StagedAs
<1>5. Staged' = inode[stg]
  BY <1>2, <1>3, StagedThen DEF StagedAs
<1>6. Saving /\ ~Saving'
  BY <1>2, <1>3 DEF Saving
<1>7. Saving' = FALSE
  BY <1>6 DEF Saving
<1>8. /\ MapOf(Staged)' = MapOf(Staged) /\ MapOf(mtd)' = MapOf(Staged)
      /\ (stg # None)' = (stg # None)
  BY <1>2, <1>4, <1>5
<1> QED BY <1>6, <1>7, <1>8, Zenon DEF Map!EndCommit

LEMMA UnlinkMaps ==
    ASSUME TurnsInv, TurnsInv', ~mixed, ~mixed', NEW p \in Proc, Unlink(p)
    PROVE  Map!Unstage
<1> USE DEF TurnsInv, NvramInv
<1>1. Step(p) /\ p \in Modifiers
  BY WhoModifies DEF Unlink, Step
<1>2. /\ pc[p] = "unlink" /\ pc'[p] = "idle" /\ UNCHANGED <<inode, mtd>>
      /\ stg # None /\ mtd = inode[stg] /\ stg' = None
  BY DEF Unlink, Exit, Exits, Places, Locals, Local, Commits
<1>3. \A q \in Proc \ {p} : pc'[q] = pc[q] /\ pc[q] \notin {"fill", "tuples", "flash"}
  BY <1>1, OthersWait
<1>4. Staged = mtd /\ Staged' = mtd
  BY <1>2, <1>3, StagedIs, StagedThen DEF StagedAs
<1>5. ~Saving
  BY <1>2, <1>3 DEF Saving
<1>6. Saving' = Saving
  BY <1>2, <1>3, SavingSame
<1>7. /\ MapOf(Staged)' = MapOf(Staged) /\ MapOf(mtd)' = MapOf(mtd)
      /\ MapOf(Staged) = MapOf(mtd) /\ (stg # None)' = FALSE
  BY <1>2, <1>4
<1> QED BY <1>2, <1>5, <1>6, <1>7, Zenon DEF Map!Unstage

(* Power loss in a commit leaves no image, or some of the new variables.    *)
LEMMA LossMaps ==
    ASSUME TurnsInv, TurnsInv', ~mixed, ~mixed', PowerLoss PROVE Map!PowerLoss
<1> USE DEF TurnsInv, NvramInv
<1>1. stg' = None /\ Saving' = FALSE
  BY DEF PowerLoss, Saving
<1>2. Staged' = mtd'
  BY <1>1, StagedThen DEF StagedAs
<1>3. ASSUME NEW p \in Proc, pc[p] = "flash", mtd' \in Torn(buf[p])
      PROVE  Saving /\ Map!Torn(MapOf(mtd'))
  <2>1. Modifiers = {p}
    BY <1>3, WhoModifies, TakeTurns
  <2>2. stg # None /\ buf[p] = inode[stg] /\ buf[p] \in Image /\ buf[p].magic
    BY <1>3 DEF Locals, Local, Commits, Images, SavesImage
  <2>3. \A q \in Proc : pc[q] \notin {"fill", "tuples"}
    BY <1>3, <2>1, WhoModifies
  <2>4. Staged = buf[p]
    BY <2>2, <2>3, StagedIs DEF StagedAs
  <2>5. Sound(buf[p]) /\ IsLegible(buf[p])
    BY <2>2, ImageIsLegible DEF Sounds
  <2>6. CASE mtd' = NoImage
    <3>1. DOMAIN MapOf(mtd') = {}
      BY <2>6, NoImageIsImage DEF MapOf
    <3> QED BY <1>3, <3>1 DEF Map!Torn, Saving
  <2>7. CASE \E k \in 0 .. Len(buf[p].data) :
                /\ mtd'.magic = buf[p].magic /\ mtd'.hdr = buf[p].hdr
                /\ mtd'.data = SubSeq(buf[p].data, 1, k)
    <3>1. mtd'.magic /\ mtd'.hdr = buf[p].hdr
      BY <2>2, <2>7
    <3>2. /\ Sdram \subseteq DOMAIN MapOf(mtd')
          /\ \A n \in DOMAIN MapOf(mtd') \ Sdram :
               n \in DOMAIN MapOf(buf[p]) /\ MapOf(mtd')[n] = MapOf(buf[p])[n]
      BY <2>5, <2>7, <3>1, CutIs DEF Sound
    <3> QED BY <1>3, <2>4, <3>2 DEF Map!Torn, Saving
  <2> QED BY <1>3, <2>2, <2>6, <2>7, TornIs
<1>4. mtd' = mtd \/ (Saving /\ Map!Torn(MapOf(mtd')))
  BY <1>3 DEF PowerLoss
<1>5. MapOf(Staged)' = MapOf(mtd)' /\ (stg # None)' = FALSE
  BY <1>1, <1>2
<1>6. MapOf(mtd)' = MapOf(mtd) \/ (Saving /\ Map!Torn(MapOf(mtd)'))
  BY <1>4
<1> QED BY <1>1, <1>5, <1>6, Zenon DEF Map!PowerLoss

(* All other steps leave the maps alone.                                    *)
LEMMA RestMaps ==
    ASSUME TurnsInv, TurnsInv', ~mixed, ~mixed', NEW p \in Proc,
           \/ Copy(p) \/ Open(p) \/ OpenMtd(p) \/ OpenFails(p) \/ ParseMark(p)
           \/ ParseTake(p) \/ ParseEnd(p) \/ ParseLost(p) \/ Answer(p) \/ Close(p)
           \/ SaveFails(p) \/ \E c \in Command : Start(p, c)
    PROVE  UNCHANGED Map!vars
<1> USE DEF TurnsInv, NvramInv
<1>1. UNCHANGED <<mtd, inode, stg>>
  <2>1. CASE ParseEnd(p) \/ ParseLost(p)
    BY <2>1, ParsedAll DEF Parsed
  <2> QED BY <2>1 DEF Copy, Open, OpenMtd, OpenFails, ParseMark, ParseTake, Answer, Close,
             SaveFails, Start, fileVars
<1>2. pc[p] \notin {"fill", "tuples", "flash"} /\ pc'[p] \notin {"fill", "tuples", "flash"}
  <2>1. CASE ParseEnd(p) \/ ParseLost(p)
    <3>1. pc[p] = "parse" /\ (Parsed(p, stale) \/ Exit(p))
      BY <2>1, ParsedAll
    <3> QED BY <3>1 DEF Parsed, Exit, Exits, GoTo, Places
  <2> QED BY <2>1 DEF Copy, Open, OpenMtd, OpenFails, ParseMark, ParseTake, Answer, Close,
             SaveFails, Start, GoTo, Exit, Exits, Places, Parsing
<1>3. \A q \in Proc \ {p} : pc'[q] = pc[q] /\ table'[q] = table[q]
  <2>1. CASE Step(p)
    BY <2>1, OthersKeep
  <2>2. CASE \E c \in Command : Start(p, c)
    BY <2>2 DEF Start, GoTo, Places, dataVars
  <2> QED BY <2>1, <2>2 DEF Step
<1>4. Staged' = Staged
  BY <1>1, <1>2, <1>3, StagedSame
<1>5. Saving' = Saving
  BY <1>2, <1>3, SavingSame
<1> QED BY <1>1, <1>4, <1>5 DEF Map!vars

LEMMA NextMaps ==
    ASSUME TurnsInv, TurnsInv', [Next]_vars, ~mixed' PROVE [Map!Next]_(Map!vars)
<1>1. ~mixed
  <2>1. ASSUME NEW p \in Proc, Step(p) PROVE mixed' = mixed
    BY <2>1, StepHistory DEF TurnsInv, NvramInv
  <2>2. ASSUME NEW p \in Proc, NEW c \in Command, Start(p, c) PROVE mixed => mixed'
    BY <2>2 DEF Start
  <2> QED BY <2>1, <2>2 DEF Next, PowerLoss, vars
<1>2. ASSUME NEW p \in Proc, Apply(p) PROVE Map!Next
  BY <1>1, <1>2, ApplyMaps DEF Map!Next
<1>3. ASSUME NEW p \in Proc, Create(p) \/ Save(p) \/ Flash(p) \/ Unlink(p) PROVE Map!Next
  BY <1>1, <1>3, CreateMaps, SaveMaps, FlashMaps, UnlinkMaps DEF Map!Next
<1>4. ASSUME NEW p \in Proc, Fill(p) \/ WriteTuple(p) \/ Finish(p) PROVE UNCHANGED Map!vars
  BY <1>1, <1>4, FillMaps, WriteTupleMaps, FinishMaps
<1>5. ASSUME NEW p \in Proc, Step(p) PROVE [Map!Next]_(Map!vars)
  BY <1>1, <1>2, <1>3, <1>4, <1>5, RestMaps DEF Step
<1>6. ASSUME NEW p \in Proc, NEW c \in Command, Start(p, c) PROVE UNCHANGED Map!vars
  BY <1>1, <1>6, RestMaps
<1>7. CASE PowerLoss
  BY <1>1, <1>7, LossMaps DEF Map!Next
<1>8. CASE UNCHANGED vars
  <2>1. UNCHANGED <<mtd, inode, stg, pc, table>>
    BY <1>8 DEF vars, fileVars, dataVars
  <2>2. Staged' = Staged /\ Saving' = Saving
    BY <1>1, <2>1, StagedSame, SavingSame
  <2> QED BY <2>1, <2>2 DEF Map!vars
<1> QED BY <1>5, <1>6, <1>7, <1>8 DEF Next

(* While writing commands take turns, the tool does to the variables what   *)
(* NvramMap says, whatever readers run beside them and whenever the power   *)
(* goes.                                                                    *)
THEOREM MapIsImplemented == Spec => SequentialMap
<1>1. Init => Map!Init
  BY DEF Init, Map!Init, Staged, Saving
<1>2. TurnsInv /\ TurnsInv' /\ [Next]_vars =>
        [mixed' \/ UNCHANGED mapped \/ [Map!Next]_(Map!vars)]_vars
  BY NextMaps, Zenon
<1> QED BY <1>1, <1>2, NvramTurns, PTL DEF Spec, SequentialMap
=============================================================================
