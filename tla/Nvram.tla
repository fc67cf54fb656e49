------------------------------- MODULE Nvram -------------------------------
(* The nvram command (package/utils/nvram/src/nvram.c and cli.c), with      *)
(* commands that run at the same time and with power loss. The image lives  *)
(* in a flash partition of one erase block; writing commands work on a      *)
(* shared mapping of the staging file /tmp/.nvram, reading commands on a    *)
(* private mapping of it or of the flash.                                   *)
EXTENDS Integers, Sequences, FiniteSets, SequencesExt, FiniteSetsExt

CONSTANTS
    Proc,        \* processes that run the command
    Name, Sdram, \* variables, and those of which the header has a copy
    Value,       \* those nvram_set accepts: none is longer than the image
    Default,     \* of an SDRAM variable
    Bucket,      \* name -> hash(name) % NVRAM_ARRAYSIZE(nvram_hash), from 1
    Buckets,
    Size,        \* <<name, value>> -> strlen("name=value") + 1
    Area,        \* bytes behind the header: part_size - offset - header
    Factory,     \* the images that a device may come with
    Command      \* argument lists: [write, ops, commit]

Op == [op : {"set", "unset", "get"}, name : Name, value : Value]

ASSUME ProcAssumption == IsFiniteSet(Proc)
ASSUME SdramAssumption ==
    Sdram \subseteq Name /\ Sdram # {} /\ IsFiniteSet(Sdram) /\ Default \in Value
ASSUME BucketAssumption == Buckets \in Nat /\ Bucket \in [Name -> 1 .. Buckets]
ASSUME AreaAssumption == Area \in Nat \ {0} /\ Area % 4 = 0
ASSUME SizeAssumption == Size \in [Name \X Value -> Nat \ {0}]
ASSUME CommandAssumption ==
    Command \subseteq [write : BOOLEAN, ops : Seq(Op), commit : BOOLEAN]

None == 0
File == 1 .. Cardinality(Proc) + 1   \* inodes: one is linked, some only mapped

VARIABLES
    mtd,      \* the image in flash
    inode,    \* contents of the files that are or were the staging file
    stg,      \* the inode /tmp/.nvram names, or None
    pc,       \* per process: where it is,
    cmd,      \*   its arguments,
    ino,      \*   the inode it has mapped,
    buf,      \*   the image it read, or mapped privately,
    table,    \*   nvram_hash: per bucket, the list of tuples,
    pos,      \*   the tuple at hand,
    wrote,    \*   nvram_commit has rewritten the image,
    stale,    \*   history: the image changed under its parser,
    alone,    \*   history: no command that writes has overlapped with it
    mixed     \* history: two commands that write have overlapped

fileVars == <<mtd, inode, stg>>
dataVars == <<ino, buf, table, pos, wrote, stale>>
vars == <<fileVars, pc, cmd, dataVars, alone, mixed>>

----------------------------------------------------------------------------
(* Images: the header's fields and the tuples in the order they were        *)
(* written. ended: a double NUL follows them; else it is 0xFF.              *)

Tuple == [name : Name, value : Value]
Image == [magic : BOOLEAN, len : Nat, hdr : [Sdram -> Value],
          data : Seq(Tuple), ended : BOOLEAN]

\* Each name has one tuple; and where the SDRAM variables have theirs, they
\* have the values of the header.
Names(ts) == {t.name : t \in ToSet(ts)}
Distinct(ts) == \A j, k \in DOMAIN ts : ts[j].name = ts[k].name => j = k
Agrees(img) ==
    Sdram \subseteq Names(img.data) =>
        \A t \in ToSet(img.data) : t.name \in Sdram => img.hdr[t.name] = t.value

\* What the boot loader or the tool itself has written.
ASSUME FactoryAssumption ==
    \A img \in Factory : img \in Image /\ Distinct(img.data) /\ Agrees(img)

\* An empty file, or an erased flash.
NoImage == [magic |-> FALSE, len |-> 0, hdr |-> [n \in Sdram |-> Default],
            data |-> <<>>, ended |-> FALSE]

SizeOf(t) == Size[<<t.name, t.value>>]
Bytes(ts) ==
    LET sum[k \in 0 .. Len(ts)] == IF k = 0 THEN 0 ELSE sum[k - 1] + SizeOf(ts[k])
    IN  sum[Len(ts)]
End == Area - 2                      \* "leave space for a double NUL"
Length(ts) == ((Bytes(ts) + 2 + 3) \div 4) * 4

\* nvram_set: in place, or at the head of the bucket.
Has(tb, n) == \E k \in DOMAIN tb[Bucket[n]] : tb[Bucket[n]][k].name = n
At(tb, n) == CHOOSE k \in DOMAIN tb[Bucket[n]] : tb[Bucket[n]][k].name = n
Get(tb, n) == tb[Bucket[n]][At(tb, n)].value
Set(tb, n, v) ==
    LET t == [name |-> n, value |-> v]
    IN  [tb EXCEPT ![Bucket[n]] =
            IF Has(tb, n) THEN [@ EXCEPT ![At(tb, n)] = t] ELSE <<t>> \o @]

\* nvram_unset
Unset(tb, n) ==
    IF Has(tb, n) THEN [tb EXCEPT ![Bucket[n]] = RemoveAt(@, At(tb, n))] ELSE tb

\* The arguments of a command, in their order.
Do(tb, o) == CASE o.op = "set" -> Set(tb, o.name, o.value)
               [] o.op = "unset" -> Unset(tb, o.name)
               [] OTHER -> tb
Edit(tb, ops) ==
    LET done[k \in 0 .. Len(ops)] == IF k = 0 THEN tb ELSE Do(done[k - 1], ops[k])
    IN  done[Len(ops)]

FromHeaderNever(tb, hdr) == tb       \* mutant

\* The end of _nvram_rehash: SDRAM variables that have no tuple, in some order.
FromHeader(tb, hdr) ==
    [b \in 1 .. Buckets |->
        LET new == SetToSeq({n \in Sdram : Bucket[n] = b /\ ~Has(tb, n)})
        IN  [k \in DOMAIN new |-> [name |-> new[k], value |-> hdr[new[k]]]] \o tb[b]]

\* Mutant: no defaults.
HeaderPartial(tb) == [n \in {m \in Sdram : Has(tb, m)} |-> Get(tb, n)]

\* The header that nvram_commit makes of a table.
Header(tb) ==
    IF \A n \in Sdram : Has(tb, n) THEN [n \in Sdram |-> Get(tb, n)]
                                   ELSE [n \in Sdram |-> Default]

\* The tuples nvram_commit writes: bucket by bucket, and of each bucket those
\* before the first one that does not fit.
Fits(all, ts) ==
    LET first(k) == all \o SubSeq(ts, 1, k)
    IN  first(Max({k \in 0 .. Len(ts) : Bytes(first(k)) <= End}))
Fitting(tb) ==
    LET upto[b \in 0 .. Buckets] == IF b = 0 THEN <<>> ELSE Fits(upto[b - 1], tb[b])
    IN  upto[Buckets]

----------------------------------------------------------------------------
(* Processes                                                                *)

Rewriting == {"tuples"}              \* between the memset and the new length
Parsing == {"parse", "marked"}
Active == {"copy", "create", "fill", "open", "openmtd", "apply", "save", "flash",
           "unlink"} \union Parsing \union Rewriting

Modifies(c) == c.write \/ c.commit
NoCommand == [write |-> FALSE, ops |-> <<>>, commit |-> FALSE]
EmptyTable == [b \in 1 .. Buckets |-> <<>>]

Shares(p) == ino[p] # None           \* MAP_SHARED
Mapping(p) == IF Shares(p) THEN inode[ino[p]] ELSE buf[p]

\* Tuples of an inode in which another process has NUL in place of '='.
Marks(i, p) == {pos[q] : q \in {r \in Proc \ {p} : /\ pc[r] = "marked" /\ ~stale[r]
                                                  /\ Shares(r) /\ ino[r] = i}}

\* What a process that reads the inode finds there.
Snapshot(i, p) ==
    LET marks == Marks(i, p)
    IN  IF marks = {} THEN inode[i]
        ELSE [inode[i] EXCEPT !.data = SubSeq(@, 1, Min(marks) - 1), !.ended = TRUE]

\* Process p writes to inode i, which others may be parsing.
Disturbed(i, p) ==
    [q \in Proc |-> \/ stale[q]
                    \/ q # p /\ pc[q] \in Parsing /\ Shares(q) /\ ino[q] = i]
Disturb(i, p) == stale' = Disturbed(i, p)

GoTo(p, l) == pc' = [pc EXCEPT ![p] = l]

\* A process ends; disturbed: whose image has changed by then.
Exits(p, disturbed) ==
    /\ pc' = [pc EXCEPT ![p] = "idle"]
    /\ cmd' = [cmd EXCEPT ![p] = NoCommand]
    /\ ino' = [ino EXCEPT ![p] = None]
    /\ buf' = [buf EXCEPT ![p] = NoImage]
    /\ table' = [table EXCEPT ![p] = EmptyTable]
    /\ pos' = [pos EXCEPT ![p] = 1]
    /\ wrote' = [wrote EXCEPT ![p] = FALSE]
    /\ stale' = [disturbed EXCEPT ![p] = FALSE]
    /\ alone' = [alone EXCEPT ![p] = TRUE]

Exit(p) == Exits(p, stale)

TypeOK ==
    /\ mtd \in Image
    /\ inode \in [File -> Image]
    /\ stg \in File \union {None}
    /\ pc \in [Proc -> Active \union {"idle"}]
    /\ cmd \in [Proc -> Command \union {NoCommand}]
    /\ ino \in [Proc -> File \union {None}]
    /\ buf \in [Proc -> Image]
    /\ table \in [Proc -> [1 .. Buckets -> Seq(Tuple)]]
    /\ pos \in [Proc -> Nat \ {0}]
    /\ wrote \in [Proc -> BOOLEAN]
    /\ stale \in [Proc -> BOOLEAN]
    /\ alone \in [Proc -> BOOLEAN]
    /\ mixed \in BOOLEAN

Init ==
    /\ mtd \in Factory
    /\ inode = [i \in File |-> NoImage] /\ stg = None
    /\ pc = [p \in Proc |-> "idle"]
    /\ cmd = [p \in Proc |-> NoCommand]
    /\ ino = [p \in Proc |-> None]
    /\ buf = [p \in Proc |-> NoImage]
    /\ table = [p \in Proc |-> EmptyTable]
    /\ pos = [p \in Proc |-> 1]
    /\ wrote = [p \in Proc |-> FALSE]
    /\ stale = [p \in Proc |-> FALSE]
    /\ alone = [p \in Proc |-> TRUE]
    /\ mixed = FALSE

----------------------------------------------------------------------------
(* nvram_open_staging, nvram_open_rdonly, nvram_to_staging                  *)

Modifiers == {p \in Proc : pc[p] \in Active /\ Modifies(cmd[p])}

\* Bound: of two commands that write and overlap only the rest is followed.
MayStart == ~mixed

\* A command starts and looks for the staging file.
Start(p, c) ==
    /\ pc[p] = "idle" /\ MayStart
    /\ cmd' = [cmd EXCEPT ![p] = c]
    /\ GoTo(p, IF stg # None THEN "open" ELSE IF c.write THEN "copy" ELSE "openmtd")
    /\ alone' = [q \in Proc |-> IF q = p THEN Modifiers = {}
                                ELSE alone[q] /\ ~Modifies(c)]
    /\ mixed' = (mixed \/ (Modifies(c) /\ Modifiers # {}))
    /\ UNCHANGED <<fileVars, dataVars>>

Copy(p) ==
    /\ pc[p] = "copy"
    /\ buf' = [buf EXCEPT ![p] = mtd]
    /\ GoTo(p, "create")
    /\ UNCHANGED <<fileVars, cmd, ino, table, pos, wrote, stale, alone, mixed>>

\* open(NVRAM_STAGING, O_WRONLY | O_CREAT): by now there may be one.
Create(p) ==
    /\ pc[p] = "create"
    /\ IF stg # None
         THEN /\ ino' = [ino EXCEPT ![p] = stg]
              /\ UNCHANGED <<inode, stg>>
         ELSE LET i == Min({f \in File : \A q \in Proc : ino[q] # f})
              IN  /\ stg' = i
                  /\ inode' = [inode EXCEPT ![i] = NoImage]
                  /\ ino' = [ino EXCEPT ![p] = i]
    /\ GoTo(p, "fill")
    /\ UNCHANGED <<mtd, cmd, buf, table, pos, wrote, stale, alone, mixed>>

Fill(p) ==
    /\ pc[p] = "fill"
    /\ inode' = [inode EXCEPT ![ino[p]] = buf[p]]
    /\ Disturb(ino[p], p)
    /\ ino' = [ino EXCEPT ![p] = None]
    /\ buf' = [buf EXCEPT ![p] = NoImage]
    /\ GoTo(p, "open")
    /\ UNCHANGED <<mtd, stg, cmd, table, pos, wrote, alone, mixed>>

\* nvram_open of the staging file: a file without the magic number, or a full
\* one that is to be written, is refused.
Acceptable(p, img) == img.magic /\ (cmd[p].write => img.len < Area)

\* Mutant: get and show map the file shared.
OpenShared(p) ==
    /\ pc[p] = "open" /\ stg # None /\ Acceptable(p, inode[stg])
    /\ ino' = [ino EXCEPT ![p] = stg]
    /\ GoTo(p, "parse")
    /\ UNCHANGED <<fileVars, cmd, buf, table, pos, wrote, stale, alone, mixed>>

Open(p) ==
    /\ pc[p] = "open" /\ stg # None /\ Acceptable(p, inode[stg])
    /\ IF cmd[p].write
         THEN ino' = [ino EXCEPT ![p] = stg] /\ UNCHANGED buf
         ELSE buf' = [buf EXCEPT ![p] = Snapshot(stg, p)] /\ UNCHANGED ino
    /\ GoTo(p, "parse")
    /\ UNCHANGED <<fileVars, cmd, table, pos, wrote, stale, alone, mixed>>

OpenMtd(p) ==
    /\ pc[p] = "openmtd" /\ Acceptable(p, mtd)
    /\ buf' = [buf EXCEPT ![p] = mtd]
    /\ GoTo(p, "parse")
    /\ UNCHANGED <<fileVars, cmd, ino, table, pos, wrote, stale, alone, mixed>>

OpenFails(p) ==
    /\ \/ pc[p] = "open" /\ (stg # None => ~Acceptable(p, inode[stg]))
       \/ pc[p] = "openmtd" /\ ~Acceptable(p, mtd)
    /\ Exit(p)
    /\ UNCHANGED <<fileVars, mixed>>

----------------------------------------------------------------------------
(* _nvram_rehash: the '=' of a tuple is NUL while the tuple is copied, in   *)
(* the file itself where the mapping is shared.                             *)

Marked(p) == Shares(p) /\ pos[p] \in Marks(ino[p], p)

ParseMark(p) ==
    /\ pc[p] = "parse" /\ pos[p] <= Len(Mapping(p).data) /\ ~Marked(p)
    /\ GoTo(p, "marked")
    /\ UNCHANGED <<fileVars, cmd, dataVars, alone, mixed>>

ParseTake(p) ==
    /\ pc[p] = "marked" /\ pos[p] <= Len(Mapping(p).data)
    /\ LET t == Mapping(p).data[pos[p]]
       IN  table' = [table EXCEPT ![p] = Set(@, t.name, t.value)]
    /\ pos' = [pos EXCEPT ![p] = @ + 1]
    /\ GoTo(p, "parse")
    /\ UNCHANGED <<fileVars, cmd, ino, buf, wrote, stale, alone, mixed>>

\* The second rehash, at the end of nvram_commit, is the command's last use
\* of the table.
Parsed(p, disturbed) ==
    /\ table' = [table EXCEPT ![p] = IF wrote[p] THEN EmptyTable
                                     ELSE FromHeader(@, Mapping(p).hdr)]
    /\ pos' = [pos EXCEPT ![p] = 1]
    /\ stale' = [disturbed EXCEPT ![p] = FALSE]
    /\ GoTo(p, IF wrote[p] THEN "save" ELSE "apply")
    /\ UNCHANGED <<mtd, stg, cmd, ino, buf, wrote, alone, mixed>>

ParseEnd(p) ==
    /\ pc[p] = "parse"
    /\ ~Marked(p) => pos[p] > Len(Mapping(p).data) /\ Mapping(p).ended
    /\ Parsed(p, stale)
    /\ UNCHANGED inode

\* A parser that has lost its way stops there, or leaves the mapping and is
\* killed.
Stop(p, disturbed) ==
    \/ Parsed(p, disturbed)
    \/ Exits(p, disturbed) /\ UNCHANGED <<mtd, stg, mixed>>

\* The parser runs into bytes that are not a tuple: the end of an image that
\* is being rewritten or was torn, or the middle of one that changed under
\* it. The '=' it owes may hit another tuple. Names it makes up are not in
\* Name.
ParseLost(p) ==
    /\ pc[p] \in Parsing
    /\ stale[p] \/ (pos[p] > Len(Mapping(p).data) /\ ~Mapping(p).ended)
    /\ \/ inode' = inode /\ Stop(p, stale)
       \/ /\ pc[p] = "marked" /\ Shares(p)
          /\ \E k \in DOMAIN inode[ino[p]].data :
                inode' = [inode EXCEPT ![ino[p]].data = RemoveAt(@, k)]
          /\ Stop(p, Disturbed(ino[p], p))

----------------------------------------------------------------------------
(* The arguments, and nvram_commit.                                         *)

\* A reading command: it has its answer, and may go on to a commit.
Answer(p) ==
    /\ pc[p] = "apply" /\ ~cmd[p].write
    /\ table' = [table EXCEPT ![p] = Edit(@, cmd[p].ops)]
    /\ GoTo(p, "save")
    /\ UNCHANGED <<fileVars, cmd, dataVars, alone, mixed>>

\* Mutant: the header is made before the arguments are applied.
ApplyHeaderFirst(p) ==
    /\ pc[p] = "apply" /\ cmd[p].write
    /\ table' = [table EXCEPT ![p] = Edit(@, cmd[p].ops)]
    /\ inode' = [inode EXCEPT ![ino[p]].hdr = Header(table[p]),
                              ![ino[p]].data = <<>>, ![ino[p]].ended = FALSE]
    /\ Disturb(ino[p], p)
    /\ GoTo(p, "tuples")
    /\ UNCHANGED <<mtd, stg, cmd, ino, buf, pos, wrote, alone, mixed>>

\* A writing command: the changes, the new header, memset(0xFF).
Apply(p) ==
    /\ pc[p] = "apply" /\ cmd[p].write
    /\ LET tb == Edit(table[p], cmd[p].ops)
       IN  /\ table' = [table EXCEPT ![p] = tb]
           /\ inode' = [inode EXCEPT ![ino[p]] =
                 [@ EXCEPT !.magic = TRUE, !.hdr = Header(tb), !.data = <<>>,
                           !.ended = FALSE]]
    /\ Disturb(ino[p], p)
    /\ GoTo(p, "tuples")
    /\ UNCHANGED <<mtd, stg, cmd, ino, buf, pos, wrote, alone, mixed>>

\* One sprintf. Where two commands write the same file, the k-th tuple of one
\* replaces the k-th of the other, and what lies behind 0xFF is not found.
Put(ts, k, t) == IF k > Len(ts) + 1 THEN ts
                 ELSE [j \in 1 .. Max({k, Len(ts)}) |-> IF j = k THEN t ELSE ts[j]]

WriteTuple(p) ==
    /\ pc[p] = "tuples" /\ pos[p] <= Len(Fitting(table[p]))
    /\ inode' = [inode EXCEPT ![ino[p]].data = Put(@, pos[p], Fitting(table[p])[pos[p]])]
    /\ Disturb(ino[p], p)
    /\ pos' = [pos EXCEPT ![p] = @ + 1]
    /\ UNCHANGED <<mtd, stg, pc, cmd, ino, buf, table, wrote, alone, mixed>>

\* Mutant: no double NUL.
FinishUnended(p) ==
    /\ pc[p] = "tuples" /\ pos[p] > Len(Fitting(table[p]))
    /\ inode' = [inode EXCEPT ![ino[p]].len = Length(Fitting(table[p]))]
    /\ Disturb(ino[p], p)
    /\ table' = [table EXCEPT ![p] = EmptyTable]
    /\ pos' = [pos EXCEPT ![p] = 1]
    /\ wrote' = [wrote EXCEPT ![p] = TRUE]
    /\ GoTo(p, "parse")
    /\ UNCHANGED <<mtd, stg, cmd, ino, buf, alone, mixed>>

\* The double NUL and the new length; then the image is parsed again.
Finish(p) ==
    /\ pc[p] = "tuples" /\ pos[p] > Len(Fitting(table[p]))
    /\ inode' = [inode EXCEPT ![ino[p]].len = Length(Fitting(table[p])),
                              ![ino[p]].ended = TRUE]
    /\ Disturb(ino[p], p)
    /\ table' = [table EXCEPT ![p] = EmptyTable]
    /\ pos' = [pos EXCEPT ![p] = 1]
    /\ wrote' = [wrote EXCEPT ![p] = TRUE]
    /\ GoTo(p, "parse")
    /\ UNCHANGED <<mtd, stg, cmd, ino, buf, alone, mixed>>

----------------------------------------------------------------------------
(* nvram_close, then staging_to_nvram if the command says commit.           *)

Close(p) ==
    /\ pc[p] = "save" /\ ~cmd[p].commit
    /\ Exit(p)
    /\ UNCHANGED <<fileVars, mixed>>

ReadableAny == stg # None            \* mutant

\* A short read, from a file that another command has just created, fails.
Readable == stg # None /\ inode[stg].magic

Save(p) ==
    /\ pc[p] = "save" /\ cmd[p].commit /\ Readable
    /\ ino' = [ino EXCEPT ![p] = None]
    /\ buf' = [buf EXCEPT ![p] = Snapshot(stg, p)]
    /\ GoTo(p, "flash")
    /\ UNCHANGED <<fileVars, cmd, table, pos, wrote, stale, alone, mixed>>

SaveFails(p) ==
    /\ pc[p] = "save" /\ cmd[p].commit /\ ~Readable
    /\ Exit(p)
    /\ UNCHANGED <<fileVars, mixed>>

Flash(p) ==
    /\ pc[p] = "flash"
    /\ mtd' = buf[p]
    /\ GoTo(p, "unlink")
    /\ UNCHANGED <<inode, stg, cmd, dataVars, alone, mixed>>

Unlink(p) ==
    /\ pc[p] = "unlink"
    /\ stg' = None
    /\ Exit(p)
    /\ UNCHANGED <<mtd, inode, mixed>>

\* An erased block, or one of which the first part is written.
Torn(img) == {NoImage} \union
             {[img EXCEPT !.data = SubSeq(@, 1, k), !.ended = FALSE] :
                 k \in 0 .. Len(img.data)}

PowerLoss ==
    /\ mtd' \in {mtd} \union UNION {Torn(buf[p]) : p \in {q \in Proc : pc[q] = "flash"}}
    /\ stg' = None
    /\ inode' = [i \in File |-> NoImage]
    /\ pc' = [p \in Proc |-> "idle"]
    /\ cmd' = [p \in Proc |-> NoCommand]
    /\ ino' = [p \in Proc |-> None]
    /\ buf' = [p \in Proc |-> NoImage]
    /\ table' = [p \in Proc |-> EmptyTable]
    /\ pos' = [p \in Proc |-> 1]
    /\ wrote' = [p \in Proc |-> FALSE]
    /\ stale' = [p \in Proc |-> FALSE]
    /\ alone' = [p \in Proc |-> TRUE]
    /\ UNCHANGED mixed

Step(p) ==
    \/ Copy(p) \/ Create(p) \/ Fill(p) \/ Open(p) \/ OpenMtd(p) \/ OpenFails(p)
    \/ ParseMark(p) \/ ParseTake(p) \/ ParseEnd(p) \/ ParseLost(p)
    \/ Answer(p) \/ Apply(p) \/ WriteTuple(p) \/ Finish(p)
    \/ Close(p) \/ Save(p) \/ SaveFails(p) \/ Flash(p) \/ Unlink(p)

Next ==
    \/ \E p \in Proc : Step(p) \/ \E c \in Command : Start(p, c)
    \/ PowerLoss

Spec == Init /\ [][Next]_vars

----------------------------------------------------------------------------
(* Properties                                                               *)

\* The variables of an image as a command reads them: the last tuple counts.
LastNamed(ts, n) == Max({k \in DOMAIN ts : ts[k].name = n})
MapOf(img) ==
    IF ~img.magic THEN [n \in {} |-> Default]
    ELSE [n \in Sdram \union Names(img.data) |->
            IF n \in Names(img.data) THEN img.data[LastNamed(img.data, n)].value
                                     ELSE img.hdr[n]]

\* The staged image, from the moment a command decides what it will be.
Rewriter == {p \in Proc : pc[p] = "tuples" /\ ino[p] = stg}
Filler == {p \in Proc : pc[p] = "fill" /\ ino[p] = stg}
Staged ==
    IF stg = None THEN mtd
    ELSE IF Filler # {} THEN buf[CHOOSE p \in Filler : TRUE]
    ELSE IF Rewriter # {}
      THEN [inode[stg] EXCEPT !.data = Fitting(table[CHOOSE p \in Rewriter : TRUE])]
    ELSE inode[stg]

\* The effect of a command's arguments: the last change to a name counts.
Changes(c, n) == {k \in DOMAIN c.ops : c.ops[k].name = n /\ c.ops[k].op # "get"}
LastOp(c, n) == c.ops[Max(Changes(c, n))]
ChangedBy(c, op) == {n \in Name : Changes(c, n) # {} /\ LastOp(c, n).op = op}
Effect(c) == [set |-> [n \in ChangedBy(c, "set") |-> LastOp(c, n).value],
              unset |-> ChangedBy(c, "unset")]

Effects == {Effect(c) : c \in {d \in Command : d.write}}

\* The bytes of a map's tuples, in any order.
MapWeight(f) ==
    LET ns == SetToSeq(DOMAIN f)
    IN  Bytes([k \in DOMAIN ns |-> [name |-> ns[k], value |-> f[ns[k]]]])

Saving == \E p \in Proc : pc[p] = "flash"

mapped == <<mtd, stg, Saving, Staged>>

Map == INSTANCE NvramMap WITH
    Command <- Effects,
    Weight <- MapWeight, Room <- End,
    saved <- MapOf(mtd), staged <- MapOf(Staged), open <- stg # None,
    saving <- Saving

\* While writing commands run one at a time, whatever reading commands run
\* beside them and whenever the power goes, every step does to the variables
\* what NvramMap says: a change is staged entirely if there is room, commit
\* makes the flash what was staged, and only power loss inside a commit can
\* damage what had been committed.
SequentialMap ==
    Map!Init /\ [][mixed' \/ UNCHANGED mapped \/ [Map!Next]_(Map!vars)]_vars

\* The boot loader reads the header, the commands the tuples: an image that
\* has all SDRAM variables as tuples holds the same values in its header.
HeaderAgrees == ~mixed => Agrees(mtd) /\ Agrees(Staged)

\* A reading command that no writing command overlapped answers with the
\* variables as they are.
Visible == IF stg = None THEN mtd ELSE inode[stg]
Answers(p) ==
    \A n \in Name : /\ Has(table[p], n) <=> n \in DOMAIN MapOf(Visible)
                    /\ Has(table[p], n) => Get(table[p], n) = MapOf(Visible)[n]
AnswersTell == [][\A p \in Proc : alone[p] /\ ~mixed /\ Answer(p) => Answers(p)]_vars

\* A command that no writing command overlapped, and that fails where there is
\* an image with room, is one that writes nothing and had nothing to commit;
\* and only what power loss has torn in flash can crash it.
Fails(p) == OpenFails(p) \/ SaveFails(p) \/ (Unlink(p) /\ stg = None)
Crashes(p) == ParseLost(p) /\ pc'[p] = "idle"
FailuresTell ==
    [][\A p \in Proc : alone[p] /\ ~mixed =>
          /\ Fails(p) /\ Visible.magic /\ Visible.len < Area =>
                stg = None /\ ~cmd[p].write
          /\ Crashes(p) => ~mtd.ended]_vars

\* However commands overlap, the flash keeps an image that commands recognise:
\* the file another command has just created and not filled is not committed.
FlashStaysImage == [][mtd.magic => mtd'.magic \/ PowerLoss]_vars
============================================================================
