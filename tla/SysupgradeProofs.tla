-------------------------- MODULE SysupgradeProofs --------------------------
(* Theorems about mtd write, for devices of every size, any number of them, *)
(* every image, every choice of bad blocks and of blocks that do not erase; *)
(* and about sysupgrade, which runs it: for any callers, options, images    *)
(* and devices, and power loss at any step.                                 *)
EXTENDS Sysupgrade, FiniteSetTheorems, SequenceTheorems, TLAPS

----------------------------------------------------------------------------
(* The invariant.                                                           *)

\* What CommandGiven says of the command, which never changes.
CommandOK ==
    /\ cmd.data \in 0 .. MaxData /\ cmd.marks \in 0 .. MaxMark
    /\ cmd.conf \in 0 .. MaxConf /\ cmd.devs \in Dev /\ cmd.start \in 0 .. 1
    /\ cmd.join \in BOOLEAN /\ cmd.noErase \in BOOLEAN /\ cmd.nand \in BOOLEAN
    /\ cmd.bad # {} => cmd.nand
    /\ append => cmd.join

\* The position runs ahead of the erased blocks by bad blocks only, and the
\* blocks of jffs2 data are counted.
Reach == IF pc = "append" THEN mtdofs ELSE e
Bounded ==
    /\ pc # "failed" => pos <= Size + 1 + Reach
    /\ pc = "append" => append /\ buf # <<>> /\ left <= cmd.conf + 1
                        /\ mtdofs >= e + (cmd.conf + 1 - left)

TypeInv == TypeOK /\ CommandOK /\ Bounded

\* Nothing of the device ends the image before the block.
Clear(d, b) == \A c \in cmd.start .. b - 1 : IsBad(d, c) \/ CanErase(d, c)

\* Blocks of the result that are on flash.
Laid == Cardinality(Before(dev, pos))

\* The blocks of the image before the position are all used or bad, and the
\* position follows from what was written and skipped, except where jffs2 data
\* ran over the end.
Tracked ==
    /\ off = 0 /\ pos \in cmd.start .. Size /\ (cmd.bad = {} => skipBad = 0)
    /\ Clear(dev, pos)
    /\ pc \in {"loop", "done"} =>
          /\ \/ pos = cmd.start + w + skipBad
             \/ ~append /\ pos = Size /\ e > Size /\ e = w + skipBad /\ cmd.start = 0
          /\ cmd.noErase => e = 0
          /\ ~cmd.noErase => e \in {w + skipBad, w + skipBad + 1}
          /\ ~cmd.noErase /\ (buf = <<>> \/ (append /\ buf = <<Mark>>)) => e = w + skipBad
    /\ pc = "append" => /\ e = w + skipBad
                        /\ pos = mtdofs \/ (pos = Size /\ mtdofs > Size)

\* What is behind the position.
Behind ==
    /\ ~cmd.noErase =>
          /\ \A d \in Dev, b \in Block :
                b < cmd.start \/ d > dev \/ (d = dev /\ b > pos) => flash[d][b] = Old
          /\ pos < Size /\ pc # "failed" =>
                flash[dev][pos] = IF e = w + skipBad + 1 THEN Erased ELSE Old
          /\ pc = "loop" /\ e = w + skipBad + 1 => CanErase(dev, pos)
    /\ cmd.noErase => \A b \in Block : b >= pos => flash[dev][b] = Erased

\* How many blocks of the result are written.
More == IF cmd.join /\ cmd.marks > 0 THEN cmd.data + cmd.conf + 1 ELSE cmd.data + cmd.marks
Counted ==
    /\ pc \in {"loop", "done"} =>
          /\ append \/ ~cmd.join => Laid + Len(buf) = rd /\ skip = 0
          /\ append => rd <= cmd.data + Len(buf)
          /\ cmd.join /\ ~append =>
                /\ rd > cmd.data
                /\ Laid + Len(buf) <= rd + skip
                /\ Laid >= More \/ (pos = Size /\ Cardinality(Places) < More)
          /\ buf # <<>> => skip = 0 /\ rd > 0 /\ buf = <<Image(cmd.data, cmd.marks)[rd]>>
    /\ pc = "done" => buf = <<>> /\ (fault = "none" => rd = cmd.data + cmd.marks)
    /\ pc = "append" =>
          /\ rd = cmd.data + 1 /\ cmd.marks > 0
          /\ \/ pos = mtdofs /\ Laid = cmd.data + cmd.conf + 1 - left
             \/ mtdofs > Size /\ pos = Size /\ Cardinality(Places) < More

\* A command that failed lacked room.
NoRoom ==
    pc = "failed" /\ fault = "none" =>
        Cardinality(Places) < More \/ Cardinality(Places) < cmd.data + cmd.marks

InOrder ==
    \A l \in Places :
        l[1] < dev \/ (l[1] = dev /\ l[2] < pos)
            => flash[l[1]][l[2]] = Item(Cardinality(Before(l[1], l[2])) + 1)

MtdInv == Supported => Tracked /\ Behind /\ Counted /\ NoRoom /\ InOrder

----------------------------------------------------------------------------
(* Types.                                                                   *)

LEMMA ContentHolds ==
    /\ Old \in Content /\ Erased \in Content /\ Garbage \in Content /\ Mark \in Content
    /\ \A i \in 1 .. MaxData : Img(i) \in Content
    /\ \A i \in 1 .. MaxConf : Conf(i) \in Content
BY DEF Content

LEMMA ImageHolds ==
    ASSUME NEW n \in 0 .. MaxData, NEW m \in 0 .. MaxMark, NEW i \in 1 .. n + m
    PROVE  Image(n, m)[i] \in Content
BY ContentHolds, BoundAssumption DEF Image

\* Erasing and writing leave contents in the blocks.
LEMMA FlashStaysTyped ==
    ASSUME NEW f \in [Dev -> [Block -> Content]], NEW b \in Nat, NEW c \in Content
    PROVE  /\ EraseAt(f, b) \in [Dev -> [Block -> Content]]
           /\ WriteAt(f, b, c) \in [Dev -> [Block -> Content]]
BY ContentHolds, SizeAssumption DEF EraseAt, WriteAt, CanErase, Block

LEMMA InitTyped == Init => TypeInv
<1> SUFFICES ASSUME Init PROVE TypeInv
    OBVIOUS
<1>1. CommandOK
  <2>1. PICK d \in Dev, n \in 0 .. MaxData, m \in 0 .. MaxMark, k \in 0 .. MaxConf,
             j \in BOOLEAN, p \in 0 .. 1, q \in BOOLEAN, t \in BOOLEAN :
               \E f \in Few(d, MaxWorn), b \in IF t THEN Few(d, MaxBad) ELSE {{}} :
                 /\ k > 0 => j
                 /\ cmd = [data |-> n, marks |-> m, join |-> j, conf |-> k, devs |-> d,
                           start |-> p, noErase |-> q, nand |-> t, bad |-> b, worn |-> f]
    BY DEF Init, CommandGiven
  <2>2. PICK f \in Few(d, MaxWorn), b \in IF t THEN Few(d, MaxBad) ELSE {{}} :
               cmd = [data |-> n, marks |-> m, join |-> j, conf |-> k, devs |-> d,
                      start |-> p, noErase |-> q, nand |-> t, bad |-> b, worn |-> f]
    BY <2>1
  <2>3. cmd.bad # {} => cmd.nand
    BY <2>2
  <2>4. append => cmd.join
    BY DEF Init
  <2> QED
    BY <2>1, <2>2, <2>3, <2>4 DEF CommandOK
<1>2. TypeOK
  <2>1. flash \in [Dev -> [Block -> Content]]
    BY ContentHolds DEF Init
  <2> QED
    BY <1>1, <2>1, SizeAssumption, BoundAssumption, SMTT(30) DEF Init, TypeOK, CommandOK, Dev
<1>3. Bounded
  BY <1>1, SizeAssumption DEF Init, Bounded, CommandOK, Reach
<1> QED
  BY <1>1, <1>2, <1>3 DEF TypeInv

LEMMA CommandStays == TypeInv /\ [Next]_vars => CommandOK'
<1> SUFFICES ASSUME TypeInv, [Next]_vars PROVE CommandOK'
    OBVIOUS
<1>1. UNCHANGED cmd /\ (append' => append)
  BY DEF Next, vars, setupVars, imageVars, placeVars, appendVars, Stop, ReadEnd, ReadBlock,
         AppendBegin, BadCheckFails, SkipBadBlock, EraseBlock, Resume, EraseFails, WriteBlock,
         WriteFails, AppendCheckFails, AppendSkipBad, AppendBlock, AppendEnd
<1> QED
  BY <1>1 DEF TypeInv, CommandOK

LEMMA StepTyped == TypeInv /\ [Next]_vars => TypeInv'
<1> SUFFICES ASSUME TypeInv, [Next]_vars PROVE TypeInv'
    OBVIOUS
<1>0. CommandOK'
  BY CommandStays
<1>a. TypeOK /\ CommandOK /\ Bounded
  BY DEF TypeInv
<1> USE SizeAssumption, BoundAssumption, <1>a
<1>b. /\ pos \in Nat /\ w \in Nat /\ e \in Nat /\ skipBad \in Nat /\ mtdofs \in Nat
      /\ left \in Nat /\ cmd.conf \in Nat /\ cmd.conf <= MaxConf /\ MaxConf \in Nat
      /\ cmd.start \in 0 .. 1 /\ Size \in Nat /\ Size > 0 /\ rd \in Nat /\ skip \in Nat
      /\ pos <= 2 * Size + 1 /\ dev \in 1 .. cmd.devs /\ cmd.devs \in Nat
  BY SMTT(30) DEF TypeOK, CommandOK, Dev
<1>c. /\ pc \notin {"failed", "append"} => pos <= Size + 1 + e
      /\ pc = "append" => /\ pos <= Size + 1 + mtdofs
                          /\ append /\ buf # <<>> /\ left <= cmd.conf + 1
                          /\ mtdofs >= e + (cmd.conf + 1 - left)
  BY DEF Bounded, Reach
<1>1. CASE ReadEnd
  BY <1>1, <1>0 DEF ReadEnd, Stop, imageVars, placeVars, appendVars, TypeInv, TypeOK,
                    CommandOK, Bounded, Reach
<1>2. CASE ReadBlock
  <2>1. rd + 1 \in 1 .. cmd.data + cmd.marks /\ rd' = rd + 1 /\ cmd' = cmd
    BY <1>2, SMTT(30) DEF ReadBlock, setupVars, TypeOK, CommandOK
  <2>2. buf' = <<>> \/ buf' \in {<<c>> : c \in Content}
    BY <1>2, <2>1, ImageHolds DEF ReadBlock, TypeOK, CommandOK
  <2>3. skip' \in Nat
    BY <1>2 DEF ReadBlock, TypeOK
  <2> QED
    BY <1>2, <1>0, <2>1, <2>2, <2>3 DEF ReadBlock, setupVars, placeVars, appendVars, TypeInv,
         TypeOK, CommandOK, Bounded, Reach
<1>3. CASE AppendBegin
  <2>1. buf # <<>>
    BY <1>3 DEF AppendBegin
  <2> QED
    BY <1>3, <2>1, <1>0 DEF AppendBegin, setupVars, imageVars, placeVars, TypeInv, TypeOK,
                    CommandOK, Bounded, Reach
<1>4. CASE BadCheckFails \/ EraseFails \/ WriteFails \/ AppendCheckFails
  BY <1>4, <1>0 DEF BadCheckFails, EraseFails, WriteFails, AppendCheckFails, Stop, setupVars,
         imageVars, placeVars, appendVars, TypeInv, TypeOK, CommandOK, Bounded, Reach
<1>5. CASE SkipBadBlock
  <2>1. pc' = "loop" /\ pos' \in 0 .. 2 * Size + 1 /\ e' \in Nat /\ skipBad' \in Nat
        /\ pos' <= Size + 1 + e'
    BY <1>5, <1>b, <1>c DEF SkipBadBlock, Plain
  <2> QED
    BY <1>5, <1>0, <2>1 DEF SkipBadBlock, setupVars, imageVars, appendVars, TypeInv, TypeOK,
                    CommandOK, Bounded, Reach
<1>6. CASE EraseBlock
  <2>1. flash' \in [Dev -> [Block -> Content]]
    <3>1. flash \in [Dev -> [Block -> Content]]
      BY DEF TypeOK
    <3>2. e + cmd.start \in Nat
      BY <1>b
    <3>3. EraseAt(flash, e + cmd.start) \in [Dev -> [Block -> Content]]
      BY <3>1, <3>2, FlashStaysTyped, ContentHolds
    <3> QED
      BY <1>6, <3>3 DEF EraseBlock
  <2>2. pc' = "loop" /\ pos' = pos /\ e' \in Nat /\ pos' <= Size + 1 + e'
    BY <1>6, <1>b, <1>c DEF EraseBlock, ErasesNext, Plain
  <2> QED
    BY <1>6, <1>0, <2>1, <2>2 DEF EraseBlock, setupVars, imageVars, appendVars, TypeInv,
         TypeOK, CommandOK, Bounded, Reach
<1>7. CASE Resume
  <2>1. Written \in Content
    BY <1>7, ContentHolds DEF Resume, ErasesNext, Plain, Written, TypeOK
  <2>2. flash' \in [Dev -> [Block -> Content]]
    <3>1. CASE w < e
      <4>1. \A b \in Block : WriteAt(flash, b, Written)[dev][b] \in Content
        <5>1. ASSUME NEW b \in Block
              PROVE  WriteAt(flash, b, Written) \in [Dev -> [Block -> Content]]
          <6>1. flash \in [Dev -> [Block -> Content]]
            BY DEF TypeOK
          <6>2. b \in Nat
            BY DEF Block
          <6> QED
            BY <6>1, <6>2, <2>1, FlashStaysTyped
        <5>2. dev \in Dev
          BY DEF TypeOK, CommandOK, Dev
        <5> QED
          BY <5>1, <5>2
      <4> DEFINE g == [b \in Block |->
                   IF b = pos THEN WriteAt(flash, b, Written)[dev][b]
                   ELSE IF b \in pos + 1 .. pos + (e - w) - 1 THEN Garbage
                   ELSE flash[dev][b]]
      <4>2. g \in [Block -> Content]
        BY <4>1, ContentHolds DEF TypeOK, CommandOK, Dev
      <4>3. flash' = [flash EXCEPT ![dev] = g]
        BY <1>7, <3>1 DEF Resume
      <4> HIDE DEF g
      <4> QED
        BY <4>2, <4>3 DEF TypeOK
    <3> QED
      BY <1>7, <3>1 DEF Resume, TypeOK
  <2>3. off' \in Nat
    BY <1>7 DEF Resume, TypeOK
  <2>4. dev' \in 1 .. cmd'.devs
    BY <1>7 DEF Resume, setupVars, TypeOK, CommandOK, Dev
  <2> QED
    BY <1>7, <1>0, <2>2, <2>3, <2>4, SMTT(30) DEF Resume, ErasesNext, Plain, setupVars, imageVars,
         appendVars, TypeInv, TypeOK, CommandOK, Bounded, Reach
<1>8. CASE WriteBlock
  <2>1. Written \in Content
    BY <1>8, ContentHolds DEF WriteBlock, Plain, Written, TypeOK
  <2>2. flash' \in [Dev -> [Block -> Content]]
    <3>1. flash \in [Dev -> [Block -> Content]]
      BY DEF TypeOK
    <3>2. WriteAt(flash, pos, Written) \in [Dev -> [Block -> Content]]
      BY <1>b, <2>1, <3>1, FlashStaysTyped
    <3> QED
      BY <1>8, <3>2 DEF WriteBlock
  <2>3. /\ pc' = "loop" /\ e' = e /\ pos' \in 0 .. 2 * Size + 1 /\ w' \in Nat
        /\ pos' <= Size + 1 + e'
    BY <1>8, <1>b, <1>c DEF WriteBlock, Plain
  <2> QED
    BY <1>8, <1>0, <2>2, <2>3 DEF WriteBlock, setupVars, appendVars, TypeInv, TypeOK,
         CommandOK, Bounded, Reach
<1>9. CASE AppendSkipBad
  BY <1>9, <1>0, SMTT(30) DEF AppendSkipBad, setupVars, imageVars, TypeInv, TypeOK, CommandOK, Bounded,
         Reach
<1>10. CASE AppendBlock
  <2> DEFINE c == IF left = 1 THEN Mark ELSE Conf(cmd.conf + 2 - left)
  <2>1. c \in Content
    <3>1. left # 1 => cmd.conf + 2 - left \in 1 .. MaxConf
      BY <1>10, <1>b, <1>c, SMTT(30) DEF AppendBlock
    <3> QED
      BY <3>1, ContentHolds
  <2>2. flash' = WriteAt(EraseAt(flash, mtdofs), pos, c)
    BY <1>10 DEF AppendBlock
  <2> HIDE DEF c
  <2>3. flash' \in [Dev -> [Block -> Content]]
    <3>1. flash \in [Dev -> [Block -> Content]]
      BY DEF TypeOK
    <3>2. EraseAt(flash, mtdofs) \in [Dev -> [Block -> Content]]
      BY <1>b, <2>1, <3>1, FlashStaysTyped
    <3>3. WriteAt(EraseAt(flash, mtdofs), pos, c) \in [Dev -> [Block -> Content]]
      BY <1>b, <2>1, <3>2, FlashStaysTyped
    <3> QED
      BY <2>2, <3>3
  <2>4. /\ pc' = "append" /\ pos' \in 0 .. 2 * Size + 1 /\ mtdofs' \in Nat
        /\ left' \in 0 .. MaxConf + 1 /\ pos' <= Size + 1 + mtdofs'
        /\ left' <= cmd.conf + 1 /\ mtdofs' >= e + (cmd.conf + 1 - left')
    <3>1. /\ pc = "append" /\ left > 0 /\ mtdofs' = mtdofs + 1 /\ left' = left - 1
          /\ pos' = (IF pos < Size THEN pos + 1 ELSE pos) /\ pc' = pc
      BY <1>10 DEF AppendBlock
    <3>2. left' \in 0 .. MaxConf + 1 /\ left' <= cmd.conf + 1
      BY <3>1, <1>b, <1>c
    <3>3. mtdofs' >= e + (cmd.conf + 1 - left')
      BY <3>1, <1>b, <1>c
    <3> QED
      BY <3>1, <3>2, <3>3, <1>b, <1>c, SMTT(30)
  <2> QED
    BY <1>10, <1>0, <2>3, <2>4 DEF AppendBlock, setupVars, imageVars, TypeInv, TypeOK,
         CommandOK, Bounded, Reach
<1>11. CASE AppendEnd
  <2>1. pc' = "loop" /\ w' \in Nat /\ e' \in Nat /\ skip' \in Nat /\ pos' <= Size + 1 + e'
    BY <1>11, <1>b, <1>c DEF AppendEnd
  <2> QED
    BY <1>11, <1>0, <2>1 DEF AppendEnd, setupVars, appendVars, TypeInv, TypeOK, CommandOK,
         Bounded, Reach
<1>12. CASE UNCHANGED vars
  BY <1>12, <1>0 DEF vars, TypeInv, TypeOK, CommandOK, Bounded, Reach
<1> QED
  BY <1>1, <1>2, <1>3, <1>4, <1>5, <1>6, <1>7, <1>8, <1>9, <1>10, <1>11, <1>12 DEF Next

\* Whatever the command, every variable keeps its type: the file position stays
\* within twice the device, and every block holds an old block, a block of the
\* image or of the jffs2 data, an end marker, nothing, or garbage.
THEOREM WriteTypeInv == Spec => []TypeInv
<1>1. Init => TypeInv
  BY InitTyped
<1>2. TypeInv /\ [Next]_vars => TypeInv'
  BY StepTyped
<1> QED
  BY <1>1, <1>2, PTL DEF Spec

THEOREM WriteTypeCorrect == Spec => []TypeOK
<1>1. TypeInv => TypeOK
  BY DEF TypeInv
<1> QED
  BY <1>1, WriteTypeInv, PTL

----------------------------------------------------------------------------
(* Places on the devices, and what belongs there.                           *)

LEMMA PlacesFinite ==
    /\ IsFiniteSet(Places) /\ Cardinality(Places) \in Nat
    /\ \A d, b : /\ IsFiniteSet(Before(d, b)) /\ Cardinality(Before(d, b)) \in Nat
                 /\ Cardinality(Before(d, b)) <= Cardinality(Places)
<1>1. IsFiniteSet(Dev \X Block)
  <2>1. IsFiniteSet(Dev)
    BY FS_Interval, BoundAssumption DEF Dev
  <2>2. IsFiniteSet(Block)
    BY FS_Interval, SizeAssumption DEF Block
  <2> QED
    BY <2>1, <2>2, FS_Product
<1>2. IsFiniteSet(Places)
  <2>1. Places \subseteq Dev \X Block
    BY DEF Places
  <2> QED
    BY <1>1, <2>1, FS_Subset
<1>3. ASSUME NEW d, NEW b
      PROVE  /\ IsFiniteSet(Before(d, b)) /\ Cardinality(Before(d, b)) \in Nat
             /\ Cardinality(Before(d, b)) <= Cardinality(Places)
  <2>1. Before(d, b) \subseteq Places
    BY DEF Before
  <2>2. IsFiniteSet(Before(d, b)) /\ Cardinality(Before(d, b)) <= Cardinality(Places)
    BY <1>2, <2>1, FS_Subset
  <2> QED
    BY <2>2, FS_CardinalityType
<1> QED
  BY <1>2, <1>3, FS_CardinalityType

\* The next block is one more place, or none.
LEMMA OneMore ==
    ASSUME NEW d \in Nat, NEW b \in Nat, <<d, b>> \in Places
    PROVE  Cardinality(Before(d, b + 1)) = Cardinality(Before(d, b)) + 1
<1>1. Before(d, b + 1) = Before(d, b) \union {<<d, b>>}
  <2>1. ASSUME NEW l \in Places
        PROVE  (l[1] < d \/ (l[1] = d /\ l[2] < b + 1))
               <=> (l[1] < d \/ (l[1] = d /\ l[2] < b)) \/ l = <<d, b>>
    <3>1. l \in Dev \X Block
      BY DEF Places
    <3>2. l = <<l[1], l[2]>> /\ l[1] \in Nat /\ l[2] \in Nat
      BY <3>1, SizeAssumption, BoundAssumption DEF Dev, Block
    <3>3. l[2] < b + 1 <=> l[2] < b \/ l[2] = b
      BY <3>2
    <3>4. l = <<d, b>> <=> l[1] = d /\ l[2] = b
      BY <3>2
    <3> QED
      BY <3>3, <3>4, Zenon
  <2> QED
    BY <2>1 DEF Before
<1>2. <<d, b>> \notin Before(d, b)
  BY DEF Before
<1> QED
  BY <1>1, <1>2, PlacesFinite, FS_AddElement

LEMMA NoneMore ==
    ASSUME NEW d \in Nat, NEW b \in Nat, <<d, b>> \notin Places
    PROVE  Before(d, b + 1) = Before(d, b)
<1>1. ASSUME NEW l \in Places
      PROVE  (l[1] < d \/ (l[1] = d /\ l[2] < b + 1)) <=> (l[1] < d \/ (l[1] = d /\ l[2] < b))
  <2>1. l \in Dev \X Block
    BY DEF Places
  <2>2. l = <<l[1], l[2]>> /\ l[1] \in Nat /\ l[2] \in Nat
    BY <2>1, SizeAssumption, BoundAssumption DEF Dev, Block
  <2>3. l[2] < b + 1 <=> l[2] < b \/ l[2] = b
    BY <2>2
  <2>4. l[1] = d => l[2] # b
    BY <2>2
  <2> QED
    BY <2>3, <2>4, Zenon
<1> QED
  BY <1>1 DEF Before

\* Where no block from b on can be used the device is done.
NoneFrom(d, b) == \A c \in Block : c >= b => <<d, c>> \notin Places

LEMMA NextDevice ==
    ASSUME NEW d \in Nat, NEW b \in Nat, NoneFrom(d, b), CommandOK
    PROVE  Before(d + 1, cmd.start) = Before(d, b)
<1>1. ASSUME NEW l \in Places
      PROVE  (l[1] < d + 1 \/ (l[1] = d + 1 /\ l[2] < cmd.start))
             <=> (l[1] < d \/ (l[1] = d /\ l[2] < b))
  <2>1. l \in Dev \X Block /\ cmd.start <= l[2]
    BY DEF Places, Usable
  <2>2. l = <<l[1], l[2]>> /\ l[1] \in Nat /\ l[2] \in Nat /\ l[2] \in Block
    BY <2>1, SizeAssumption, BoundAssumption DEF Dev, Block
  <2>3. l[1] = d => l[2] < b
    BY <2>2 DEF NoneFrom
  <2>4. ~(l[2] < cmd.start)
    BY <2>1, <2>2 DEF CommandOK
  <2>5. l[1] < d + 1 <=> l[1] < d \/ l[1] = d
    BY <2>2
  <2> QED
    BY <2>3, <2>4, <2>5, Zenon
<1> QED
  BY <1>1 DEF Before

LEMMA LastDevice ==
    ASSUME NEW b \in Nat, NoneFrom(cmd.devs, b), CommandOK
    PROVE  Places = Before(cmd.devs, b)
<1>1. ASSUME NEW l \in Places
      PROVE  l[1] < cmd.devs \/ (l[1] = cmd.devs /\ l[2] < b)
  <2>1. l \in Dev \X Block /\ l[1] <= cmd.devs
    BY DEF Places, Usable
  <2>2. l = <<l[1], l[2]>> /\ l[1] \in Nat /\ l[2] \in Nat /\ l[2] \in Block
    BY <2>1, SizeAssumption, BoundAssumption DEF Dev, Block
  <2>3. l[1] = cmd.devs => l[2] < b
    BY <2>2 DEF NoneFrom
  <2>4. l[1] < cmd.devs \/ l[1] = cmd.devs
    BY <2>1, <2>2 DEF CommandOK, Dev
  <2> QED
    BY <2>3, <2>4
<1> QED
  BY <1>1 DEF Before

\* A block that erases, with none before it that does not, is a place; a block
\* that is neither good nor bad is the end of the device.
LEMMA PlaceWhereClear ==
    ASSUME NEW d \in Dev, NEW b \in Block, CommandOK, d <= cmd.devs, cmd.start <= b,
           Clear(d, b), CanErase(d, b)
    PROVE  <<d, b>> \in Places
<1>1. ~IsBad(d, b)
  BY DEF CanErase
<1>2. ASSUME NEW c \in cmd.start .. b
      PROVE  IsBad(d, c) \/ CanErase(d, c)
  <2>1. c = b \/ c \in cmd.start .. b - 1
    BY SizeAssumption DEF CommandOK, Block
  <2> QED
    BY <2>1 DEF Clear
<1> QED
  BY <1>1, <1>2 DEF Places, Usable

LEMMA EndWhereStuck ==
    ASSUME NEW d \in Nat, NEW b \in Nat, CommandOK, cmd.start <= b,
           ~IsBad(d, b), ~CanErase(d, b)
    PROVE  NoneFrom(d, b)
<1> SUFFICES ASSUME NEW c \in Block, c >= b
             PROVE  ~Usable(d, c)
  BY DEF NoneFrom, Places
<1>1. b \in cmd.start .. c
  BY SizeAssumption DEF CommandOK, Block
<1> QED
  BY <1>1 DEF Usable

LEMMA EndOfDevice ==
    ASSUME NEW d \in Nat
    PROVE  NoneFrom(d, Size)
BY SizeAssumption DEF NoneFrom, Block

LEMMA ImageBlocks ==
    ASSUME NEW n \in Nat, NEW m \in Nat
    PROVE  /\ Len(Image(n, m)) = n + m
           /\ \A i \in 1 .. n : Image(n, m)[i] = Img(i)
           /\ \A i \in n + 1 .. n + m : Image(n, m)[i] = Mark
BY DEF Image

\* What the blocks of the result are, and that end markers follow.
LEMMA ItemsOfImage ==
    ASSUME CommandOK, ~(cmd.join /\ cmd.marks > 0), NEW i \in 1 .. cmd.data + cmd.marks
    PROVE  Item(i) = Image(cmd.data, cmd.marks)[i]
<1>1. Result = Image(cmd.data, cmd.marks)
  BY DEF Result
<1>2. Len(Result) = cmd.data + cmd.marks
  <2>1. cmd.data \in Nat /\ cmd.marks \in Nat
    BY BoundAssumption DEF CommandOK
  <2> QED
    BY <1>1, <2>1, ImageBlocks
<1> QED
  BY <1>1, <1>2 DEF Item, CommandOK

LEMMA ResultBlocks ==
    ASSUME CommandOK
    PROVE  /\ Len(Result) = More
           /\ \A i \in Nat : i > More => Item(i) = Mark
           /\ cmd.join /\ cmd.marks > 0 =>
                 /\ \A i \in 1 .. cmd.data : Item(i) = Img(i)
                 /\ \A i \in 1 .. cmd.conf : Item(cmd.data + i) = Conf(i)
                 /\ Item(cmd.data + cmd.conf + 1) = Mark
<1>0. cmd.data \in Nat /\ cmd.marks \in Nat /\ cmd.conf \in Nat
  BY BoundAssumption DEF CommandOK
<1>1. CASE ~(cmd.join /\ cmd.marks > 0)
  <2>1. Len(Result) = More
    BY <1>0, <1>1, ImageBlocks DEF Result, More
  <2> QED
    BY <1>0, <1>1, <2>1 DEF Item, More
<1>2. CASE cmd.join /\ cmd.marks > 0
  <2> DEFINE head == Image(cmd.data, 0)
             body == [i \in 1 .. cmd.conf |-> Conf(i)]
  <2>1. Result = head \o body \o <<Mark>>
    BY <1>2 DEF Result
  <2>2. \A i \in 1 .. cmd.data + 0 : head[i] = Img(i)
    BY <1>0 DEF Image
  <2>3. head \in Seq({Img(i) : i \in 1 .. cmd.data}) /\ Len(head) = cmd.data
    BY <1>0 DEF Image
  <2>4. body \in Seq({Conf(i) : i \in 1 .. cmd.conf}) /\ Len(body) = cmd.conf
    BY <1>0
  <2>5. \A i \in 1 .. cmd.conf : body[i] = Conf(i)
    OBVIOUS
  <2> DEFINE all == {Img(i) : i \in 1 .. cmd.data} \union {Conf(i) : i \in 1 .. cmd.conf}
                    \union {Mark}
  <2>6. head \in Seq(all) /\ body \in Seq(all) /\ <<Mark>> \in Seq(all)
    BY <2>3, <2>4
  <2> HIDE DEF head, body, all
  <2> DEFINE n == cmd.data
             k == cmd.conf
             front == head \o body
  <2>a. /\ front \in Seq(all) /\ Len(front) = n + k
        /\ \A i \in 1 .. n + k : front[i] = IF i <= n THEN head[i] ELSE body[i - n]
    <3>1. /\ front \in Seq(all) /\ Len(front) = Len(head) + Len(body)
          /\ \A i \in 1 .. Len(head) + Len(body) :
                front[i] = IF i <= Len(head) THEN head[i] ELSE body[i - Len(head)]
      BY <2>6, ConcatProperties
    <3> HIDE DEF front
    <3> QED
      BY <3>1, <2>3, <2>4
  <2>b. Result = front \o <<Mark>>
    BY <2>1
  <2> HIDE DEF front
  <2>c. /\ Len(Result) = n + k + 1 /\ Result[n + k + 1] = Mark
        /\ \A i \in 1 .. n + k : Result[i] = front[i]
    <3>1. Len(<<Mark>>) = 1 /\ <<Mark>>[1] = Mark
      OBVIOUS
    <3>2. /\ Len(Result) = n + k + 1
          /\ \A i \in 1 .. n + k + 1 :
                Result[i] = IF i <= n + k THEN front[i] ELSE <<Mark>>[i - (n + k)]
      <4>1. /\ Len(Result) = Len(front) + Len(<<Mark>>)
            /\ \A i \in 1 .. Len(front) + Len(<<Mark>>) :
                Result[i] = IF i <= Len(front) THEN front[i] ELSE <<Mark>>[i - Len(front)]
        BY <2>a, <2>b, <2>6, ConcatProperties
      <4> QED
        BY <4>1, <3>1, <2>a
    <3>3. n + k + 1 - (n + k) = 1 /\ n + k + 1 \in 1 .. n + k + 1 /\ ~(n + k + 1 <= n + k)
      BY <1>0
    <3> QED
      BY <1>0, <3>1, <3>2, <3>3
  <2>7. /\ Len(Result) = cmd.data + cmd.conf + 1
        /\ \A i \in 1 .. cmd.data : Result[i] = head[i]
        /\ \A i \in 1 .. cmd.conf : Result[cmd.data + i] = body[i]
        /\ Result[cmd.data + cmd.conf + 1] = Mark
    <3>1. n \in Nat /\ k \in Nat
      BY <1>0
    <3> HIDE DEF n, k
    <3>2. \A i \in 1 .. n : i \in 1 .. n + k /\ i <= n
      BY <3>1
    <3>3. \A i \in 1 .. k : n + i \in 1 .. n + k /\ ~(n + i <= n) /\ (n + i) - n = i
      BY <3>1
    <3>4. /\ \A i \in 1 .. n : Result[i] = head[i]
          /\ \A i \in 1 .. k : Result[n + i] = body[i]
      BY <3>2, <3>3, <2>a, <2>c
    <3> QED
      BY <3>4, <2>c DEF n, k
  <2>8. Len(Result) = More
    BY <1>2, <2>7 DEF More
  <2> QED
    BY <1>0, <2>2, <2>5, <2>7, <2>8 DEF Item
<1> QED
  BY <1>1, <1>2

\* The command is given once.
LEMMA Steady ==
    ASSUME cmd' = cmd
    PROVE  /\ Supported' = Supported /\ Places' = Places /\ More' = More
           /\ \A d, b : /\ Before(d, b)' = Before(d, b)
                        /\ IsBad(d, b)' = IsBad(d, b)
                        /\ CanErase(d, b)' = CanErase(d, b)
           /\ \A i : Item(i)' = Item(i)
<1>1. Supported' = Supported
  BY DEF Supported
<1>2. Places' = Places
  BY DEF Places, Usable, IsBad, CanErase
<1>3. More' = More
  BY DEF More
<1>4. ASSUME NEW d, NEW b
      PROVE  Before(d, b)' = Before(d, b)
  BY <1>2 DEF Before
<1>5. ASSUME NEW d, NEW b
      PROVE  IsBad(d, b)' = IsBad(d, b) /\ CanErase(d, b)' = CanErase(d, b)
  BY DEF IsBad, CanErase
<1>6. ASSUME NEW i
      PROVE  Item(i)' = Item(i)
  BY DEF Item, Result, Image
<1> QED
  BY <1>1, <1>2, <1>3, <1>4, <1>5, <1>6

----------------------------------------------------------------------------
(* The invariant holds in every state.                                      *)

Good == TypeInv /\ Supported /\ Tracked /\ Behind /\ Counted /\ NoRoom /\ InOrder

\* The numbers in play, and what a command that the code is written for leaves
\* out: bad blocks and more than one device do not come together.
LEMMA Numbers ==
    Good =>
        /\ Size \in Nat /\ Size > 0 /\ MaxDev \in Nat
        /\ dev \in Nat /\ dev \in Dev /\ dev <= cmd.devs /\ cmd.devs \in Nat /\ cmd.devs \in Dev
        /\ pos \in Nat /\ cmd.start <= pos /\ pos <= Size
        /\ cmd.start \in Nat /\ cmd.start <= 1
        /\ w \in Nat /\ e \in Nat /\ skipBad \in Nat /\ rd \in Nat /\ skip \in Nat
        /\ mtdofs \in Nat /\ left \in Nat
        /\ cmd.data \in Nat /\ cmd.marks \in Nat /\ cmd.conf \in Nat
        /\ rd <= cmd.data + cmd.marks /\ off = 0
        /\ Laid \in Nat /\ Cardinality(Places) \in Nat /\ Laid <= Cardinality(Places)
        /\ CommandOK /\ More \in Nat
<1> SUFFICES ASSUME Good
             PROVE  Numbers!2
    OBVIOUS
<1>1. TypeOK /\ CommandOK /\ Tracked
  BY DEF Good, TypeInv
<1>2. /\ Laid \in Nat /\ Cardinality(Places) \in Nat /\ Laid <= Cardinality(Places)
  BY PlacesFinite DEF Laid
<1>3. /\ cmd.data \in Nat /\ cmd.marks \in Nat /\ cmd.conf \in Nat /\ cmd.devs \in Dev
      /\ cmd.start \in Nat /\ cmd.start <= 1
  BY <1>1, BoundAssumption DEF CommandOK
<1>4. dev \in Dev /\ dev \in Nat /\ dev <= cmd.devs /\ cmd.devs \in Nat
  BY <1>1, <1>3, BoundAssumption DEF TypeOK, Dev
<1>5. pos \in Nat /\ cmd.start <= pos /\ pos <= Size
  BY <1>1, <1>3, SizeAssumption DEF TypeOK, Tracked
<1>6. off = 0
  BY <1>1 DEF Tracked
<1>7. /\ w \in Nat /\ e \in Nat /\ skipBad \in Nat /\ rd \in Nat /\ skip \in Nat
      /\ mtdofs \in Nat /\ left \in Nat /\ rd <= cmd.data + cmd.marks
  BY <1>1, <1>3, BoundAssumption DEF TypeOK
<1>8. More \in Nat
  BY <1>3 DEF More
<1> QED
  BY <1>1, <1>2, <1>3, <1>4, <1>5, <1>6, <1>7, <1>8, SizeAssumption, BoundAssumption

LEMMA Kinds ==
    Good =>
        /\ cmd.bad # {} => cmd.devs = 1 /\ cmd.start = 0 /\ ~cmd.noErase
        /\ cmd.devs # 1 => cmd.bad = {} /\ ~cmd.join /\ ~cmd.noErase /\ ~cmd.nand
        /\ cmd.join => cmd.devs = 1 /\ ~cmd.noErase /\ cmd.worn = {} /\ cmd.start = 0
        /\ cmd.noErase => cmd.devs = 1 /\ cmd.bad = {} /\ cmd.worn = {} /\ ~cmd.join
        /\ append => cmd.join
        /\ pc = "append" => append
        /\ skipBad # 0 => cmd.bad # {}
        /\ \A d, b : IsBad(d, b) => cmd.bad # {}
<1> SUFFICES ASSUME Good
             PROVE  Kinds!2
    OBVIOUS
<1>1. CommandOK /\ Bounded /\ Supported /\ Tracked
  BY DEF Good, TypeInv
<1>2. cmd.start \in 0 .. 1 /\ (cmd.start > 0 => cmd.bad = {} /\ ~cmd.join)
  BY <1>1 DEF CommandOK, Supported
<1>3. \A d, b : IsBad(d, b) => cmd.bad # {}
  BY DEF IsBad
<1> QED
  BY <1>1, <1>2, <1>3 DEF CommandOK, Bounded, Supported, Tracked

LEMMA InitGood == Init /\ Supported => Good
<1> SUFFICES ASSUME Init, Supported
             PROVE  Good
    OBVIOUS
<1>1. TypeInv
  BY InitTyped
<1>2. TypeOK /\ CommandOK
  BY <1>1 DEF TypeInv
<1>3. /\ dev = 1 /\ pos = cmd.start /\ w = 0 /\ e = 0 /\ skipBad = 0 /\ rd = 0 /\ buf = <<>>
      /\ off = 0 /\ skip = 0 /\ append = cmd.join /\ pc = "loop" /\ fault = "none"
  BY DEF Init
<1>4. cmd.start \in 0 .. 1 /\ Size \in Nat /\ Size > 0 /\ dev \in Dev
  BY <1>2, <1>3, SizeAssumption, BoundAssumption DEF CommandOK, Dev
<1>5. \A l \in Places : ~(l[1] < dev \/ (l[1] = dev /\ l[2] < pos))
  <2> SUFFICES ASSUME NEW l \in Places
               PROVE  ~(l[1] < 1) /\ ~(l[2] < cmd.start)
    BY <1>3
  <2>1. l \in Dev \X Block /\ cmd.start <= l[2]
    BY DEF Places, Usable
  <2> QED
    BY <2>1, <1>4, BoundAssumption DEF Dev, Block
<1>6. Laid = 0
  <2>1. Before(dev, pos) = {}
    BY <1>5 DEF Before
  <2> QED
    BY <2>1, FS_EmptySet DEF Laid
<1>7. Tracked
  <2>1. Clear(dev, pos)
    BY <1>3, <1>4 DEF Clear
  <2> QED
    BY <1>3, <1>4, <2>1 DEF Tracked
<1>8. Behind
  <2>1. ASSUME NEW d \in Dev, NEW b \in Block
        PROVE  flash[d][b] = IF cmd.noErase /\ CanErase(d, b) THEN Erased ELSE Old
    BY DEF Init
  <2>2. CASE cmd.noErase
    <3>1. cmd.bad = {} /\ cmd.worn = {}
      BY <2>2 DEF Supported
    <3>2. \A b \in Block : CanErase(dev, b)
      BY <3>1, <1>4 DEF CanErase, IsBad, Block
    <3> QED
      BY <2>1, <2>2, <3>2, <1>4 DEF Behind
  <2>3. CASE ~cmd.noErase
    <3>1. pos < Size => pos \in Block
      BY <1>3, <1>4 DEF Block
    <3>2. e # w + skipBad + 1
      BY <1>3
    <3> QED
      BY <2>1, <2>3, <3>1, <3>2, <1>4 DEF Behind
  <2> QED
    BY <2>2, <2>3
<1>9. Counted
  <2>1. Laid + Len(buf) = rd
    BY <1>3, <1>6
  <2>2. append => rd <= cmd.data + Len(buf)
    BY <1>2, <1>3, BoundAssumption DEF CommandOK
  <2> QED
    BY <1>3, <1>6, <2>1, <2>2 DEF Counted
<1>10. NoRoom /\ InOrder
  BY <1>3, <1>5 DEF NoRoom, InOrder
<1> QED
  BY <1>1, <1>7, <1>8, <1>9, <1>10 DEF Good

\* Where a block has to be erased first, it is the one at the position.
LEMMA MustErase ==
    Good /\ Plain /\ NeedErase =>
        /\ ~cmd.noErase /\ e = w + skipBad
        /\ pos = cmd.start + e \/ (pos = Size /\ e > Size /\ cmd.start = 0)
<1> SUFFICES ASSUME Good, Plain, NeedErase
             PROVE  MustErase!2
    OBVIOUS
<1>1. pc = "loop" /\ Tracked
  BY DEF Good, Plain
<1>2. w \in Nat /\ e \in Nat /\ skipBad \in Nat /\ cmd.start \in Nat
  BY Numbers
<1>3. ~cmd.noErase /\ w + 1 + skipBad > e
  BY DEF NeedErase
<1> QED
  BY <1>1, <1>2, <1>3 DEF Tracked

\* Where none has to be, the block at the position is erased and good.
LEMMA MayWrite ==
    Good /\ Plain /\ ~NeedErase /\ pos < Size =>
        /\ pos = cmd.start + w + skipBad
        /\ ~cmd.noErase => e = w + skipBad + 1
        /\ pos \in Block /\ flash[dev][pos] = Erased /\ CanErase(dev, pos)
<1> SUFFICES ASSUME Good, Plain, ~NeedErase, pos < Size
             PROVE  MayWrite!2
    OBVIOUS
<1>1. pc = "loop" /\ Tracked /\ Behind
  BY DEF Good, Plain
<1>2. /\ w \in Nat /\ e \in Nat /\ skipBad \in Nat /\ cmd.start \in Nat /\ pos \in Nat
      /\ Size \in Nat
  BY Numbers
<1>3. cmd.noErase \/ w + 1 + skipBad <= e
  BY <1>2 DEF NeedErase
<1>4. pos \in Block
  BY <1>2 DEF Block
<1>5. CASE cmd.noErase
  <2>1. e = 0 /\ pos = cmd.start + w + skipBad
    BY <1>1, <1>2, <1>5 DEF Tracked
  <2>2. flash[dev][pos] = Erased
    BY <1>1, <1>2, <1>4, <1>5 DEF Behind
  <2>3. CanErase(dev, pos)
    BY <1>5, Kinds DEF CanErase, IsBad
  <2> QED
    BY <1>4, <1>5, <2>1, <2>2, <2>3
<1>6. CASE ~cmd.noErase
  <2>1. e = w + skipBad + 1
    BY <1>1, <1>2, <1>3, <1>6 DEF Tracked
  <2>2. pos = cmd.start + w + skipBad
    BY <1>1, <1>2, <2>1 DEF Tracked
  <2> QED
    BY <1>1, <1>4, <1>6, <2>1, <2>2 DEF Behind
<1> QED
  BY <1>5, <1>6

\* Steps that end the command.
LEMMA StopKeeps ==
    ASSUME Good, NEW how \in {"done", "failed"}, Stop(how), cmd' = cmd, TypeInv',
           how = "done" => pc = "loop" /\ buf = <<>>
    PROVE  Supported' /\ Tracked' /\ Behind' /\ InOrder'
<1>1. Tracked /\ Behind /\ InOrder /\ Supported
  BY DEF Good
<1>2. /\ pc' = how /\ how # "append" /\ how # "loop"
      /\ UNCHANGED <<cmd, flash, imageVars, placeVars, appendVars>>
  BY DEF Stop
<1>3. /\ flash' = flash /\ dev' = dev /\ pos' = pos /\ w' = w /\ e' = e /\ skipBad' = skipBad
      /\ off' = off /\ append' = append /\ buf' = buf
  BY <1>2 DEF imageVars, placeVars
<1>4. Tracked'
  BY <1>1, <1>2, <1>3 DEF Tracked, Clear, IsBad, CanErase
<1>5. Behind'
  BY <1>1, <1>2, <1>3 DEF Behind, CanErase, IsBad
<1>6. InOrder'
  BY <1>1, <1>2, <1>3, Steady DEF InOrder
<1> QED
  BY <1>1, <1>4, <1>5, <1>6, <1>2, Steady

LEMMA ReadEndGood == Good /\ ReadEnd /\ TypeInv' => Good'
<1> SUFFICES ASSUME Good, ReadEnd, TypeInv'
             PROVE  Good'
    OBVIOUS
<1>1. /\ Stop("done") /\ cmd' = cmd /\ pc = "loop" /\ buf = <<>>
      /\ fault' = "none" => rd = cmd.data + cmd.marks
  BY DEF ReadEnd
<1>2. Supported' /\ Tracked' /\ Behind' /\ InOrder'
  BY <1>1, StopKeeps
<1>3. /\ pc' = "done" /\ rd' = rd /\ buf' = buf /\ skip' = skip /\ append' = append /\ pos' = pos
      /\ dev' = dev /\ mtdofs' = mtdofs /\ left' = left
  BY <1>1 DEF Stop, imageVars, placeVars, appendVars
<1>4. Laid' = Laid
  BY <1>1, <1>3, Steady DEF Laid, Before
<1>5. Counted'
  BY <1>1, <1>3, <1>4, Steady DEF Good, Counted, Image
<1>6. NoRoom'
  BY <1>3 DEF NoRoom
<1> QED
  BY <1>2, <1>5, <1>6 DEF Good

\* The image did not fit where a command fails before it has read everything.
LEMMA FailGood ==
    ASSUME Good, Stop("failed"), cmd' = cmd, TypeInv',
           fault' = "none" =>
              Cardinality(Places) < More \/ Cardinality(Places) < cmd.data + cmd.marks
    PROVE  Good'
<1>1. Supported' /\ Tracked' /\ Behind' /\ InOrder'
  BY StopKeeps
<1>2. pc' = "failed"
  BY DEF Stop
<1>3. Counted'
  BY <1>2 DEF Counted
<1>4. NoRoom'
  BY Steady DEF NoRoom
<1> QED
  BY <1>1, <1>3, <1>4 DEF Good

\* While a block waits to be written, less lies on flash than was read.
LEMMA Waiting ==
    Good /\ Plain =>
        /\ Len(buf) = 1 /\ skip = 0 /\ rd > 0 /\ buf = <<Image(cmd.data, cmd.marks)[rd]>>
        /\ Laid + 1 <= rd /\ Laid < cmd.data + cmd.marks
<1> SUFFICES ASSUME Good, Plain
             PROVE  Waiting!2
    OBVIOUS
<1>1. pc = "loop" /\ buf # <<>> /\ Counted
  BY DEF Good, Plain
<1>2. skip = 0 /\ rd > 0 /\ buf = <<Image(cmd.data, cmd.marks)[rd]>>
  BY <1>1 DEF Counted
<1>3. Len(buf) = 1
  BY <1>2
<1>4. Laid + Len(buf) = rd \/ Laid + Len(buf) <= rd + skip
  BY <1>1, Kinds, Zenon DEF Counted
<1>5. /\ Laid \in Nat /\ rd \in Nat /\ rd <= cmd.data + cmd.marks /\ cmd.data \in Nat
      /\ cmd.marks \in Nat
  BY Numbers
<1> QED
  BY <1>2, <1>3, <1>4, <1>5

\* At the end of the last device nothing is left to be used.
LEMMA AllLaid ==
    ASSUME Good, dev = cmd.devs, NoneFrom(dev, pos)
    PROVE  Cardinality(Places) = Laid
BY Numbers, LastDevice DEF Laid

LEMMA StuckAtEnd ==
    ASSUME Good, Plain, NeedErase, ~IsBad(dev, e), ~CanErase(dev, e + cmd.start)
    PROVE  NoneFrom(dev, pos)
<1>1. /\ Size \in Nat /\ e \in Nat /\ pos \in Nat /\ cmd.start \in Nat /\ dev \in Nat
      /\ cmd.start <= pos /\ CommandOK
  BY Numbers
<1>2. CASE pos = Size
  BY <1>1, <1>2, EndOfDevice
<1>3. CASE pos # Size
  <2>1. pos = e + cmd.start
    BY <1>1, <1>3, MustErase
  <2>2. ~IsBad(dev, pos)
    <3>1. CASE cmd.bad = {}
      BY <3>1, Kinds
    <3>2. CASE cmd.bad # {}
      <4>1. pos = e
        BY <3>2, <2>1, <1>1, Kinds
      <4> QED
        BY <4>1
    <3> QED
      BY <3>1, <3>2
  <2> QED
    BY <1>1, <2>1, <2>2, EndWhereStuck
<1> QED
  BY <1>2, <1>3

LEMMA FailsGood ==
    Good /\ TypeInv' /\ (BadCheckFails \/ EraseFails \/ WriteFails \/ AppendCheckFails) => Good'
<1> SUFFICES ASSUME Good, TypeInv',
                    BadCheckFails \/ EraseFails \/ WriteFails \/ AppendCheckFails
             PROVE  Good'
    OBVIOUS
<1>0. /\ Size \in Nat /\ Size > 0 /\ e \in Nat /\ pos \in Nat /\ pos <= Size
      /\ cmd.start \in Nat /\ dev \in Nat /\ dev \in Dev /\ dev <= cmd.devs /\ cmd.devs \in Nat
      /\ Laid \in Nat /\ Cardinality(Places) \in Nat
  BY Numbers
<1>a. dev >= 1
  BY <1>0, BoundAssumption DEF Dev
<1>b. cmd.devs = 1 => dev = cmd.devs
  BY <1>0, <1>a
<1>1. CASE BadCheckFails
  <2>1. Plain /\ NeedErase /\ cmd.nand /\ e >= Size /\ Stop("failed") /\ cmd' = cmd
    BY <1>1 DEF BadCheckFails, setupVars
  <2>2. dev = cmd.devs
    BY <2>1, <1>b, Kinds
  <2>3. pos = Size
    BY <2>1, <1>0, MustErase
  <2>4. Cardinality(Places) = Laid
    BY <1>0, <2>2, <2>3, EndOfDevice, AllLaid
  <2> QED
    BY <2>1, <2>4, Waiting, FailGood
<1>2. CASE EraseFails
  <2>1. /\ Plain /\ NeedErase /\ ~IsBad(dev, e) /\ ~CanErase(dev, e + cmd.start)
        /\ dev = cmd.devs /\ Stop("failed") /\ cmd' = cmd
    BY <1>2 DEF EraseFails, ErasesNext, setupVars
  <2>2. Cardinality(Places) = Laid
    BY <2>1, StuckAtEnd, AllLaid
  <2> QED
    BY <2>1, <2>2, Waiting, FailGood
<1>3. CASE WriteFails
  <2>1. Plain /\ ~NeedErase /\ Stop("failed") /\ cmd' = cmd /\ (pos < Size => fault' = "write")
    BY <1>3 DEF WriteFails
  <2>2. CASE pos < Size
    BY <2>1, <2>2, FailGood
  <2>3. CASE ~(pos < Size)
    <3>1. pos = Size
      BY <2>3, <1>0
    <3>2. cmd.noErase
      <4> SUFFICES ASSUME ~cmd.noErase
                   PROVE  FALSE
        OBVIOUS
      <4>1. pc = "loop" /\ Tracked /\ Behind
        BY <2>1 DEF Good, Plain
      <4>2. ~(w + 1 + skipBad > e)
        BY <2>1 DEF NeedErase
      <4>3. w \in Nat /\ skipBad \in Nat /\ e \in {w + skipBad, w + skipBad + 1}
        BY <4>1, Numbers DEF Tracked
      <4>4. e = w + skipBad + 1
        BY <4>2, <4>3, <1>0
      <4>5. CanErase(dev, pos)
        BY <4>1, <4>4 DEF Behind
      <4> QED
        BY <4>5, <3>1, <1>0 DEF CanErase
    <3>3. dev = cmd.devs
      BY <3>2, <1>b, Kinds
    <3>4. Cardinality(Places) = Laid
      BY <1>0, <3>1, <3>3, EndOfDevice, AllLaid
    <3> QED
      BY <2>1, <3>4, Waiting, FailGood
  <2> QED
    BY <2>2, <2>3
<1>4. CASE AppendCheckFails
  <2>1. pc = "append" /\ left > 0 /\ mtdofs >= Size /\ Stop("failed") /\ cmd' = cmd
    BY <1>4 DEF AppendCheckFails, setupVars
  <2>2. Counted /\ append /\ cmd.join
    BY <2>1, Kinds DEF Good
  <2>3. dev = cmd.devs
    BY <2>2, <1>b, Kinds
  <2>4. cmd.marks > 0 /\ More = cmd.data + cmd.conf + 1
    BY <2>1, <2>2 DEF Counted, More
  <2>5. Cardinality(Places) < More
    <3>1. CASE pos = mtdofs /\ Laid = cmd.data + cmd.conf + 1 - left
      <4>1. pos = Size
        BY <3>1, <2>1, <1>0
      <4>2. Cardinality(Places) = Laid
        BY <1>0, <2>3, <4>1, EndOfDevice, AllLaid
      <4>3. cmd.data \in Nat /\ cmd.conf \in Nat /\ left \in Nat
        BY Numbers
      <4> QED
        BY <3>1, <4>2, <4>3, <2>1, <2>4, <1>0
    <3>2. CASE Cardinality(Places) < More
      BY <3>2
    <3> QED
      BY <2>1, <2>2, <3>1, <3>2 DEF Counted
  <2> QED
    BY <2>1, <2>5, FailGood
<1> QED
  BY <1>1, <1>2, <1>3, <1>4

\* Steps that leave flash and position alone keep what lies there in order.
LEMMA SamePlace ==
    ASSUME Good, cmd' = cmd, dev' = dev, pos' = pos
    PROVE  /\ Supported' /\ Laid' = Laid /\ (Clear(dev, pos))' = Clear(dev, pos)
           /\ flash' = flash => InOrder'
<1>1. Supported' /\ (flash' = flash => InOrder')
  BY Steady DEF Good, InOrder
<1>2. Laid' = Laid
  BY Steady DEF Laid, Before
<1>3. (Clear(dev, pos))' = Clear(dev, pos)
  BY DEF Clear, IsBad, CanErase
<1> QED
  BY <1>1, <1>2, <1>3

LEMMA ReadBlockGood == Good /\ ReadBlock /\ TypeInv' => Good'
<1> SUFFICES ASSUME Good, ReadBlock, TypeInv'
             PROVE  Good'
    OBVIOUS
<1>0. /\ Size \in Nat /\ e \in Nat /\ w \in Nat /\ skipBad \in Nat /\ rd \in Nat /\ skip \in Nat
      /\ Laid \in Nat /\ cmd.data \in Nat
  BY Numbers
<1>1. /\ pc = "loop" /\ buf = <<>> /\ rd < cmd.data + cmd.marks /\ rd' = rd + 1 /\ pc' = pc
      /\ cmd' = cmd /\ fault' = fault /\ flash' = flash /\ dev' = dev /\ pos' = pos /\ w' = w
      /\ e' = e /\ skipBad' = skipBad /\ off' = off /\ append' = append
      /\ mtdofs' = mtdofs /\ left' = left
  BY DEF ReadBlock, setupVars, placeVars, appendVars
<1>2. \/ skip > 0 /\ skip' = skip - 1 /\ buf' = buf
      \/ skip = 0 /\ skip' = skip /\ buf' = <<Image(cmd.data, cmd.marks)[rd + 1]>>
  BY <1>0 DEF ReadBlock
<1>3. Tracked /\ Behind /\ Counted
  BY DEF Good
<1>4. Supported' /\ Laid' = Laid /\ InOrder' /\ (Clear(dev, pos))' = Clear(dev, pos)
  BY <1>1, SamePlace
<1>5. Tracked'
  <2>1. ~cmd.noErase => e = w + skipBad
    BY <1>1, <1>3 DEF Tracked
  <2> QED
    BY <1>1, <1>3, <1>4, <2>1 DEF Tracked
<1>6. Behind'
  BY <1>1, <1>3 DEF Behind, CanErase, IsBad
<1>7. Counted'
  <2>1. Len(buf) = 0
    BY <1>1
  <2>2. CASE skip > 0
    <3>1. ~append /\ cmd.join
      BY <1>0, <1>1, <1>3, <2>2 DEF Counted
    <3>2. Len(buf') = 0 /\ skip' = skip - 1 /\ buf' = <<>>
      BY <1>0, <1>1, <1>2, <2>2
    <3>3. rd' > cmd.data /\ Laid + 0 <= rd' + skip'
      <4>1. rd > cmd.data /\ Laid + 0 <= rd + skip
        BY <1>1, <1>3, <2>1, <3>1 DEF Counted
      <4> QED
        BY <1>0, <1>1, <3>2, <4>1, <2>2
    <3>4. Laid >= More \/ (pos = Size /\ Cardinality(Places) < More)
      BY <1>1, <1>3, <3>1 DEF Counted
    <3> QED
      BY <1>1, <1>4, <3>1, <3>2, <3>3, <3>4, Steady DEF Counted
  <2>3. CASE ~(skip > 0)
    <3>1. skip = 0 /\ skip' = 0 /\ buf' = <<Image(cmd.data, cmd.marks)[rd']>>
      BY <1>0, <1>1, <1>2, <2>3
    <3>2. Len(buf') = 1 /\ buf' # <<>> /\ rd' > 0
      BY <3>1, <1>0, <1>1
    <3>3. append \/ ~cmd.join => Laid + 1 = rd'
      BY <1>0, <1>1, <1>3, <2>1 DEF Counted
    <3>4. append => rd' <= cmd.data + 1
      BY <1>0, <1>1, <1>3, <2>1 DEF Counted
    <3>5. cmd.join /\ ~append =>
            /\ rd' > cmd.data /\ Laid + 1 <= rd' + 0
            /\ Laid >= More \/ (pos = Size /\ Cardinality(Places) < More)
      <4> SUFFICES ASSUME cmd.join, ~append
                   PROVE  /\ rd' > cmd.data /\ Laid + 1 <= rd' + 0
                          /\ Laid >= More \/ (pos = Size /\ Cardinality(Places) < More)
        OBVIOUS
      <4>1. /\ rd > cmd.data /\ Laid + 0 <= rd + 0
            /\ Laid >= More \/ (pos = Size /\ Cardinality(Places) < More)
        BY <1>1, <1>3, <2>1, <3>1 DEF Counted
      <4> QED
        BY <1>0, <1>1, <4>1
    <3>6. buf' = <<Image(cmd.data', cmd.marks')[rd']>>
      BY <1>1, <3>1
    <3> QED
      BY <1>1, <1>4, <3>1, <3>2, <3>3, <3>4, <3>5, Steady DEF Counted, Image
  <2> QED
    BY <2>2, <2>3
<1>8. NoRoom'
  BY <1>1 DEF NoRoom
<1> QED
  BY <1>4, <1>5, <1>6, <1>7, <1>8 DEF Good

LEMMA AppendBeginGood == Good /\ AppendBegin /\ TypeInv' => Good'
<1> SUFFICES ASSUME Good, AppendBegin, TypeInv'
             PROVE  Good'
    OBVIOUS
<1>0. /\ Size \in Nat /\ e \in Nat /\ w \in Nat /\ skipBad \in Nat /\ rd \in Nat /\ Laid \in Nat
      /\ cmd.data \in Nat /\ cmd.marks \in Nat /\ cmd.conf \in Nat
      /\ rd <= cmd.data + cmd.marks
  BY Numbers
<1>1. /\ pc = "loop" /\ append /\ buf = <<Mark>> /\ pc' = "append" /\ mtdofs' = e
      /\ left' = cmd.conf + 1 /\ cmd' = cmd /\ fault' = fault /\ flash' = flash /\ dev' = dev
      /\ pos' = pos /\ w' = w /\ e' = e /\ skipBad' = skipBad /\ off' = off
      /\ append' = append /\ rd' = rd /\ buf' = buf /\ skip' = skip
  BY DEF AppendBegin, setupVars, imageVars, placeVars
<1>2. Tracked /\ Behind /\ Counted
  BY DEF Good
<1>3. Supported' /\ Laid' = Laid /\ InOrder' /\ (Clear(dev, pos))' = Clear(dev, pos)
  BY <1>1, SamePlace
<1>4. cmd.join /\ cmd.start = 0 /\ ~cmd.noErase
  BY <1>1, Kinds
<1>5. e = w + skipBad /\ pos = mtdofs'
  BY <1>0, <1>1, <1>2, <1>4 DEF Tracked
<1>6. Tracked'
  BY <1>1, <1>2, <1>3, <1>5 DEF Tracked
<1>7. Behind'
  BY <1>1, <1>2, <1>4 DEF Behind, CanErase, IsBad
<1>8. rd = cmd.data + 1 /\ cmd.marks > 0 /\ Laid = cmd.data
  <2>1. Len(buf) = 1 /\ buf # <<>> /\ buf[1] = Mark
    BY <1>1
  <2>2. rd > 0 /\ rd <= cmd.data + 1 /\ Laid + 1 = rd /\ buf = <<Image(cmd.data, cmd.marks)[rd]>>
    BY <1>1, <1>2, <2>1 DEF Counted
  <2>3. ~(rd <= cmd.data)
    <3>1. rd <= cmd.data => rd \in 1 .. cmd.data
      BY <1>0, <2>2
    <3>2. rd \in 1 .. cmd.data => Image(cmd.data, cmd.marks)[rd] = Img(rd)
      BY <1>0, ImageBlocks
    <3>3. Image(cmd.data, cmd.marks)[rd] = Mark
      BY <2>1, <2>2
    <3> QED
      BY <3>1, <3>2, <3>3 DEF Img, Mark
  <2> QED
    BY <1>0, <2>2, <2>3
<1>9. Counted'
  <2>1. cmd.data + cmd.conf + 1 - (cmd.conf + 1) = cmd.data
    BY <1>0
  <2> QED
    BY <1>1, <1>3, <1>5, <1>8, <2>1 DEF Counted
<1>10. NoRoom'
  BY <1>1 DEF NoRoom
<1> QED
  BY <1>3, <1>6, <1>7, <1>9, <1>10 DEF Good

LEMMA EraseBlockGood == Good /\ EraseBlock /\ TypeInv' => Good'
<1> SUFFICES ASSUME Good, EraseBlock, TypeInv'
             PROVE  Good'
    OBVIOUS
<1>0. /\ Size \in Nat /\ e \in Nat /\ w \in Nat /\ skipBad \in Nat /\ cmd.start \in Nat
      /\ pos \in Nat /\ dev \in Dev
  BY Numbers
<1>1. /\ Plain /\ NeedErase /\ CanErase(dev, e + cmd.start)
      /\ flash' = EraseAt(flash, e + cmd.start) /\ e' = e + 1 /\ pc' = pc
      /\ cmd' = cmd /\ fault' = fault /\ dev' = dev
      /\ pos' = pos /\ w' = w /\ skipBad' = skipBad /\ off' = off /\ append' = append
      /\ rd' = rd /\ buf' = buf /\ skip' = skip /\ mtdofs' = mtdofs /\ left' = left
  BY DEF EraseBlock, ErasesNext, setupVars, imageVars, appendVars
<1>2. Tracked /\ Behind /\ Counted /\ InOrder /\ TypeOK /\ pc = "loop" /\ buf # <<>>
      /\ ~(append /\ buf = <<Mark>>)
  BY <1>1 DEF Good, TypeInv, Plain
<1>3. Supported' /\ Laid' = Laid /\ (Clear(dev, pos))' = Clear(dev, pos)
  BY <1>1, SamePlace
<1>4. ~cmd.noErase /\ e = w + skipBad /\ pos = e + cmd.start /\ pos < Size
  <2>1. e + cmd.start < Size
    BY <1>1 DEF CanErase
  <2> QED
    BY <1>0, <1>1, <2>1, MustErase
<1>5. flash' = [flash EXCEPT ![dev][pos] = Erased] /\ CanErase(dev, pos) /\ pos \in Block
  BY <1>0, <1>1, <1>4 DEF EraseAt, Block
<1>6. Tracked'
  <2>1. pos = cmd.start + w + skipBad /\ e' = w + skipBad + 1
    BY <1>0, <1>1, <1>4
  <2> QED
    BY <1>1, <1>2, <1>3, <1>4, <2>1 DEF Tracked
<1>7. \A d \in Dev, b \in Block :
        flash'[d][b] = IF d = dev /\ b = pos THEN Erased ELSE flash[d][b]
  BY <1>0, <1>2, <1>5 DEF TypeOK
<1>8. Behind'
  <2>1. \A d \in Dev, b \in Block :
           b < cmd.start \/ d > dev \/ (d = dev /\ b > pos) => flash'[d][b] = Old
    <3>1. ASSUME NEW d \in Dev, NEW b \in Block, b < cmd.start \/ d > dev \/ (d = dev /\ b > pos)
          PROVE  ~(d = dev /\ b = pos)
      BY <3>1, <1>0, <1>4, BoundAssumption DEF Dev, Block
    <3> QED
      BY <3>1, <1>2, <1>4, <1>7 DEF Behind
  <2>2. flash'[dev][pos] = Erased
    BY <1>0, <1>5, <1>7
  <2>3. e' = w + skipBad + 1
    BY <1>1, <1>4
  <2>4. (CanErase(dev, pos))' = CanErase(dev, pos)
    BY <1>1 DEF CanErase, IsBad
  <2> QED
    BY <1>1, <1>4, <1>5, <2>1, <2>2, <2>3, <2>4 DEF Behind
<1>9. Counted'
  BY <1>1, <1>2, <1>3, Steady DEF Counted, Image
<1>10. InOrder'
  <2> SUFFICES ASSUME NEW l \in Places, l[1] < dev \/ (l[1] = dev /\ l[2] < pos)
               PROVE  flash'[l[1]][l[2]] = Item(Cardinality(Before(l[1], l[2])) + 1)
    BY <1>1, Steady DEF InOrder
  <2>1. l[1] \in Dev /\ l[2] \in Block
    BY DEF Places
  <2>2. ~(l[1] = dev /\ l[2] = pos)
    BY <2>1, <1>0, BoundAssumption DEF Dev, Block
  <2> QED
    BY <1>2, <1>7, <2>1, <2>2 DEF InOrder
<1>11. NoRoom'
  BY <1>1, <1>2 DEF NoRoom
<1> QED
  BY <1>3, <1>6, <1>8, <1>9, <1>10, <1>11 DEF Good

\* One block on: nothing before the position changes, and what is now before
\* it is a bad block or holds what belongs there.
LEMMA NextPlace ==
    ASSUME Good, TypeInv', cmd' = cmd, dev' = dev, pos' = pos + 1, pos < Size,
           IsBad(dev, pos) \/ CanErase(dev, pos),
           \A d \in Dev, b \in Block : ~(d = dev /\ b = pos) => flash'[d][b] = flash[d][b],
           CanErase(dev, pos) => flash'[dev][pos] = Item(Laid + 1)
    PROVE  /\ Supported' /\ InOrder' /\ (Clear(dev, pos))' /\ pos \in Block
           /\ IsBad(dev, pos) => Laid' = Laid
           /\ CanErase(dev, pos) => Laid' = Laid + 1
<1>0. /\ Size \in Nat /\ pos \in Nat /\ dev \in Dev /\ dev \in Nat /\ cmd.start \in Nat
      /\ cmd.start <= pos /\ dev <= cmd.devs /\ CommandOK /\ Laid \in Nat
  BY Numbers
<1>1. Tracked /\ InOrder
  BY DEF Good
<1>2. pos \in Block
  BY <1>0 DEF Block
<1>3. (Clear(dev, pos))'
  <2>1. \A c \in cmd.start .. pos : c = pos \/ c \in cmd.start .. pos - 1
    BY <1>0
  <2>2. \A c \in cmd.start .. pos : IsBad(dev, c) \/ CanErase(dev, c)
    BY <2>1, <1>1 DEF Tracked, Clear
  <2>3. ASSUME NEW c \in (cmd.start .. pos - 1)'
        PROVE  (IsBad(dev, c))' \/ (CanErase(dev, c))'
    <3>2. c \in cmd.start .. pos
      <4>1. (cmd.start .. pos - 1)' = cmd.start .. pos
        <5>1. (cmd.start)' = cmd.start /\ (pos - 1)' = pos
          BY <1>0
        <5> QED
          BY <5>1
      <4> QED
        BY <2>3, <4>1
    <3>3. IsBad(dev, c) \/ CanErase(dev, c)
      BY <3>2, <2>2
    <3> QED
      BY <3>3 DEF IsBad, CanErase
  <2> QED
    BY <2>3 DEF Clear
<1>4. Laid' = Cardinality(Before(dev, pos + 1))
  BY Steady DEF Laid, Before
<1>5. IsBad(dev, pos) => <<dev, pos>> \notin Places
  BY DEF Places, Usable
<1>6. IsBad(dev, pos) => Laid' = Laid
  BY <1>0, <1>4, <1>5, NoneMore DEF Laid
<1>7. CanErase(dev, pos) => <<dev, pos>> \in Places
  BY <1>0, <1>1, <1>2, PlaceWhereClear DEF Tracked
<1>8. CanErase(dev, pos) => Laid' = Laid + 1
  BY <1>0, <1>4, <1>7, OneMore DEF Laid
<1>9. InOrder'
  <2> SUFFICES ASSUME NEW l \in Places, l[1] < dev \/ (l[1] = dev /\ l[2] < pos + 1)
               PROVE  flash'[l[1]][l[2]] = Item(Cardinality(Before(l[1], l[2])) + 1)
    BY Steady DEF InOrder
  <2>1. l \in Dev \X Block
    BY DEF Places
  <2>2. l = <<l[1], l[2]>> /\ l[1] \in Dev /\ l[2] \in Block /\ l[1] \in Nat /\ l[2] \in Nat
    BY <2>1, BoundAssumption, SizeAssumption DEF Dev, Block
  <2>3. CASE l[1] = dev /\ l[2] = pos
    <3>1. l = <<dev, pos>>
      BY <2>2, <2>3
    <3>2. CanErase(dev, pos)
      BY <3>1, <1>5
    <3> QED
      BY <2>3, <3>2 DEF Laid
  <2>4. CASE ~(l[1] = dev /\ l[2] = pos)
    <3>1. l[1] < dev \/ (l[1] = dev /\ l[2] < pos)
      BY <2>2, <2>4, <1>0
    <3>2. flash[l[1]][l[2]] = Item(Cardinality(Before(l[1], l[2])) + 1)
      BY <1>1, <3>1 DEF InOrder
    <3> QED
      BY <2>2, <2>4, <3>2
  <2> QED
    BY <2>3, <2>4
<1> QED
  BY <1>2, <1>3, <1>6, <1>8, <1>9, Steady DEF Good

LEMMA SkipBadBlockGood == Good /\ SkipBadBlock /\ TypeInv' => Good'
<1> SUFFICES ASSUME Good, SkipBadBlock, TypeInv'
             PROVE  Good'
    OBVIOUS
<1>0. /\ Size \in Nat /\ e \in Nat /\ w \in Nat /\ skipBad \in Nat /\ cmd.start \in Nat
      /\ pos \in Nat /\ dev \in Dev
  BY Numbers
<1>1. /\ Plain /\ NeedErase /\ e < Size /\ IsBad(dev, e) /\ skipBad' = skipBad + 1
      /\ e' = e + 1 /\ pos' = pos + 1 /\ pc' = pc /\ cmd' = cmd /\ fault' = fault
      /\ flash' = flash /\ dev' = dev /\ w' = w /\ off' = off /\ append' = append
      /\ rd' = rd /\ buf' = buf /\ skip' = skip /\ mtdofs' = mtdofs /\ left' = left
  BY DEF SkipBadBlock, setupVars, imageVars, appendVars
<1>2. /\ Tracked /\ Behind /\ Counted /\ pc = "loop" /\ buf # <<>>
      /\ ~(append /\ buf = <<Mark>>)
  BY <1>1 DEF Good, Plain
<1>3. cmd.bad # {} /\ cmd.start = 0 /\ ~cmd.noErase
  BY <1>1, Kinds
<1>4. e = w + skipBad /\ pos = e /\ pos < Size
  BY <1>0, <1>1, <1>3, MustErase
<1>5. IsBad(dev, pos) /\ ~CanErase(dev, pos)
  BY <1>1, <1>4 DEF CanErase
<1>6. Supported' /\ InOrder' /\ (Clear(dev, pos))' /\ pos \in Block /\ Laid' = Laid
  BY <1>1, <1>4, <1>5, NextPlace
<1>7. Tracked'
  <2>1. /\ pos' = cmd.start + w + skipBad' /\ e' = w + skipBad' /\ pos' \in cmd.start .. Size
    BY <1>0, <1>1, <1>3, <1>4
  <2> QED
    BY <1>1, <1>2, <1>3, <1>6, <2>1 DEF Tracked
<1>8. Behind'
  <2>1. \A b \in Block : b > pos + 1 => b > pos
    BY <1>0 DEF Block
  <2>2. pos + 1 < Size => pos + 1 \in Block /\ pos + 1 > pos
    BY <1>0 DEF Block
  <2>3. e' # w + skipBad' + 1
    BY <1>0, <1>1, <1>4
  <2>4. \A d \in Dev, b \in Block :
           b < cmd.start \/ d > dev \/ (d = dev /\ b > pos) => flash[d][b] = Old
    BY <1>2, <1>3 DEF Behind
  <2>5. pos + 1 < Size => flash[dev][pos + 1] = Old
    BY <2>2, <2>4, <1>0
  <2> QED
    BY <1>1, <1>2, <1>3, <2>1, <2>3, <2>4, <2>5 DEF Behind
<1>9. Counted'
  <2>1. pos # Size
    BY <1>0, <1>4
  <2> QED
    BY <1>1, <1>2, <1>6, <2>1, Steady DEF Counted, Image
<1>10. NoRoom'
  BY <1>1, <1>2 DEF NoRoom
<1> QED
  BY <1>6, <1>7, <1>8, <1>9, <1>10 DEF Good

LEMMA ResumeGood == Good /\ Resume /\ TypeInv' => Good'
<1> SUFFICES ASSUME Good, Resume, TypeInv'
             PROVE  Good'
    OBVIOUS
<1>0. /\ Size \in Nat /\ Size > 0 /\ e \in Nat /\ w \in Nat /\ skipBad \in Nat
      /\ cmd.start \in Nat /\ cmd.start <= 1 /\ pos \in Nat /\ dev \in Dev /\ dev \in Nat
      /\ dev <= cmd.devs /\ cmd.devs \in Nat /\ cmd.devs \in Dev /\ CommandOK /\ off = 0
  BY Numbers
<1>1. /\ Plain /\ NeedErase /\ ~IsBad(dev, e) /\ ~CanErase(dev, e + cmd.start) /\ dev < cmd.devs
      /\ dev' = dev + 1 /\ pos' = cmd.start /\ w' = 0 /\ e' = 0 /\ pc' = pc /\ cmd' = cmd
      /\ fault' = fault /\ skipBad' = skipBad /\ append' = append
      /\ rd' = rd /\ buf' = buf /\ skip' = skip /\ mtdofs' = mtdofs /\ left' = left
  BY DEF Resume, ErasesNext, setupVars, imageVars, appendVars
<1>2. /\ Tracked /\ Behind /\ Counted /\ InOrder /\ pc = "loop" /\ buf # <<>>
  BY <1>1 DEF Good, Plain
<1>3. dev \in 1 .. cmd.devs /\ dev + 1 \in Dev
  BY <1>0, <1>1, BoundAssumption DEF Dev
<1>4. cmd.bad = {} /\ ~cmd.join /\ ~append /\ ~cmd.noErase /\ skipBad = 0
  <2>1. cmd.devs # 1
    BY <1>0, <1>1, <1>3
  <2> QED
    BY <2>1, Kinds
<1>5. e = w + skipBad
  BY <1>1, MustErase
<1>6. flash' = flash /\ off' = 0
  <2>1. ~(w < e)
    BY <1>0, <1>4, <1>5
  <2> QED
    BY <2>1, <1>0 DEF Resume
<1>7. NoneFrom(dev, pos)
  BY <1>1, StuckAtEnd
<1>8. Before(dev + 1, cmd.start) = Before(dev, pos)
  BY <1>0, <1>7, NextDevice
<1>9. Laid' = Laid
  <2>1. Laid' = Cardinality(Before(dev + 1, cmd.start))
    BY <1>1, Steady DEF Laid, Before
  <2> QED
    BY <2>1, <1>8 DEF Laid
<1>10. InOrder'
  <2> SUFFICES ASSUME NEW l \in Places,
                      l[1] < dev + 1 \/ (l[1] = dev + 1 /\ l[2] < cmd.start)
               PROVE  flash[l[1]][l[2]] = Item(Cardinality(Before(l[1], l[2])) + 1)
    BY <1>1, <1>6, Steady DEF InOrder
  <2>1. l \in Before(dev, pos)
    BY <1>8 DEF Before
  <2> QED
    BY <2>1, <1>2 DEF InOrder, Before
<1>11. Tracked'
  <2>1. (Clear(dev, pos))'
    <3>1. \A n \in Nat : n .. n - 1 = {}
      OBVIOUS
    <3>2. cmd.start .. cmd.start - 1 = {}
      BY <3>1, <1>0
    <3>3. ASSUME NEW c \in (cmd.start .. pos - 1)'
          PROVE  FALSE
      <4>1. c \in cmd.start .. cmd.start - 1
        BY <3>3, <1>1
      <4> QED
        BY <4>1, <3>2
    <3> QED
      BY <3>3 DEF Clear
  <2>2. pos' = cmd.start + w' + skipBad' /\ e' = w' + skipBad' /\ pos' \in cmd.start .. Size
    BY <1>0, <1>1, <1>4
  <2> QED
    BY <1>1, <1>2, <1>4, <1>6, <2>1, <2>2 DEF Tracked
<1>12. Behind'
  <2>1. \A d \in Dev, b \in Block : b < cmd.start \/ d > dev => flash[d][b] = Old
    BY <1>2, <1>4 DEF Behind
  <2>2. \A d \in Dev : d > dev + 1 \/ d = dev + 1 => d > dev
    BY <1>0 DEF Dev
  <2>3. cmd.start < Size => cmd.start \in Block
    BY <1>0 DEF Block
  <2>4. \A b \in Block : flash[dev + 1][b] = Old
    BY <2>1, <2>2, <1>3
  <2>5. e' # w' + skipBad' + 1
    BY <1>0, <1>1, <1>4
  <2>6. \A d \in Dev, b \in Block :
           b < cmd.start \/ d > dev + 1 \/ (d = dev + 1 /\ b > cmd.start) => flash[d][b] = Old
    BY <2>1, <2>2
  <2>7. cmd.start < Size => flash[dev + 1][cmd.start] = Old
    BY <2>3, <2>4
  <2> QED
    BY <1>1, <1>4, <1>6, <2>5, <2>6, <2>7 DEF Behind
<1>13. Counted'
  BY <1>1, <1>2, <1>4, <1>9, Steady DEF Counted, Image
<1>14. NoRoom'
  BY <1>1, <1>2 DEF NoRoom
<1> QED
  BY <1>1, <1>10, <1>11, <1>12, <1>13, <1>14, Steady DEF Good

LEMMA WriteBlockGood == Good /\ WriteBlock /\ TypeInv' => Good'
<1> SUFFICES ASSUME Good, WriteBlock, TypeInv'
             PROVE  Good'
    OBVIOUS
<1>0. /\ Size \in Nat /\ e \in Nat /\ w \in Nat /\ skipBad \in Nat /\ cmd.start \in Nat
      /\ pos \in Nat /\ dev \in Dev /\ rd \in Nat /\ Laid \in Nat /\ off = 0 /\ CommandOK
      /\ cmd.start <= pos /\ cmd.data \in Nat /\ cmd.marks \in Nat
      /\ rd <= cmd.data + cmd.marks /\ More \in Nat
  BY Numbers
<1>1. /\ Plain /\ ~NeedErase /\ pos < Size /\ flash' = WriteAt(flash, pos, Written)
      /\ pos' = pos + 1 /\ w' = w + 1 /\ buf' = <<>> /\ off' = 0 /\ pc' = pc /\ cmd' = cmd
      /\ fault' = fault /\ dev' = dev /\ e' = e /\ skipBad' = skipBad /\ append' = append
      /\ rd' = rd /\ skip' = skip /\ mtdofs' = mtdofs /\ left' = left
  BY DEF WriteBlock, setupVars, appendVars
<1>2. /\ Tracked /\ Behind /\ Counted /\ TypeOK /\ pc = "loop" /\ buf # <<>>
      /\ ~(append /\ buf = <<Mark>>)
  BY <1>1 DEF Good, TypeInv, Plain
<1>3. /\ pos = cmd.start + w + skipBad /\ (~cmd.noErase => e = w + skipBad + 1)
      /\ pos \in Block /\ flash[dev][pos] = Erased /\ CanErase(dev, pos)
  BY <1>1, MayWrite
<1>4. /\ Len(buf) = 1 /\ skip = 0 /\ rd > 0 /\ buf = <<Image(cmd.data, cmd.marks)[rd]>>
      /\ Laid + 1 <= rd
  BY <1>1, Waiting
<1>5. flash' = [flash EXCEPT ![dev][pos] = buf[1]]
  BY <1>0, <1>1, <1>3 DEF WriteAt, Written
<1>6. \A d \in Dev, b \in Block :
        flash'[d][b] = IF d = dev /\ b = pos THEN buf[1] ELSE flash[d][b]
  BY <1>0, <1>2, <1>3, <1>5 DEF TypeOK
<1>a. /\ \A i \in 1 .. cmd.data : Image(cmd.data, cmd.marks)[i] = Img(i)
      /\ \A i \in cmd.data + 1 .. cmd.data + cmd.marks : Image(cmd.data, cmd.marks)[i] = Mark
  BY <1>0, ImageBlocks, Zenon
<1>7. append => rd <= cmd.data
  <2> SUFFICES ASSUME append, ~(rd <= cmd.data)
               PROVE  buf = <<Mark>>
    BY <1>2
  <2>1. rd \in cmd.data + 1 .. cmd.data + cmd.marks
    BY <1>0
  <2>2. Image(cmd.data, cmd.marks)[rd] = Mark
    BY <2>1, <1>a
  <2> QED
    BY <1>4, <2>2
<1>8. cmd.join /\ ~append => rd > cmd.data /\ Laid >= More
  <2>1. pos # Size
    BY <1>0, <1>1
  <2> QED
    BY <1>2, <2>1 DEF Counted
<1>9. append \/ ~cmd.join => Laid + 1 = rd
  BY <1>2, <1>4 DEF Counted
<1>10. buf[1] = Item(Laid + 1)
  <2>0. buf[1] = Image(cmd.data, cmd.marks)[rd] /\ rd \in 1 .. cmd.data + cmd.marks
    BY <1>0, <1>4
  <2>1. CASE ~cmd.join \/ (append /\ ~(cmd.marks > 0))
    <3>1. Item(rd) = Image(cmd.data, cmd.marks)[rd]
      BY <2>0, <2>1, <1>0, ItemsOfImage
    <3> QED
      BY <3>1, <2>0, <2>1, <1>9
  <2>2. CASE cmd.join /\ append /\ cmd.marks > 0
    <3>1. rd \in 1 .. cmd.data
      BY <2>0, <2>2, <1>0, <1>7
    <3>2. Item(rd) = Img(rd)
      <4>1. \A i \in 1 .. cmd.data : Item(i) = Img(i)
        BY <2>2, <1>0, ResultBlocks
      <4> QED
        BY <3>1, <4>1
    <3>3. Image(cmd.data, cmd.marks)[rd] = Img(rd)
      BY <3>1, <1>a
    <3> QED
      BY <3>2, <3>3, <2>0, <2>2, <1>9
  <2>3. CASE cmd.join /\ ~append
    <3>1. rd \in cmd.data + 1 .. cmd.data + cmd.marks
      BY <2>0, <2>3, <1>0, <1>8
    <3>2. Image(cmd.data, cmd.marks)[rd] = Mark
      BY <3>1, <1>a
    <3>3. Laid + 1 > More /\ Laid + 1 \in Nat
      BY <2>3, <1>0, <1>8
    <3> QED
      BY <3>2, <3>3, <2>0, <1>0, ResultBlocks
  <2> QED
    BY <2>1, <2>2, <2>3
<1>11. /\ Supported' /\ InOrder' /\ (Clear(dev, pos))' /\ Laid' = Laid + 1
  <2>1. \A d \in Dev, b \in Block : ~(d = dev /\ b = pos) => flash'[d][b] = flash[d][b]
    BY <1>6
  <2>2. flash'[dev][pos] = Item(Laid + 1)
    BY <1>0, <1>3, <1>6, <1>10
  <2> QED
    BY <1>1, <1>3, <2>1, <2>2, NextPlace
<1>12. Tracked'
  <2>1. pos' = cmd.start + w' + skipBad
    BY <1>0, <1>1, <1>3, SMTT(30)
  <2>2. ~cmd.noErase => e = w' + skipBad
    BY <1>0, <1>1, <1>3, SMTT(30)
  <2>3. pos' \in cmd.start .. Size
    BY <1>0, <1>1, <1>3, SMTT(30)
  <2> QED
    BY <1>1, <1>2, <1>11, <2>1, <2>2, <2>3 DEF Tracked
<1>13. Behind'
  <2>1. pos + 1 < Size => pos + 1 \in Block /\ pos + 1 > pos /\ pos + 1 # pos
    BY <1>0 DEF Block
  <2>2. ~cmd.noErase => e # w' + skipBad' + 1
    BY <1>0, <1>1, <1>3
  <2>3. \A b \in Block : b > pos + 1 \/ b >= pos + 1 => b > pos /\ b # pos
    BY <1>0 DEF Block
  <2>4. \A d \in Dev : d > dev => d # dev
    BY <1>0 DEF Dev
  <2>5. \A b \in Block : b < cmd.start => b # pos
    BY <1>0 DEF Block
  <2>6. CASE ~cmd.noErase
    <3>1. \A d \in Dev, b \in Block :
            b < cmd.start \/ d > dev \/ (d = dev /\ b > pos) => flash[d][b] = Old
      BY <1>2, <2>6 DEF Behind
    <3>2. \A d \in Dev, b \in Block :
            b < cmd.start \/ d > dev \/ (d = dev /\ b > pos + 1) => flash'[d][b] = Old
      BY <3>1, <2>3, <2>4, <2>5, <1>6
    <3>3. pos + 1 < Size => flash'[dev][pos + 1] = Old
      BY <3>1, <2>1, <1>0, <1>6
    <3> QED
      BY <1>1, <2>2, <2>6, <3>2, <3>3 DEF Behind
  <2>7. CASE cmd.noErase
    <3>1. \A b \in Block : b >= pos => flash[dev][b] = Erased
      BY <1>2, <2>7 DEF Behind
    <3>2. \A b \in Block : b >= pos + 1 => flash'[dev][b] = Erased
      <4>1. \A b \in Block : b >= pos + 1 => b >= pos /\ b # pos
        BY <1>0 DEF Block
      <4> QED
        BY <3>1, <4>1, <1>0, <1>6
    <3> QED
      BY <1>1, <2>7, <3>2 DEF Behind
  <2> QED
    BY <2>6, <2>7
<1>14. Counted'
  <2>1. Len(buf') = 0 /\ buf' = <<>>
    BY <1>1
  <2>2. append \/ ~cmd.join => Laid' + 0 = rd
    BY <1>0, <1>9, <1>11
  <2>3. append => rd <= cmd.data + 0
    BY <1>0, <1>7
  <2>4. cmd.join /\ ~append => rd > cmd.data /\ Laid' + 0 <= rd + skip /\ Laid' >= More
    BY <1>0, <1>4, <1>8, <1>11
  <2> QED
    BY <1>1, <1>2, <1>4, <2>1, <2>2, <2>3, <2>4, Steady DEF Counted
<1>15. NoRoom'
  BY <1>1, <1>2 DEF NoRoom
<1> QED
  BY <1>11, <1>12, <1>13, <1>14, <1>15 DEF Good

\* What lies behind the position stays behind the next one.
LEMMA BehindMoves ==
    ASSUME Good, ~cmd.noErase, cmd' = cmd, dev' = dev, pos' = pos + 1, pos < Size, w' = w, e' = e,
           skipBad' = skipBad, e = w + skipBad,
           \A d \in Dev, b \in Block : ~(d = dev /\ b = pos) => flash'[d][b] = flash[d][b]
    PROVE  Behind'
<1>0. /\ Size \in Nat /\ pos \in Nat /\ dev \in Nat /\ dev \in Dev /\ w \in Nat /\ skipBad \in Nat
      /\ cmd.start \in Nat /\ cmd.start <= pos
  BY Numbers
<1>1. \A d \in Dev, b \in Block :
         b < cmd.start \/ d > dev \/ (d = dev /\ b > pos) => flash[d][b] = Old
  BY DEF Good, Behind
<1>2. ASSUME NEW d \in Dev, NEW b \in Block, b < cmd.start \/ d > dev \/ (d = dev /\ b > pos + 1)
      PROVE  flash'[d][b] = Old
  <2>1. d \in Nat /\ b \in Nat
    BY BoundAssumption, SizeAssumption DEF Dev, Block
  <2>2. ~(d = dev /\ b = pos) /\ (b < cmd.start \/ d > dev \/ (d = dev /\ b > pos))
    BY <1>0, <1>2, <2>1
  <2> QED
    BY <1>1, <2>2
<1>3. pos + 1 < Size => flash'[dev][pos + 1] = Old
  <2>1. pos + 1 < Size => pos + 1 \in Block /\ pos + 1 > pos /\ pos + 1 # pos
    BY <1>0 DEF Block
  <2> QED
    BY <2>1, <1>0, <1>1
<1>4. e' # w' + skipBad' + 1
  BY <1>0
<1> QED
  BY <1>2, <1>3, <1>4 DEF Behind

LEMMA AppendSkipBadGood == Good /\ AppendSkipBad /\ TypeInv' => Good'
<1> SUFFICES ASSUME Good, AppendSkipBad, TypeInv'
             PROVE  Good'
    OBVIOUS
<1>0. /\ Size \in Nat /\ pos \in Nat /\ mtdofs \in Nat /\ dev \in Dev /\ cmd.start \in Nat
      /\ cmd.start <= pos
  BY Numbers
<1>1. /\ pc = "append" /\ mtdofs < Size /\ IsBad(dev, mtdofs) /\ mtdofs' = mtdofs + 1
      /\ pos' = pos + 1 /\ cmd' = cmd /\ fault' = fault /\ flash' = flash /\ rd' = rd
      /\ buf' = buf /\ skip' = skip /\ append' = append /\ dev' = dev /\ w' = w /\ e' = e
      /\ skipBad' = skipBad /\ off' = off /\ left' = left /\ pc' = pc
  BY DEF AppendSkipBad, setupVars, imageVars
<1>2. Tracked /\ Behind /\ Counted
  BY DEF Good
<1>3. append /\ cmd.join /\ ~cmd.noErase /\ cmd.start = 0 /\ cmd.bad # {}
  BY <1>1, Kinds
<1>4. e = w + skipBad /\ pos = mtdofs
  BY <1>0, <1>1, <1>2 DEF Tracked
<1>5. IsBad(dev, pos) /\ pos < Size /\ ~CanErase(dev, pos)
  BY <1>1, <1>4 DEF CanErase
<1>6. Supported' /\ InOrder' /\ (Clear(dev, pos))' /\ Laid' = Laid
  BY <1>1, <1>5, NextPlace
<1>7. Tracked'
  <2>1. pos' = mtdofs' /\ pos' \in cmd.start .. Size
    BY <1>0, <1>1, <1>4, <1>5
  <2> QED
    BY <1>1, <1>2, <1>3, <1>4, <1>6, <2>1 DEF Tracked
<1>8. Behind'
  BY <1>1, <1>3, <1>4, <1>5, BehindMoves
<1>9. Counted'
  <2>1. /\ rd = cmd.data + 1 /\ cmd.marks > 0 /\ Laid = cmd.data + cmd.conf + 1 - left
        /\ pos' = mtdofs'
    BY <1>0, <1>1, <1>2, <1>4 DEF Counted
  <2> QED
    BY <1>1, <1>6, <2>1, Steady DEF Counted
<1>10. NoRoom'
  BY <1>1 DEF NoRoom
<1> QED
  BY <1>6, <1>7, <1>8, <1>9, <1>10 DEF Good

LEMMA AppendBlockGood == Good /\ AppendBlock /\ TypeInv' => Good'
<1> SUFFICES ASSUME Good, AppendBlock, TypeInv'
             PROVE  Good'
    OBVIOUS
<1> DEFINE c == IF left = 1 THEN Mark ELSE Conf(cmd.conf + 2 - left)
<1>0. /\ Size \in Nat /\ pos \in Nat /\ mtdofs \in Nat /\ dev \in Dev /\ dev \in Nat
      /\ cmd.start \in Nat /\ cmd.start <= pos /\ pos <= Size /\ left \in Nat
      /\ cmd.data \in Nat /\ cmd.conf \in Nat /\ CommandOK /\ dev <= cmd.devs /\ cmd.devs \in Nat
      /\ Laid \in Nat
  BY Numbers
<1>1. /\ pc = "append" /\ left > 0 /\ ~IsBad(dev, mtdofs) /\ mtdofs' = mtdofs + 1
      /\ flash' = WriteAt(EraseAt(flash, mtdofs), pos, c)
      /\ pos' = (IF pos < Size THEN pos + 1 ELSE pos) /\ left' = left - 1 /\ cmd' = cmd
      /\ fault' = fault /\ rd' = rd /\ buf' = buf /\ skip' = skip /\ append' = append
      /\ dev' = dev /\ w' = w /\ e' = e /\ skipBad' = skipBad /\ off' = off /\ pc' = pc
  BY DEF AppendBlock, setupVars, imageVars
<1>2. Tracked /\ Behind /\ Counted /\ TypeOK /\ Bounded
  BY DEF Good, TypeInv
<1>3. append /\ cmd.join /\ ~cmd.noErase /\ cmd.start = 0 /\ cmd.worn = {} /\ cmd.devs = 1
  BY <1>1, Kinds
<1>4. /\ e = w + skipBad /\ (pos = mtdofs \/ (pos = Size /\ mtdofs > Size))
      /\ rd = cmd.data + 1 /\ cmd.marks > 0 /\ left <= cmd.conf + 1
      /\ \/ pos = mtdofs /\ Laid = cmd.data + cmd.conf + 1 - left
         \/ mtdofs > Size /\ pos = Size /\ Cardinality(Places) < More
  BY <1>1, <1>2 DEF Tracked, Counted, Bounded
<1>5. NoRoom'
  BY <1>1 DEF NoRoom
<1>6. CASE pos < Size
  <2>1. pos = mtdofs /\ Laid = cmd.data + cmd.conf + 1 - left /\ pos' = pos + 1 /\ pos' = mtdofs'
    BY <1>0, <1>1, <1>4, <1>6
  <2>2. CanErase(dev, pos) /\ pos \in Block
    BY <1>0, <1>1, <1>3, <1>6, <2>1 DEF CanErase, Block
  <2>3. c = Item(Laid + 1)
    <3>1. /\ \A i \in 1 .. cmd.conf : Item(cmd.data + i) = Conf(i)
          /\ Item(cmd.data + cmd.conf + 1) = Mark
      BY <1>0, <1>3, <1>4, ResultBlocks
    <3>2. CASE left = 1
      <4>1. Laid + 1 = cmd.data + cmd.conf + 1
        BY <2>1, <3>2, <1>0
      <4> QED
        BY <3>1, <3>2, <4>1
    <3>3. CASE left # 1
      <4>1. /\ Laid + 1 = cmd.data + (cmd.conf + 2 - left)
            /\ cmd.conf + 2 - left \in 1 .. cmd.conf
        BY <2>1, <3>3, <1>0, <1>1, <1>4
      <4> QED
        BY <3>1, <3>3, <4>1
    <3> QED
      BY <3>2, <3>3
  <2> HIDE DEF c
  <2>4. flash' = [flash EXCEPT ![dev][pos] = c]
    <3>1. EraseAt(flash, mtdofs) = [flash EXCEPT ![dev][pos] = Erased]
      BY <2>1, <2>2 DEF EraseAt
    <3>2. EraseAt(flash, mtdofs)[dev][pos] = Erased
      BY <3>1, <2>2, <1>0, <1>2 DEF TypeOK
    <3>3. flash' = [EraseAt(flash, mtdofs) EXCEPT ![dev][pos] = c]
      BY <1>0, <1>1, <1>6, <3>2 DEF WriteAt
    <3> QED
      BY <3>1, <3>3, <2>2, <1>0, <1>2 DEF TypeOK
  <2>5. \A d \in Dev, b \in Block :
           flash'[d][b] = IF d = dev /\ b = pos THEN c ELSE flash[d][b]
    BY <2>2, <2>4, <1>0, <1>2 DEF TypeOK
  <2>6. \A d \in Dev, b \in Block : ~(d = dev /\ b = pos) => flash'[d][b] = flash[d][b]
    BY <2>5
  <2>7. flash'[dev][pos] = Item(Laid + 1)
    BY <2>2, <2>3, <2>5, <1>0
  <2>8. Supported' /\ InOrder' /\ (Clear(dev, pos))' /\ Laid' = Laid + 1
    BY <1>1, <1>6, <2>1, <2>2, <2>6, <2>7, NextPlace
  <2>9. Tracked'
    <3>1. pos' \in cmd.start .. Size
      BY <1>0, <1>3, <1>6, <2>1
    <3> QED
      BY <1>1, <1>2, <1>3, <1>4, <2>1, <2>8, <3>1 DEF Tracked
  <2>10. Behind'
    BY <1>1, <1>3, <1>4, <1>6, <2>1, <2>6, BehindMoves
  <2>11. Counted'
    <3>1. Laid' = cmd.data + cmd.conf + 1 - left'
      BY <1>0, <1>1, <2>1, <2>8
    <3> QED
      BY <1>1, <1>4, <2>1, <3>1, Steady DEF Counted
  <2> QED
    BY <1>5, <2>8, <2>9, <2>10, <2>11 DEF Good
<1>7. CASE ~(pos < Size)
  <2>1. pos = Size /\ pos' = pos /\ mtdofs >= Size /\ mtdofs' > Size
    BY <1>0, <1>1, <1>4, <1>7
  <2> HIDE DEF c
  <2>2. flash' = flash
    <3>1. EraseAt(flash, mtdofs) = flash
      BY <1>0, <2>1 DEF EraseAt, CanErase
    <3> QED
      BY <1>0, <1>1, <2>1, <3>1 DEF WriteAt
  <2>3. Supported' /\ Laid' = Laid /\ InOrder' /\ (Clear(dev, pos))' = Clear(dev, pos)
    BY <1>1, <2>1, <2>2, SamePlace
  <2>4. Tracked'
    BY <1>1, <1>2, <1>3, <1>4, <2>1, <2>3 DEF Tracked
  <2>5. Behind'
    BY <1>1, <1>2, <1>3, <2>1, <2>2 DEF Behind, CanErase, IsBad
  <2>6. Cardinality(Places) < More
    <3>1. CASE Laid = cmd.data + cmd.conf + 1 - left
      <4>1. dev = cmd.devs
        BY <1>0, <1>3, BoundAssumption DEF Dev
      <4>2. Cardinality(Places) = Laid
        BY <1>0, <2>1, <4>1, EndOfDevice, AllLaid
      <4>3. More = cmd.data + cmd.conf + 1
        BY <1>3, <1>4 DEF More
      <4> QED
        BY <3>1, <4>2, <4>3, <1>0, <1>1
    <3> QED
      BY <3>1, <1>4
  <2>7. Counted'
    BY <1>1, <1>4, <2>1, <2>6, Steady DEF Counted
  <2> QED
    BY <1>5, <2>3, <2>4, <2>5, <2>7 DEF Good
<1> QED
  BY <1>6, <1>7

LEMMA AppendEndGood == Good /\ AppendEnd /\ TypeInv' => Good'
<1> SUFFICES ASSUME Good, AppendEnd, TypeInv'
             PROVE  Good'
    OBVIOUS
<1>0. /\ Size \in Nat /\ Size > 0 /\ pos \in Nat /\ mtdofs \in Nat /\ dev \in Dev /\ pos <= Size
      /\ cmd.data \in Nat /\ cmd.conf \in Nat /\ Laid \in Nat /\ w \in Nat /\ e \in Nat
      /\ skipBad \in Nat /\ rd \in Nat /\ Laid <= Cardinality(Places)
      /\ Cardinality(Places) \in Nat
  BY Numbers
<1>1. /\ pc = "append" /\ left = 0 /\ w' = w + (mtdofs - e) /\ e' = mtdofs
      /\ skip' = mtdofs - e - 1 /\ buf' = <<>> /\ off' = 0 /\ append' = FALSE /\ pc' = "loop"
      /\ cmd' = cmd /\ fault' = fault /\ flash' = flash /\ dev' = dev /\ pos' = pos
      /\ skipBad' = skipBad /\ rd' = rd
  BY DEF AppendEnd, setupVars, appendVars
<1>2. Tracked /\ Behind /\ Counted /\ Bounded
  BY DEF Good, TypeInv
<1>3. append /\ cmd.join /\ ~cmd.noErase /\ cmd.start = 0
  BY <1>1, Kinds
<1>4. /\ e = w + skipBad /\ (pos = mtdofs \/ (pos = Size /\ mtdofs > Size))
      /\ rd = cmd.data + 1 /\ cmd.marks > 0
      /\ \/ Laid = cmd.data + cmd.conf + 1
         \/ pos = Size /\ Cardinality(Places) < More
  <2>1. cmd.data + cmd.conf + 1 - 0 = cmd.data + cmd.conf + 1
    BY <1>0
  <2> QED
    BY <1>1, <1>2, <2>1 DEF Tracked, Counted
<1>5. mtdofs >= e + (cmd.conf + 1) /\ More = cmd.data + cmd.conf + 1
  <2>1. mtdofs >= e + (cmd.conf + 1 - 0)
    BY <1>1, <1>2 DEF Bounded
  <2> QED
    BY <1>0, <1>3, <1>4, <2>1 DEF More
<1>6. Supported' /\ Laid' = Laid /\ InOrder' /\ (Clear(dev, pos))' = Clear(dev, pos)
  BY <1>1, SamePlace
<1>7. e' = w' + skipBad'
  BY <1>0, <1>1, <1>4, <1>5
<1>8. Tracked'
  <2>1. \/ pos' = 0 + w' + skipBad'
        \/ pos' = Size /\ e' > Size
    BY <1>0, <1>1, <1>4, <1>7
  <2> QED
    BY <1>1, <1>2, <1>3, <1>6, <1>7, <2>1 DEF Tracked
<1>9. Behind'
  <2>1. e' # w' + skipBad' + 1
    <3>1. e' \in Nat
      BY <1>0, <1>1
    <3> QED
      BY <3>1, <1>7
  <2>2. e # w + skipBad + 1
    BY <1>0, <1>4
  <2> QED
    BY <1>1, <1>2, <1>3, <2>1, <2>2 DEF Behind
<1>10. Counted'
  <2>1. Len(buf') = 0
    BY <1>1
  <2>2. rd' > cmd.data /\ Laid' + 0 <= rd' + skip'
    <3>1. /\ rd' = cmd.data + 1 /\ skip' = mtdofs - e - 1 /\ Laid' = Laid
      BY <1>1, <1>4, <1>6
    <3>2. Laid <= cmd.data + cmd.conf + 1
      BY <1>0, <1>4, <1>5
    <3>3. mtdofs >= e + cmd.conf + 1
      BY <1>0, <1>5
    <3> HIDE DEF Laid
    <3> QED
      BY <1>0, <3>1, <3>2, <3>3
  <2>3. Laid' >= More \/ (pos = Size /\ Cardinality(Places) < More)
    BY <1>0, <1>4, <1>5, <1>6
  <2> QED
    BY <1>1, <1>3, <2>1, <2>2, <2>3, Steady DEF Counted
<1>11. NoRoom'
  BY <1>1 DEF NoRoom
<1> QED
  BY <1>6, <1>8, <1>9, <1>10, <1>11 DEF Good

LEMMA StutterGood == Good /\ UNCHANGED vars => Good'
<1> SUFFICES ASSUME Good, UNCHANGED vars
             PROVE  Good'
    OBVIOUS
<1>1. /\ cmd' = cmd /\ flash' = flash /\ dev' = dev /\ pos' = pos /\ w' = w /\ e' = e
      /\ skipBad' = skipBad /\ rd' = rd /\ buf' = buf /\ off' = off /\ skip' = skip
      /\ append' = append /\ mtdofs' = mtdofs /\ left' = left /\ pc' = pc /\ fault' = fault
  BY DEF vars
<1>2. Supported' /\ Laid' = Laid /\ InOrder' /\ (Clear(dev, pos))' = Clear(dev, pos)
  BY <1>1, SamePlace
<1>3. TypeInv'
  BY StepTyped DEF Good
<1>4. Tracked'
  BY <1>1, <1>2 DEF Good, Tracked
<1>5. Behind'
  BY <1>1 DEF Good, Behind, CanErase, IsBad
<1>6. Counted'
  BY <1>1, <1>2, Steady DEF Good, Counted, Image
<1>7. NoRoom'
  BY <1>1, Steady DEF Good, NoRoom
<1> QED
  BY <1>2, <1>3, <1>4, <1>5, <1>6, <1>7 DEF Good

LEMMA StepGood == Good /\ TypeInv' /\ [Next]_vars => Good'
BY ReadEndGood, ReadBlockGood, AppendBeginGood, FailsGood, SkipBadBlockGood, EraseBlockGood,
   ResumeGood, WriteBlockGood, AppendSkipBadGood, AppendBlockGood, AppendEndGood, StutterGood
   DEF Next

LEMMA StepMtd == TypeInv /\ MtdInv /\ [Next]_vars => (TypeInv /\ MtdInv)'
<1> SUFFICES ASSUME TypeInv, MtdInv, [Next]_vars, Supported'
             PROVE  TypeInv' /\ (Tracked /\ Behind /\ Counted /\ NoRoom /\ InOrder)'
  BY StepTyped DEF MtdInv
<1>1. cmd' = cmd
  BY DEF Next, vars, setupVars, imageVars, placeVars, appendVars, Stop, ReadEnd, ReadBlock,
         AppendBegin, BadCheckFails, SkipBadBlock, EraseBlock, Resume, EraseFails, WriteBlock,
         WriteFails, AppendCheckFails, AppendSkipBad, AppendBlock, AppendEnd
<1>2. Good
  BY <1>1, Steady DEF Good, MtdInv
<1>3. TypeInv'
  BY StepTyped
<1> QED
  BY <1>2, <1>3, StepGood DEF Good

LEMMA OrderFollows == TypeInv /\ MtdInv => LaidInOrder
BY DEF MtdInv, InOrder, LaidInOrder

LEMMA ResultFollows == TypeInv /\ MtdInv => ExitTells
<1> SUFFICES ASSUME TypeInv, MtdInv, Supported
             PROVE  /\ pc = "done" /\ fault = "none" /\ (cmd.join => Fits)
                         => Cardinality(Before(dev, pos)) >= Len(Result)
                    /\ pc = "failed" /\ fault = "none"
                         => \/ Cardinality(Places) < Len(Result)
                            \/ Cardinality(Places) < cmd.data + cmd.marks
  BY DEF ExitTells
<1>1. Good
  BY DEF Good, MtdInv
<1>2. Len(Result) = More
  BY <1>1, Numbers, ResultBlocks
<1>3. /\ Laid \in Nat /\ More \in Nat /\ Cardinality(Places) \in Nat /\ cmd.data \in Nat
      /\ cmd.marks \in Nat /\ rd \in Nat
  BY <1>1, Numbers
<1>4. pc = "failed" /\ fault = "none"
        => Cardinality(Places) < Len(Result) \/ Cardinality(Places) < cmd.data + cmd.marks
  BY <1>1, <1>2 DEF Good, NoRoom
<1>5. ASSUME pc = "done", fault = "none", cmd.join => Fits
      PROVE  Laid >= More
  <2>1. buf = <<>> /\ rd = cmd.data + cmd.marks /\ Len(buf) = 0
    BY <1>1, <1>5 DEF Good, Counted
  <2>2. CASE append \/ ~cmd.join
    <3>1. Laid + 0 = rd
      BY <1>1, <1>5, <2>1, <2>2 DEF Good, Counted
    <3>2. append => rd <= cmd.data + 0
      BY <1>1, <1>5, <2>1 DEF Good, Counted
    <3>3. ~(cmd.join /\ cmd.marks > 0)
      BY <2>1, <2>2, <3>2, <1>3
    <3> QED
      BY <2>1, <3>1, <3>3, <1>3 DEF More
  <2>3. CASE ~append /\ cmd.join
    <3>1. Laid >= More \/ Cardinality(Places) < More
      BY <1>1, <1>5, <2>3 DEF Good, Counted
    <3>2. Cardinality(Places) >= More
      BY <1>2, <1>5, <2>3 DEF Fits
    <3> QED
      BY <3>1, <3>2, <1>3
  <2> QED
    BY <2>2, <2>3
<1> QED
  BY <1>2, <1>4, <1>5 DEF Laid

LEMMA RestFollows == TypeInv /\ MtdInv => RestUntouched
<1> SUFFICES ASSUME TypeInv, MtdInv, Supported, ~cmd.noErase, NEW d \in Dev, NEW b \in Block,
                    \/ b < cmd.start
                    \/ d > dev
                    \/ d = dev /\ (b > pos \/ (b = pos /\ pc = "done" /\ fault = "none"))
             PROVE  flash[d][b] = Old
  BY DEF RestUntouched
<1>1. Good /\ Tracked /\ Behind /\ Counted
  BY DEF Good, MtdInv
<1>2. CASE d = dev /\ b = pos /\ pc = "done"
  <2>1. buf = <<>>
    BY <1>1, <1>2 DEF Counted
  <2>2. e = w + skipBad
    BY <1>1, <1>2, <2>1 DEF Tracked
  <2>3. pos < Size /\ e # w + skipBad + 1
    BY <1>1, <1>2, <2>2, Numbers DEF Block
  <2> QED
    BY <1>1, <1>2, <2>3 DEF Behind
<1>3. CASE b < cmd.start \/ d > dev \/ (d = dev /\ b > pos)
  BY <1>1, <1>3 DEF Behind
<1> QED
  BY <1>2, <1>3

\* The whole invariant: for the commands that the code is written for, the
\* position, the counters and the flash agree in every state.
THEOREM WriteInvariant == Spec => [](TypeInv /\ MtdInv)
<1>1. Init => TypeInv /\ MtdInv
  BY InitTyped, InitGood DEF MtdInv, Good
<1> QED
  BY <1>1, StepMtd, PTL DEF Spec

\* A power failure at any moment leaves, on the good blocks in order, what the
\* image says belongs there: the loop of mtd_write and the jffs2 code that
\* takes over from it place blocks by different counters, and they agree.
THEOREM WriteStaysInOrder == Spec => []LaidInOrder
BY OrderFollows, WriteInvariant, PTL

\* mtd_write's result can be trusted: 0 means that everything is on flash, 1
\* that it did not fit, where no read and no write failed.
THEOREM WriteResultTells == Spec => []ExitTells
BY ResultFollows, WriteInvariant, PTL

\* mtd write erases no more than it needs: one block ahead at most, and none
\* behind the image of a command that is done.
THEOREM WriteLeavesTheRest == Spec => []RestUntouched
BY RestFollows, WriteInvariant, PTL

----------------------------------------------------------------------------
(* The invariant.                                                           *)

\* Until stage 2 gives the mtd command nothing of it has happened.
NotGiven ==
    phase \in {"shell", "kill", "ramfs", "ready"} =>
        /\ cmd = NoCommand /\ flash = Blank
        /\ dev = 1 /\ pos = 0 /\ w = 0 /\ e = 0 /\ skipBad = 0
        /\ rd = 0 /\ buf = <<>> /\ off = 0 /\ skip = 0 /\ append = FALSE
        /\ mtdofs = 0 /\ left = 0 /\ pc = "loop" /\ fault = "none"

\* Calls that do not overlap: one at a time, and none once stage 2 is called.
OneCall ==
    ~mixed => /\ \A c, d \in Busy : c = d
              /\ phase # "shell" => Busy = {}

\* What a call has seen to before it reaches a line.
CallsChecked ==
    ~mixed => \A c \in Busy :
        /\ at[c] \in {"save", "saving", "call"} => Checked(c)
        /\ at[c] = "saving" => arg[c].conf # "drop"
        /\ at[c] = "call" => /\ arg[c].conf = "drop" => tar = None
                             /\ arg[c].conf = "given" /\ ~lost => tar = Given

\* Stage 2 works on the image and the archive of the call that it serves.
Served ==
    phase \in {"kill", "ramfs", "ready", "write"} /\ ~mixed =>
        /\ ~want.force => img = "good"
        /\ ~lost => tar = want.conf
        /\ keep = (tar # None)

\* The mtd command of stage 2; where it fails by itself the device is full.
Commanded ==
    phase = "write" =>
        /\ cmd.start = 0 /\ cmd.devs = 1 /\ ~cmd.noErase /\ ~cmd.nand
        /\ cmd.bad = {} /\ cmd.join = keep
        /\ cmd.conf > 0 <=> keep /\ tar # None
        /\ img = "good" => cmd.data = MaxData
        /\ pc = "failed" /\ fault = "none" /\ cmd.worn = {} => pos = Size

\* What is said of the mtd command and of the upgrade.
MtdTells == LaidInOrder /\ ExitTells /\ RestUntouched
Arrived == phase = "up" => MtdTells /\ UpgradeArrives

UpgradeInv ==
    /\ UpgradeTypeOK /\ TypeInv
    /\ phase # "up" => MtdInv
    /\ NotGiven /\ OneCall /\ CallsChecked /\ Served /\ Commanded /\ Arrived

----------------------------------------------------------------------------
(* The mtd command of stage 2 is one that can be given by hand.             *)

LEMMA NoneWorn == {} \in Few(1, MaxWorn)
<1>1. Cardinality({}) = 0
  BY FS_EmptySet
<1> QED
  BY <1>1, BoundAssumption DEF Few

\* The commands of stage 2.
Asked(n, m, k, j, f) ==
    [data |-> n, marks |-> m, join |-> j, conf |-> k, devs |-> 1, start |-> 0,
     noErase |-> FALSE, nand |-> FALSE, bad |-> {}, worn |-> f]

GivenAs(c, d, n, m, k, j, p, q, t) ==
    \E f \in Few(d, MaxWorn), b \in IF t THEN Few(d, MaxBad) ELSE {{}} :
        /\ k > 0 => j
        /\ c = [data |-> n, marks |-> m, join |-> j, conf |-> k, devs |-> d,
                start |-> p, noErase |-> q, nand |-> t, bad |-> b, worn |-> f]
GivenBy(c) ==
    \E d \in Dev, n \in 0 .. MaxData, m \in 0 .. MaxMark, k \in 0 .. MaxConf,
       j \in BOOLEAN, p \in 0 .. 1, q \in BOOLEAN, t \in BOOLEAN :
        GivenAs(c, d, n, m, k, j, p, q, t)

LEMMA CommandMayBe ==
    ASSUME NEW n \in 0 .. MaxData, NEW m \in 0 .. MaxMark, NEW k \in 0 .. MaxConf,
           NEW j \in BOOLEAN, NEW f \in Few(1, MaxWorn), k > 0 => j,
           NEW c, c = Asked(n, m, k, j, f)
    PROVE  GivenBy(c)
<1>1. 1 \in Dev /\ 0 \in 0 .. 1 /\ FALSE \in BOOLEAN
  BY BoundAssumption DEF Dev
<1>2. {} \in IF FALSE THEN Few(1, MaxBad) ELSE {{}}
  OBVIOUS
<1>3. GivenAs(c, 1, n, m, k, j, 0, FALSE, FALSE)
  BY <1>2 DEF Asked, GivenAs
<1> QED
  BY <1>1, <1>3, Zenon DEF GivenBy

LEMMA InitStarts == Init => TypeInv /\ MtdInv
BY InitTyped, InitGood DEF MtdInv, Good

LEMMA FreshInit == NotGiven /\ phase \in {"shell", "kill", "ramfs", "ready"} => TypeInv /\ MtdInv
<1> SUFFICES ASSUME NotGiven, phase \in {"shell", "kill", "ramfs", "ready"}
             PROVE  Init
    BY InitStarts
<1>1. /\ cmd = NoCommand /\ flash = Blank
      /\ dev = 1 /\ pos = 0 /\ w = 0 /\ e = 0 /\ skipBad = 0
      /\ rd = 0 /\ buf = <<>> /\ off = 0 /\ skip = 0 /\ append = FALSE
      /\ mtdofs = 0 /\ left = 0 /\ pc = "loop" /\ fault = "none"
  BY DEF NotGiven
<1>2. /\ 0 \in 0 .. MaxData /\ 0 \in 0 .. MaxMark /\ 0 \in 0 .. MaxConf /\ FALSE \in BOOLEAN
      /\ ~(0 > 0)
  BY BoundAssumption
<1>3. CommandGiven
  <2>1. cmd = Asked(0, 0, 0, FALSE, {})
    BY <1>1 DEF NoCommand, Asked
  <2> QED
    <3>1. GivenBy(Asked(0, 0, 0, FALSE, {}))
      BY <1>2, NoneWorn, CommandMayBe
    <3>2. GivenBy(cmd)
      BY <2>1, <3>1
    <3> QED
      BY <3>2 DEF CommandGiven, GivenBy, GivenAs
<1> QED
  BY <1>1, <1>3 DEF Init, NoCommand, Blank

LEMMA MtdBeginStarts == UpgradeInv /\ MtdBegin => (TypeInv /\ MtdInv)'
<1> SUFFICES ASSUME UpgradeInv, MtdBegin
             PROVE  Init'
    BY InitStarts, PTL
<1>1. PICK n \in 0 .. MaxData, m \in 0 .. MaxMark, k \in 0 .. MaxConf, f \in Few(1, MaxWorn) :
        /\ Layout(img, n, m)
        /\ (k > 0) <=> keep /\ tar # None
        /\ cmd' = [NoCommand EXCEPT !.data = n, !.marks = m, !.join = keep,
                                    !.conf = k, !.worn = f]
  BY Zenon DEF MtdBegin
<1>2. /\ flash' = Blank /\ append' = keep
      /\ dev' = 1 /\ pos' = 0 /\ w' = 0 /\ e' = 0 /\ skipBad' = 0 /\ rd' = 0 /\ buf' = <<>>
      /\ off' = 0 /\ skip' = 0 /\ mtdofs' = 0 /\ left' = 0 /\ pc' = "loop" /\ fault' = "none"
  BY DEF MtdBegin, UpgradeInv, NotGiven, placeVars, appendVars
<1>3. keep \in BOOLEAN /\ (k > 0 => keep)
  BY <1>1 DEF UpgradeInv, UpgradeTypeOK
<1>4. cmd' = Asked(n, m, k, keep, f)
  BY <1>1 DEF NoCommand, Asked
<1>5. CommandGiven'
  <2>1. GivenBy(Asked(n, m, k, keep, f))
    BY <1>3, CommandMayBe
  <2>2. GivenBy(cmd')
    BY <1>4, <2>1
  <2> QED
    BY <2>2 DEF CommandGiven, GivenBy, GivenAs
<1>6. cmd'.noErase = FALSE /\ cmd'.start = 0 /\ cmd'.join = keep
  BY <1>4 DEF Asked
<1> QED
  BY <1>2, <1>5, <1>6 DEF Init, Blank

----------------------------------------------------------------------------
(* What is on flash when the command of stage 2 has ended.                  *)

\* On one device that erases everywhere the blocks are the places, in order.
Sound == cmd.start = 0 /\ cmd.devs = 1 /\ cmd.bad = {} /\ cmd.worn = {}

LEMMA SoundPlaces ==
    ASSUME Sound
    PROVE  /\ Places = {1} \X Block /\ Cardinality(Places) = Size
           /\ \A b \in 0 .. Size : Cardinality(Before(1, b)) = b
<1>0. Size \in Nat /\ Size > 0 /\ MaxDev \in Nat /\ MaxDev > 0
  BY SizeAssumption, BoundAssumption
<1>1. \A b \in Block : Usable(1, b)
  <2> SUFFICES ASSUME NEW b \in Block
               PROVE  Usable(1, b)
    OBVIOUS
  <2>1. ~IsBad(1, b)
    BY DEF Sound, IsBad
  <2>2. \A c \in 0 .. b : CanErase(1, c)
    BY <1>0 DEF Sound, CanErase, IsBad, Block
  <2>3. 1 <= cmd.devs /\ cmd.start <= b /\ cmd.start = 0
    BY <1>0 DEF Sound, Block
  <2> QED
    BY <2>1, <2>2, <2>3 DEF Usable
<1>2. Places = {1} \X Block
  <2>1. \A d \in Dev, b \in Block : Usable(d, b) => d = 1
    BY <1>0 DEF Usable, Sound, Dev
  <2>2. 1 \in Dev
    BY <1>0 DEF Dev
  <2>3. ASSUME NEW l \in Places
        PROVE  l \in {1} \X Block
    BY <2>1 DEF Places
  <2>4. ASSUME NEW l \in {1} \X Block
        PROVE  l \in Places
    BY <2>2, <1>1 DEF Places
  <2> QED
    BY <2>3, <2>4
<1>3. ASSUME NEW n \in 0 .. Size
      PROVE  IsFiniteSet({1} \X (0 .. n - 1)) /\ Cardinality({1} \X (0 .. n - 1)) = n
  <2>1. /\ IsFiniteSet({1}) /\ Cardinality({1}) = 1
    BY FS_Singleton
  <2>2. 0 \in Int /\ n - 1 \in Int /\ (IF 0 > n - 1 THEN 0 ELSE n - 1 - 0 + 1) = n
    BY <1>0
  <2>3. IsFiniteSet(0 .. n - 1) /\ Cardinality(0 .. n - 1) = n
    BY <2>2, FS_Interval
  <2>4. IsFiniteSet({1} \X (0 .. n - 1)) /\ Cardinality({1} \X (0 .. n - 1)) = 1 * n
    BY <2>1, <2>3, FS_Product
  <2> QED
    BY <2>4, <1>0
<1>4. Cardinality(Places) = Size
  BY <1>0, <1>2, <1>3 DEF Block
<1>5. ASSUME NEW b \in 0 .. Size
      PROVE  Cardinality(Before(1, b)) = b
  <2>1. Before(1, b) = {1} \X (0 .. b - 1)
    <3>1. ASSUME NEW l \in {1} \X Block
          PROVE  (l[1] < 1 \/ (l[1] = 1 /\ l[2] < b)) <=> l \in {1} \X (0 .. b - 1)
      <4>1. l[1] = 1 /\ l[2] \in Block /\ l = <<l[1], l[2]>>
        OBVIOUS
      <4>2. l[2] < b <=> l[2] \in 0 .. b - 1
        BY <4>1, <1>0 DEF Block
      <4> QED
        BY <4>1, <4>2
    <3>2. {1} \X (0 .. b - 1) \subseteq {1} \X Block
      BY <1>0 DEF Block
    <3> QED
      BY <1>2, <3>1, <3>2 DEF Before
  <2> QED
    BY <2>1, <1>3
<1> QED
  BY <1>2, <1>4, <1>5

\* What belongs at the beginning, and that nothing is meant to stay erased.
LEMMA ItemsAre ==
    ASSUME CommandOK
    PROVE  /\ \A i \in 1 .. cmd.data : Item(i) = Img(i)
           /\ \A i \in Nat \ {0} : Item(i) # Erased
<1>0. cmd.data \in Nat /\ cmd.marks \in Nat /\ cmd.conf \in Nat
  BY BoundAssumption DEF CommandOK
<1>a. Mark # Erased /\ \A i : Img(i) # Erased /\ Conf(i) # Erased
  BY DEF Mark, Erased, Img, Conf
<1>1. CASE cmd.join /\ cmd.marks > 0
  <2>1. /\ \A i \in 1 .. cmd.data : Item(i) = Img(i)
        /\ \A i \in 1 .. cmd.conf : Item(cmd.data + i) = Conf(i)
        /\ Item(cmd.data + cmd.conf + 1) = Mark
        /\ \A i \in Nat : i > cmd.data + cmd.conf + 1 => Item(i) = Mark
    BY <1>1, ResultBlocks DEF More
  <2>2. ASSUME NEW i \in Nat \ {0}
        PROVE  Item(i) # Erased
    <3>1. CASE i \in 1 .. cmd.data
      BY <2>1, <3>1, <1>a
    <3>2. CASE i > cmd.data /\ i <= cmd.data + cmd.conf
      <4>1. i - cmd.data \in 1 .. cmd.conf /\ cmd.data + (i - cmd.data) = i
        BY <3>2, <1>0
      <4>2. Item(cmd.data + (i - cmd.data)) = Conf(i - cmd.data)
        BY <2>1, <4>1
      <4> QED
        BY <4>1, <4>2, <1>a
    <3>3. CASE i > cmd.data + cmd.conf
      <4>1. i = cmd.data + cmd.conf + 1 \/ i > cmd.data + cmd.conf + 1
        BY <3>3, <1>0
      <4> QED
        BY <4>1, <2>1, <1>a
    <3> QED
      BY <3>1, <3>2, <3>3, <1>0
  <2> QED
    BY <2>1, <2>2
<1>2. CASE ~(cmd.join /\ cmd.marks > 0)
  <2>1. /\ \A i \in 1 .. cmd.data + cmd.marks : Item(i) = Image(cmd.data, cmd.marks)[i]
        /\ \A i \in Nat : i > cmd.data + cmd.marks => Item(i) = Mark
    BY <1>2, ItemsOfImage, ResultBlocks DEF More
  <2>2. /\ \A i \in 1 .. cmd.data : Image(cmd.data, cmd.marks)[i] = Img(i)
        /\ \A i \in cmd.data + 1 .. cmd.data + cmd.marks : Image(cmd.data, cmd.marks)[i] = Mark
    BY <1>0, ImageBlocks
  <2>3. \A i \in 1 .. cmd.data : i \in 1 .. cmd.data + cmd.marks
    BY <1>0
  <2>4. ASSUME NEW i \in Nat \ {0}
        PROVE  Item(i) # Erased
    <3>1. CASE i \in 1 .. cmd.data
      BY <2>1, <2>2, <2>3, <3>1, <1>a
    <3>2. CASE i \in cmd.data + 1 .. cmd.data + cmd.marks
      <4>1. i \in 1 .. cmd.data + cmd.marks
        BY <3>2, <1>0
      <4> QED
        BY <2>1, <2>2, <4>1, <3>2, <1>a
    <3>3. CASE i > cmd.data + cmd.marks
      BY <2>1, <3>3, <1>a
    <3> QED
      BY <3>1, <3>2, <3>3, <1>0
  <2> QED
    BY <2>1, <2>2, <2>3, <2>4
<1> QED
  BY <1>1, <1>2

\* The mtd command of stage 2 on a sound flash.
AtWork == /\ TypeInv /\ MtdInv /\ Sound /\ ~cmd.noErase /\ ~cmd.nand /\ Supported

LEMMA AtWorkGood ==
    AtWork => /\ Good /\ dev = 1 /\ dev \in Dev /\ pos \in 0 .. Size /\ Laid = pos
              /\ \A b \in Block : b < pos => flash[1][b] = Item(b + 1)
<1> SUFFICES ASSUME AtWork
             PROVE  /\ Good /\ dev = 1 /\ dev \in Dev /\ pos \in 0 .. Size /\ Laid = pos
                    /\ \A b \in Block : b < pos => flash[1][b] = Item(b + 1)
    OBVIOUS
<1>1. Good
  BY DEF AtWork, Good, MtdInv
<1>2. dev \in Nat /\ dev \in Dev /\ dev <= cmd.devs /\ cmd.devs = 1 /\ pos \in Nat /\ pos <= Size
      /\ Size \in Nat
  BY <1>1, Numbers DEF AtWork, Sound
<1>3. dev = 1 /\ pos \in 0 .. Size
  BY <1>2 DEF Dev
<1>4. Places = {1} \X Block /\ \A b \in 0 .. Size : Cardinality(Before(1, b)) = b
  BY SoundPlaces DEF AtWork
<1>5. Laid = pos
  BY <1>3, <1>4 DEF Laid
<1>6. ASSUME NEW b \in Block, b < pos
      PROVE  flash[1][b] = Item(b + 1)
  <2>1. <<1, b>> \in Places /\ b \in 0 .. Size
    BY <1>2, <1>4 DEF Block
  <2>2. <<1, b>>[1] = dev /\ <<1, b>>[2] = b
    BY <1>3
  <2>3. flash[1][b] = Item(Cardinality(Before(1, b)) + 1)
    BY <1>1, <1>6, <2>1, <2>2 DEF Good, InOrder
  <2> QED
    BY <1>4, <2>1, <2>3
<1> QED
  BY <1>1, <1>2, <1>3, <1>5, <1>6

\* Where the command has ended and nothing failed, the data is on flash if the
\* image has room, and so is the configuration if that has room, too.
Ended == /\ pc \in {"done", "failed"} /\ fault = "none"
         /\ pc = "failed" => pos = Size

LEMMA EndedReaches ==
    AtWork /\ Ended => /\ Size >= cmd.data + cmd.marks => pos >= cmd.data
                       /\ Fits => pos >= More
<1> SUFFICES ASSUME AtWork, Ended
             PROVE  /\ Size >= cmd.data + cmd.marks => pos >= cmd.data
                    /\ Fits => pos >= More
    OBVIOUS
<1>0. /\ Good /\ Laid = pos /\ pos \in Nat /\ Size \in Nat /\ cmd.data \in Nat
      /\ cmd.marks \in Nat /\ cmd.conf \in Nat /\ More \in Nat /\ Cardinality(Places) = Size
      /\ Len(Result) = More
  <2>1. Good /\ Laid = pos
    BY AtWorkGood
  <2>2. Cardinality(Places) = Size
    BY SoundPlaces DEF AtWork
  <2> QED
    BY <2>1, <2>2, Numbers, ResultBlocks
<1>1. CASE pc = "failed"
  <2>1. pos = Size
    BY <1>1 DEF Ended
  <2> QED
    BY <1>0, <2>1 DEF Fits
<1>2. CASE pc = "done"
  <2>1. Fits => pos >= More
    <3>1. ExitTells
      BY ResultFollows DEF AtWork
    <3> QED
      BY <1>0, <1>2, <3>1 DEF ExitTells, Ended, AtWork, Laid
  <2>2. ASSUME Size >= cmd.data + cmd.marks
        PROVE  pos >= cmd.data
    <3>1. /\ rd = cmd.data + cmd.marks /\ Len(buf) = 0 /\ rd \in Nat
      <4>1. buf = <<>> /\ rd = cmd.data + cmd.marks
        BY <1>0, <1>2 DEF Good, Counted, Ended
      <4> QED
        BY <4>1, <1>0
    <3>2. CASE append \/ ~cmd.join
      <4>1. Laid + 0 = rd
        BY <1>0, <1>2, <3>1, <3>2 DEF Good, Counted
      <4> QED
        BY <4>1, <3>1, <1>0
    <3>3. CASE cmd.join /\ ~append
      <4>1. Laid >= More \/ pos = Size
        BY <1>0, <1>2, <3>3 DEF Good, Counted
      <4>2. More >= cmd.data
        BY <1>0 DEF More
      <4> QED
        BY <4>1, <4>2, <2>2, <1>0
    <3> QED
      BY <3>2, <3>3
  <2> QED
    BY <2>1, <2>2
<1> QED
  BY <1>1, <1>2 DEF Ended

LEMMA DataHeld ==
    AtWork /\ pos >= cmd.data => /\ Holds(flash, 0, Image(cmd.data, 0))
                                 /\ cmd.data > 0 => flash # Blank
<1> SUFFICES ASSUME AtWork, pos >= cmd.data
             PROVE  /\ Holds(flash, 0, Image(cmd.data, 0))
                    /\ cmd.data > 0 => flash # Blank
    OBVIOUS
<1>0. /\ Good /\ pos \in Nat /\ pos <= Size /\ Size \in Nat /\ cmd.data \in Nat /\ CommandOK
      /\ 1 \in Dev
  <2>1. Good /\ dev = 1 /\ dev \in Dev
    BY AtWorkGood
  <2> QED
    BY <2>1, Numbers
<1>1. ASSUME NEW i \in 1 .. cmd.data
      PROVE  flash[1][i - 1] = Img(i)
  <2>1. i - 1 \in Block /\ i - 1 < pos /\ i - 1 + 1 = i
    BY <1>0 DEF Block
  <2>2. flash[1][i - 1] = Item(i - 1 + 1)
    BY <2>1, AtWorkGood
  <2> QED
    BY <2>1, <2>2, <1>0, ItemsAre
<1>2. Holds(flash, 0, Image(cmd.data, 0))
  <2>1. /\ Len(Image(cmd.data, 0)) = cmd.data
        /\ \A i \in 1 .. cmd.data : Image(cmd.data, 0)[i] = Img(i)
    <3>1. 0 \in Nat /\ cmd.data + 0 = cmd.data
      BY <1>0
    <3> QED
      BY <3>1, <1>0, ImageBlocks
  <2>2. \A i \in 1 .. cmd.data : 0 + i - 1 = i - 1
    BY <1>0
  <2>3. 0 + cmd.data <= Size
    BY <1>0
  <2> QED
    BY <1>1, <2>1, <2>2, <2>3 DEF Holds
<1>3. ASSUME cmd.data > 0
      PROVE  flash # Blank
  <2>1. 1 \in 1 .. cmd.data /\ 1 - 1 = 0 /\ 0 \in Block
    BY <1>0, <1>3 DEF Block
  <2>2. flash[1][0] = Img(1)
    BY <1>1, <2>1
  <2>3. Blank[1][0] = Old
    BY <2>1, <1>0 DEF Blank
  <2>4. Img(1) # Old
    BY DEF Img, Old
  <2> QED
    BY <2>2, <2>3, <2>4
<1> QED
  BY <1>2, <1>3

\* A configuration that is whole on flash is restored.
LEMMA ConfHeld ==
    AtWork /\ cmd.join /\ cmd.marks > 0 /\ cmd.conf > 0 /\ pos >= More => Restored(flash) = tar
<1> SUFFICES ASSUME AtWork, cmd.join, cmd.marks > 0, cmd.conf > 0, pos >= More
             PROVE  Restored(flash) = tar
    OBVIOUS
<1>0. /\ Good /\ pos \in Nat /\ pos <= Size /\ Size \in Nat /\ cmd.data \in Nat /\ CommandOK
      /\ cmd.conf \in Nat /\ cmd.marks \in Nat
  <2>1. Good
    BY AtWorkGood
  <2> QED
    BY <2>1, Numbers
<1>a. pos >= cmd.data + cmd.conf + 1
  BY DEF More
<1>1. ASSUME NEW i \in 1 .. cmd.conf + 1
      PROVE  flash[1][cmd.data + i - 1] = IF i = cmd.conf + 1 THEN Mark ELSE Conf(i)
  <2>1. /\ cmd.data + i - 1 \in Block /\ cmd.data + i - 1 < pos
        /\ cmd.data + i - 1 + 1 = cmd.data + i
    BY <1>0, <1>a DEF Block
  <2>2. flash[1][cmd.data + i - 1] = Item(cmd.data + i)
    <3>1. flash[1][cmd.data + i - 1] = Item(cmd.data + i - 1 + 1)
      BY <2>1, AtWorkGood
    <3> QED
      BY <2>1, <3>1
  <2>3. /\ \A k \in 1 .. cmd.conf : Item(cmd.data + k) = Conf(k)
        /\ Item(cmd.data + cmd.conf + 1) = Mark
    BY <1>0, ResultBlocks
  <2>4. CASE i = cmd.conf + 1
    <3>1. cmd.data + i = cmd.data + cmd.conf + 1
      BY <1>0, <2>4
    <3> QED
      BY <2>2, <2>3, <2>4, <3>1
  <2>5. CASE i # cmd.conf + 1
    <3>1. i \in 1 .. cmd.conf
      BY <1>0, <2>5
    <3> QED
      BY <2>2, <2>3, <2>5, <3>1
  <2> QED
    BY <2>4, <2>5
<1> DEFINE archive == [i \in 1 .. cmd.conf |-> Conf(i)]
           all == archive \o <<Mark>>
<1>2. Len(all) = cmd.conf + 1 /\ \A i \in 1 .. cmd.conf + 1 :
        all[i] = IF i = cmd.conf + 1 THEN Mark ELSE Conf(i)
  <2> DEFINE some == {Conf(i) : i \in 1 .. cmd.conf} \union {Mark}
  <2>1. archive \in Seq(some) /\ Len(archive) = cmd.conf /\ <<Mark>> \in Seq(some)
        /\ Len(<<Mark>>) = 1 /\ <<Mark>>[1] = Mark
        /\ \A i \in 1 .. cmd.conf : archive[i] = Conf(i)
    BY <1>0
  <2> HIDE DEF archive, some
  <2>2. /\ Len(all) = cmd.conf + 1
        /\ \A i \in 1 .. cmd.conf + 1 :
             all[i] = IF i <= cmd.conf THEN archive[i] ELSE <<Mark>>[i - cmd.conf]
    BY <2>1, ConcatProperties
  <2>3. ASSUME NEW i \in 1 .. cmd.conf + 1
        PROVE  all[i] = IF i = cmd.conf + 1 THEN Mark ELSE Conf(i)
    <3>1. CASE i = cmd.conf + 1
      <4>1. ~(i <= cmd.conf) /\ i - cmd.conf = 1
        BY <1>0, <3>1
      <4> QED
        BY <2>1, <2>2, <3>1, <4>1
    <3>2. CASE i # cmd.conf + 1
      <4>1. i <= cmd.conf /\ i \in 1 .. cmd.conf
        BY <1>0, <3>2
      <4> QED
        BY <2>1, <2>2, <3>2, <4>1
    <3> QED
      BY <3>1, <3>2
  <2> QED
    BY <2>2, <2>3
<1> HIDE DEF archive
<1>3. Holds(flash, cmd.data, all)
  <2> HIDE DEF all
  <2>1. cmd.data + (cmd.conf + 1) <= Size
    BY <1>0, <1>a
  <2> QED
    BY <1>1, <1>2, <2>1 DEF Holds
<1>4. flash[1][cmd.data] = Conf(1)
  <2>1. 1 \in 1 .. cmd.conf + 1 /\ 1 # cmd.conf + 1 /\ cmd.data + 1 - 1 = cmd.data
    BY <1>0
  <2> QED
    BY <1>1, <2>1
<1>5. cmd.conf # 0 /\ ~(cmd.data >= Size)
  BY <1>0, <1>a
<1> QED
  BY <1>3, <1>4, <1>5 DEF Restored, archive

LEMMA WriteAtWork ==
    UpgradeInv /\ phase = "write" /\ cmd.worn = {} => AtWork
<1> SUFFICES ASSUME UpgradeInv, phase = "write", cmd.worn = {}
             PROVE  AtWork
    OBVIOUS
<1>1. /\ cmd.start = 0 /\ cmd.devs = 1 /\ ~cmd.noErase /\ ~cmd.nand /\ cmd.bad = {}
  BY DEF UpgradeInv, Commanded
<1>2. Supported
  BY <1>1 DEF Supported
<1> QED
  BY <1>1, <1>2 DEF AtWork, Sound, UpgradeInv

LEMMA RebootArrives == UpgradeInv /\ Reboot => UpgradeArrives'
<1> SUFFICES ASSUME UpgradeInv, Reboot, Faultless
             PROVE  /\ Size >= cmd.data + cmd.marks => runs'[1] = "new"
                    /\ Fits /\ cmd.marks > 0 /\ runs'[1] = "new" => runs'[2] = want.conf
  <2>1. ASSUME UpgradeInv, Reboot
        PROVE  cmd' = cmd /\ fault' = fault /\ mixed' = mixed /\ lost' = lost /\ want' = want
    BY <2>1 DEF Reboot, vars, callVars
  <2>2. ASSUME UpgradeInv, Reboot
        PROVE  Faultless' = Faultless /\ Fits' = Fits
    <3>1. Faultless' = Faultless
      BY <2>1, <2>2 DEF Faultless
    <3>2. cmd' = cmd
      BY <2>1, <2>2
    <3>3. Places' = Places
      BY <3>2, Steady
    <3> QED
      BY <3>1, <3>2, <3>3 DEF Fits, Result, Image
  <2> QED
    BY <2>1, <2>2 DEF UpgradeArrives
<1>1. /\ phase = "write" /\ pc \in {"done", "failed"} /\ runs' = Booted(flash)
  BY DEF Reboot
<1>2. ~mixed /\ ~lost /\ fault = "none" /\ cmd.worn = {} /\ ~want.force
  BY DEF Faultless
<1>3. AtWork
  BY <1>1, <1>2, WriteAtWork
<1>4. /\ img = "good" /\ tar = want.conf /\ keep = (tar # None) /\ cmd.data = MaxData
      /\ cmd.join = keep /\ (cmd.conf > 0 <=> keep /\ tar # None)
      /\ pc = "failed" => pos = Size
  BY <1>1, <1>2 DEF UpgradeInv, Served, Commanded
<1>5. Ended
  BY <1>1, <1>2, <1>4 DEF Ended
<1>6. /\ Size >= cmd.data + cmd.marks => pos >= cmd.data
      /\ Fits => pos >= More
  BY <1>3, <1>5, EndedReaches
<1>7. ASSUME Size >= cmd.data + cmd.marks
      PROVE  runs'[1] = "new"
  <2>1. cmd.data > 0
    BY <1>4, DataAssumption
  <2>2. Holds(flash, 0, Image(cmd.data, 0)) /\ flash # Blank
    BY <1>3, <1>6, <1>7, <2>1, DataHeld
  <2> QED
    BY <1>1, <1>4, <2>2 DEF Booted
<1>8. ASSUME Fits, cmd.marks > 0, runs'[1] = "new"
      PROVE  runs'[2] = want.conf
  <2>1. runs' = <<"new", Restored(flash)>>
    BY <1>1, <1>8 DEF Booted
  <2>2. CASE tar = None
    <3>1. cmd.conf \in Nat /\ ~(cmd.conf > 0)
      BY <1>3, <1>4, <2>2, AtWorkGood, Numbers
    <3>2. cmd.conf = 0
      BY <3>1
    <3> QED
      BY <1>4, <2>1, <2>2, <3>2 DEF Restored
  <2>3. CASE tar # None
    <3>1. Restored(flash) = tar
      BY <1>3, <1>4, <1>6, <1>8, <2>3, ConfHeld
    <3> QED
      BY <1>4, <2>1, <3>1
  <2> QED
    BY <2>2, <2>3
<1> QED
  BY <1>7, <1>8

\* Power loss spoils an erased block: none that anything was said of.
LEMMA PowerLossTells == UpgradeInv /\ PowerLoss => TypeInv' /\ MtdTells'
<1> SUFFICES ASSUME UpgradeInv, PowerLoss
             PROVE  TypeInv' /\ MtdTells'
    OBVIOUS
<1>1. /\ cmd' = cmd /\ fault' = fault /\ rd' = rd /\ buf' = buf /\ skip' = skip
      /\ append' = append /\ dev' = dev /\ pos' = pos /\ w' = w /\ e' = e
      /\ skipBad' = skipBad /\ off' = off /\ mtdofs' = mtdofs /\ left' = left /\ pc' = pc
      /\ phase = "write"
  BY DEF PowerLoss, setupVars, imageVars, placeVars, appendVars
<1>2. TypeInv /\ MtdInv /\ TypeOK /\ CommandOK /\ Bounded
  BY <1>1 DEF UpgradeInv, TypeInv
<1>3. /\ flash' \in [Dev -> [Block -> Content]]
      /\ \A d \in Dev, b \in Block : flash[d][b] # Erased => flash'[d][b] = flash[d][b]
  <2>1. 1 \in Dev /\ flash \in [Dev -> [Block -> Content]]
    BY <1>2, BoundAssumption DEF TypeOK, Dev
  <2>2. CASE flash' = flash
    BY <2>1, <2>2
  <2>3. ASSUME NEW c \in Block, flash[1][c] = Erased, flash' = [flash EXCEPT ![1][c] = Garbage]
        PROVE  /\ flash' \in [Dev -> [Block -> Content]]
               /\ \A d \in Dev, b \in Block : flash[d][b] # Erased => flash'[d][b] = flash[d][b]
    <3>1. flash' \in [Dev -> [Block -> Content]]
      BY <2>1, <2>3, ContentHolds
    <3>2. \A d \in Dev, b \in Block :
            flash'[d][b] = IF d = 1 /\ b = c THEN Garbage ELSE flash[d][b]
      BY <2>1, <2>3
    <3> QED
      BY <2>3, <3>1, <3>2
  <2>4. \/ flash' = flash
        \/ \E c \in Block : flash[1][c] = Erased /\ flash' = [flash EXCEPT ![1][c] = Garbage]
    BY DEF PowerLoss
  <2> QED
    BY <2>2, <2>3, <2>4
<1>4. TypeInv'
  BY <1>1, <1>2, <1>3 DEF TypeInv, TypeOK, CommandOK, Bounded, Reach
<1>5. LaidInOrder'
  <2> SUFFICES ASSUME Supported, NEW l \in Places, l[1] < dev \/ (l[1] = dev /\ l[2] < pos)
               PROVE  flash'[l[1]][l[2]] = Item(Cardinality(Before(l[1], l[2])) + 1)
    BY <1>1, Steady DEF LaidInOrder
  <2>1. flash[l[1]][l[2]] = Item(Cardinality(Before(l[1], l[2])) + 1)
    BY <1>2, OrderFollows DEF LaidInOrder
  <2>2. Cardinality(Before(l[1], l[2])) + 1 \in Nat \ {0}
    <3>1. Cardinality(Before(l[1], l[2])) \in Nat
      BY PlacesFinite
    <3> QED
      BY <3>1
  <2>3. Item(Cardinality(Before(l[1], l[2])) + 1) # Erased
    BY <1>2, <2>2, ItemsAre
  <2>4. l[1] \in Dev /\ l[2] \in Block
    BY DEF Places
  <2> QED
    BY <1>3, <2>1, <2>3, <2>4
<1>6. ExitTells'
  <2>1. ExitTells
    BY <1>2, ResultFollows
  <2>2. /\ Supported' = Supported /\ Places' = Places
        /\ Before(dev, pos)' = Before(dev, pos)
    BY <1>1, Steady
  <2>3. Result' = Result
    BY <1>1 DEF Result, Image
  <2> QED
    BY <1>1, <2>1, <2>2, <2>3 DEF ExitTells, Fits
<1>7. RestUntouched'
  <2>1. RestUntouched
    BY <1>2, RestFollows
  <2>2. Old # Erased /\ Supported' = Supported
    BY <1>1, Steady DEF Old, Erased
  <2> QED
    BY <1>1, <1>3, <2>1, <2>2 DEF RestUntouched
<1> QED
  BY <1>4, <1>5, <1>6, <1>7 DEF MtdTells

----------------------------------------------------------------------------
(* Steps of the mtd command.                                                *)

\* Where the command of stage 2 fails by itself the device is full.
LEMMA FailsWhenFull ==
    ASSUME UpgradeInv, phase = "write", Next, pc' = "failed", fault' = "none", cmd.worn = {}
    PROVE  pos' = Size
<1>1. AtWork
  BY WriteAtWork
<1>2. /\ Good /\ dev = 1 /\ pos \in Nat /\ pos <= Size /\ Size \in Nat /\ e \in Nat
      /\ ~cmd.nand /\ cmd.start = 0 /\ cmd.bad = {} /\ cmd.devs = 1
  <2>1. Good /\ dev = 1
    BY <1>1, AtWorkGood
  <2> QED
    BY <1>1, <2>1, Numbers DEF AtWork, Sound
<1>3. CASE EraseFails
  <2>1. /\ Plain /\ NeedErase /\ ~CanErase(dev, e + cmd.start) /\ pos' = pos
    BY <1>3 DEF EraseFails, ErasesNext, Stop, placeVars
  <2>2. ~(e + 0 < Size)
    BY <1>2, <2>1 DEF CanErase, IsBad
  <2>3. pos = 0 + e \/ pos = Size
    BY <1>2, <2>1, MustErase
  <2> QED
    BY <1>2, <2>1, <2>2, <2>3
<1>4. CASE WriteFails
  BY <1>2, <1>4 DEF WriteFails, Stop, placeVars
<1>5. CASE BadCheckFails \/ AppendCheckFails
  BY <1>2, <1>5 DEF BadCheckFails, AppendCheckFails
<1>6. CASE ReadEnd
  BY <1>6 DEF ReadEnd, Stop
<1>7. CASE ReadBlock
  BY <1>7 DEF ReadBlock
<1>8. CASE AppendBegin \/ AppendEnd
  BY <1>8 DEF AppendBegin, AppendEnd
<1>9. CASE SkipBadBlock \/ EraseBlock \/ Resume \/ WriteBlock
  BY <1>9 DEF SkipBadBlock, EraseBlock, Resume, WriteBlock, ErasesNext, Plain
<1>10. CASE AppendSkipBad \/ AppendBlock
  BY <1>10 DEF AppendSkipBad, AppendBlock
<1> QED
  BY <1>3, <1>4, <1>5, <1>6, <1>7, <1>8, <1>9, <1>10 DEF Next

LEMMA StaysStopped == Next => pc \notin {"done", "failed"} /\ cmd' = cmd
BY DEF Next, Stop, setupVars, imageVars, placeVars, appendVars, ReadEnd, ReadBlock, AppendBegin,
       BadCheckFails, SkipBadBlock, EraseBlock, Resume, EraseFails, WriteBlock, WriteFails,
       AppendCheckFails, AppendSkipBad, AppendBlock, AppendEnd, Plain, ErasesNext

\* What the variables of the scripts hold.
ScriptTypes ==
    /\ phase \in {"byhand", "shell", "kill", "ramfs", "ready", "write", "up"}
    /\ img \in Images
    /\ tar \in Archives
    /\ cfg \in 0 .. MaxEdit
    /\ at \in [Caller -> {"idle", "fetch", "fetching", "check", "save", "saving",
                          "call", "killed"}]
    /\ arg \in [Caller -> Options]
    /\ keep \in BOOLEAN
    /\ want \in [force : BOOLEAN, conf : Archives]
    /\ runs \in {"old", "new", "dead"} \X Archives
    /\ mixed \in BOOLEAN /\ lost \in BOOLEAN

LEMMA TypesSplit == UpgradeTypeOK <=> TypeOK /\ ScriptTypes
BY DEF UpgradeTypeOK, ScriptTypes

LEMMA MtdStepKeeps == UpgradeInv /\ MtdStep => UpgradeInv'
<1> SUFFICES ASSUME UpgradeInv, MtdStep
             PROVE  UpgradeInv'
    OBVIOUS
<1>1. /\ phase \in {"byhand", "write"} /\ Next
      /\ phase' = phase /\ img' = img /\ tar' = tar /\ cfg' = cfg /\ at' = at /\ arg' = arg
      /\ keep' = keep /\ want' = want /\ runs' = runs /\ mixed' = mixed /\ lost' = lost
  BY DEF MtdStep, sysVars, callVars, histVars
<1>2. (TypeInv /\ MtdInv)'
  BY <1>1, StepMtd DEF UpgradeInv
<1>3. UpgradeTypeOK'
  BY <1>1, <1>2 DEF UpgradeInv, UpgradeTypeOK, TypeInv
<1>4. NotGiven' /\ Arrived'
  BY <1>1 DEF NotGiven, Arrived
<1>5. OneCall' /\ CallsChecked' /\ Served'
  BY <1>1 DEF UpgradeInv, OneCall, CallsChecked, Served, Busy, Checked
<1>6. Commanded'
  <2> SUFFICES ASSUME phase = "write"
               PROVE  Commanded'
    BY <1>1 DEF Commanded
  <2>1. cmd' = cmd
    BY <1>1, StaysStopped
  <2>2. pc' = "failed" /\ fault' = "none" /\ cmd.worn = {} => pos' = Size
    BY <1>1, FailsWhenFull
  <2> QED
    BY <1>1, <2>1, <2>2 DEF UpgradeInv, Commanded
<1> QED
  BY <1>1, <1>2, <1>3, <1>4, <1>5, <1>6 DEF UpgradeInv

----------------------------------------------------------------------------
(* Steps of the scripts.                                                    *)

LEMMA ArchivesHold ==
    /\ None \in Archives /\ Cut \in Archives /\ Given \in Archives
    /\ \A v \in 0 .. MaxEdit : Running(v) \in Archives
BY DEF Archives

LEMMA OptionsHold ==
    NoOptions \in Options /\ \A o \in Options : /\ o.force \in BOOLEAN /\ o.test \in BOOLEAN
                                                /\ o.conf \in {"keep", "drop", "given"}
BY DEF NoOptions, Options

Early == {"shell", "kill", "ramfs", "ready"}

\* A step before the mtd command is given leaves what is said of that as it is.
LEMMA EarlyKeeps ==
    ASSUME UpgradeInv, UNCHANGED vars, phase \in Early, phase' \in Early,
           ScriptTypes', OneCall', CallsChecked', Served'
    PROVE  UpgradeInv'
<1>1. (TypeInv /\ MtdInv)'
  BY StepMtd DEF UpgradeInv, Early
<1>2. UpgradeTypeOK'
  BY <1>1, TypesSplit DEF UpgradeTypeOK, ScriptTypes, TypeInv
<1>3. NotGiven'
  BY DEF UpgradeInv, NotGiven, Early, vars, Blank, Block
<1>4. Commanded' /\ Arrived'
  BY DEF Commanded, Arrived, Early
<1> QED
  BY <1>1, <1>2, <1>3, <1>4 DEF UpgradeInv

LEMMA EditConfigKeeps == UpgradeInv /\ EditConfig => UpgradeInv'
<1> SUFFICES ASSUME UpgradeInv, EditConfig
             PROVE  UpgradeInv'
    OBVIOUS
<1>1. /\ phase \in Early /\ phase' = phase /\ cfg' = cfg + 1 /\ cfg < MaxEdit /\ UNCHANGED vars
      /\ img' = img /\ tar' = tar /\ at' = at /\ arg' = arg /\ keep' = keep /\ want' = want
      /\ runs' = runs /\ mixed' = mixed /\ lost' = lost
  BY DEF EditConfig, Alive, Early, callVars, histVars
<1>2. ScriptTypes'
  <2>1. cfg' \in 0 .. MaxEdit
    BY <1>1, EditAssumption DEF UpgradeInv, UpgradeTypeOK
  <2> QED
    BY <1>1, <2>1 DEF UpgradeInv, UpgradeTypeOK, ScriptTypes
<1>3. OneCall' /\ CallsChecked' /\ Served'
  BY <1>1 DEF UpgradeInv, OneCall, CallsChecked, Served, Busy, Checked
<1> QED
  BY <1>1, <1>2, <1>3, EarlyKeeps

LEMMA CallKeeps ==
    ASSUME UpgradeInv, NEW c \in Caller, Call(c)
    PROVE  UpgradeInv'
<1>1. /\ phase \in {"shell", "kill"} /\ phase' = phase /\ UNCHANGED vars /\ ~mixed
      /\ at[c] = "idle" /\ mixed' = (mixed \/ Busy # {} \/ phase # "shell")
      /\ cfg' = cfg /\ keep' = keep /\ img' = img /\ tar' = tar /\ want' = want /\ runs' = runs
      /\ lost' = lost
  BY DEF Call, MayCall, Alive, histVars
<1>2. PICK o \in Options, l \in {"fetch", "check"} :
         arg' = [arg EXCEPT ![c] = o] /\ at' = [at EXCEPT ![c] = l]
  BY DEF Call
<1>3. ScriptTypes'
  <2>1. mixed' \in BOOLEAN
    BY <1>1
  <2> QED
    BY <1>1, <1>2, <2>1 DEF UpgradeInv, UpgradeTypeOK, ScriptTypes
<1>4. ASSUME ~mixed'
      PROVE  Busy = {} /\ phase = "shell" /\ Busy' = {c} /\ at'[c] = l
  <2>1. Busy = {} /\ phase = "shell"
    BY <1>1, <1>4
  <2>2. at \in [Caller -> {"idle", "fetch", "fetching", "check", "save", "saving", "call",
                           "killed"}]
    BY DEF UpgradeInv, UpgradeTypeOK
  <2> QED
    BY <1>2, <2>1, <2>2 DEF Busy
<1>5. OneCall'
  BY <1>1, <1>4 DEF OneCall
<1>6. CallsChecked'
  BY <1>2, <1>4 DEF CallsChecked
<1>7. Served'
  BY <1>1, <1>4 DEF Served
<1> QED
  BY <1>1, <1>3, <1>5, <1>6, <1>7, EarlyKeeps DEF Early

\* While calls do not overlap, a call that goes on is the only one.
LEMMA GoesOn ==
    ASSUME UpgradeInv, NEW c \in Caller, at[c] \notin {"idle", "killed"},
           phase \in {"shell", "kill"}, phase' = phase, UNCHANGED vars, mixed' = mixed,
           ScriptTypes',
           NEW l, at' = [at EXCEPT ![c] = l],
           ~mixed =>
             /\ l \in {"save", "saving", "call"} => Checked(c)'
             /\ l = "saving" => arg'[c].conf # "drop"
             /\ l = "call" => /\ arg'[c].conf = "drop" => tar' = None
                              /\ arg'[c].conf = "given" /\ ~lost' => tar' = Given
    PROVE  UpgradeInv'
<1>1. c \in Busy
  BY DEF Busy
<1>2. at'[c] = l /\ \A d \in Caller : d # c => at'[d] = at[d]
  BY DEF UpgradeInv, UpgradeTypeOK
<1>3. ASSUME ~mixed
      PROVE  phase = "shell" /\ Busy' \subseteq {c}
  <2>1. phase = "shell" /\ Busy = {c}
    BY <1>1, <1>3 DEF UpgradeInv, OneCall
  <2> QED
    BY <1>2, <2>1 DEF Busy
<1>4. OneCall'
  BY <1>3 DEF OneCall
<1>5. CallsChecked'
  <2> SUFFICES ASSUME ~mixed, NEW d \in Busy'
               PROVE  /\ at'[d] \in {"save", "saving", "call"} => Checked(d)'
                      /\ at'[d] = "saving" => arg'[d].conf # "drop"
                      /\ at'[d] = "call" => /\ arg'[d].conf = "drop" => tar' = None
                                            /\ arg'[d].conf = "given" /\ ~lost' => tar' = Given
    BY DEF CallsChecked
  <2>1. d = c
    BY <1>3
  <2> QED
    BY <1>2, <2>1
<1>6. Served'
  BY <1>3 DEF Served
<1> QED
  BY <1>4, <1>5, <1>6, EarlyKeeps DEF Early

LEMMA FetchKeeps ==
    ASSUME UpgradeInv, NEW c \in Caller, FetchBegin(c) \/ FetchEnd(c)
    PROVE  UpgradeInv'
<1>1. /\ phase \in {"shell", "kill"} /\ phase' = phase /\ UNCHANGED vars /\ mixed' = mixed
      /\ at[c] \in {"fetch", "fetching"} /\ cfg' = cfg /\ keep' = keep /\ tar' = tar
      /\ arg' = arg /\ want' = want /\ runs' = runs /\ lost' = lost
      /\ img' \in {"cut", "good", "bad"}
  BY DEF FetchBegin, FetchEnd, Alive, histVars
<1>2. PICK l \in {"fetching", "check"} : at' = [at EXCEPT ![c] = l]
  BY DEF FetchBegin, FetchEnd
<1>3. ScriptTypes'
  BY <1>1, <1>2 DEF UpgradeInv, UpgradeTypeOK, ScriptTypes, Images
<1> QED
  BY <1>1, <1>2, <1>3, GoesOn

LEMMA CheckKeeps ==
    ASSUME UpgradeInv, NEW c \in Caller, Check(c)
    PROVE  UpgradeInv'
<1>1. /\ phase \in {"shell", "kill"} /\ phase' = phase /\ UNCHANGED vars /\ mixed' = mixed
      /\ at[c] = "check" /\ cfg' = cfg /\ keep' = keep /\ img' = img /\ tar' = tar
      /\ want' = want /\ runs' = runs /\ lost' = lost
  BY DEF Check, Alive, histVars
<1> DEFINE l == IF Checked(c) THEN "save" ELSE "idle"
<1>2. /\ at' = [at EXCEPT ![c] = l]
      /\ arg' = IF l = "idle" THEN [arg EXCEPT ![c] = NoOptions] ELSE arg
  BY DEF Check, GoesTo
<1>3. ScriptTypes'
  BY <1>1, <1>2, OptionsHold DEF UpgradeInv, UpgradeTypeOK, ScriptTypes
<1>4. l \in {"save", "idle"} /\ (l = "save" => Checked(c)')
  BY <1>1, <1>2 DEF Checked
<1> HIDE DEF l
<1> QED
  BY <1>1, <1>2, <1>3, <1>4, GoesOn

LEMMA SaveBeginKeeps ==
    ASSUME UpgradeInv, NEW c \in Caller, SaveBegin(c)
    PROVE  UpgradeInv'
<1>1. /\ phase \in {"shell", "kill"} /\ phase' = phase /\ UNCHANGED vars /\ mixed' = mixed
      /\ at[c] = "save" /\ cfg' = cfg /\ keep' = keep /\ img' = img
      /\ want' = want /\ runs' = runs /\ lost' = lost
  BY DEF SaveBegin, Alive, histVars
<1>2. ~mixed => Checked(c)
  BY <1>1 DEF UpgradeInv, CallsChecked, Busy
<1>3. arg \in [Caller -> Options] /\ tar \in Archives
  BY DEF UpgradeInv, UpgradeTypeOK
<1>4. \/ at' = [at EXCEPT ![c] = "idle"] /\ tar' = tar /\ arg' = [arg EXCEPT ![c] = NoOptions]
      \/ /\ at' = [at EXCEPT ![c] = "call"] /\ tar' = None /\ arg' = arg
         /\ arg[c].conf = "drop"
      \/ /\ at' = [at EXCEPT ![c] = "saving"] /\ tar' = Cut /\ arg' = arg
         /\ arg[c].conf # "drop"
  BY DEF SaveBegin, SaveChoice, GoesTo
<1>5. ScriptTypes'
  <2>1. arg' \in [Caller -> Options] /\ tar' \in Archives
    BY <1>3, <1>4, OptionsHold, ArchivesHold
  <2>2. at' \in [Caller -> {"idle", "fetch", "fetching", "check", "save", "saving",
                            "call", "killed"}]
    BY <1>4 DEF UpgradeInv, UpgradeTypeOK
  <2> QED
    BY <1>1, <2>1, <2>2 DEF UpgradeInv, UpgradeTypeOK, ScriptTypes
<1>6. CASE at' = [at EXCEPT ![c] = "idle"]
  <2>1. "idle" \notin {"save", "saving", "call"}
    OBVIOUS
  <2> QED
    BY <1>1, <1>5, <1>6, <2>1, GoesOn
<1>7. CASE at' = [at EXCEPT ![c] = "call"] /\ tar' = None /\ arg' = arg /\ arg[c].conf = "drop"
  <2>1. ~mixed => Checked(c)'
    BY <1>1, <1>2, <1>7 DEF Checked
  <2> QED
    BY <1>1, <1>5, <1>7, <2>1, GoesOn
<1>8. CASE at' = [at EXCEPT ![c] = "saving"] /\ arg' = arg /\ arg[c].conf # "drop"
  <2>1. ~mixed => Checked(c)'
    BY <1>1, <1>2, <1>8 DEF Checked
  <2> QED
    BY <1>1, <1>5, <1>8, <2>1, GoesOn
<1> QED
  BY <1>4, <1>6, <1>7, <1>8

LEMMA SaveEndKeeps ==
    ASSUME UpgradeInv, NEW c \in Caller, SaveEnd(c)
    PROVE  UpgradeInv'
<1>1. /\ phase \in {"shell", "kill"} /\ phase' = phase /\ UNCHANGED vars /\ mixed' = mixed
      /\ at[c] = "saving" /\ cfg' = cfg /\ keep' = keep /\ img' = img
      /\ want' = want /\ runs' = runs
  BY DEF SaveEnd, Alive
<1>2. ~mixed => Checked(c) /\ arg[c].conf # "drop"
  BY <1>1 DEF UpgradeInv, CallsChecked, Busy
<1>3. \/ /\ tar' = IF arg[c].conf = "given" THEN Given ELSE Running(cfg)
         /\ lost' = lost
      \/ tar' = Cut /\ lost' = TRUE
  BY DEF SaveEnd
<1>4. \/ at' = [at EXCEPT ![c] = "idle"] /\ arg' = [arg EXCEPT ![c] = NoOptions]
      \/ at' = [at EXCEPT ![c] = "call"] /\ arg' = arg
  BY DEF SaveEnd, GoesTo
<1>5. ScriptTypes'
  <2>1. arg' \in [Caller -> Options]
    BY <1>4, OptionsHold DEF UpgradeInv, UpgradeTypeOK
  <2>2. tar' \in Archives /\ lost' \in BOOLEAN
    BY <1>3, ArchivesHold DEF UpgradeInv, UpgradeTypeOK
  <2>3. at' \in [Caller -> {"idle", "fetch", "fetching", "check", "save", "saving",
                            "call", "killed"}]
    BY <1>4 DEF UpgradeInv, UpgradeTypeOK
  <2> QED
    BY <1>1, <2>1, <2>2, <2>3 DEF UpgradeInv, UpgradeTypeOK, ScriptTypes
<1>6. CASE at' = [at EXCEPT ![c] = "idle"]
  <2>1. "idle" \notin {"save", "saving", "call"}
    OBVIOUS
  <2> QED
    BY <1>1, <1>5, <1>6, <2>1, GoesOn
<1>7. CASE at' = [at EXCEPT ![c] = "call"] /\ arg' = arg
  <2>1. ~mixed => Checked(c)' /\ arg'[c].conf # "drop"
    BY <1>1, <1>2, <1>7 DEF Checked
  <2>2. arg'[c].conf = "given" /\ ~lost' => tar' = Given
    BY <1>3, <1>7
  <2> QED
    BY <1>1, <1>5, <1>7, <2>1, <2>2, GoesOn
<1> QED
  BY <1>4, <1>6, <1>7

\* Stage 2 is given what the only call has saved and checked.
LEMMA UbusCallKeeps ==
    ASSUME UpgradeInv, NEW c \in Caller, UbusCall(c)
    PROVE  UpgradeInv'
<1>1. /\ phase \in {"shell", "kill"} /\ UNCHANGED vars /\ mixed' = mixed
      /\ at[c] = "call" /\ at' = [at EXCEPT ![c] = "idle"]
      /\ arg' = [arg EXCEPT ![c] = NoOptions]
      /\ cfg' = cfg /\ img' = img /\ tar' = tar /\ runs' = runs /\ lost' = lost
  BY DEF UbusCall, Alive, GoesTo
<1>2. /\ phase = "shell" =>
           /\ phase' = "kill" /\ keep' = (tar # None)
           /\ want' = [force |-> arg[c].force,
                       conf |-> CASE arg[c].conf = "given" -> Given
                                  [] arg[c].conf = "keep" -> tar
                                  [] arg[c].conf = "drop" -> None]
      /\ phase # "shell" => phase' = phase /\ want' = want /\ keep' = keep
  BY DEF UbusCall
<1>3. /\ arg[c] \in Options /\ tar \in Archives
      /\ at \in [Caller -> {"idle", "fetch", "fetching", "check", "save", "saving",
                            "call", "killed"}]
  BY DEF UpgradeInv, UpgradeTypeOK
<1>4. phase = "shell" =>
        /\ want'.force = arg[c].force
        /\ arg[c].conf = "given" => want'.conf = Given
        /\ arg[c].conf = "keep" => want'.conf = tar
        /\ arg[c].conf = "drop" => want'.conf = None
        /\ want' \in [force : BOOLEAN, conf : Archives]
  BY <1>2, <1>3, OptionsHold, ArchivesHold
<1>5. ScriptTypes'
  <2>1. keep' \in BOOLEAN /\ want' \in [force : BOOLEAN, conf : Archives]
    BY <1>1, <1>2, <1>4 DEF UpgradeInv, UpgradeTypeOK
  <2>2. phase' \in {"shell", "kill"}
    BY <1>1, <1>2
  <2>3. arg' \in [Caller -> Options]
    BY <1>1, OptionsHold DEF UpgradeInv, UpgradeTypeOK
  <2> QED
    BY <1>1, <1>3, <2>1, <2>2, <2>3 DEF UpgradeInv, UpgradeTypeOK, ScriptTypes
<1>6. ASSUME ~mixed
      PROVE  /\ phase = "shell" /\ Busy' = {} /\ Checked(c)
             /\ arg[c].conf = "drop" => tar = None
             /\ arg[c].conf = "given" /\ ~lost => tar = Given
  <2>1. c \in Busy
    BY <1>1 DEF Busy
  <2>2. phase = "shell" /\ Busy = {c}
    BY <1>6, <2>1 DEF UpgradeInv, OneCall
  <2>3. Busy' = {}
    BY <1>1, <1>3, <2>2 DEF Busy
  <2> QED
    BY <1>1, <1>6, <2>1, <2>2, <2>3 DEF UpgradeInv, CallsChecked
<1>7. OneCall' /\ CallsChecked'
  BY <1>1, <1>6 DEF OneCall, CallsChecked
<1>8. Served'
  <2> SUFFICES ASSUME ~mixed
               PROVE  /\ ~want'.force => img = "good"
                      /\ ~lost => tar = want'.conf
                      /\ keep' = (tar # None)
    BY <1>1 DEF Served
  <2>1. arg[c].conf \in {"keep", "drop", "given"}
    BY <1>3, OptionsHold
  <2> QED
    BY <1>2, <1>4, <1>6, <2>1 DEF Checked
<1>9. phase \in Early /\ phase' \in Early
  BY <1>1, <1>2 DEF Early
<1> QED
  BY <1>1, <1>5, <1>7, <1>8, <1>9, EarlyKeeps

LEMMA KillKeeps == UpgradeInv /\ (KillAll \/ SwitchToRamfs) => UpgradeInv'
<1> SUFFICES ASSUME UpgradeInv, KillAll \/ SwitchToRamfs
             PROVE  UpgradeInv'
    OBVIOUS
<1>1. /\ phase \in {"kill", "ramfs"} /\ phase' \in {"ramfs", "ready"} /\ UNCHANGED vars
      /\ mixed' = mixed /\ cfg' = cfg /\ keep' = keep /\ img' = img /\ tar' = tar
      /\ want' = want /\ runs' = runs /\ lost' = lost
      /\ \/ at' = at /\ arg' = arg
         \/ at' = [c \in Caller |-> "killed"] /\ arg' = [c \in Caller |-> NoOptions]
  BY DEF KillAll, SwitchToRamfs, callVars, histVars
<1>2. ScriptTypes'
  <2>1. arg' \in [Caller -> Options]
    BY <1>1, OptionsHold DEF UpgradeInv, UpgradeTypeOK
  <2> QED
    BY <1>1, <2>1 DEF UpgradeInv, UpgradeTypeOK, ScriptTypes
<1>3. ~mixed => Busy' = {}
  BY <1>1 DEF UpgradeInv, OneCall, Busy
<1>4. OneCall' /\ CallsChecked'
  BY <1>1, <1>3 DEF OneCall, CallsChecked
<1>5. Served'
  BY <1>1 DEF UpgradeInv, Served
<1> QED
  BY <1>1, <1>2, <1>4, <1>5, EarlyKeeps DEF Early

LEMMA RestartKeeps == UpgradeInv /\ (Stage2Fails \/ PowerLossEarly) => UpgradeInv'
<1> SUFFICES ASSUME UpgradeInv, Stage2Fails \/ PowerLossEarly
             PROVE  UpgradeInv'
    OBVIOUS
<1>1. /\ phase \in Early /\ phase' = "shell" /\ UNCHANGED vars /\ Restarted
      /\ want' = Nothing /\ lost' = FALSE /\ cfg' = cfg /\ runs' = runs
  BY DEF Stage2Fails, PowerLossEarly, Early
<1>2. ScriptTypes'
  <2>1. arg' \in [Caller -> Options] /\ tar' \in Archives
        /\ want' \in [force : BOOLEAN, conf : Archives]
    BY <1>1, OptionsHold, ArchivesHold DEF Restarted, Nothing
  <2> QED
    BY <1>1, <2>1 DEF UpgradeInv, UpgradeTypeOK, ScriptTypes, Restarted, Images
<1>3. Busy' = {}
  BY <1>1 DEF Restarted, Busy
<1> QED
  BY <1>1, <1>2, <1>3, EarlyKeeps DEF OneCall, CallsChecked, Served, Early

LEMMA MtdBeginKeeps == UpgradeInv /\ MtdBegin => UpgradeInv'
<1> SUFFICES ASSUME UpgradeInv, MtdBegin
             PROVE  UpgradeInv'
    OBVIOUS
<1>1. /\ phase = "ready" /\ phase' = "write" /\ cfg' = cfg /\ keep' = keep /\ img' = img
      /\ tar' = tar /\ at' = at /\ arg' = arg /\ mixed' = mixed /\ want' = want
      /\ runs' = runs /\ lost' = lost /\ pc' = pc
  BY DEF MtdBegin, callVars
<1>2. (TypeInv /\ MtdInv)'
  BY MtdBeginStarts
<1>3. UpgradeTypeOK'
  BY <1>1, <1>2 DEF UpgradeInv, UpgradeTypeOK, TypeInv
<1>4. OneCall' /\ CallsChecked' /\ Served'
  BY <1>1 DEF UpgradeInv, OneCall, CallsChecked, Served, Busy, Checked
<1>5. NotGiven' /\ Arrived'
  BY <1>1 DEF NotGiven, Arrived
<1>6. Commanded'
  <2>1. PICK n \in 0 .. MaxData, m \in 0 .. MaxMark, k \in 0 .. MaxConf, f \in Few(1, MaxWorn) :
          /\ Layout(img, n, m)
          /\ (k > 0) <=> keep /\ tar # None
          /\ cmd' = [NoCommand EXCEPT !.data = n, !.marks = m, !.join = keep,
                                      !.conf = k, !.worn = f]
    BY Zenon DEF MtdBegin
  <2>2. cmd' = Asked(n, m, k, keep, f)
    BY <2>1 DEF NoCommand, Asked
  <2>3. img = "good" => n = MaxData
    BY <2>1 DEF Layout
  <2>4. pc' # "failed"
    BY <1>1 DEF UpgradeInv, NotGiven
  <2>5. /\ cmd'.start = 0 /\ cmd'.devs = 1 /\ cmd'.noErase = FALSE /\ cmd'.nand = FALSE
        /\ cmd'.bad = {} /\ cmd'.join = keep /\ cmd'.conf = k /\ cmd'.data = n
    BY <2>2 DEF Asked
  <2> QED
    BY <1>1, <2>1, <2>3, <2>4, <2>5 DEF Commanded
<1> QED
  BY <1>1, <1>2, <1>3, <1>4, <1>5, <1>6 DEF UpgradeInv

\* What the device comes up with is one of the things it may.
LEMMA BootedTyped ==
    ASSUME UpgradeInv, NEW f
    PROVE  Booted(f) \in {"old", "new", "dead"} \X Archives
<1>1. tar \in Archives /\ cfg \in 0 .. MaxEdit
  BY DEF UpgradeInv, UpgradeTypeOK
<1>2. Restored(f) \in Archives
  BY <1>1, ArchivesHold DEF Restored
<1> QED
  BY <1>1, <1>2, ArchivesHold DEF Booted

LEMMA MtdFollows == TypeInv /\ MtdInv => MtdTells
BY OrderFollows, ResultFollows, RestFollows DEF MtdTells

LEMMA RebootKeeps == UpgradeInv /\ Reboot => UpgradeInv'
<1> SUFFICES ASSUME UpgradeInv, Reboot
             PROVE  UpgradeInv'
    OBVIOUS
<1>1. /\ phase = "write" /\ phase' = "up" /\ runs' = Booted(flash) /\ UNCHANGED vars
      /\ cfg' = cfg /\ keep' = keep /\ img' = img /\ tar' = tar /\ at' = at /\ arg' = arg
      /\ mixed' = mixed /\ want' = want /\ lost' = lost
  BY DEF Reboot, callVars
<1>2. (TypeInv /\ MtdInv)'
  BY <1>1, StepMtd DEF UpgradeInv
<1>3. UpgradeTypeOK'
  <2>1. runs' \in {"old", "new", "dead"} \X Archives
    BY <1>1, BootedTyped
  <2> QED
    BY <1>1, <1>2, <2>1 DEF UpgradeInv, UpgradeTypeOK, TypeInv
<1>4. MtdTells'
  BY <1>2, MtdFollows, PTL
<1>5. UpgradeArrives'
  BY RebootArrives
<1>6. OneCall' /\ CallsChecked'
  BY <1>1 DEF UpgradeInv, OneCall, CallsChecked, Busy, Checked
<1> QED
  BY <1>1, <1>2, <1>3, <1>4, <1>5, <1>6
     DEF UpgradeInv, NotGiven, Served, Commanded, Arrived

LEMMA PowerLossKeeps == UpgradeInv /\ PowerLoss => UpgradeInv'
<1> SUFFICES ASSUME UpgradeInv, PowerLoss
             PROVE  UpgradeInv'
    OBVIOUS
<1>1. /\ phase = "write" /\ phase' = "up" /\ runs' = Booted(flash')
      /\ cfg' = cfg /\ keep' = keep /\ img' = img /\ tar' = tar /\ at' = at /\ arg' = arg
      /\ mixed' = mixed /\ want' = want /\ lost' = TRUE
  BY DEF PowerLoss, callVars
<1>2. TypeInv' /\ MtdTells'
  BY PowerLossTells
<1>3. UpgradeTypeOK'
  <2>1. runs' \in {"old", "new", "dead"} \X Archives
    BY <1>1, BootedTyped
  <2> QED
    BY <1>1, <1>2, <2>1 DEF UpgradeInv, UpgradeTypeOK, TypeInv
<1>4. UpgradeArrives'
  BY <1>1 DEF UpgradeArrives, Faultless
<1>5. OneCall'
  BY <1>1 DEF UpgradeInv, OneCall, Busy
<1>6. CallsChecked'
  <2>1. ~mixed => Busy = {}
    BY <1>1 DEF UpgradeInv, OneCall
  <2> QED
    BY <1>1, <2>1 DEF CallsChecked, Busy
<1> QED
  BY <1>1, <1>2, <1>3, <1>4, <1>5, <1>6
     DEF UpgradeInv, NotGiven, Served, Commanded, Arrived

LEMMA StutterKeeps == UpgradeInv /\ UNCHANGED upgradeVars => UpgradeInv'
<1> SUFFICES ASSUME UpgradeInv, UNCHANGED upgradeVars
             PROVE  UpgradeInv'
    OBVIOUS
<1>1. /\ UNCHANGED vars /\ phase' = phase /\ cfg' = cfg /\ keep' = keep /\ img' = img
      /\ tar' = tar /\ at' = at /\ arg' = arg /\ mixed' = mixed /\ want' = want
      /\ runs' = runs /\ lost' = lost
  BY DEF upgradeVars, sysVars, callVars, histVars
<1>2. phase # "up" => (TypeInv /\ MtdInv)'
  BY <1>1, StepMtd DEF UpgradeInv
<1>3. TypeInv'
  BY <1>1, StepTyped DEF UpgradeInv
<1>4. UpgradeTypeOK'
  BY <1>1, <1>3 DEF UpgradeInv, UpgradeTypeOK, TypeInv
<1>5. OneCall' /\ CallsChecked' /\ Served'
  BY <1>1 DEF UpgradeInv, OneCall, CallsChecked, Served, Busy, Checked
<1>6. NotGiven' /\ Commanded'
  BY <1>1 DEF UpgradeInv, NotGiven, Commanded, vars, Blank, Block
<1>7. Arrived'
  <2> SUFFICES ASSUME phase = "up"
               PROVE  MtdTells' /\ UpgradeArrives'
    BY <1>1 DEF Arrived
  <2>1. MtdTells /\ UpgradeArrives
    BY DEF UpgradeInv, Arrived
  <2>2. /\ cmd' = cmd /\ flash' = flash /\ dev' = dev /\ pos' = pos /\ pc' = pc
        /\ fault' = fault
    BY <1>1 DEF vars
  <2>3. /\ Supported' = Supported /\ Places' = Places /\ \A d, b : Before(d, b)' = Before(d, b)
        /\ \A i : Item(i)' = Item(i)
    BY <2>2, Steady
  <2>4. Result' = Result
    BY <2>2 DEF Result, Image
  <2>5. LaidInOrder'
    BY <2>1, <2>2, <2>3 DEF MtdTells, LaidInOrder
  <2>6. ExitTells'
    BY <2>1, <2>2, <2>3, <2>4 DEF MtdTells, ExitTells, Fits
  <2>7. RestUntouched'
    BY <2>1, <2>2, <2>3 DEF MtdTells, RestUntouched
  <2>8. UpgradeArrives'
    BY <1>1, <2>1, <2>2, <2>3, <2>4 DEF UpgradeArrives, Faultless, Fits
  <2> QED
    BY <2>5, <2>6, <2>7, <2>8 DEF MtdTells
<1> QED
  BY <1>1, <1>2, <1>3, <1>4, <1>5, <1>6, <1>7 DEF UpgradeInv

----------------------------------------------------------------------------
(* The theorems.                                                            *)

LEMMA InitUpgrade == UpgradeInit => UpgradeInv
<1> SUFFICES ASSUME UpgradeInit
             PROVE  UpgradeInv
    OBVIOUS
<1>1. /\ phase \in {"byhand", "shell"} /\ img = "none" /\ tar = None /\ cfg = 0
      /\ at = [c \in Caller |-> "idle"] /\ arg = [c \in Caller |-> NoOptions] /\ keep = TRUE
      /\ want = Nothing /\ runs = <<"old", Running(0)>> /\ mixed = FALSE /\ lost = FALSE
  BY DEF UpgradeInit
<1>2. phase = "byhand" => Init
  BY DEF UpgradeInit
<1>3. NotGiven
  BY <1>1 DEF UpgradeInit, NotGiven
<1>4. TypeInv /\ MtdInv
  BY <1>1, <1>2, <1>3, InitStarts, FreshInit
<1>5. UpgradeTypeOK
  <2>1. runs \in {"old", "new", "dead"} \X Archives /\ want \in [force : BOOLEAN, conf : Archives]
        /\ tar \in Archives /\ 0 \in 0 .. MaxEdit
    <3>1. 0 \in 0 .. MaxEdit
      BY EditAssumption
    <3> QED
      BY <1>1, <3>1, ArchivesHold DEF Nothing
  <2> QED
    BY <1>1, <1>4, <2>1, OptionsHold DEF UpgradeTypeOK, TypeInv, Images
<1>6. Busy = {}
  BY <1>1 DEF Busy
<1> QED
  BY <1>1, <1>3, <1>4, <1>5, <1>6
     DEF UpgradeInv, OneCall, CallsChecked, Served, Commanded, Arrived

\* The whole invariant: until stage 2 gives the mtd command nothing is written;
\* then image and archive are those that the call it serves has checked and
\* saved, unless calls overlapped, and the command keeps what WriteInvariant
\* shows of it.
THEOREM UpgradeInvariant == UpgradeSpec => []UpgradeInv
<1>1. UpgradeInit => UpgradeInv
  BY InitUpgrade
<1>2. UpgradeInv /\ [UpgradeNext]_upgradeVars => UpgradeInv'
  <2> SUFFICES ASSUME UpgradeInv, [UpgradeNext]_upgradeVars
               PROVE  UpgradeInv'
    OBVIOUS
  <2>1. CASE EditConfig
    BY <2>1, EditConfigKeeps
  <2>2. ASSUME NEW c \in Caller,
               Call(c) \/ FetchBegin(c) \/ FetchEnd(c) \/ Check(c) \/ SaveBegin(c) \/ SaveEnd(c)
                 \/ UbusCall(c)
        PROVE  UpgradeInv'
    BY <2>2, CallKeeps, FetchKeeps, CheckKeeps, SaveBeginKeeps, SaveEndKeeps, UbusCallKeeps
  <2>3. CASE Stage2
    BY <2>3, KillKeeps, RestartKeeps, MtdBeginKeeps, RebootKeeps DEF Stage2
  <2>4. CASE MtdStep
    BY <2>4, MtdStepKeeps
  <2>5. CASE PowerLossEarly \/ PowerLoss
    BY <2>5, RestartKeeps, PowerLossKeeps
  <2>6. CASE UNCHANGED upgradeVars
    BY <2>6, StutterKeeps
  <2> QED
    BY <2>1, <2>2, <2>3, <2>4, <2>5, <2>6 DEF UpgradeNext
<1> QED
  BY <1>1, <1>2, PTL DEF UpgradeSpec

\* Every variable of the scripts and of the mtd command keeps its type, with
\* any number of callers and power loss at any step.
THEOREM UpgradeTypeCorrect == UpgradeSpec => []UpgradeTypeOK
<1>1. UpgradeInv => UpgradeTypeOK
  BY DEF UpgradeInv
<1> QED
  BY <1>1, UpgradeInvariant, PTL

\* What mtd write promises holds of the command that stage 2 gives, too: after
\* power loss at any step, which may spoil the block that was being written,
\* everything before it lies in order and everything behind it is untouched.
THEOREM UpgradeKeepsOrder == UpgradeSpec => [](LaidInOrder /\ ExitTells /\ RestUntouched)
<1>1. UpgradeInv => LaidInOrder /\ ExitTells /\ RestUntouched
  BY MtdFollows DEF UpgradeInv, Arrived, MtdTells
<1> QED
  BY <1>1, UpgradeInvariant, PTL

\* sysupgrade does what it was called for: a call that no other one overlapped,
\* without -F, power loss and failures, brings up the new system if there is
\* room for it, and with the configuration that was asked for.
THEOREM UpgradeAlwaysArrives == UpgradeSpec => []UpgradeArrives
<1>1. UpgradeInv => UpgradeArrives
  BY DEF UpgradeInv, Arrived, UpgradeArrives
<1> QED
  BY <1>1, UpgradeInvariant, PTL
=============================================================================
