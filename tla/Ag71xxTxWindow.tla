--------------------------- MODULE Ag71xxTxWindow ---------------------------
(* The window of the ag71xx transmit ring, from dirty to curr, on the       *)
(* ar724x: the invariant from which the properties of Ag71xxTx follow, and  *)
(* the mapping under which the ring implements TxFifo.                      *)
EXTENDS Ag71xxTx, Sequences

\* Steps of the restart work in which the ring is empty, ...
Emptied == work \in {"free", "init", "dma", "zero", "base"}

\* ... in which the engine is parked and its counter is 0, ...
Parked == work \in {"napiwait", "clean", "free", "init", "zero", "base"}

\* ... and in which the ring is taken apart.
Stopping == work \in {"napiwait", "clean", "free", "init"}

MaySend == xmit.pc = "filled" \/ (xmit.pc = "idle" /\ ~stopped)

\* Every descriptor between dirty and curr carries a packet, so does the one
\* that was just filled, and the byte queue limits count them.
Carried ==
    /\ Used <= Size
    /\ \A k \in 0 .. Used - 1 : buf[Off(k)] # NoSkb
    /\ xmit.pc = "filled" => xmit.n = 1 /\ buf[Off(Used)] # NoSkb
    /\ rings => bql = Used + (IF xmit.pc = "filled" THEN 1 ELSE 0)

\* A queue that is open has a free descriptor, and two where hw_start is about
\* to open it without looking at the ring.
Room ==
    /\ MaySend => Used < Size
    /\ work \in {"base", "start"} => Used < Size
    /\ work \in {"base", "start"} /\ MaySend => Used + 1 < Size

\* Packets are attached to the window and to the descriptor being filled, each
\* one once, and these are the packets the driver holds.
Last == IF xmit.pc = "filled" THEN Used ELSE Used - 1
Attached ==
    /\ \A s \in Slots : buf[s] # NoSkb => \E k \in 0 .. Last : s = Off(k)
    /\ \A j, k \in 0 .. Last : buf[Off(j)] = buf[Off(k)] => j = k
    /\ held = {buf[Off(k)] : k \in 0 .. Last}
    /\ Emptied \/ ~rings => Used = 0 /\ xmit.pc = "idle"

\* The engine owns the descriptors at the end of the window and no others.
DoneUpTo(m) == \A k \in 0 .. Used - 1 : own[Off(k)] <=> k >= m
Owned ==
    rings /\ work # "free" =>
        /\ \A s \in Slots : own[s] => \E k \in 0 .. Used - 1 : s = Off(k)
        /\ \E m \in 0 .. Used : DoneUpTo(m)

\* The engine is parked, or it is at the first descriptor it owns and its
\* counter tells how far from dirty that is; NAPI runs on rings that exist.
InStep ==
    /\ Parked => fetch = StopDesc /\ ps = 0
    /\ work \in {"clean", "free", "init"} => ~napi
    /\ work = "init" => ~rings
    /\ work = "base" => dirty = 0
    /\ napi => rings /\ (~Parked => fetch # StopDesc)
    /\ rings /\ fetch # StopDesc /\ work # "dma" =>
          ps \in 0 .. Used /\ fetch = Off(ps) /\ DoneUpTo(ps)

\* A stopped queue has a packet to wait for, an idle engine has none to send.
Woken ==
    /\ xmit.pc = "posted" => Used > 0
    /\ napi /\ ~Stopping /\ xmit.pc = "idle" =>
          /\ stopped => Used > 0
          /\ link /\ Used > 0 /\ (\E s \in Slots : own[s]) => txe

\* The first two hold also where a transmit or a link report cut into an
\* unlocked reset, the others elsewhere.
Undisturbed == Attached /\ Owned /\ InStep /\ Woken
WindowInv == Carried /\ Room /\ (~overlap => Undisturbed)

----------------------------------------------------------------------------
(* The ring as a queue of packets.                                          *)

\* After a transmit or a link report cut into an unlocked reset, and after an
\* oops, the ring promises nothing: that counts as a drop.
Broken == overlap \/ oops

\* The packets attached between dirty and curr, and how many of them are done.
Packets == [k \in 1 .. Used |-> buf[Off(k - 1)]]
DonePrefix == CHOOSE m \in 0 .. Used : Walked(m)

Queue == IF Broken THEN <<>> ELSE Packets
Sent == IF Broken THEN 0 ELSE DonePrefix

Fifo == INSTANCE TxFifo WITH Pkt <- Skb, queue <- Queue, sent <- Sent

\* Every step of the driver and of the engine is a step of the queue or none.
FifoSpec == Fifo!Spec
=============================================================================
