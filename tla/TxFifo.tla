------------------------------- MODULE TxFifo -------------------------------
(* What a transmit ring promises the network stack: packets leave in the    *)
(* order they were accepted, one is completed only after it was sent, and   *)
(* a reset may drop everything that is queued, never a part of it.          *)
EXTENDS Naturals, Sequences

CONSTANT Pkt

VARIABLES
    queue,  \* packets accepted and not completed, oldest first
    sent    \* how many of them, from the oldest on, are on the wire

vars == <<queue, sent>>

TypeOK == queue \in Seq(Pkt) /\ sent \in 0 .. Len(queue)

Init == queue = <<>> /\ sent = 0

Accept(p) ==
    /\ \A i \in 1 .. Len(queue) : queue[i] # p
    /\ queue' = Append(queue, p)
    /\ UNCHANGED sent

Transmit ==
    /\ sent < Len(queue)
    /\ sent' = sent + 1
    /\ UNCHANGED queue

Complete(k) ==
    /\ queue' = SubSeq(queue, k + 1, Len(queue))
    /\ sent' = sent - k

Drop == queue' = <<>> /\ sent' = 0

Next ==
    \/ \E p \in Pkt : Accept(p)
    \/ Transmit
    \/ \E k \in 1 .. sent : Complete(k)
    \/ Drop

Spec == Init /\ [][Next]_vars
=============================================================================
