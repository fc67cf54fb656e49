----------------------------- MODULE MCAg71xxTx -----------------------------
(* Ag71xxTx for TLC.                                                        *)
EXTENDS Ag71xxTxWindow, TLC

\* Packets are interchangeable.
Symmetry == Permutations(Skb)
=============================================================================
