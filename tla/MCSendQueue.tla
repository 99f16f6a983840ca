----------------------------- MODULE MCSendQueue -----------------------------
(* SendQueue for TLC: two of the three retransmissions that distinguish    *)
(* first, middle and last interval.                                        *)
EXTENDS SendQueue

CONSTANTS p1, p2

Use(peers, callers, served) ==
  [peers : {peers}, callers : {callers}, served : served]

(* One peer, served in each way; two, one of them with a message queued    *)
(* without stopping the others.                                            *)
AllUses == Use({p1}, {}, {"late", "contiki"})
           \cup Use({p1, p2}, {p1}, {"punctual", "contiki"})
TwoPeers == Use({p1, p2}, {}, {"punctual"})
=============================================================================
