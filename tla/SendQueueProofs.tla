--------------------------- MODULE SendQueueProofs ---------------------------
(***************************************************************************)
(* Proofs about the send queue, for any number of peers, nodes, messages,  *)
(* flights and retransmissions: its types, the order of a flight, the      *)
(* bound on the time a node waits and the backoff.                         *)
(*                                                                         *)
(* The loops are recursive functions; that they are what their equations   *)
(* say, and what holds after each turn, is by the lemmas of Induction.     *)
(***************************************************************************)
EXTENDS SendQueue, Induction

(* A number is one node's, and none is above m.                            *)
Unique(q) == \A i, j \in DOMAIN q : q[i].num = q[j].num => i = j
Numbered(q, m) == \A i \in DOMAIN q : q[i].num <= m

(* A node that is due has waited the interval of its count.                *)
Waited(q) == \A i \in DOMAIN q : q[i].idle + q[i].rem >= Interval[q[i].cnt]

(* No node waits longer than limit, counting the time that each node       *)
(* before it has still to wait: netq_insert_node may have put it there.    *)
Bounded(q, limit) ==
  \A i \in DOMAIN q : \A j \in 1..i : q[j].rem + q[i].idle <= limit

(* No node has waited longer than x.                                       *)
IdleFor(q, x) == \A i \in DOMAIN q : q[i].idle <= x
Limit == Longest + (IF Contiki THEN Timeout * flights ELSE 0)

(* b may stand behind a: both of one round of the flight, or a still to be *)
(* sent in a round that b has been sent in just now.                       *)
Follows(a, b) ==
  \/ a.cnt = b.cnt /\ a.rem = b.rem /\ a.num < b.num
  \/ /\ b.cnt = a.cnt + 1
     /\ a.rem = 0 /\ b.rem = Interval[b.cnt]
     /\ b.num < a.num
Rounds(q) == \A i, j \in DOMAIN q : i < j => Follows(q[i], q[j])

(* All nodes have been sent equally often. *)
Uniform(q) == \A i, j \in DOMAIN q : q[i].cnt = q[j].cnt

(* Nodes of p that have not been sent again, in the order of the flight.   *)
Unsent(q, p) ==
  /\ \A i \in DOMAIN q : q[i].peer = p /\ q[i].cnt = 0 /\ q[i].rem = Timeout
  /\ \A i, j \in DOMAIN q : i < j => q[i].num < q[j].num

(* Latency, made inductive: on Contiki the timer expires before any node   *)
(* has waited too long.                                                    *)
LatencyInv ==
  use.served # "late" =>
    /\ Bounded(queue, Limit)
    /\ Contiki => IdleFor(queue, Limit - etimer)

(* FlightOrder, made inductive: on Contiki the timer is that of the head,  *)
(* and a loop that sends all due nodes leaves them in one round.           *)
OrderInv ==
  Alone => /\ \A i \in DOMAIN queue : queue[i].peer \in use.peers
           /\ Rounds(queue)
           /\ Contiki /\ queue # <<>> => etimer = Head(queue).rem
           /\ ~Contiki => Uniform(queue)

(* The inductive invariant.                                                *)
IInv ==
  /\ TypeOK
  /\ Numbered(queue, flights * MaxFlight)
  /\ Unique(queue)
  /\ Waited(queue)
  /\ LatencyInv
  /\ OrderInv
-----------------------------------------------------------------------------
(* Lemmas about the operators *)

(* The intervals are naturals and double with each retransmission.         *)
LEMMA IntervalType ==
  /\ Interval \in [Nat -> Nat]
  /\ Interval[0] = Timeout
  /\ \A k \in Nat : Interval[k + 1] = 2 * Interval[k]
<1> DEFINE step == [x \in Nat \X Nat |-> 2 * x[1]]
<1>1. step \in [Nat \X Nat -> Nat] /\ Timeout \in Nat
  BY DEF Timeout
<1>2. PICK f \in [Nat -> Nat] : \A n \in Nat : Unfolds(f, Timeout, step, n)
  <2> HIDE DEF step
  <2> QED BY <1>1, Recursion
<1>3. f[0] = Timeout
  BY <1>2 DEF Unfolds
<1>4. ASSUME NEW k \in Nat \ {0} PROVE f[k] = 2 * f[k - 1]
  <2>1. k \in 1..k /\ Unfolds(f, Timeout, step, k) /\ k - 1 \in Nat
    BY <1>2
  <2>2. f[k] = step[<<f[k - 1], k>>] /\ <<f[k - 1], k>> \in Nat \X Nat
    BY <2>1 DEF Unfolds
  <2> QED BY <2>2
<1>5. f = [k \in Nat |-> IF k = 0 THEN Timeout ELSE 2 * f[k - 1]]
  BY <1>3, <1>4
<1>6. Interval = [k \in Nat |-> IF k = 0 THEN Timeout ELSE 2 * Interval[k - 1]]
  BY <1>5, Zenon DEF Interval
<1>7. Interval[0] = Timeout /\ \A k \in Nat : Interval[k + 1] = 2 * Interval[k]
  BY <1>6
<1> DEFINE S == {k \in Nat : Interval[k] \in Nat}
<1>8. Nat \subseteq S
  <2>1. 0 \in S /\ \A k \in Nat : k \in S => k + 1 \in S
    BY <1>1, <1>7
  <2> HIDE DEF S
  <2> QED BY <2>1, SetInduction
<1>9. Interval \in [Nat -> Nat]
  <2>1. \A k \in Nat : Interval[k] \in Nat
    BY <1>8
  <2>2. DOMAIN Interval = Nat /\ Interval = [k \in DOMAIN Interval |-> Interval[k]]
    BY <1>6
  <2> QED BY <2>1, <2>2
<1> QED BY <1>7, <1>9

(* The intervals grow.                                                     *)
LEMMA IntervalGrows ==
  ASSUME NEW k \in Nat, NEW m \in Nat, k <= m
  PROVE  Interval[k] \in Nat /\ Interval[k] > 0 /\ Interval[k] <= Interval[m]
<1> DEFINE S == {d \in Nat : /\ Interval[d] > 0
                             /\ \A c \in 0..d : Interval[c] <= Interval[d]}
<1>1. 0 \in S
  BY IntervalType DEF Timeout
<1>2. ASSUME NEW d \in Nat, d \in S PROVE d + 1 \in S
  <2>1. Interval[d] \in Nat /\ Interval[d + 1] \in Nat
    BY IntervalType
  <2>2. Interval[d + 1] = 2 * Interval[d] /\ Interval[d] > 0
    BY <1>2, IntervalType
  <2>3. ASSUME NEW c \in 0..(d + 1) PROVE Interval[c] <= Interval[d + 1]
    <3>1. CASE c = d + 1
      BY <3>1, <2>1
    <3>2. CASE c # d + 1
      <4>1. c \in 0..d /\ Interval[c] \in Nat
        BY <3>2, IntervalType
      <4>2. Interval[c] <= Interval[d]
        BY <4>1, <1>2
      <4> QED BY <4>1, <4>2, <2>1, <2>2
    <3> QED BY <3>1, <3>2
  <2> QED BY <2>1, <2>2, <2>3
<1>3. Nat \subseteq S
  <2> HIDE DEF S
  <2> QED BY <1>1, <1>2, SetInduction
<1>4. k \in S /\ m \in S /\ k \in 0..m
  BY <1>3
<1> QED BY <1>4, IntervalType

(* The fields of a node.                                                   *)
LEMMA NodeType ==
  ASSUME NEW x \in Node
  PROVE  /\ x.peer \in Peers
         /\ x.num \in Nat /\ x.num \in 1..(MaxFlights * MaxFlight)
         /\ x.rem \in Nat /\ x.rem <= Longest
         /\ x.cnt \in Nat /\ x.cnt <= MaxRetransmit
         /\ x.idle \in Nat
<1>1. MaxRetransmit \in Nat /\ MaxFlights \in Nat /\ MaxFlight \in Nat
  BY QueueAssumption
<1>2. Longest \in Nat
  BY <1>1, IntervalType DEF Longest
<1>3. /\ x.peer \in Peers /\ x.num \in 1..(MaxFlights * MaxFlight)
      /\ x.rem \in 0..Longest /\ x.cnt \in 0..MaxRetransmit /\ x.idle \in Nat
  BY DEF Node
<1> QED BY <1>1, <1>2, <1>3

(* r is q with node behind its first k nodes.                              *)
Placed(q, node, k, r) ==
  /\ r \in Seq(Node) /\ Len(r) = Len(q) + 1
  /\ k \in 0..Len(q)
  /\ \A i \in 1..k : r[i] = q[i]
  /\ r[k + 1] = node
  /\ \A i \in (k + 2)..(Len(q) + 1) : r[i] = q[i - 1]

(* Where netq_insert_node puts it: at the end, or behind a node that is    *)
(* due later.                                                              *)
Inserted(q, node, k, r) ==
  /\ Placed(q, node, k, r)
  /\ k # Len(q) => k \in DOMAIN q /\ q[k].rem > node.rem

(* InsertAt of the community modules, position by position.                *)
LEMMA InsertAtIs ==
  ASSUME NEW q \in Seq(Node), NEW e \in Node, NEW k \in 0..Len(q)
  PROVE  Placed(q, e, k, InsertAt(q, k + 1, e))
<1> DEFINE a == SubSeq(q, 1, k)
           c == SubSeq(q, k + 1, Len(q))
           b == a \o <<e>>
<1>1. a \in Seq(Node) /\ Len(a) = k /\ \A i \in 1..k : a[i] = q[i]
  OBVIOUS
<1>2. /\ c \in Seq(Node) /\ Len(c) = Len(q) - k
      /\ \A i \in 1..(Len(q) - k) : c[i] = q[k + i]
  OBVIOUS
<1>3. InsertAt(q, k + 1, e) = b \o c
  <2>1. (k + 1) - 1 = k
    OBVIOUS
  <2>2. InsertAt(q, k + 1, e)
          = SubSeq(q, 1, (k + 1) - 1) \o <<e>> \o SubSeq(q, k + 1, Len(q))
    BY DEF InsertAt
  <2> QED BY <2>1, <2>2, Zenon
<1> HIDE DEF a, c
<1>4. /\ b \in Seq(Node) /\ Len(b) = k + 1
      /\ b[k + 1] = e /\ \A i \in 1..k : b[i] = q[i]
  BY <1>1
<1> HIDE DEF b
<1>5. b \o c \in Seq(Node) /\ Len(b \o c) = Len(q) + 1
  BY <1>2, <1>4
<1>6. (b \o c)[k + 1] = e /\ \A i \in 1..k : (b \o c)[i] = q[i]
  BY <1>2, <1>4
<1>7. ASSUME NEW i \in (k + 2)..(Len(q) + 1) PROVE (b \o c)[i] = q[i - 1]
  <2>1. (b \o c)[i] = c[i - (k + 1)]
    BY <1>2, <1>4
  <2>2. i - (k + 1) \in 1..(Len(q) - k) /\ k + (i - (k + 1)) = i - 1
    OBVIOUS
  <2> QED BY <2>1, <2>2, <1>2
<1>8. Placed(q, e, k, b \o c)
  BY <1>5, <1>6, <1>7 DEF Placed
<1> QED BY <1>3, <1>8

(* netq_insert_node puts the node somewhere behind a node that is due      *)
(* later, or at the end.                                                   *)
LEMMA InsertIs ==
  ASSUME NEW q \in Seq(Node), NEW node \in Node
  PROVE  \E k \in 0..Len(q) : Inserted(q, node, k, Insert(q, node))
<1> DEFINE stop == {i \in DOMAIN q : q[i].rem > node.rem} \cup {Len(q)}
           k == Min(stop)
<1>1. stop \in SUBSET (0..Len(q)) /\ stop \in SUBSET Nat /\ stop # {}
  OBVIOUS
<1>2. k \in stop
  <2> HIDE DEF stop
  <2> QED BY <1>1, MinNat
<1>3. k \in 0..Len(q)
  BY <1>1, <1>2
<1>4. k # Len(q) => k \in DOMAIN q /\ q[k].rem > node.rem
  <2> HIDE DEF k
  <2> QED BY <1>2
<1>5. Insert(q, node) = InsertAt(q, k + 1, node)
  BY DEF Insert
<1> HIDE DEF k, stop
<1>6. Placed(q, node, k, InsertAt(q, k + 1, node))
  BY <1>3, InsertAtIs
<1>7. Inserted(q, node, k, InsertAt(q, k + 1, node))
  BY <1>4, <1>6 DEF Inserted
<1> QED BY <1>3, <1>5, <1>7

(* r is what remains of q when some nodes are taken out: pos tells where   *)
(* each of its nodes was.                                                  *)
Remains(q, r, pos) ==
  /\ r \in Seq(Node)
  /\ pos \in [DOMAIN r -> DOMAIN q]
  /\ \A i \in DOMAIN r : r[i] = q[pos[i]]
  /\ \A i, j \in DOMAIN r : i < j => pos[i] < pos[j]

(* What is said of each node or of two nodes in order stays true of the    *)
(* nodes that remain.                                                      *)
LEMMA RemainsKeeps ==
  ASSUME NEW q \in Seq(Node), NEW r, NEW pos, Remains(q, r, pos),
         NEW m \in Nat, NEW limit \in Nat
  PROVE  /\ Unique(q) => Unique(r)
         /\ Numbered(q, m) => Numbered(r, m)
         /\ Waited(q) => Waited(r)
         /\ Bounded(q, limit) => Bounded(r, limit)
         /\ \A x \in Nat : IdleFor(q, x) => IdleFor(r, x)
         /\ Rounds(q) => Rounds(r)
         /\ Uniform(q) => Uniform(r)
<1> USE DEF Remains
<1>1. DOMAIN r = 1..Len(r) /\ DOMAIN q = 1..Len(q)
  OBVIOUS
<1>2. ASSUME Unique(q), NEW i \in DOMAIN r, NEW j \in DOMAIN r, r[i].num = r[j].num
      PROVE  i = j
  <2>1. pos[i] = pos[j]
    BY <1>2 DEF Unique
  <2>2. i \in Nat /\ j \in Nat /\ pos[i] \in Nat /\ pos[j] \in Nat
    BY <1>1
  <2>3. ~(i < j) /\ ~(j < i)
    BY <2>1, <2>2
  <2> QED BY <2>2, <2>3
<1>3. Numbered(q, m) => Numbered(r, m)
  BY DEF Numbered
<1>4. Waited(q) => Waited(r)
  BY DEF Waited
<1>5. ASSUME Bounded(q, limit), NEW i \in DOMAIN r, NEW j \in 1..i
      PROVE  r[j].rem + r[i].idle <= limit
  <2>1. j \in DOMAIN r /\ (j = i \/ j < i)
    BY <1>1
  <2>2. pos[j] \in 1..pos[i] /\ pos[i] \in DOMAIN q
    <3>1. pos[i] \in 1..Len(q) /\ pos[j] \in 1..Len(q) /\ Len(q) \in Nat
      BY <1>1, <2>1
    <3>2. pos[j] = pos[i] \/ pos[j] < pos[i]
      BY <2>1
    <3> QED BY <3>1, <3>2, <1>1
  <2>3. q[pos[j]].rem + q[pos[i]].idle <= limit
    BY <2>2, <1>5 DEF Bounded
  <2> QED BY <2>1, <2>3
<1>6. Rounds(q) => Rounds(r)
  <2> SUFFICES ASSUME Rounds(q), NEW i \in DOMAIN r, NEW j \in DOMAIN r, i < j
               PROVE  Follows(r[i], r[j])
    BY DEF Rounds
  <2>1. pos[i] \in DOMAIN q /\ pos[j] \in DOMAIN q /\ pos[i] < pos[j]
    OBVIOUS
  <2>2. r[i] = q[pos[i]] /\ r[j] = q[pos[j]]
    OBVIOUS
  <2> HIDE DEF Remains
  <2> QED BY <2>1, <2>2 DEF Rounds
<1>7. Uniform(q) => Uniform(r)
  BY DEF Uniform
<1>8. \A x \in Nat : IdleFor(q, x) => IdleFor(r, x)
  BY DEF IdleFor
<1> QED BY <1>2, <1>3, <1>4, <1>5, <1>6, <1>7, <1>8 DEF Unique, Bounded

(* Every node after an insertion is the new one or an old one, the old     *)
(* ones in the same order.                                                 *)
LEMMA InsertedNodes ==
  ASSUME NEW q \in Seq(Node), NEW node \in Node,
         NEW k \in Nat, NEW r \in Seq(Node),
         Inserted(q, node, k, r)
  PROVE  /\ k + 1 \in DOMAIN r
         /\ r[k + 1] = node
         /\ \A i \in DOMAIN r \ {k + 1} :
              LET old == IF i <= k THEN i ELSE i - 1
              IN old \in DOMAIN q /\ r[i] = q[old]
<1>1. /\ Len(r) = Len(q) + 1 /\ k \in 0..Len(q)
      /\ Len(q) \in Nat /\ Len(r) \in Nat
      /\ DOMAIN r = 1..Len(r) /\ DOMAIN q = 1..Len(q)
  BY DEF Inserted, Placed
<1>2. k + 1 \in DOMAIN r
  BY <1>1
<1>0. r[k + 1] = node
  BY DEF Inserted, Placed
<1>3. ASSUME NEW i \in DOMAIN r \ {k + 1}, i <= k
      PROVE  i \in DOMAIN q /\ r[i] = q[i]
  <2>1. i \in 1..k /\ i \in DOMAIN q
    BY <1>1, <1>3
  <2> QED BY <2>1 DEF Inserted, Placed
<1>4. ASSUME NEW i \in DOMAIN r \ {k + 1}, ~(i <= k)
      PROVE  i - 1 \in DOMAIN q /\ r[i] = q[i - 1]
  <2>1. i \in (k + 2)..(Len(q) + 1) /\ i - 1 \in DOMAIN q
    BY <1>1, <1>4
  <2> QED BY <2>1 DEF Inserted, Placed
<1> QED BY <1>0, <1>2, <1>3, <1>4

(* Where each node of the new queue was before.                            *)
LEMMA InsertedFrom ==
  ASSUME NEW q \in Seq(Node), NEW node \in Node,
         NEW k \in Nat, NEW r \in Seq(Node),
         Inserted(q, node, k, r)
  PROVE  \A j \in DOMAIN r : r[j] = node \/ \E i \in DOMAIN q : r[j] = q[i]
<1> SUFFICES ASSUME NEW j \in DOMAIN r, j # k + 1
             PROVE  \E i \in DOMAIN q : r[j] = q[i]
  BY InsertedNodes
<1> DEFINE old == IF j <= k THEN j ELSE j - 1
<1>1. old \in DOMAIN q /\ r[j] = q[old]
  BY InsertedNodes
<1> QED BY <1>1

(* Positions behind the one of the new node.                               *)
LEMMA Behind ==
  ASSUME NEW i \in Nat, NEW k \in Nat, NEW n \in Nat,
         i # k + 1, k + 1 <= i, i <= n + 1
  PROVE  k # n /\ ~(i <= k) /\ k <= i - 1
OBVIOUS

(* An insertion keeps what is said of the nodes, if it is true of the new  *)
(* one too; the bound on the waiting as well, since the nodes behind the   *)
(* new one have the bound of a node that is due even later.                *)
LEMMA InsertedKeeps ==
  ASSUME NEW q \in Seq(Node), NEW node \in Node,
         NEW k \in Nat, NEW r \in Seq(Node),
         Inserted(q, node, k, r), NEW m \in Nat, NEW limit \in Nat
  PROVE  /\ Unique(q) /\ (\A i \in DOMAIN q : q[i].num # node.num) => Unique(r)
         /\ Numbered(q, m) /\ node.num <= m => Numbered(r, m)
         /\ Waited(q) /\ node.idle + node.rem >= Interval[node.cnt] => Waited(r)
         /\ Bounded(q, limit) /\ node.idle = 0 /\ node.rem <= limit
              => Bounded(r, limit)
         /\ \A x \in Nat : IdleFor(q, x) /\ node.idle = 0 => IdleFor(r, x)
<1> DEFINE Old(i) == IF i <= k THEN i ELSE i - 1
<1>1. /\ Len(r) = Len(q) + 1 /\ k \in 0..Len(q)
      /\ Len(q) \in Nat /\ Len(r) \in Nat
      /\ DOMAIN r = 1..Len(r) /\ DOMAIN q = 1..Len(q)
  BY DEF Inserted, Placed
<1>2. k + 1 \in DOMAIN r /\ r[k + 1] = node
  BY InsertedNodes
<1>3. \A i \in DOMAIN r \ {k + 1} : Old(i) \in DOMAIN q /\ r[i] = q[Old(i)]
  BY InsertedNodes
<1>4. ASSUME Unique(q), \A i \in DOMAIN q : q[i].num # node.num,
             NEW i \in DOMAIN r, NEW j \in DOMAIN r, r[i].num = r[j].num
      PROVE  i = j
  <2>1. CASE i = k + 1 \/ j = k + 1
    <3> HIDE DEF Old
    <3> QED BY <1>2, <1>3, <1>4, <2>1
  <2>2. CASE i # k + 1 /\ j # k + 1
    <3>1. Old(i) = Old(j)
      <4> HIDE DEF Old
      <4> QED BY <1>3, <1>4, <2>2 DEF Unique
    <3> QED BY <3>1, <2>2, <1>1
  <2> QED BY <2>1, <2>2
<1>5. Numbered(q, m) /\ node.num <= m => Numbered(r, m)
  <2> HIDE DEF Old
  <2> QED BY <1>2, <1>3 DEF Numbered
<1>6. Waited(q) /\ node.idle + node.rem >= Interval[node.cnt] => Waited(r)
  <2> HIDE DEF Old
  <2> QED BY <1>2, <1>3 DEF Waited
<1>7. ASSUME Bounded(q, limit), node.idle = 0, node.rem <= limit,
             NEW i \in DOMAIN r, NEW j \in 1..i
      PROVE  r[j].rem + r[i].idle <= limit
  <2>0. i \in 1..(Len(q) + 1) /\ j \in DOMAIN r
    BY <1>1
  <2>1. CASE i = k + 1 /\ j = k + 1
    BY <1>2, <1>7, <2>1, NodeType
  <2>2. CASE i = k + 1 /\ j # k + 1
    <3>1. Old(j) \in DOMAIN q /\ r[j] = q[Old(j)]
      BY <1>3, <2>0, <2>2
    <3>2. q[Old(j)] \in Node /\ Old(j) \in 1..Old(j)
      BY <3>1, <1>1
    <3> HIDE DEF Old
    <3>3. q[Old(j)].rem + q[Old(j)].idle <= limit
      BY <3>1, <3>2, <1>7 DEF Bounded
    <3>4. q[Old(j)].rem \in Nat /\ q[Old(j)].idle \in Nat
      BY <3>2, NodeType
    <3> QED BY <3>1, <3>3, <3>4, <1>2, <1>7, <2>2
  <2>3. CASE i # k + 1 /\ j = k + 1
    <3>0. k # Len(q) /\ ~(i <= k) /\ k <= i - 1
      <4>1. i \in Nat /\ i # k + 1 /\ k + 1 <= i /\ i <= Len(q) + 1 /\ Len(q) \in Nat
        BY <2>0, <2>3, <1>1
      <4> QED BY <4>1, Behind
    <3>1. Old(i) = i - 1
      BY <3>0
    <3>2. q[k].rem > node.rem /\ k \in DOMAIN q
      BY <3>0 DEF Inserted
    <3>3. i - 1 \in DOMAIN q /\ r[i] = q[i - 1]
      BY <3>1, <1>3, <2>3
    <3>4. q[k].rem + q[i - 1].idle <= limit
      <4>1. k \in 1..(i - 1)
        <5>1. k \in 1..Len(q)
          BY <3>2
        <5>2. i \in Nat
          BY <2>0
        <5> QED BY <5>1, <5>2, <3>0
      <4> QED BY <3>3, <4>1, <1>7 DEF Bounded
    <3>5. q[k] \in Node /\ q[i - 1] \in Node
      BY <3>2, <3>3
    <3>6. q[k].rem \in Int /\ q[i - 1].idle \in Int /\ node.rem \in Int
      BY <3>5, NodeType
    <3> QED BY <3>2, <3>3, <3>4, <3>6, <1>2, <2>3
  <2>4. CASE i # k + 1 /\ j # k + 1
    <3>1. Old(i) \in DOMAIN q /\ r[i] = q[Old(i)] /\ r[j] = q[Old(j)]
      BY <1>3, <2>0, <2>4
    <3>2. Old(j) \in 1..Old(i)
      BY <2>0, <2>4, <1>1
    <3> HIDE DEF Old
    <3> QED BY <3>1, <3>2, <1>7 DEF Bounded
  <2> QED BY <2>1, <2>2, <2>3, <2>4
<1>8. \A x \in Nat : IdleFor(q, x) /\ node.idle = 0 => IdleFor(r, x)
  <2> HIDE DEF Old
  <2> QED BY <1>2, <1>3 DEF IdleFor
<1> QED BY <1>4, <1>5, <1>6, <1>7, <1>8 DEF Unique, Bounded

(* dtls_stop_retransmission leaves the nodes of the other peers, in order. *)
LEMMA StopIs ==
  ASSUME NEW q \in Seq(Node), NEW p
  PROVE  \E pos : /\ Remains(q, StopRetransmission(q, p), pos)
                  /\ Len(StopRetransmission(q, p)) <= Len(q)
                  /\ \A i \in DOMAIN StopRetransmission(q, p) :
                       StopRetransmission(q, p)[i].peer # p
<1> DEFINE n == Len(q)
           V == Seq(Node)
           step == [x \in V \X Nat |->
                      IF x[2] \in 1..n
                      THEN IF q[x[2]].peer = p THEN x[1] ELSE Append(x[1], q[x[2]])
                      ELSE x[1]]
<1>1. n \in Nat /\ <<>> \in V /\ DOMAIN q = 1..n /\ \A i \in 1..n : q[i] \in Node
  OBVIOUS
<1>2. step \in [V \X Nat -> V]
  OBVIOUS
<1>3. PICK g \in [0..n -> V] : Unfolds(g, <<>>, step, n)
  <2> HIDE DEF step, V
  <2> QED BY <1>1, <1>2, RecursionTo
<1> DEFINE More(x, i) == IF q[i].peer = p THEN x ELSE Append(x, q[i])
<1>4. ASSUME NEW i \in 1..n PROVE g[i] = More(g[i - 1], i)
  <2>1. i - 1 \in 0..n /\ i \in Nat
    BY <1>1
  <2>2. g[i] = step[<<g[i - 1], i>>] /\ <<g[i - 1], i>> \in V \X Nat
    BY <1>3, <2>1 DEF Unfolds
  <2> QED BY <2>2
<1>5. g = [i \in 0..n |-> IF i = 0 THEN <<>> ELSE More(g[i - 1], i)]
  <2> HIDE DEF More, step, V, n
  <2> QED BY <1>1, <1>3, <1>4 DEF Unfolds
<1> DEFINE kept == CHOOSE kept :
              kept = [i \in 0..n |-> IF i = 0 THEN <<>> ELSE More(kept[i - 1], i)]
<1>6. StopRetransmission(q, p) = kept[n]
  BY Zenon DEF StopRetransmission
<1>7. kept = [i \in 0..n |-> IF i = 0 THEN <<>> ELSE More(kept[i - 1], i)]
  <2> HIDE DEF More, n
  <2> QED BY <1>5, Zenon
<1> HIDE DEF kept
<1>8. kept[0] = <<>> /\ \A i \in 1..n : kept[i] = More(kept[i - 1], i)
  <2> HIDE DEF More, n
  <2> QED BY <1>1, <1>7
<1> DEFINE Part(r, pos, i) ==
             /\ r \in V /\ Len(r) <= i
             /\ pos \in [1..Len(r) -> 1..i]
             /\ \A x \in 1..Len(r) : r[x] = q[pos[x]] /\ r[x].peer # p
             /\ \A x, y \in 1..Len(r) : x < y => pos[x] < pos[y]
           Done(i) == \E pos : Part(kept[i], pos, i)
           S == {i \in Nat : i <= n => Done(i)}
<1>9. 0 \in S
  <2>1. Part(<<>>, [x \in 1..0 |-> x], 0)
    BY <1>1
  <2> HIDE DEF Part
  <2> QED BY <2>1, <1>8
<1>10. ASSUME NEW i \in Nat, i \in S PROVE i + 1 \in S
  <2> SUFFICES ASSUME i + 1 <= n PROVE Done(i + 1)
    <3> HIDE DEF Done
    <3> QED OBVIOUS
  <2>1. i <= n /\ i + 1 \in 1..n /\ (i + 1) - 1 = i /\ q[i + 1] \in Node
    BY <1>1
  <2>2. PICK pos : Part(kept[i], pos, i)
    <3>1. Done(i)
      <4> HIDE DEF Done
      <4> QED BY <1>10, <2>1
    <3> HIDE DEF Part
    <3> QED BY <3>1
  <2>3. kept[i + 1] = More(kept[i], i + 1)
    <3> HIDE DEF More
    <3> QED BY <1>8, <2>1
  <2> DEFINE r == kept[i]
  <2> HIDE DEF V, n
  <2>4. CASE q[i + 1].peer = p
    <3>1. kept[i + 1] = r
      BY <2>3, <2>4
    <3> HIDE DEF r
    <3>2. Part(r, pos, i + 1)
      <4>1. r \in V /\ Len(r) \in Nat /\ Len(r) <= i
        BY <2>2 DEF r, V
      <4>2. pos \in [1..Len(r) -> 1..(i + 1)]
        BY <2>2 DEF r
      <4> QED BY <2>2, <4>1, <4>2 DEF r
    <3> QED BY <3>1, <3>2
  <2>5. CASE q[i + 1].peer # p
    <3> DEFINE a == Append(r, q[i + 1])
               m == Len(r)
               to == [x \in 1..(m + 1) |-> IF x = m + 1 THEN i + 1 ELSE pos[x]]
    <3>1. kept[i + 1] = a
      BY <2>3, <2>5
    <3>2. r \in V /\ m \in Nat /\ m <= i /\ pos \in [1..m -> 1..i]
      BY <2>2 DEF V
    <3>3. \A x \in 1..m : r[x] = q[pos[x]] /\ r[x].peer # p
      BY <2>2
    <3>4. \A x, y \in 1..m : x < y => pos[x] < pos[y]
      BY <2>2
    <3>5. a \in V /\ Len(a) = m + 1 /\ a[m + 1] = q[i + 1] /\ \A x \in 1..m : a[x] = r[x]
      BY <2>1, <3>2 DEF V
    <3> HIDE DEF r, a, m
    <3>6. to \in [1..(m + 1) -> 1..(i + 1)]
      BY <3>2
    <3>7. \A x \in 1..(m + 1) : a[x] = q[to[x]] /\ a[x].peer # p
      <4> SUFFICES ASSUME NEW x \in 1..(m + 1)
                   PROVE  a[x] = q[to[x]] /\ a[x].peer # p
        OBVIOUS
      <4>1. CASE x = m + 1
        BY <4>1, <3>5, <2>5, <3>2
      <4>2. CASE x # m + 1
        <5>1. x \in 1..m /\ to[x] = pos[x]
          BY <4>2, <3>2
        <5> QED BY <5>1, <3>3, <3>5
      <4> QED BY <4>1, <4>2
    <3>8. \A x, y \in 1..(m + 1) : x < y => to[x] < to[y]
      <4> SUFFICES ASSUME NEW x \in 1..(m + 1), NEW y \in 1..(m + 1), x < y
                   PROVE  to[x] < to[y]
        OBVIOUS
      <4>1. x \in 1..m /\ to[x] = pos[x] /\ pos[x] \in 1..i
        BY <3>2
      <4>2. CASE y = m + 1
        <5>1. to[y] = i + 1
          BY <4>2, <3>2
        <5> HIDE DEF to
        <5> QED BY <5>1, <4>1
      <4>3. CASE y # m + 1
        <5>1. y \in 1..m /\ to[y] = pos[y]
          BY <4>3, <3>2
        <5> HIDE DEF to
        <5> QED BY <5>1, <4>1, <3>4
      <4> QED BY <4>2, <4>3
    <3> HIDE DEF to
    <3>9. Part(a, to, i + 1)
      <4>1. Len(a) <= i + 1
        BY <3>2, <3>5
      <4> QED BY <4>1, <3>5, <3>6, <3>7, <3>8
    <3> HIDE DEF Part
    <3> QED BY <3>1, <3>9
  <2> QED BY <2>4, <2>5
<1>11. n \in S
  <2> HIDE DEF S
  <2> QED BY <1>1, <1>9, <1>10, SetInduction
<1>12. PICK pos : Part(kept[n], pos, n)
  <2>1. Done(n)
    <3> HIDE DEF Done
    <3> QED BY <1>1, <1>11
  <2> HIDE DEF Part
  <2> QED BY <2>1
<1> DEFINE r == kept[n]
<1>13. r \in Seq(Node) /\ Len(r) <= Len(q) /\ DOMAIN r = 1..Len(r)
  BY <1>12
<1>14. pos \in [DOMAIN r -> DOMAIN q] /\ \A x \in DOMAIN r : r[x] = q[pos[x]] /\ r[x].peer # p
  BY <1>1, <1>12, <1>13
<1>15. \A x, y \in DOMAIN r : x < y => pos[x] < pos[y]
  BY <1>12, <1>13
<1> HIDE DEF r
<1>16. Remains(q, r, pos)
  BY <1>13, <1>14, <1>15 DEF Remains
<1>17. r = StopRetransmission(q, p)
  BY <1>6 DEF r
<1> QED BY <1>13, <1>14, <1>16, <1>17

(* The head of the queue taken off.                                        *)
LEMMA TailRemains ==
  ASSUME NEW q \in Seq(Node), q # <<>>
  PROVE  /\ Tail(q) \in Seq(Node) /\ Len(Tail(q)) = Len(q) - 1
         /\ Head(q) = q[1] /\ Head(q) \in Node /\ 1 \in DOMAIN q
         /\ \A i \in 1..(Len(q) - 1) : i + 1 \in DOMAIN q /\ Tail(q)[i] = q[i + 1]
         /\ Remains(q, Tail(q), [i \in DOMAIN Tail(q) |-> i + 1])
<1>1. /\ Tail(q) \in Seq(Node) /\ Len(Tail(q)) = Len(q) - 1
      /\ Head(q) = q[1] /\ Head(q) \in Node /\ 1 \in DOMAIN q
      /\ DOMAIN q = 1..Len(q) /\ Len(q) \in Nat /\ Len(q) # 0
  OBVIOUS
<1>2. ASSUME NEW i \in 1..(Len(q) - 1)
      PROVE  i + 1 \in DOMAIN q /\ Tail(q)[i] = q[i + 1]
  OBVIOUS
<1> DEFINE t == Tail(q)
           pos == [i \in DOMAIN t |-> i + 1]
<1> HIDE DEF t
<1>3. t \in Seq(Node) /\ DOMAIN t = 1..(Len(q) - 1)
  BY <1>1 DEF t
<1>4. \A i \in DOMAIN t : i + 1 \in DOMAIN q /\ t[i] = q[i + 1]
  BY <1>2, <1>3 DEF t
<1>5. pos \in [DOMAIN t -> DOMAIN q] /\ \A i \in DOMAIN t : t[i] = q[pos[i]]
  BY <1>4
<1>6. \A i, j \in DOMAIN t : i < j => pos[i] < pos[j]
  BY <1>3
<1> HIDE DEF pos
<1>7. Remains(q, t, pos)
  BY <1>3, <1>5, <1>6 DEF Remains
<1> QED BY <1>1, <1>2, <1>7 DEF t, pos

(* A node that may be sent again is a node afterwards.                     *)
LEMMA AgainType ==
  ASSUME NEW node \in Node, node.cnt < MaxRetransmit
  PROVE  /\ Again(node) \in Node
         /\ Again(node).peer = node.peer /\ Again(node).num = node.num
         /\ Again(node).cnt = node.cnt + 1 /\ Again(node).idle = 0
         /\ Again(node).rem = Interval[node.cnt + 1]
         /\ Again(node).rem > 0 /\ Again(node).rem <= Longest
<1>1. MaxRetransmit \in Nat /\ node.cnt \in Nat /\ node.cnt + 1 <= MaxRetransmit
  BY QueueAssumption, NodeType
<1>2. /\ Interval[node.cnt + 1] \in Nat /\ Interval[node.cnt + 1] > 0
      /\ Interval[node.cnt + 1] <= Longest /\ Longest \in Nat
  <2>1. node.cnt + 1 \in Nat
    BY <1>1
  <2> QED BY <1>1, <2>1, IntervalGrows, IntervalType DEF Longest
<1>3. /\ Again(node).peer = node.peer /\ Again(node).num = node.num
      /\ Again(node).cnt = node.cnt + 1 /\ Again(node).idle = 0
      /\ Again(node).rem = Interval[node.cnt + 1]
  BY DEF Again, Node
<1>4. Again(node) \in Node
  <2>1. node.cnt + 1 \in 0..MaxRetransmit /\ Interval[node.cnt + 1] \in 0..Longest
    BY <1>1, <1>2
  <2> QED BY <2>1 DEF Again, Node
<1> QED BY <1>2, <1>3, <1>4

(* One turn: nothing is due, or the head leaves the queue for good, or it  *)
(* is inserted again.                                                      *)
LEMMA TurnIs ==
  ASSUME NEW q \in Seq(Node)
  PROVE  \/ Turn(q) = q /\ (q = <<>> \/ q[1].rem # 0)
         \/ /\ q # <<>> /\ q[1].rem = 0
            /\ q[1].cnt = MaxRetransmit
            /\ Turn(q) = Tail(q)
         \/ /\ q # <<>> /\ q[1].rem = 0
            /\ q[1].cnt < MaxRetransmit
            /\ \E k \in 0..Len(Tail(q)) : Inserted(Tail(q), Again(q[1]), k, Turn(q))
<1>1. CASE q = <<>> \/ Head(q).rem # 0
  BY <1>1 DEF Turn
<1>2. CASE q # <<>> /\ Head(q).rem = 0
  <2>1. Head(q) = q[1] /\ q[1] \in Node /\ Tail(q) \in Seq(Node)
    BY <1>2
  <2>2. MaxRetransmit \in Nat /\ q[1].cnt \in Nat /\ q[1].cnt <= MaxRetransmit
    BY <2>1, QueueAssumption, NodeType
  <2>3. CASE q[1].cnt = MaxRetransmit
    BY <1>2, <2>1, <2>2, <2>3 DEF Turn, Retransmit
  <2>4. CASE q[1].cnt < MaxRetransmit
    <3>1. Turn(q) = Insert(Tail(q), Again(q[1]))
      BY <1>2, <2>1, <2>4 DEF Turn, Retransmit
    <3>2. Again(q[1]) \in Node
      BY <2>1, <2>4, AgainType
    <3>3. \E k \in 0..Len(Tail(q)) :
            Inserted(Tail(q), Again(q[1]), k, Insert(Tail(q), Again(q[1])))
      BY <2>1, <3>2, InsertIs
    <3> QED BY <1>2, <2>1, <2>4, <3>1, <3>3
  <2> QED BY <2>2, <2>3, <2>4
<1> QED BY <1>1, <1>2

(* What a turn keeps, and where the nodes come from.                       *)
LEMMA TurnKeeps ==
  ASSUME NEW q \in Seq(Node), NEW m \in Nat, NEW limit \in Nat, Longest <= limit
  PROVE  /\ Turn(q) \in Seq(Node) /\ Len(Turn(q)) <= Len(q)
         /\ Unique(q) => Unique(Turn(q))
         /\ Numbered(q, m) => Numbered(Turn(q), m)
         /\ Waited(q) => Waited(Turn(q))
         /\ Bounded(q, limit) => Bounded(Turn(q), limit)
         /\ \A j \in DOMAIN Turn(q) : \E i \in DOMAIN q :
              \/ Turn(q)[j] = q[i]
              \/ /\ q[i].rem = 0 /\ q[i].cnt < MaxRetransmit
                 /\ Turn(q)[j] = Again(q[i])
<1>1. CASE Turn(q) = q
  BY <1>1
<1>2. CASE q # <<>> /\ Turn(q) = Tail(q)
  <2>1. Remains(q, Tail(q), [i \in DOMAIN Tail(q) |-> i + 1])
    BY <1>2, TailRemains
  <2>2. \A j \in DOMAIN Tail(q) : \E i \in DOMAIN q : Tail(q)[j] = q[i]
    BY <2>1 DEF Remains
  <2>3. Tail(q) \in Seq(Node) /\ Len(Tail(q)) <= Len(q)
    BY <1>2
  <2>4. /\ Unique(q) => Unique(Tail(q))
        /\ Numbered(q, m) => Numbered(Tail(q), m)
        /\ Waited(q) => Waited(Tail(q))
        /\ Bounded(q, limit) => Bounded(Tail(q), limit)
    BY <2>1, RemainsKeeps
  <2> QED BY <1>2, <2>2, <2>3, <2>4
<1>3. ASSUME q # <<>>, q[1].rem = 0, q[1].cnt < MaxRetransmit,
             NEW k \in 0..Len(Tail(q)), Inserted(Tail(q), Again(q[1]), k, Turn(q))
      PROVE  /\ Turn(q) \in Seq(Node) /\ Len(Turn(q)) <= Len(q)
             /\ Unique(q) => Unique(Turn(q))
             /\ Numbered(q, m) => Numbered(Turn(q), m)
             /\ Waited(q) => Waited(Turn(q))
             /\ Bounded(q, limit) => Bounded(Turn(q), limit)
             /\ \A j \in DOMAIN Turn(q) : \E i \in DOMAIN q :
                  \/ Turn(q)[j] = q[i]
                  \/ /\ q[i].rem = 0 /\ q[i].cnt < MaxRetransmit
                     /\ Turn(q)[j] = Again(q[i])
  <2> DEFINE t == Tail(q)
             node == Again(q[1])
             r == Turn(q)
  <2>1. /\ t \in Seq(Node) /\ Len(t) = Len(q) - 1 /\ 1 \in DOMAIN q /\ q[1] \in Node
        /\ \A i \in 1..Len(t) : i + 1 \in DOMAIN q /\ t[i] = q[i + 1]
        /\ DOMAIN t = 1..Len(t) /\ k \in Nat
    BY <1>3, TailRemains
  <2>2. Remains(q, t, [i \in DOMAIN t |-> i + 1])
    BY <1>3, TailRemains
  <2>3. /\ node \in Node /\ node.num = q[1].num /\ node.idle = 0
        /\ node.rem = Interval[q[1].cnt + 1] /\ node.cnt = q[1].cnt + 1
        /\ node.rem <= Longest /\ node.rem \in Nat
    BY <1>3, <2>1, AgainType, NodeType
  <2>4. Inserted(t, node, k, r)
    BY <1>3
  <2> HIDE DEF t, node, r
  <2>5. r \in Seq(Node) /\ Len(r) <= Len(q)
    <3>1. r \in Seq(Node) /\ Len(r) = Len(t) + 1
      BY <2>4 DEF Inserted, Placed
    <3> QED BY <3>1, <2>1
  <2>6. /\ Unique(q) => Unique(t)
        /\ Numbered(q, m) => Numbered(t, m)
        /\ Waited(q) => Waited(t)
        /\ Bounded(q, limit) => Bounded(t, limit)
    BY <2>2, RemainsKeeps
  <2>7. /\ Unique(t) /\ (\A i \in DOMAIN t : t[i].num # node.num) => Unique(r)
        /\ Numbered(t, m) /\ node.num <= m => Numbered(r, m)
        /\ Waited(t) /\ node.idle + node.rem >= Interval[node.cnt] => Waited(r)
        /\ Bounded(t, limit) /\ node.idle = 0 /\ node.rem <= limit
             => Bounded(r, limit)
    BY <2>1, <2>3, <2>4, <2>5, InsertedKeeps
  <2>8. ASSUME Unique(q), NEW i \in DOMAIN t PROVE t[i].num # node.num
    <3>1. i + 1 \in DOMAIN q /\ t[i] = q[i + 1] /\ i + 1 # 1
      BY <2>1
    <3> QED BY <3>1, <2>1, <2>3, <2>8 DEF Unique
  <2>9. Numbered(q, m) => node.num <= m
    BY <2>1, <2>3 DEF Numbered
  <2>10. node.idle + node.rem >= Interval[node.cnt]
    BY <2>3
  <2>11. node.rem <= limit
    <3>1. Longest \in Nat
      BY QueueAssumption, IntervalType DEF Longest
    <3> QED BY <3>1, <2>3
  <2>12. ASSUME NEW j \in DOMAIN r
         PROVE  \E i \in DOMAIN q :
                  \/ r[j] = q[i]
                  \/ /\ q[i].rem = 0 /\ q[i].cnt < MaxRetransmit
                     /\ r[j] = Again(q[i])
    <3>1. r[j] = node \/ \E o \in DOMAIN t : r[j] = t[o]
      BY <2>1, <2>3, <2>4, <2>5, InsertedFrom
    <3>2. CASE r[j] = node
      BY <3>2, <2>1, <1>3 DEF node
    <3>3. ASSUME NEW o \in DOMAIN t, r[j] = t[o]
          PROVE  o + 1 \in DOMAIN q /\ r[j] = q[o + 1]
      BY <3>3, <2>1
    <3> QED BY <3>1, <3>2, <3>3
  <2> QED BY <2>3, <2>5, <2>6, <2>7, <2>8, <2>9, <2>10, <2>11, <2>12 DEF r
<1> QED BY <1>1, <1>2, <1>3, TurnIs

(* What dtls_send_multi leaves is a queue, no longer than the pool allows. *)
LEMMA SendMultiType ==
  ASSUME NEW q \in Seq(Node), Len(q) <= MaxNodes,
         NEW p \in Peers, NEW i \in 1..(MaxFlights * MaxFlight)
  PROVE  /\ SendMulti(q, p, i) \in Seq(Node)
         /\ Len(SendMulti(q, p, i)) <= MaxNodes
<1>1. MaxNodes \in Nat /\ MaxRetransmit \in Nat /\ Len(q) \in Nat
  BY QueueAssumption
<1>2. Timeout \in 0..Longest /\ 0 \in 0..MaxRetransmit
  BY <1>1, IntervalType, IntervalGrows DEF Longest
<1>3. Fresh(p, i) \in Node
  BY <1>2 DEF Fresh, Node
<1>4. PICK k \in 0..Len(q) : Inserted(q, Fresh(p, i), k, Insert(q, Fresh(p, i)))
  BY <1>3, InsertIs
<1>5. /\ Insert(q, Fresh(p, i)) \in Seq(Node)
      /\ Len(Insert(q, Fresh(p, i))) = Len(q) + 1
  BY <1>4 DEF Inserted, Placed
<1> QED BY <1>1, <1>5 DEF SendMulti

(* One message more in the send queue.                                     *)
LEMMA SendMultiKeeps ==
  ASSUME NEW q \in Seq(Node), Len(q) <= MaxNodes,
         NEW p \in Peers, NEW m \in Nat, m + 1 \in 1..(MaxFlights * MaxFlight),
         Numbered(q, m), NEW limit \in Nat, Longest <= limit
  PROVE  /\ SendMulti(q, p, m + 1) \in Seq(Node)
         /\ Len(SendMulti(q, p, m + 1)) <= MaxNodes
         /\ Numbered(SendMulti(q, p, m + 1), m + 1)
         /\ Unique(q) => Unique(SendMulti(q, p, m + 1))
         /\ Waited(q) => Waited(SendMulti(q, p, m + 1))
         /\ Bounded(q, limit) => Bounded(SendMulti(q, p, m + 1), limit)
         /\ \A x \in Nat : IdleFor(q, x) => IdleFor(SendMulti(q, p, m + 1), x)
         /\ Unsent(q, p) => Unsent(SendMulti(q, p, m + 1), p)
<1>1. MaxNodes \in Nat /\ MaxRetransmit \in Nat /\ Len(q) \in Nat
  BY QueueAssumption
<1>2. \A i \in DOMAIN q : q[i].num \in Nat /\ q[i].num <= m
  <2>1. \A i \in DOMAIN q : q[i] \in Node
    OBVIOUS
  <2> QED BY <2>1, NodeType DEF Numbered
<1>3. CASE Len(q) = MaxNodes
  <2>1. SendMulti(q, p, m + 1) = q
    BY <1>3 DEF SendMulti
  <2>2. Numbered(q, m + 1)
    BY <1>2 DEF Numbered
  <2> QED BY <2>1, <2>2
<1>4. CASE Len(q) # MaxNodes
  <2> DEFINE node == Fresh(p, m + 1)
             r == Insert(q, node)
  <2>1. SendMulti(q, p, m + 1) = r
    BY <1>4 DEF SendMulti
  <2>2. /\ node.peer = p /\ node.num = m + 1 /\ node.rem = Timeout
        /\ node.cnt = 0 /\ node.idle = 0
    BY DEF Fresh
  <2>3. Timeout = Interval[0] /\ Timeout \in Nat /\ Timeout <= Longest /\ Longest \in Nat
    BY <1>1, IntervalType, IntervalGrows DEF Longest
  <2>4. node \in Node
    <3>1. Timeout \in 0..Longest /\ 0 \in 0..MaxRetransmit
      BY <1>1, <2>3
    <3> QED BY <3>1 DEF Fresh, Node
  <2> HIDE DEF node
  <2>5. PICK k \in 0..Len(q) : Inserted(q, node, k, r)
    BY <2>4, InsertIs
  <2> HIDE DEF r
  <2>6. r \in Seq(Node) /\ Len(r) = Len(q) + 1 /\ k \in Nat
    BY <2>5 DEF Inserted, Placed
  <2>7. Len(r) <= MaxNodes
    BY <1>1, <1>4, <2>6
  <2>8. /\ Unique(q) /\ (\A i \in DOMAIN q : q[i].num # node.num) => Unique(r)
        /\ Numbered(q, m + 1) /\ node.num <= m + 1 => Numbered(r, m + 1)
        /\ Waited(q) /\ node.idle + node.rem >= Interval[node.cnt] => Waited(r)
        /\ Bounded(q, limit) /\ node.idle = 0 /\ node.rem <= limit
             => Bounded(r, limit)
        /\ \A x \in Nat : IdleFor(q, x) /\ node.idle = 0 => IdleFor(r, x)
    BY <2>4, <2>5, <2>6, InsertedKeeps
  <2>9. Numbered(q, m + 1) /\ \A i \in DOMAIN q : q[i].num # node.num
    BY <1>2, <2>2 DEF Numbered
  <2>10. node.num <= m + 1 /\ node.idle + node.rem >= Interval[node.cnt]
    BY <2>2, <2>3
  <2>11. node.rem <= limit
    BY <2>2, <2>3
  <2>12. ASSUME Unsent(q, p) PROVE Unsent(r, p)
    <3>1. k = Len(q)
      BY <2>2, <2>3, <2>5, <2>12 DEF Inserted, Unsent
    <3>2. \A i \in 1..Len(q) : r[i] = q[i]
      BY <2>5, <3>1 DEF Inserted, Placed
    <3>3. r[Len(q) + 1] = node
      BY <2>5, <3>1 DEF Inserted, Placed
    <3>4. ASSUME NEW i \in DOMAIN r
          PROVE  r[i].peer = p /\ r[i].cnt = 0 /\ r[i].rem = Timeout
      <4>1. i \in 1..(Len(q) + 1)
        BY <2>6
      <4>2. CASE i = Len(q) + 1
        BY <4>2, <3>3, <2>2
      <4>3. CASE i \in 1..Len(q)
        BY <4>3, <3>2, <2>12 DEF Unsent
      <4> QED BY <4>1, <4>2, <4>3, <1>1
    <3>5. ASSUME NEW i \in DOMAIN r, NEW j \in DOMAIN r, i < j
          PROVE  r[i].num < r[j].num
      <4>1. i \in 1..Len(q) /\ i \in DOMAIN q /\ r[i] = q[i]
        BY <2>6, <3>2, <3>5, <1>1
      <4>2. CASE j = Len(q) + 1
        BY <4>1, <4>2, <3>3, <2>2, <1>2
      <4>3. CASE j \in 1..Len(q)
        BY <4>1, <4>3, <3>2, <3>5, <2>12 DEF Unsent
      <4>4. j \in 1..(Len(q) + 1)
        BY <2>6
      <4> QED BY <4>2, <4>3, <4>4, <1>1
    <3> QED BY <3>4, <3>5 DEF Unsent
  <2> QED BY <2>1, <2>6, <2>7, <2>8, <2>9, <2>10, <2>11, <2>12, <2>2
<1> QED BY <1>3, <1>4

(* A flight of n messages.                                                 *)
LEMMA FlightKeeps ==
  ASSUME NEW q \in Seq(Node), Len(q) <= MaxNodes,
         flights \in Nat, flights < MaxFlights,
         NEW p \in Peers, NEW n \in 0..MaxFlight,
         Numbered(q, flights * MaxFlight), NEW limit \in Nat, Longest <= limit
  PROVE  /\ Flight(q, p, n) \in Seq(Node)
         /\ Len(Flight(q, p, n)) <= MaxNodes
         /\ Numbered(Flight(q, p, n), flights * MaxFlight + n)
         /\ Unique(q) => Unique(Flight(q, p, n))
         /\ Waited(q) => Waited(Flight(q, p, n))
         /\ Bounded(q, limit) => Bounded(Flight(q, p, n), limit)
         /\ \A y \in Nat : IdleFor(q, y) => IdleFor(Flight(q, p, n), y)
         /\ Unsent(q, p) => Unsent(Flight(q, p, n), p)
<1> DEFINE b == flights * MaxFlight
           V == {s \in Seq(Node) : Len(s) <= MaxNodes}
           More(x, i) == SendMulti(x, p, b + i)
<1>1. MaxFlight \in Nat /\ MaxFlights \in Nat /\ b \in Nat /\ n \in Nat
  BY QueueAssumption
<1>2. \A i \in 1..n : b + i \in 1..(MaxFlights * MaxFlight)
  BY <1>1
<1> DEFINE Good(x, i) ==
             /\ x \in Seq(Node) /\ Len(x) <= MaxNodes
             /\ Numbered(x, b + i)
             /\ Unique(q) => Unique(x)
             /\ Waited(q) => Waited(x)
             /\ Bounded(q, limit) => Bounded(x, limit)
             /\ \A y \in Nat : IdleFor(q, y) => IdleFor(x, y)
             /\ Unsent(q, p) => Unsent(x, p)
<1>3. ASSUME NEW x, NEW i \in Nat, i + 1 <= n, Good(x, i)
      PROVE  Good(More(x, i + 1), i + 1)
  <2>1. b + i \in Nat /\ (b + i) + 1 = b + (i + 1) /\ i + 1 \in 1..n
    BY <1>1, <1>3
  <2>2. (b + i) + 1 \in 1..(MaxFlights * MaxFlight)
    BY <1>2, <2>1
  <2> HIDE DEF b
  <2> QED BY <1>3, <2>1, <2>2, SendMultiKeeps
<1>4. Good(q, 0)
  BY <1>1
<1> HIDE DEF b
<1> DEFINE step == [y \in V \X Nat |->
                      IF y[2] \in 1..n THEN More(y[1], y[2]) ELSE y[1]]
<1>5. step \in [V \X Nat -> V]
  <2> SUFFICES ASSUME NEW y \in V \X Nat, y[2] \in 1..n
               PROVE  More(y[1], y[2]) \in V
    OBVIOUS
  <2>1. y[1] \in Seq(Node) /\ Len(y[1]) <= MaxNodes
    OBVIOUS
  <2>2. b + y[2] \in 1..(MaxFlights * MaxFlight)
    BY <1>2
  <2> QED BY <2>1, <2>2, SendMultiType
<1>6. PICK g \in [0..n -> V] : Unfolds(g, q, step, n)
  <2>1. q \in V
    OBVIOUS
  <2> HIDE DEF step, V
  <2> QED BY <1>1, <1>5, <2>1, RecursionTo
<1>7. ASSUME NEW i \in 1..n PROVE g[i] = More(g[i - 1], i)
  <2>1. i - 1 \in 0..n /\ i \in Nat
    BY <1>1
  <2>2. g[i] = step[<<g[i - 1], i>>] /\ <<g[i - 1], i>> \in V \X Nat
    BY <1>6, <2>1 DEF Unfolds
  <2> QED BY <2>2
<1>8. g = [i \in 0..n |-> IF i = 0 THEN q ELSE More(g[i - 1], i)]
  <2> HIDE DEF More, step, V
  <2> QED BY <1>1, <1>6, <1>7 DEF Unfolds
<1> DEFINE f == CHOOSE f :
              f = [i \in 0..n |-> IF i = 0 THEN q ELSE More(f[i - 1], i)]
<1>9. Flight(q, p, n) = f[n]
  BY Zenon DEF Flight, b
<1>10. f = [i \in 0..n |-> IF i = 0 THEN q ELSE More(f[i - 1], i)]
  <2> HIDE DEF More
  <2> QED BY <1>8, Zenon
<1> HIDE DEF f
<1>11. f[0] = q /\ \A i \in 1..n : f[i] = More(f[i - 1], i)
  <2> HIDE DEF More
  <2> QED BY <1>1, <1>10
<1> DEFINE S == {i \in Nat : i <= n => Good(f[i], i)}
<1>12. 0 \in S
  <2> HIDE DEF Good
  <2> QED BY <1>4, <1>11
<1>13. ASSUME NEW i \in Nat, i \in S PROVE i + 1 \in S
  <2> HIDE DEF Good, More
  <2> SUFFICES ASSUME i + 1 <= n PROVE Good(f[i + 1], i + 1)
    OBVIOUS
  <2>1. i <= n /\ i + 1 \in 1..n /\ (i + 1) - 1 = i
    BY <1>1
  <2>2. Good(f[i], i) /\ f[i + 1] = More(f[i], i + 1)
    BY <1>11, <1>13, <2>1
  <2> QED BY <1>3, <2>2
<1>14. n \in S
  <2> HIDE DEF S
  <2> QED BY <1>1, <1>12, <1>13, SetInduction
<1>15. Good(f[n], n)
  <2> HIDE DEF Good
  <2> QED BY <1>1, <1>14
<1> QED BY <1>9, <1>15 DEF b

(* Each node of r is a node of q, or one that was due, sent again.         *)
From(q, r) ==
  \A j \in DOMAIN r : \E i \in DOMAIN q :
    \/ r[j] = q[i]
    \/ /\ q[i].rem = 0 /\ q[i].cnt < MaxRetransmit
       /\ r[j] = Again(q[i])

(* The loop of dtls_check_retransmit, turn by turn.                        *)
LEMMA CheckIs ==
  ASSUME queue \in Seq(Node)
  PROVE  \E f : /\ f[0] = queue
                /\ \A i \in 1..Len(queue) : f[i] = Turn(f[i - 1])
                /\ CheckRetransmit = f[Len(queue)]
<1> DEFINE n == Len(queue)
           V == Seq(Node)
           step == [y \in V \X Nat |-> Turn(y[1])]
<1>1. n \in Nat /\ queue \in V
  OBVIOUS
<1>2. step \in [V \X Nat -> V]
  <2> SUFFICES ASSUME NEW y \in V \X Nat PROVE Turn(y[1]) \in V
    OBVIOUS
  <2>1. y[1] \in Seq(Node) /\ Longest \in Nat
    BY QueueAssumption, IntervalType DEF Longest
  <2> QED BY <2>1, TurnKeeps
<1>3. PICK g \in [0..n -> V] : Unfolds(g, queue, step, n)
  <2> HIDE DEF step, V
  <2> QED BY <1>1, <1>2, RecursionTo
<1>4. ASSUME NEW i \in 1..n PROVE g[i] = Turn(g[i - 1])
  <2>1. i - 1 \in 0..n /\ i \in Nat
    BY <1>1
  <2>2. g[i] = step[<<g[i - 1], i>>] /\ <<g[i - 1], i>> \in V \X Nat
    BY <1>3, <2>1 DEF Unfolds
  <2> QED BY <2>2
<1>5. g = [i \in 0..n |-> IF i = 0 THEN queue ELSE Turn(g[i - 1])]
  <2> HIDE DEF step, V
  <2> QED BY <1>1, <1>3, <1>4 DEF Unfolds
<1> DEFINE f == CHOOSE f :
              f = [i \in 0..n |-> IF i = 0 THEN queue ELSE Turn(f[i - 1])]
<1>6. CheckRetransmit = f[n]
  BY Zenon DEF CheckRetransmit
<1>7. f = [i \in 0..n |-> IF i = 0 THEN queue ELSE Turn(f[i - 1])]
  BY <1>5, Zenon
<1> HIDE DEF f
<1>8. f[0] = queue /\ \A i \in 1..n : f[i] = Turn(f[i - 1])
  BY <1>1, <1>7
<1> QED BY <1>6, <1>8

(* What one more turn does to From.                                        *)
LEMMA FromTurn ==
  ASSUME NEW q \in Seq(Node), NEW r \in Seq(Node), From(q, r)
  PROVE  From(q, Turn(r))
<1>1. Longest \in Nat
  BY QueueAssumption, IntervalType DEF Longest
<1>2. \A j \in DOMAIN Turn(r) : \E i \in DOMAIN r :
        \/ Turn(r)[j] = r[i]
        \/ /\ r[i].rem = 0 /\ r[i].cnt < MaxRetransmit
           /\ Turn(r)[j] = Again(r[i])
  BY <1>1, TurnKeeps
<1> SUFFICES ASSUME NEW j \in DOMAIN Turn(r)
             PROVE  \E i \in DOMAIN q :
                      \/ Turn(r)[j] = q[i]
                      \/ /\ q[i].rem = 0 /\ q[i].cnt < MaxRetransmit
                         /\ Turn(r)[j] = Again(q[i])
  BY DEF From
<1>3. PICK i \in DOMAIN r :
        \/ Turn(r)[j] = r[i]
        \/ /\ r[i].rem = 0 /\ r[i].cnt < MaxRetransmit
           /\ Turn(r)[j] = Again(r[i])
  BY <1>2
<1>4. PICK o \in DOMAIN q :
        \/ r[i] = q[o]
        \/ /\ q[o].rem = 0 /\ q[o].cnt < MaxRetransmit
           /\ r[i] = Again(q[o])
  BY DEF From
<1>5. CASE r[i] = q[o]
  BY <1>3, <1>5
<1>6. CASE q[o].rem = 0 /\ q[o].cnt < MaxRetransmit /\ r[i] = Again(q[o])
  <2>1. q[o] \in Node
    OBVIOUS
  <2>2. r[i].rem > 0 /\ r[i].rem \in Nat
    BY <1>6, <2>1, AgainType, NodeType
  <2>3. Turn(r)[j] = r[i]
    BY <1>3, <2>2
  <2> QED BY <1>6, <2>3
<1> QED BY <1>4, <1>5, <1>6

(* What a call of dtls_check_retransmit keeps.                             *)
LEMMA CheckKeeps ==
  ASSUME queue \in Seq(Node), NEW m \in Nat, NEW limit \in Nat, Longest <= limit
  PROVE  /\ CheckRetransmit \in Seq(Node) /\ Len(CheckRetransmit) <= Len(queue)
         /\ Unique(queue) => Unique(CheckRetransmit)
         /\ Numbered(queue, m) => Numbered(CheckRetransmit, m)
         /\ Waited(queue) => Waited(CheckRetransmit)
         /\ Bounded(queue, limit) => Bounded(CheckRetransmit, limit)
         /\ From(queue, CheckRetransmit)
<1> DEFINE Good(x) ==
             /\ x \in Seq(Node) /\ Len(x) <= Len(queue)
             /\ Unique(queue) => Unique(x)
             /\ Numbered(queue, m) => Numbered(x, m)
             /\ Waited(queue) => Waited(x)
             /\ Bounded(queue, limit) => Bounded(x, limit)
             /\ From(queue, x)
           n == Len(queue)
<1>1. Good(queue)
  BY DEF From
<1>2. ASSUME NEW x, Good(x) PROVE Good(Turn(x))
  <2>1. /\ Turn(x) \in Seq(Node) /\ Len(Turn(x)) <= Len(x)
        /\ Unique(x) => Unique(Turn(x))
        /\ Numbered(x, m) => Numbered(Turn(x), m)
        /\ Waited(x) => Waited(Turn(x))
        /\ Bounded(x, limit) => Bounded(Turn(x), limit)
    BY <1>2, TurnKeeps
  <2>2. From(queue, Turn(x))
    BY <1>2, FromTurn
  <2>3. Len(Turn(x)) <= Len(queue)
    <3>1. Len(Turn(x)) \in Nat /\ Len(x) \in Nat /\ Len(queue) \in Nat
      BY <1>2, <2>1
    <3> QED BY <1>2, <2>1, <3>1
  <2> QED BY <1>2, <2>1, <2>2, <2>3
<1>3. PICK f : /\ f[0] = queue
               /\ \A i \in 1..n : f[i] = Turn(f[i - 1])
               /\ CheckRetransmit = f[n]
  BY CheckIs
<1> DEFINE S == {i \in Nat : i <= n => Good(f[i])}
<1>4. n \in Nat
  OBVIOUS
<1> HIDE DEF Good, n
<1>5. 0 \in S
  BY <1>1, <1>3
<1>6. ASSUME NEW i \in Nat, i \in S PROVE i + 1 \in S
  <2> SUFFICES ASSUME i + 1 <= n PROVE Good(f[i + 1])
    OBVIOUS
  <2>1. i <= n /\ i + 1 \in 1..n /\ (i + 1) - 1 = i
    BY <1>4
  <2>2. Good(f[i]) /\ f[i + 1] = Turn(f[i])
    BY <1>3, <1>6, <2>1
  <2> QED BY <1>2, <2>2
<1>7. n \in S
  <2> HIDE DEF S
  <2> QED BY <1>4, <1>5, <1>6, SetInduction
<1>8. Good(CheckRetransmit)
  BY <1>3, <1>4, <1>7
<1> QED BY <1>8 DEF Good

(* With one peer, the node that is sent again goes to the end.             *)
LEMMA TurnRounds ==
  ASSUME NEW q \in Seq(Node), Rounds(q), q # <<>>, q[1].rem = 0,
         q[1].cnt < MaxRetransmit
  PROVE  /\ Turn(q) \in Seq(Node) /\ Len(Turn(q)) = Len(q)
         /\ \A i \in 1..(Len(q) - 1) : Turn(q)[i] = q[i + 1]
         /\ Turn(q)[Len(q)] = Again(q[1])
         /\ Rounds(Turn(q))
<1> DEFINE t == Tail(q)
           node == Again(q[1])
           r == Turn(q)
<1>1. /\ t \in Seq(Node) /\ Len(t) = Len(q) - 1 /\ 1 \in DOMAIN q /\ q[1] \in Node
      /\ \A i \in 1..Len(t) : i + 1 \in DOMAIN q /\ t[i] = q[i + 1]
      /\ DOMAIN t = 1..Len(t)
  BY TailRemains
<1>2. PICK k \in 0..Len(t) : Inserted(t, node, k, r)
  <2>1. q[1].cnt # MaxRetransmit
    BY <1>1, NodeType, QueueAssumption
  <2>2. Turn(q) # q \/ ~(q = <<>> \/ q[1].rem # 0)
    OBVIOUS
  <2> QED BY <2>1, <2>2, TurnIs
<1>3. /\ node \in Node /\ node.num = q[1].num /\ node.cnt = q[1].cnt + 1
      /\ node.rem = Interval[q[1].cnt + 1] /\ node.rem \in Nat /\ node.rem > 0
  BY <1>1, AgainType, NodeType
<1>4. \A i \in DOMAIN q : i # 1 => Follows(q[1], q[i])
  BY <1>1 DEF Rounds
<1>5. q[1].cnt \in Nat /\ q[1].num \in Nat
  BY <1>1, NodeType
<1> HIDE DEF node, t, r
<1>6. k = Len(t)
  <2> SUFFICES ASSUME k # Len(t) PROVE FALSE
    OBVIOUS
  <2>1. k \in 1..Len(t) /\ t[k].rem > node.rem
    BY <1>1, <1>2 DEF Inserted
  <2>2. k + 1 \in DOMAIN q /\ t[k] = q[k + 1] /\ k + 1 # 1
    BY <1>1, <2>1
  <2>3. Follows(q[1], q[k + 1])
    BY <1>4, <2>2
  <2>4. q[k + 1].rem = 0 \/ q[k + 1].rem = node.rem
    BY <2>3, <1>3 DEF Follows
  <2> QED BY <2>1, <2>2, <2>4, <1>3
<1>7. /\ r \in Seq(Node) /\ Len(r) = Len(q)
      /\ \A i \in 1..Len(t) : r[i] = t[i]
      /\ r[Len(q)] = node
  <2>1. r \in Seq(Node) /\ Len(r) = Len(t) + 1 /\ r[Len(t) + 1] = node
    BY <1>2, <1>6 DEF Inserted, Placed
  <2>2. \A i \in 1..Len(t) : r[i] = t[i]
    BY <1>2, <1>6 DEF Inserted, Placed
  <2>3. Len(t) + 1 = Len(q)
    BY <1>1
  <2> QED BY <2>1, <2>2, <2>3
<1>8. \A i \in 1..(Len(q) - 1) : i + 1 \in DOMAIN q /\ r[i] = q[i + 1]
  BY <1>1, <1>7
<1>9. ASSUME NEW i \in DOMAIN r, NEW j \in DOMAIN r, i < j
      PROVE  Follows(r[i], r[j])
  <2>1. i \in 1..(Len(q) - 1) /\ i \in Nat /\ j \in Nat /\ j <= Len(q) /\ Len(q) \in Nat
    BY <1>7, <1>9
  <2>2. i + 1 \in DOMAIN q /\ r[i] = q[i + 1] /\ i + 1 # 1
    BY <1>8, <2>1
  <2>3. CASE j = Len(q)
    <3>1. Follows(q[1], q[i + 1])
      BY <1>4, <2>2
    <3>2. r[j] = node
      BY <1>7, <2>3
    <3>3. q[i + 1] \in Node
      BY <2>2
    <3>4. q[i + 1].num \in Nat /\ q[i + 1].cnt \in Nat
      BY <3>3, NodeType
    <3>5. Follows(q[i + 1], node)
      BY <3>1, <3>4, <1>3, <1>5 DEF Follows
    <3> QED BY <3>5, <3>2, <2>2
  <2>4. CASE j # Len(q)
    <3>1. j \in 1..(Len(q) - 1)
      BY <2>1, <2>4, <1>9
    <3>2. j + 1 \in DOMAIN q /\ r[j] = q[j + 1] /\ i + 1 < j + 1
      BY <3>1, <1>8, <1>9, <2>1
    <3> QED BY <2>2, <3>2 DEF Rounds
  <2> QED BY <2>3, <2>4
<1>10. Rounds(r)
  BY <1>9 DEF Rounds
<1> QED BY <1>7, <1>8, <1>10 DEF r, node

(* With one peer and dtls_check_retransmit all nodes are due together and  *)
(* all are sent again, or dropped, in one call.                            *)
LEMMA CheckRounds ==
  ASSUME queue \in Seq(Node), Rounds(queue), Uniform(queue)
  PROVE  Rounds(CheckRetransmit) /\ Uniform(CheckRetransmit)
<1> DEFINE n == Len(queue)
<1>0. n \in Nat /\ DOMAIN queue = 1..n
  OBVIOUS
<1>1. PICK f : /\ f[0] = queue
               /\ \A i \in 1..n : f[i] = Turn(f[i - 1])
               /\ CheckRetransmit = f[n]
  BY CheckIs
<1>2. CASE n = 0
  BY <1>1, <1>2
<1>3. CASE n # 0 /\ queue[1].rem # 0
  <2> DEFINE S == {i \in Nat : i <= n => f[i] = queue}
  <2>1. Turn(queue) = queue
    <3>1. Head(queue) = queue[1]
      BY <1>3
    <3> QED BY <3>1, <1>3 DEF Turn
  <2> HIDE DEF n
  <2>2. 0 \in S
    BY <1>1
  <2>3. ASSUME NEW i \in Nat, i \in S PROVE i + 1 \in S
    <3> SUFFICES ASSUME i + 1 <= n PROVE f[i + 1] = queue
      OBVIOUS
    <3>1. i <= n /\ i + 1 \in 1..n /\ (i + 1) - 1 = i
      BY <1>0
    <3> QED BY <3>1, <2>1, <2>3, <1>1
  <2>4. n \in S
    <3> HIDE DEF S
    <3> QED BY <1>0, <2>2, <2>3, SetInduction
  <2> QED BY <2>4, <1>0, <1>1
<1>4. CASE n # 0 /\ queue[1].rem = 0
  <2> DEFINE c == queue[1].cnt
             Good(x, i) ==
               /\ x \in Seq(Node) /\ Rounds(x) /\ Len(x) >= n - i
               /\ \A j \in 1..(n - i) : x[j].cnt = c /\ x[j].rem = 0
               /\ \A j \in DOMAIN x : j > n - i => x[j].cnt = c + 1
  <2>1. c \in Nat /\ c <= MaxRetransmit /\ MaxRetransmit \in Nat
    <3>1. queue[1] \in Node
      BY <1>4
    <3> QED BY <3>1, NodeType, QueueAssumption
  <2>2. Good(queue, 0)
    <3>1. \A j \in 1..n : queue[j].cnt = c /\ queue[j].rem = 0
      <4> SUFFICES ASSUME NEW j \in 1..n
                   PROVE  queue[j].cnt = c /\ queue[j].rem = 0
        OBVIOUS
      <4>1. 1 \in DOMAIN queue /\ j \in DOMAIN queue /\ (j = 1 \/ 1 < j)
        BY <1>0, <1>4
      <4>2. queue[j].cnt = c
        BY <4>1 DEF Uniform
      <4>3. ASSUME 1 < j PROVE queue[j].rem = 0
        <5>1. Follows(queue[1], queue[j])
          BY <4>1, <4>3 DEF Rounds
        <5> QED BY <5>1, <4>2, <1>4, <2>1 DEF Follows
      <4> QED BY <4>1, <4>2, <4>3, <1>4
    <3> QED BY <3>1, <1>0
  <2>3. ASSUME NEW x, NEW i \in Nat, i + 1 <= n, Good(x, i)
        PROVE  Good(Turn(x), i + 1)
    <3>1. n - i >= 1 /\ n - (i + 1) = (n - i) - 1 /\ n - i \in Nat
      BY <1>0, <2>3
    <3>2. x \in Seq(Node) /\ Len(x) >= 1 /\ Len(x) \in Nat /\ x # <<>>
      BY <2>3, <3>1
    <3>3. x[1].cnt = c /\ x[1].rem = 0 /\ x[1] \in Node
      BY <2>3, <3>1, <3>2
    <3>4. CASE c = MaxRetransmit
      <4>1. Turn(x) = Tail(x)
        BY <3>2, <3>3, <3>4, <2>1, TurnIs
      <4>2. /\ Tail(x) \in Seq(Node) /\ Len(Tail(x)) = Len(x) - 1
            /\ \A j \in 1..(Len(x) - 1) : Tail(x)[j] = x[j + 1]
            /\ Remains(x, Tail(x), [j \in DOMAIN Tail(x) |-> j + 1])
        BY <3>2, TailRemains
      <4>3. Rounds(Tail(x))
        BY <3>2, <2>3, <4>2, RemainsKeeps
      <4>4. ASSUME NEW j \in 1..(n - (i + 1))
            PROVE  Tail(x)[j].cnt = c /\ Tail(x)[j].rem = 0
        <5>1. j + 1 \in 1..(n - i) /\ j \in 1..(Len(x) - 1)
          BY <3>1, <3>2, <2>3
        <5> QED BY <5>1, <4>2, <2>3
      <4>5. ASSUME NEW j \in DOMAIN Tail(x), j > n - (i + 1)
            PROVE  Tail(x)[j].cnt = c + 1
        <5>1. j \in 1..(Len(x) - 1)
          BY <4>2
        <5>2. j + 1 > n - i /\ j + 1 \in DOMAIN x
          BY <5>1, <4>5, <3>1, <3>2
        <5> QED BY <5>1, <5>2, <4>2, <2>3
      <4>6. Len(Tail(x)) >= n - (i + 1)
        BY <4>2, <3>1, <3>2, <2>3
      <4> QED BY <4>1, <4>2, <4>3, <4>4, <4>5, <4>6
    <3>5. CASE c < MaxRetransmit
      <4>1. /\ Turn(x) \in Seq(Node) /\ Len(Turn(x)) = Len(x)
            /\ \A j \in 1..(Len(x) - 1) : Turn(x)[j] = x[j + 1]
            /\ Turn(x)[Len(x)] = Again(x[1])
            /\ Rounds(Turn(x))
        BY <3>2, <3>3, <3>5, <2>3, TurnRounds
      <4>2. Again(x[1]).cnt = c + 1
        BY <3>3, <3>5, AgainType
      <4> DEFINE y == Turn(x)
      <4> HIDE DEF y
      <4>4. ASSUME NEW j \in 1..(n - (i + 1))
            PROVE  y[j].cnt = c /\ y[j].rem = 0
        <5>1. j + 1 \in 1..(n - i) /\ j \in 1..(Len(x) - 1)
          BY <3>1, <3>2, <2>3
        <5> QED BY <5>1, <4>1, <2>3 DEF y
      <4>5. ASSUME NEW j \in DOMAIN y, j > n - (i + 1)
            PROVE  y[j].cnt = c + 1
        <5>1. j \in 1..Len(x)
          BY <4>1 DEF y
        <5>2. CASE j = Len(x)
          BY <5>2, <4>1, <4>2 DEF y
        <5>3. CASE j # Len(x)
          <6>1. j + 1 > n - i /\ j + 1 \in DOMAIN x /\ j \in 1..(Len(x) - 1)
            BY <5>1, <5>3, <4>5, <3>1, <3>2
          <6> QED BY <6>1, <4>1, <2>3 DEF y
        <5> QED BY <5>2, <5>3
      <4>6. Len(y) >= n - (i + 1)
        BY <4>1, <3>1, <3>2, <2>3 DEF y
      <4>7. y \in Seq(Node) /\ Rounds(y)
        BY <4>1 DEF y
      <4>8. Good(y, i + 1)
        BY <4>4, <4>5, <4>6, <4>7
      <4> QED BY <4>8 DEF y
    <3> QED BY <3>4, <3>5, <2>1
  <2> DEFINE S == {i \in Nat : i <= n => Good(f[i], i)}
  <2> HIDE DEF n, Good
  <2>4. 0 \in S
    BY <2>2, <1>1
  <2>5. ASSUME NEW i \in Nat, i \in S PROVE i + 1 \in S
    <3> SUFFICES ASSUME i + 1 <= n PROVE Good(f[i + 1], i + 1)
      OBVIOUS
    <3>1. i <= n /\ i + 1 \in 1..n /\ (i + 1) - 1 = i
      BY <1>0
    <3>2. Good(f[i], i) /\ f[i + 1] = Turn(f[i])
      BY <3>1, <2>5, <1>1
    <3> QED BY <3>2, <2>3
  <2>6. n \in S
    <3> HIDE DEF S
    <3> QED BY <1>0, <2>4, <2>5, SetInduction
  <2>7. Good(CheckRetransmit, n)
    BY <2>6, <1>0, <1>1
  <2>8. /\ CheckRetransmit \in Seq(Node) /\ Rounds(CheckRetransmit)
        /\ \A j \in DOMAIN CheckRetransmit : j > 0 => CheckRetransmit[j].cnt = c + 1
    <3>1. n - n = 0
      BY <1>0
    <3> QED BY <2>7, <3>1 DEF Good
  <2>9. \A j \in DOMAIN CheckRetransmit : j > 0
    BY <2>8
  <2> QED BY <2>8, <2>9 DEF Uniform
<1> QED BY <1>2, <1>3, <1>4

-----------------------------------------------------------------------------
(* The invariant *)

(* The types of the variables and of the bounds, spelt out.                *)
LEMMA StateFacts ==
  ASSUME TypeOK
  PROVE  /\ use \in Uses /\ use.peers \subseteq Peers /\ use.callers \subseteq Peers
         /\ queue \in Seq(Node) /\ Len(queue) <= MaxNodes
         /\ flights \in Nat /\ flights <= MaxFlights /\ etimer \in 0..Idle
         /\ MaxNodes \in Nat /\ MaxFlight \in Nat /\ MaxFlights \in Nat
         /\ Longest \in Nat /\ Timeout = 2 /\ Timeout <= Longest
         /\ Limit \in Nat /\ Longest <= Limit
         /\ Idle = Longest + 1
<1>1. /\ MaxNodes \in Nat /\ MaxFlight \in Nat /\ MaxFlights \in Nat
      /\ MaxRetransmit \in Nat
  BY QueueAssumption
<1>2. /\ use \in Uses /\ queue \in Seq(Node) /\ Len(queue) <= MaxNodes
      /\ flights \in Nat /\ flights <= MaxFlights /\ etimer \in 0..Idle
  BY <1>1 DEF TypeOK
<1>3. use.peers \subseteq Peers /\ use.callers \subseteq Peers
  BY <1>2, QueueAssumption
<1>4. Longest \in Nat /\ Timeout = 2 /\ Timeout <= Longest
  BY <1>1, IntervalType, IntervalGrows DEF Longest, Timeout
<1>5. Limit \in Nat /\ Longest <= Limit
  BY <1>2, <1>4 DEF Limit
<1> QED BY <1>1, <1>2, <1>3, <1>4, <1>5 DEF Idle

(* A larger bound bounds as well.                                          *)
LEMMA BoundedMore ==
  ASSUME NEW q \in Seq(Node), NEW a \in Nat, NEW b \in Nat, a <= b, Bounded(q, a)
  PROVE  Bounded(q, b)
<1> SUFFICES ASSUME NEW i \in DOMAIN q, NEW j \in 1..i
             PROVE  q[j].rem + q[i].idle <= b
  BY DEF Bounded
<1>1. q[j].rem + q[i].idle <= a
  BY DEF Bounded
<1>2. j \in DOMAIN q
  OBVIOUS
<1>3. q[j] \in Node /\ q[i] \in Node
  BY <1>2
<1>4. q[j].rem \in Nat /\ q[i].idle \in Nat
  BY <1>3, NodeType
<1> QED BY <1>1, <1>4

(* The empty queue satisfies the invariant.                                *)
LEMMA InitInv == Init => IInv
<1> SUFFICES ASSUME Init PROVE IInv
  OBVIOUS
<1>1. queue = <<>> /\ use \in Uses /\ etimer = Idle /\ flights = 0
  BY DEF Init
<1>2. /\ MaxNodes \in Nat /\ MaxFlight \in Nat /\ MaxFlights \in Nat
      /\ Longest \in Nat
  BY QueueAssumption, IntervalType DEF Longest
<1>3. TypeOK
  BY <1>1, <1>2 DEF TypeOK, Idle
<1>4. DOMAIN queue = {} /\ queue = <<>>
  BY <1>1
<1>5. Numbered(queue, flights * MaxFlight) /\ Unique(queue) /\ Waited(queue)
  BY <1>4 DEF Numbered, Unique, Waited
<1>6. LatencyInv
  BY <1>4 DEF LatencyInv, Bounded, IdleFor
<1>7. OrderInv
  BY <1>4 DEF OrderInv, Rounds, Uniform
<1> QED BY <1>3, <1>5, <1>6, <1>7 DEF IInv

(* Facts of arithmetic. *)
LEMMA Product ==
  ASSUME NEW a \in Nat, NEW b \in Nat
  PROVE  a * b \in Nat /\ (a + 1) * b = a * b + b
OBVIOUS

(* ... and of differences. *)
LEMMA Difference ==
  ASSUME NEW a \in Nat, NEW b \in Nat, NEW c \in Nat, a <= b, b <= c
  PROVE  c - a \in Nat
OBVIOUS

(* A node that is due one unit earlier and has waited at most one longer.  *)
LEMMA Aged ==
  ASSUME NEW r \in Nat, NEW w \in Nat, NEW v \in Nat, NEW l \in Nat,
         r # 0, r + w <= l, v <= w + 1
  PROVE  (r - 1) + v <= l
OBVIOUS

(* A flight keeps the invariant: what it answers is taken from the queue,  *)
(* its messages are the youngest and wait the shortest interval.           *)
LEMMA HandshakeInv ==
  ASSUME IInv, NEW p \in use.peers, NEW n \in 0..MaxFlight, HandshakeMsg(p, n)
  PROVE  IInv'
<1> DEFINE base == flights * MaxFlight
           stopped == StopRetransmission(queue, p)
           q == queue'
<1>1. /\ TypeOK /\ Numbered(queue, base) /\ Unique(queue) /\ Waited(queue)
      /\ LatencyInv /\ OrderInv
  BY DEF IInv
<1>2. /\ flights < MaxFlights /\ flights' = flights + 1 /\ use' = use
      /\ q = Flight(stopped, p, n)
      /\ etimer' = SetEtimer(stopped, q)
  BY DEF HandshakeMsg
<1>3. /\ use \in Uses /\ p \in Peers /\ queue \in Seq(Node) /\ Len(queue) <= MaxNodes
      /\ flights \in Nat /\ etimer \in 0..Idle
      /\ MaxNodes \in Nat /\ MaxFlight \in Nat /\ MaxFlights \in Nat
      /\ Longest \in Nat /\ Timeout = 2 /\ Timeout <= Longest
      /\ Limit \in Nat /\ Longest <= Limit /\ Idle = Longest + 1
  BY <1>1, StateFacts
<1>4. base \in Nat /\ base + n \in Nat /\ base + n <= flights' * MaxFlight
  <2>1. base \in Nat /\ flights' * MaxFlight = base + MaxFlight
    BY <1>2, <1>3, Product
  <2> HIDE DEF base
  <2> QED BY <1>3, <2>1
<1>5. /\ Limit' \in Nat /\ Longest <= Limit' /\ Limit <= Limit'
      /\ Contiki => Limit' = Limit + 2
      /\ Contiki => Limit >= Longest /\ Limit' >= Idle
  BY <1>2, <1>3 DEF Limit, Contiki
<1>6. PICK pos : /\ Remains(queue, stopped, pos)
                 /\ Len(stopped) <= Len(queue)
                 /\ \A i \in DOMAIN stopped : stopped[i].peer # p
  BY <1>3, StopIs
<1>7. stopped \in Seq(Node) /\ Len(stopped) <= MaxNodes
  <2>1. stopped \in Seq(Node)
    BY <1>6 DEF Remains
  <2>2. Len(stopped) \in Nat /\ Len(queue) \in Nat
    BY <1>3, <2>1
  <2> QED BY <1>3, <1>6, <2>1, <2>2
<1> HIDE DEF base
<1>8. /\ Unique(stopped) /\ Numbered(stopped, base) /\ Waited(stopped)
      /\ Bounded(queue, Limit) => Bounded(stopped, Limit)
      /\ \A y \in Nat : IdleFor(queue, y) => IdleFor(stopped, y)
  BY <1>1, <1>3, <1>4, <1>6, RemainsKeeps
<1>9. Bounded(queue, Limit) => Bounded(stopped, Limit')
  BY <1>3, <1>5, <1>7, <1>8, BoundedMore
<1>10. /\ q \in Seq(Node) /\ Len(q) <= MaxNodes
       /\ Numbered(q, base + n) /\ Unique(q) /\ Waited(q)
       /\ Bounded(stopped, Limit') => Bounded(q, Limit')
       /\ \A y \in Nat : IdleFor(stopped, y) => IdleFor(q, y)
       /\ Unsent(stopped, p) => Unsent(q, p)
  BY <1>2, <1>3, <1>5, <1>7, <1>8, FlightKeeps DEF base
<1> HIDE DEF stopped
<1>11. etimer' \in {etimer, Timeout}
  BY <1>2 DEF SetEtimer
<1>12. TypeOK'
  <2>1. etimer' \in 0..Idle
    BY <1>3, <1>11
  <2>2. flights' \in 0..MaxFlights
    BY <1>2, <1>3
  <2> QED BY <1>2, <1>3, <1>10, <2>1, <2>2 DEF TypeOK, Node, Idle, Longest
<1>13. Numbered(queue, flights * MaxFlight)'
  <2>1. \A i \in DOMAIN q : q[i] \in Node
    BY <1>10
  <2>2. \A i \in DOMAIN q : q[i].num \in Nat
    BY <2>1, NodeType
  <2>3. \A i \in DOMAIN q : q[i].num <= flights' * MaxFlight
    <3>1. flights' * MaxFlight \in Nat
      BY <1>2, <1>3
    <3> QED BY <3>1, <2>2, <1>4, <1>10 DEF Numbered
  <2> QED BY <2>3 DEF Numbered
<1>14. LatencyInv'
  <2> SUFFICES ASSUME use.served # "late"
               PROVE  Bounded(q, Limit') /\ (Contiki => IdleFor(q, Limit' - etimer'))
    BY <1>2 DEF LatencyInv, Bounded, IdleFor, Contiki
  <2>1. Bounded(queue, Limit) /\ (Contiki => IdleFor(queue, Limit - etimer))
    BY <1>1 DEF LatencyInv
  <2>2. Bounded(q, Limit')
    BY <2>1, <1>9, <1>10
  <2>3. ASSUME Contiki PROVE IdleFor(q, Limit' - etimer')
    <3>1. Limit' - etimer' \in Nat
      <4>1. etimer' \in Nat /\ etimer' <= Idle
        BY <1>3, <1>11
      <4>2. Idle <= Limit' /\ Limit' \in Nat /\ Idle \in Nat
        BY <2>3, <1>3, <1>5
      <4> QED BY <4>1, <4>2, Difference
    <3>2. IdleFor(queue, Limit' - etimer')
      <4> SUFFICES ASSUME NEW i \in DOMAIN queue
                   PROVE  queue[i].idle <= Limit' - etimer'
        BY DEF IdleFor
      <4>1. queue[i] \in Node /\ i \in 1..i
        BY <1>3
      <4>2. queue[i].idle \in Nat /\ queue[i].rem \in Nat
        BY <4>1, NodeType
      <4>3. queue[i].rem + queue[i].idle <= Limit
        BY <2>1, <4>1 DEF Bounded
      <4>4. queue[i].idle <= Limit - etimer
        BY <2>1, <2>3 DEF IdleFor
      <4> QED BY <4>2, <4>3, <4>4, <2>3, <1>3, <1>5, <1>11
    <3> QED BY <3>1, <3>2, <1>8, <1>10
  <2> QED BY <2>2, <2>3
<1>15. OrderInv'
  <2> SUFFICES ASSUME Alone
               PROVE  /\ \A i \in DOMAIN q : q[i].peer \in use.peers
                      /\ Rounds(q)
                      /\ Contiki /\ q # <<>> => etimer' = Head(q).rem
                      /\ Uniform(q)
    BY <1>2 DEF OrderInv, Alone, Rounds, Uniform, Contiki
  <2>1. use.peers = {p}
    BY DEF Alone
  <2>2. stopped = <<>>
    <3>1. \A i \in DOMAIN queue : queue[i].peer = p
      BY <2>1, <1>1 DEF OrderInv
    <3>2. \A i \in DOMAIN stopped : FALSE
      BY <3>1, <1>6 DEF Remains
    <3>3. ~(1 \in DOMAIN stopped)
      BY <3>2
    <3>4. Len(stopped) = 0
      BY <3>3, <1>7
    <3> QED BY <3>4, <1>7
  <2>3. Unsent(q, p)
    <3>1. Unsent(<<>>, p)
      BY DEF Unsent
    <3> QED BY <3>1, <2>2, <1>10
  <2>4. \A i \in DOMAIN q : q[i].peer \in use.peers
    BY <2>1, <2>3 DEF Unsent
  <2>5. Rounds(q) /\ Uniform(q)
    BY <2>3 DEF Unsent, Rounds, Uniform, Follows
  <2>6. ASSUME Contiki, q # <<>> PROVE etimer' = Head(q).rem
    <3>1. 1 \in DOMAIN q /\ Head(q) = q[1] /\ Len(q) > 0
      BY <2>6, <1>10
    <3>2. Len(stopped) = 0
      BY <2>2
    <3> QED BY <3>1, <3>2, <2>3, <2>6, <1>2 DEF Unsent, SetEtimer
  <2> QED BY <2>4, <2>5, <2>6
<1> QED BY <1>10, <1>12, <1>13, <1>14, <1>15 DEF IInv, Unique, Waited

(* A renegotiation keeps the invariant.                                    *)
LEMMA RenegotiateInv ==
  ASSUME IInv, NEW p \in use.callers, Renegotiate(p)
  PROVE  IInv'
<1> DEFINE base == flights * MaxFlight
           q == queue'
<1>1. /\ TypeOK /\ Numbered(queue, base) /\ Unique(queue) /\ Waited(queue)
      /\ LatencyInv
  BY DEF IInv
<1>2. /\ flights < MaxFlights /\ flights' = flights + 1 /\ use' = use
      /\ q = SendMulti(queue, p, base + 1)
      /\ etimer' = SetEtimer(queue, q)
  BY DEF Renegotiate
<1>3. /\ use \in Uses /\ p \in Peers /\ queue \in Seq(Node) /\ Len(queue) <= MaxNodes
      /\ flights \in Nat /\ etimer \in 0..Idle
      /\ MaxNodes \in Nat /\ MaxFlight \in Nat /\ MaxFlights \in Nat
      /\ Longest \in Nat /\ Timeout = 2 /\ Timeout <= Longest
      /\ Limit \in Nat /\ Longest <= Limit /\ Idle = Longest + 1
  BY <1>1, StateFacts
<1>4. base \in Nat /\ flights' * MaxFlight = base + MaxFlight
  BY <1>2, <1>3
<1>5. /\ Limit' \in Nat /\ Longest <= Limit' /\ Limit <= Limit'
      /\ Contiki => Limit' = Limit + 2
      /\ Contiki => Limit >= Longest /\ Limit' >= Idle
  BY <1>2, <1>3 DEF Limit, Contiki
<1>6. MaxFlight > 0 /\ base + 1 \in 1..(MaxFlights * MaxFlight)
  <2>1. MaxFlight > 0
    BY QueueAssumption
  <2> QED BY <2>1, <1>2, <1>3
<1>7. Bounded(queue, Limit) => Bounded(queue, Limit')
  BY <1>3, <1>5, BoundedMore
<1> HIDE DEF base
<1>8. /\ q \in Seq(Node) /\ Len(q) <= MaxNodes
      /\ Numbered(q, base + 1) /\ Unique(q) /\ Waited(q)
      /\ Bounded(queue, Limit') => Bounded(q, Limit')
      /\ \A y \in Nat : IdleFor(queue, y) => IdleFor(q, y)
  BY <1>1, <1>2, <1>3, <1>4, <1>5, <1>6, SendMultiKeeps
<1>9. etimer' \in {etimer, Timeout}
  BY <1>2 DEF SetEtimer
<1>10. TypeOK'
  <2>1. etimer' \in 0..Idle
    BY <1>3, <1>9
  <2>2. flights' \in 0..MaxFlights
    BY <1>2, <1>3
  <2> QED BY <1>2, <1>3, <1>8, <2>1, <2>2 DEF TypeOK, Node, Idle, Longest
<1>11. Numbered(queue, flights * MaxFlight)'
  <2>1. \A i \in DOMAIN q : q[i] \in Node
    BY <1>8
  <2>2. \A i \in DOMAIN q : q[i].num \in Nat
    BY <2>1, NodeType
  <2>3. \A i \in DOMAIN q : q[i].num <= flights' * MaxFlight
    BY <2>2, <1>3, <1>4, <1>6, <1>8 DEF Numbered
  <2> QED BY <2>3 DEF Numbered
<1>12. LatencyInv'
  <2> SUFFICES ASSUME use.served # "late"
               PROVE  Bounded(q, Limit') /\ (Contiki => IdleFor(q, Limit' - etimer'))
    BY <1>2 DEF LatencyInv, Bounded, IdleFor, Contiki
  <2>1. Bounded(queue, Limit) /\ (Contiki => IdleFor(queue, Limit - etimer))
    BY <1>1 DEF LatencyInv
  <2>2. Bounded(q, Limit')
    BY <2>1, <1>7, <1>8
  <2>3. ASSUME Contiki PROVE IdleFor(q, Limit' - etimer')
    <3>1. Limit' - etimer' \in Nat
      <4>1. etimer' \in Nat /\ etimer' <= Idle
        BY <1>3, <1>9
      <4>2. Idle <= Limit' /\ Limit' \in Nat /\ Idle \in Nat
        BY <2>3, <1>3, <1>5
      <4> QED BY <4>1, <4>2, Difference
    <3>2. IdleFor(queue, Limit' - etimer')
      <4> SUFFICES ASSUME NEW i \in DOMAIN queue
                   PROVE  queue[i].idle <= Limit' - etimer'
        BY DEF IdleFor
      <4>1. queue[i] \in Node /\ i \in 1..i
        BY <1>3
      <4>2. queue[i].idle \in Nat /\ queue[i].rem \in Nat
        BY <4>1, NodeType
      <4>3. queue[i].rem + queue[i].idle <= Limit
        BY <2>1, <4>1 DEF Bounded
      <4>4. queue[i].idle <= Limit - etimer
        BY <2>1, <2>3 DEF IdleFor
      <4> QED BY <4>2, <4>3, <4>4, <2>3, <1>3, <1>5, <1>9
    <3> QED BY <3>1, <3>2, <1>8
  <2> QED BY <2>2, <2>3
<1>13. OrderInv'
  BY <1>2 DEF OrderInv, Alone
<1> QED BY <1>8, <1>10, <1>11, <1>12, <1>13 DEF IInv, Unique, Waited

(* The loop of dtls_check_retransmit keeps the invariant.                  *)
LEMMA CheckInv ==
  ASSUME IInv, Check
  PROVE  IInv'
<1> DEFINE base == flights * MaxFlight
           q == queue'
<1>1. /\ TypeOK /\ Numbered(queue, base) /\ Unique(queue) /\ Waited(queue)
      /\ LatencyInv /\ OrderInv
  BY DEF IInv
<1>2. /\ ~Contiki /\ q = CheckRetransmit
      /\ use' = use /\ etimer' = etimer /\ flights' = flights
  BY DEF Check
<1>3. /\ use \in Uses /\ queue \in Seq(Node) /\ Len(queue) <= MaxNodes
      /\ flights \in Nat /\ flights <= MaxFlights /\ etimer \in 0..Idle
      /\ MaxNodes \in Nat /\ MaxFlight \in Nat /\ MaxFlights \in Nat
      /\ Longest \in Nat /\ Limit \in Nat /\ Longest <= Limit
  BY <1>1, StateFacts
<1>4. base \in Nat
  BY <1>3
<1> HIDE DEF base
<1>5. /\ q \in Seq(Node) /\ Len(q) <= Len(queue)
      /\ Unique(q) /\ Numbered(q, base) /\ Waited(q)
      /\ Bounded(queue, Limit) => Bounded(q, Limit)
      /\ From(queue, q)
  BY <1>1, <1>2, <1>3, <1>4, CheckKeeps
<1>6. TypeOK'
  <2>1. Len(q) <= MaxNodes
    <3>1. Len(q) \in Nat /\ Len(queue) \in Nat
      BY <1>3, <1>5
    <3> QED BY <3>1, <1>3, <1>5
  <2> QED BY <1>2, <1>3, <1>5, <2>1 DEF TypeOK, Node, Idle, Longest
<1>7. Limit' = Limit
  BY <1>2 DEF Limit, Contiki
<1>8. LatencyInv'
  BY <1>1, <1>2, <1>5, <1>7 DEF LatencyInv, Bounded, Contiki
<1>9. OrderInv'
  <2> SUFFICES ASSUME Alone
               PROVE  /\ \A i \in DOMAIN q : q[i].peer \in use.peers
                      /\ Rounds(q) /\ Uniform(q)
    BY <1>2 DEF OrderInv, Alone, Rounds, Uniform, Contiki
  <2>1. /\ \A i \in DOMAIN queue : queue[i].peer \in use.peers
        /\ Rounds(queue) /\ Uniform(queue)
    BY <1>1, <1>2 DEF OrderInv
  <2>2. Rounds(q) /\ Uniform(q)
    BY <1>2, <1>3, <2>1, CheckRounds
  <2>3. ASSUME NEW j \in DOMAIN q PROVE q[j].peer \in use.peers
    <3>1. PICK i \in DOMAIN queue :
            \/ q[j] = queue[i]
            \/ queue[i].cnt < MaxRetransmit /\ q[j] = Again(queue[i])
      BY <1>5 DEF From
    <3>2. queue[i] \in Node
      BY <1>3
    <3>3. queue[i].cnt < MaxRetransmit => Again(queue[i]).peer = queue[i].peer
      BY <3>2, AgainType
    <3> QED BY <3>1, <3>3, <2>1
  <2> QED BY <2>2, <2>3
<1>10. Numbered(queue, flights * MaxFlight)'
  BY <1>2, <1>5 DEF base, Numbered
<1> QED BY <1>5, <1>6, <1>8, <1>9, <1>10 DEF IInv, Unique, Waited

(* An event of the Contiki process keeps the invariant.                    *)
LEMMA ProcessInv ==
  ASSUME IInv, RetransmitProcess
  PROVE  IInv'
<1> DEFINE base == flights * MaxFlight
           q == queue'
<1>1. /\ TypeOK /\ Numbered(queue, base) /\ Unique(queue) /\ Waited(queue)
      /\ LatencyInv /\ OrderInv
  BY DEF IInv
<1>2. /\ Contiki /\ etimer = 0 /\ q = Turn(queue)
      /\ etimer' = IF q = <<>> THEN Idle ELSE Head(q).rem
      /\ use' = use /\ flights' = flights
  BY DEF RetransmitProcess
<1>3. /\ use \in Uses /\ queue \in Seq(Node) /\ Len(queue) <= MaxNodes
      /\ flights \in Nat /\ flights <= MaxFlights
      /\ MaxNodes \in Nat /\ MaxFlight \in Nat /\ MaxFlights \in Nat
      /\ Longest \in Nat /\ Limit \in Nat /\ Longest <= Limit /\ Idle = Longest + 1
  BY <1>1, StateFacts
<1>4. base \in Nat
  BY <1>3
<1> HIDE DEF base
<1>5. /\ q \in Seq(Node) /\ Len(q) <= Len(queue)
      /\ Unique(q) /\ Numbered(q, base) /\ Waited(q)
      /\ Bounded(queue, Limit) => Bounded(q, Limit)
      /\ \A j \in DOMAIN q : \E i \in DOMAIN queue :
           \/ q[j] = queue[i]
           \/ /\ queue[i].rem = 0 /\ queue[i].cnt < MaxRetransmit
              /\ q[j] = Again(queue[i])
  BY <1>1, <1>2, <1>3, <1>4, TurnKeeps
<1>6. q # <<>> => 1 \in DOMAIN q /\ Head(q) = q[1] /\ q[1] \in Node
  BY <1>5
<1>7. TypeOK'
  <2>1. Len(q) <= MaxNodes
    <3>1. Len(q) \in Nat /\ Len(queue) \in Nat
      BY <1>3, <1>5
    <3> QED BY <3>1, <1>3, <1>5
  <2>2. etimer' \in 0..Idle
    <3>1. CASE q = <<>>
      BY <3>1, <1>2, <1>3
    <3>2. CASE q # <<>>
      <4>1. etimer' \in Nat /\ etimer' <= Longest
        BY <3>2, <1>2, <1>6, NodeType
      <4> QED BY <4>1, <1>3
    <3> QED BY <3>1, <3>2
  <2> QED BY <1>2, <1>3, <1>5, <2>1, <2>2 DEF TypeOK, Node, Idle, Longest
<1>8. Limit' = Limit
  BY <1>2 DEF Limit, Contiki
<1>9. LatencyInv'
  <2> SUFFICES ASSUME use.served # "late"
               PROVE  Bounded(q, Limit) /\ IdleFor(q, Limit - etimer')
    BY <1>2, <1>8 DEF LatencyInv, Bounded, IdleFor, Contiki
  <2>1. Bounded(q, Limit)
    BY <1>1, <1>5 DEF LatencyInv
  <2>2. ASSUME NEW i \in DOMAIN q PROVE q[i].idle <= Limit - etimer'
    <3>1. q # <<>> /\ q[i] \in Node /\ 1 \in 1..i
      BY <1>5
    <3>2. etimer' = q[1].rem
      BY <3>1, <1>2, <1>6
    <3>3. q[1].rem + q[i].idle <= Limit
      BY <2>1, <3>1 DEF Bounded
    <3>4. q[i].idle \in Nat /\ q[1].rem \in Nat
      BY <3>1, <1>6, NodeType
    <3> QED BY <3>2, <3>3, <3>4, <1>3
  <2> QED BY <2>1, <2>2 DEF IdleFor
<1>10. OrderInv'
  <2> SUFFICES ASSUME Alone
               PROVE  /\ \A i \in DOMAIN q : q[i].peer \in use.peers
                      /\ Rounds(q)
                      /\ q # <<>> => etimer' = Head(q).rem
    BY <1>2 DEF OrderInv, Alone, Rounds, Contiki
  <2>1. /\ \A i \in DOMAIN queue : queue[i].peer \in use.peers
        /\ Rounds(queue)
    BY <1>1 DEF OrderInv
  <2>2. Rounds(q)
    <3>1. CASE q = queue
      BY <3>1, <2>1
    <3>2. CASE queue # <<>> /\ q = Tail(queue)
      <4>1. Remains(queue, Tail(queue), [i \in DOMAIN Tail(queue) |-> i + 1])
        BY <3>2, <1>3, TailRemains
      <4> QED BY <4>1, <3>2, <2>1, <1>3, <1>4, RemainsKeeps
    <3>3. CASE queue # <<>> /\ queue[1].rem = 0 /\ queue[1].cnt < MaxRetransmit
      BY <3>3, <2>1, <1>2, <1>3, TurnRounds
    <3> QED BY <3>1, <3>2, <3>3, <1>2, <1>3, TurnIs
  <2>3. ASSUME NEW j \in DOMAIN q PROVE q[j].peer \in use.peers
    <3>1. PICK i \in DOMAIN queue :
            \/ q[j] = queue[i]
            \/ queue[i].cnt < MaxRetransmit /\ q[j] = Again(queue[i])
      BY <1>5
    <3>2. queue[i] \in Node
      BY <1>3
    <3>3. queue[i].cnt < MaxRetransmit => Again(queue[i]).peer = queue[i].peer
      BY <3>2, AgainType
    <3> QED BY <3>1, <3>3, <2>1
  <2> QED BY <2>2, <2>3, <1>2
<1>11. Numbered(queue, flights * MaxFlight)'
  BY <1>2, <1>5 DEF base, Numbered
<1> QED BY <1>5, <1>7, <1>9, <1>10, <1>11 DEF IInv, Unique, Waited

(* Time that passes keeps the invariant: no node is due for longer than    *)
(* the timer and the application allow.                                    *)
LEMMA TickInv ==
  ASSUME IInv, Tick
  PROVE  IInv'
<1> DEFINE base == flights * MaxFlight
           q == queue'
<1>1. /\ TypeOK /\ Numbered(queue, base) /\ Unique(queue) /\ Waited(queue)
      /\ LatencyInv /\ OrderInv
  BY DEF IInv
<1>2. /\ queue # <<>>
      /\ use.served = "punctual" => Head(queue).rem > 0
      /\ Contiki => etimer > 0
      /\ etimer' = IF Contiki THEN etimer - 1 ELSE etimer
      /\ use' = use /\ flights' = flights
  BY DEF Tick
<1>0. q = [i \in DOMAIN queue |->
             [queue[i] EXCEPT !.rem = IF queue[i].rem = 0 THEN 0
                                      ELSE queue[i].rem - 1,
                              !.idle = IF queue[i].idle > Latest
                                       THEN queue[i].idle
                                       ELSE queue[i].idle + 1]]
  BY DEF Tick
<1>3. /\ use \in Uses /\ queue \in Seq(Node) /\ Len(queue) <= MaxNodes
      /\ flights \in Nat /\ flights <= MaxFlights /\ etimer \in 0..Idle
      /\ MaxNodes \in Nat /\ MaxFlight \in Nat /\ MaxFlights \in Nat
      /\ Longest \in Nat /\ Limit \in Nat /\ Longest <= Limit /\ Idle = Longest + 1
  BY <1>1, StateFacts
<1>4. Latest \in Nat /\ Longest <= Latest
  BY <1>3 DEF Latest, Timeout
<1>5. DOMAIN q = DOMAIN queue /\ DOMAIN queue = 1..Len(queue)
  <2>1. DOMAIN q = DOMAIN queue
    BY <1>0
  <2> QED BY <1>3, <2>1
<1>6. ASSUME NEW i \in DOMAIN queue
      PROVE  /\ queue[i] \in Node /\ q[i] \in Node
             /\ q[i].peer = queue[i].peer /\ q[i].num = queue[i].num
             /\ q[i].cnt = queue[i].cnt
             /\ q[i].rem = IF queue[i].rem = 0 THEN 0 ELSE queue[i].rem - 1
             /\ q[i].idle = IF queue[i].idle > Latest THEN queue[i].idle
                            ELSE queue[i].idle + 1
             /\ queue[i].rem \in Nat /\ queue[i].rem <= Longest
             /\ queue[i].idle \in Nat
             /\ queue[i].num \in Nat
             /\ queue[i].cnt \in Nat /\ queue[i].cnt <= MaxRetransmit
  <2> DEFINE n == queue[i]
             rem == IF n.rem = 0 THEN 0 ELSE n.rem - 1
             idle == IF n.idle > Latest THEN n.idle ELSE n.idle + 1
  <2>1. n \in Node
    BY <1>3
  <2>2. /\ n.rem \in Nat /\ n.rem <= Longest /\ n.idle \in Nat
        /\ n.num \in Nat /\ n.cnt \in Nat /\ n.cnt <= MaxRetransmit
    BY <2>1, NodeType
  <2>3. q[i] = [n EXCEPT !.rem = rem, !.idle = idle]
    BY <1>0
  <2>4. rem \in 0..Longest /\ idle \in Nat
    BY <2>2, <1>3, <1>4
  <2> HIDE DEF n, rem, idle
  <2>5. [n EXCEPT !.rem = rem, !.idle = idle] \in Node
    BY <2>1, <2>4 DEF Node
  <2>6. /\ q[i].peer = n.peer /\ q[i].num = n.num /\ q[i].cnt = n.cnt
        /\ q[i].rem = rem /\ q[i].idle = idle
    BY <2>1, <2>3 DEF Node
  <2> QED BY <2>1, <2>2, <2>3, <2>5, <2>6 DEF n, rem, idle
<1> HIDE DEF q, base
<1>7. q \in Seq(Node) /\ Len(q) = Len(queue)
  <2>1. Len(queue) \in Nat
    BY <1>3
  <2>2. q \in [1..Len(queue) -> Node]
    <3>1. q = [i \in 1..Len(queue) |-> q[i]]
      BY <1>0, <1>5 DEF q
    <3>2. \A i \in 1..Len(queue) : q[i] \in Node
      BY <1>5, <1>6
    <3> QED BY <3>1, <3>2
  <2> QED BY <2>1, <2>2
<1>8. TypeOK'
  <2>1. etimer' \in 0..Idle
    <3>1. CASE Contiki
      BY <3>1, <1>2, <1>3
    <3>2. CASE ~Contiki
      BY <3>2, <1>2, <1>3
    <3> QED BY <3>1, <3>2
  <2>2. queue' \in Seq(Node) /\ Len(queue') <= MaxNodes
    BY <1>3, <1>7 DEF q
  <2> QED BY <1>2, <1>3, <2>1, <2>2 DEF TypeOK, Node, Idle, Longest
<1>9. Unique(q) /\ Numbered(q, base)
  BY <1>1, <1>5, <1>6 DEF Unique, Numbered
<1>10. Waited(q)
  <2> SUFFICES ASSUME NEW i \in DOMAIN queue
               PROVE  q[i].idle + q[i].rem >= Interval[q[i].cnt]
    BY <1>5 DEF Waited
  <2>1. queue[i].idle + queue[i].rem >= Interval[queue[i].cnt]
    BY <1>1 DEF Waited
  <2>2. MaxRetransmit \in Nat
    BY QueueAssumption
  <2>3. Interval[queue[i].cnt] \in Nat /\ Interval[queue[i].cnt] <= Longest
    BY <2>2, <1>6, IntervalGrows DEF Longest
  <2>4. CASE queue[i].idle > Latest
    <3>1. q[i].idle = queue[i].idle /\ q[i].rem \in Nat /\ q[i].cnt = queue[i].cnt
      BY <2>4, <1>6
    <3> QED BY <3>1, <2>3, <2>4, <1>3, <1>4, <1>6
  <2>5. CASE ~(queue[i].idle > Latest)
    <3>1. q[i].idle = queue[i].idle + 1 /\ q[i].cnt = queue[i].cnt
      BY <2>5, <1>6
    <3>2. q[i].rem \in Nat /\ q[i].rem >= queue[i].rem - 1 /\ queue[i].rem \in Nat
      BY <1>6
    <3> QED BY <3>1, <3>2, <2>1, <2>3, <1>6
  <2> QED BY <2>4, <2>5
<1>11. Limit' = Limit
  BY <1>2 DEF Limit, Contiki
<1>12. 1 \in DOMAIN queue /\ Head(queue) = queue[1]
  BY <1>2, <1>3
<1>13. LatencyInv'
  <2> SUFFICES ASSUME use.served # "late"
               PROVE  Bounded(q, Limit) /\ (Contiki => IdleFor(q, Limit - etimer'))
    BY <1>2, <1>11 DEF LatencyInv, Bounded, IdleFor, Contiki, q
  <2>1. Bounded(queue, Limit) /\ (Contiki => IdleFor(queue, Limit - etimer))
    BY <1>1 DEF LatencyInv
  <2>2. use.served = "punctual" \/ Contiki
    BY <1>3, QueueAssumption DEF Contiki
  <2>3. ASSUME NEW i \in DOMAIN queue PROVE queue[i].idle + 1 <= Limit
    <3>1. CASE use.served = "punctual"
      <4>1. 1 \in 1..i
        BY <1>5
      <4>2. queue[1].rem + queue[i].idle <= Limit
        BY <2>1, <4>1 DEF Bounded
      <4>3. queue[1].rem > 0 /\ queue[1].rem \in Nat /\ queue[i].idle \in Nat
        BY <3>1, <1>2, <1>6, <1>12
      <4> QED BY <4>2, <4>3, <1>3
    <3>2. CASE Contiki
      <4>1. queue[i].idle <= Limit - etimer
        BY <2>1, <3>2 DEF IdleFor
      <4> QED BY <4>1, <3>2, <1>2, <1>3, <1>6
    <3> QED BY <2>2, <3>1, <3>2
  <2>4. ASSUME NEW i \in DOMAIN queue
        PROVE  q[i].idle <= queue[i].idle + 1 /\ q[i].idle \in Nat
    BY <1>6
  <2>5. Bounded(q, Limit)
    <3> SUFFICES ASSUME NEW i \in DOMAIN queue, NEW j \in 1..i
                 PROVE  q[j].rem + q[i].idle <= Limit
      BY <1>5 DEF Bounded
    <3>1. j \in DOMAIN queue
      BY <1>5
    <3>2. queue[j].rem + queue[i].idle <= Limit
      BY <2>1 DEF Bounded
    <3>3. CASE queue[j].rem = 0
      <4>1. q[j].rem = 0
        BY <3>1, <3>3, <1>6
      <4> QED BY <4>1, <2>3, <2>4, <1>3, <1>6
    <3>4. CASE queue[j].rem # 0
      <4>1. q[j].rem = queue[j].rem - 1 /\ queue[j].rem \in Nat
        BY <3>1, <3>4, <1>6
      <4>2. queue[i].idle \in Nat /\ q[i].idle \in Nat /\ Limit \in Nat
        BY <1>3, <1>6, <2>4
      <4>3. q[i].idle <= queue[i].idle + 1 /\ queue[j].rem \in Nat
        BY <2>4, <4>1
      <4>4. (queue[j].rem - 1) + q[i].idle <= Limit
        BY <4>2, <4>3, <3>2, <3>4, Aged
      <4> QED BY <4>1, <4>4
    <3> QED BY <3>3, <3>4
  <2>6. ASSUME Contiki PROVE IdleFor(q, Limit - etimer')
    <3> SUFFICES ASSUME NEW i \in DOMAIN queue
                 PROVE  q[i].idle <= Limit - etimer'
      BY <1>5 DEF IdleFor
    <3>1. queue[i].idle <= Limit - etimer /\ etimer' = etimer - 1
      BY <2>1, <2>6, <1>2 DEF IdleFor
    <3>2. queue[i].idle \in Nat
      BY <1>6
    <3> QED BY <3>1, <3>2, <2>4, <1>3
  <2> QED BY <2>5, <2>6
<1>14. OrderInv'
  <2> SUFFICES ASSUME Alone
               PROVE  /\ \A i \in DOMAIN q : q[i].peer \in use.peers
                      /\ Rounds(q)
                      /\ Contiki /\ q # <<>> => etimer' = Head(q).rem
                      /\ ~Contiki => Uniform(q)
    BY <1>2 DEF OrderInv, Alone, Rounds, Uniform, Contiki, q
  <2>1. /\ \A i \in DOMAIN queue : queue[i].peer \in use.peers
        /\ Rounds(queue)
        /\ Contiki => etimer = queue[1].rem
        /\ ~Contiki => Uniform(queue)
    BY <1>1, <1>2, <1>12 DEF OrderInv
  <2>2. \A i \in DOMAIN q : q[i].peer \in use.peers
    BY <2>1, <1>5, <1>6
  <2>3. ~Contiki => Uniform(q)
    BY <2>1, <1>5, <1>6 DEF Uniform
  <2>4. ASSUME Contiki, q # <<>> PROVE etimer' = Head(q).rem
    <3>1. Head(q) = q[1]
      BY <2>4, <1>7
    <3>2. queue[1].rem = etimer /\ etimer > 0 /\ etimer' = etimer - 1
      BY <2>1, <2>4, <1>2
    <3>3. q[1].rem = IF queue[1].rem = 0 THEN 0 ELSE queue[1].rem - 1
      BY <1>6, <1>12
    <3> QED BY <3>1, <3>2, <3>3, <1>3
  <2>5. ASSUME NEW i \in DOMAIN queue, NEW j \in DOMAIN queue, i < j
        PROVE  Follows(q[i], q[j])
    <3>1. Follows(queue[i], queue[j])
      BY <2>1, <2>5 DEF Rounds
    <3>2. queue[j].cnt # queue[i].cnt + 1
      <4>1. CASE ~Contiki
        <5>1. queue[i].cnt = queue[j].cnt /\ queue[i].cnt \in Nat
          BY <4>1, <2>1, <1>6 DEF Uniform
        <5> QED BY <5>1
      <4>2. CASE Contiki
        <5>1. queue[1].rem > 0 /\ queue[1].rem \in Nat
          BY <4>2, <2>1, <1>2, <1>6, <1>12
        <5>2. queue[i].rem # 0
          <6>1. CASE i = 1
            BY <6>1, <5>1
          <6>2. CASE i # 1
            <7>1. 1 < i
              BY <6>2, <1>5
            <7>2. Follows(queue[1], queue[i])
              BY <7>1, <1>12, <2>1 DEF Rounds
            <7> QED BY <7>2, <5>1 DEF Follows
          <6> QED BY <6>1, <6>2
        <5>3. queue[i].cnt = queue[j].cnt /\ queue[i].cnt \in Nat
          BY <5>2, <3>1, <1>6 DEF Follows
        <5> QED BY <5>3
      <4> QED BY <4>1, <4>2
    <3>3. /\ queue[i].cnt = queue[j].cnt /\ queue[i].rem = queue[j].rem
          /\ queue[i].num < queue[j].num
      BY <3>1, <3>2 DEF Follows
    <3>4. q[i].cnt = q[j].cnt /\ q[i].rem = q[j].rem /\ q[i].num < q[j].num
      BY <3>3, <1>6
    <3> QED BY <3>4 DEF Follows
  <2>6. Rounds(q)
    BY <2>5, <1>5 DEF Rounds
  <2> QED BY <2>2, <2>3, <2>4, <2>6
<1> QED BY <1>2, <1>8, <1>9, <1>10, <1>13, <1>14
        DEF IInv, Unique, Waited, Numbered, q, base

(* The invariant holds in every state.                                     *)
LEMMA Invariant == Spec => []IInv
<1>1. IInv /\ [Next]_vars => IInv'
  <2> SUFFICES ASSUME IInv, [Next]_vars PROVE IInv'
    OBVIOUS
  <2>1. ASSUME NEW p \in use.peers, NEW n \in 0..MaxFlight, HandshakeMsg(p, n)
        PROVE  IInv'
    BY <2>1, HandshakeInv
  <2>2. ASSUME NEW p \in use.callers, Renegotiate(p) PROVE IInv'
    BY <2>2, RenegotiateInv
  <2>3. CASE Check
    BY <2>3, CheckInv
  <2>4. CASE RetransmitProcess
    BY <2>4, ProcessInv
  <2>5. CASE Tick
    BY <2>5, TickInv
  <2>6. CASE UNCHANGED vars
    <3>1. use' = use /\ queue' = queue /\ etimer' = etimer /\ flights' = flights
      BY <2>6 DEF vars
    <3> QED BY <3>1 DEF IInv, TypeOK, Numbered, Unique, Waited, LatencyInv,
                        OrderInv, Bounded, IdleFor, Limit, Contiki, Alone,
                        Rounds, Uniform
  <2> QED BY <2>1, <2>2, <2>3, <2>4, <2>5, <2>6 DEF Next
<1> QED BY <1>1, InitInv, PTL DEF Spec

(* netq.c and dtls_check_retransmit keep the types of the queue, with at   *)
(* most MaxNodes nodes, whatever they are called for.                      *)
THEOREM QueueTypeCorrect == Spec => []TypeOK
<1>1. IInv => TypeOK
  BY DEF IInv
<1> QED BY <1>1, Invariant, PTL

(* If the queue is served in time no node waits longer than the longest    *)
(* interval, and on Contiki one timeout more for each flight queued        *)
(* meanwhile: the bound is kept also for a node that netq_insert_node put  *)
(* behind nodes that are due later.                                        *)
THEOREM QueueLatency == Spec => []Latency
<1>1. IInv => Latency
  <2> SUFFICES ASSUME IInv, use.served # "late", NEW i \in DOMAIN queue
               PROVE  queue[i].idle <= Limit
    BY DEF Latency, Limit
  <2>1. /\ queue \in Seq(Node) /\ Limit \in Nat
        /\ Bounded(queue, Limit)
    BY StateFacts DEF IInv, LatencyInv
  <2>2. i \in 1..i /\ queue[i] \in Node
    BY <2>1
  <2>3. queue[i].rem + queue[i].idle <= Limit
    BY <2>1, <2>2 DEF Bounded
  <2>4. queue[i].rem \in Nat /\ queue[i].idle \in Nat
    BY <2>2, NodeType
  <2> QED BY <2>1, <2>3, <2>4
<1> QED BY <1>1, Invariant, PTL

(* With one peer and no renegotiation the queue is in the order of the     *)
(* time-stamps, and nodes that are due together are in the order of the    *)
(* flight, also while part of the flight has been sent again already.      *)
THEOREM QueueFlightOrder == Spec => []FlightOrder
<1>1. IInv => FlightOrder
  <2> SUFFICES ASSUME IInv, Alone, NEW i \in DOMAIN queue, NEW j \in DOMAIN queue,
                      i < j
               PROVE  \/ queue[i].rem < queue[j].rem
                      \/ queue[i].rem = queue[j].rem /\ queue[i].num < queue[j].num
    BY DEF FlightOrder
  <2>1. queue \in Seq(Node) /\ Rounds(queue)
    BY DEF IInv, TypeOK, OrderInv
  <2>2. Follows(queue[i], queue[j]) /\ queue[j] \in Node
    BY <2>1 DEF Rounds
  <2>3. queue[j].cnt \in Nat
    BY <2>2, NodeType
  <2>4. Interval[queue[j].cnt] \in Nat /\ Interval[queue[j].cnt] > 0
    BY <2>3, IntervalGrows
  <2> QED BY <2>2, <2>4 DEF Follows
<1> QED BY <1>1, Invariant, PTL

(* A node is not sent again before its interval has passed: what a due     *)
(* node has waited is at least the interval of its count, and the loop of  *)
(* dtls_check_retransmit sends each node once.                             *)
LEMMA BackoffStep ==
  ASSUME IInv, Check \/ RetransmitProcess,
         NEW i \in DOMAIN queue, NEW j \in DOMAIN queue',
         queue'[j].num = queue[i].num, queue'[j].cnt = queue[i].cnt + 1
  PROVE  queue[i].idle >= Interval[queue[i].cnt]
<1>1. /\ queue \in Seq(Node) /\ Limit \in Nat /\ Longest <= Limit
      /\ Unique(queue) /\ Waited(queue)
  BY StateFacts DEF IInv
<1>2. \E x \in DOMAIN queue :
        \/ queue'[j] = queue[x]
        \/ /\ queue[x].rem = 0 /\ queue[x].cnt < MaxRetransmit
           /\ queue'[j] = Again(queue[x])
  <2>1. CASE Check
    <3>1. queue' = CheckRetransmit
      BY <2>1 DEF Check
    <3>2. From(queue, CheckRetransmit)
      BY <1>1, CheckKeeps
    <3> QED BY <3>1, <3>2 DEF From
  <2>2. CASE RetransmitProcess
    <3>1. queue' = Turn(queue)
      BY <2>2 DEF RetransmitProcess
    <3> QED BY <3>1, <1>1, TurnKeeps
  <2> QED BY <2>1, <2>2
<1>3. PICK x \in DOMAIN queue :
        \/ queue'[j] = queue[x]
        \/ /\ queue[x].rem = 0 /\ queue[x].cnt < MaxRetransmit
           /\ queue'[j] = Again(queue[x])
  BY <1>2
<1>4. /\ queue[x] \in Node /\ queue[i] \in Node
      /\ queue[i].cnt \in Nat /\ queue[i].idle \in Nat
  BY <1>1, NodeType
<1>5. queue'[j].num = queue[x].num
  <2>1. Again(queue[x]).num = queue[x].num
    BY <1>4 DEF Again, Node
  <2> QED BY <2>1, <1>3
<1>6. x = i
  BY <1>5, <1>1 DEF Unique
<1>7. queue[i].rem = 0
  BY <1>3, <1>4, <1>6
<1>8. queue[i].idle + queue[i].rem >= Interval[queue[i].cnt]
  BY <1>1 DEF Waited
<1> QED BY <1>4, <1>7, <1>8

(* Exponential backoff, however the queue is served.                       *)
THEOREM QueueBackoff == Spec => Backoff
<1> DEFINE A == Check \/ RetransmitProcess => \A i, j \in DOMAIN queue :
                  (i \in DOMAIN queue /\ j \in DOMAIN queue'
                   /\ queue'[j].num = queue[i].num
                   /\ queue'[j].cnt = queue[i].cnt + 1)
                    => queue[i].idle >= Interval[queue[i].cnt]
<1>1. IInv => [A]_vars
  BY BackoffStep
<1> HIDE DEF A
<1>2. Spec => [][A]_vars
  BY <1>1, Invariant, PTL
<1> QED BY <1>2 DEF A, Backoff
=============================================================================
