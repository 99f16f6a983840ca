-------------------------- MODULE DtlsAsyncProofs --------------------------
(***************************************************************************)
(* The third of four modules about DtlsAsync: the loop over the reorder    *)
(* buffer, dtls_handle_message, the timer and the calls of the application *)
(* keep the contract Result; so the invariant IInv is inductive, and the   *)
(* properties of DtlsAsync follow from it, among them that it implements   *)
(* SessionAgreement, with what that specification implies.                 *)
(***************************************************************************)
EXTENDS DtlsHandlerProofs

-----------------------------------------------------------------------------
(* Outcomes *)

(* What changes nothing the contract is about has an outcome. *)
LEMMA SameOutcome ==
  ASSUME NEW s, NEW o, NEW x, NEW y, Good(s, o, x), Same(x, y),
         y.fate = x.fate, y.ev = x.ev, x.crashed => y.crashed
  PROVE  Outcome(s, o, x, y) /\ Kept(x, y)
<1>1. Good(s, o, y) /\ Kept(x, y) /\ (Guarded(x) => Guarded(y))
  BY SameKeeps
<1>2. y.h = x.h /\ y.peer = x.peer
  BY DEF Same
<1>3. Closed(x) => Closed(y)
  BY <1>2 DEF Closed
<1> QED BY <1>1, <1>2, <1>3 DEF Outcome

(* The end of the process. *)
LEMMA CrashSame ==
  ASSUME NEW x \in Endpoints,
         NEW f \in {"freed_peer", "null_peer", "null_queue"}
  PROVE  LET y == Crash(x, f)
         IN /\ Same(x, y) /\ y.crashed
            /\ y.fate = x.fate /\ y.ev = x.ev /\ y.ret = x.ret
<1> DEFINE y == Crash(x, f)
<1>1. y \in Endpoints
  BY DEF Crash, Endpoints
<1>2. /\ y.h = x.h /\ y.peer = x.peer /\ y.sendqueue = x.sendqueue
      /\ y.peers = x.peers /\ y.rnd = x.rnd /\ y.out = x.out /\ y.done = x.done
      /\ y.crashed /\ y.fate = x.fate /\ y.ev = x.ev /\ y.ret = x.ret
  BY DEF Crash, Endpoints
<1> HIDE DEF y
<1> QED BY <1>1, <1>2 DEF Same, y

(* One after the other, unless the first completes a session.              *)
LEMMA OutcomeTwice ==
  ASSUME NEW s, NEW o, NEW x, NEW y, NEW z,
         Outcome(s, o, x, y), Outcome(s, o, y, z), Kept(x, y)
  PROVE  Outcome(s, o, x, z)
<1>1. Kept(y, z) => Kept(x, z)
  BY DEF Kept
<1>2. Completes(s, o, y, z) => Completes(s, o, x, z)
  BY DEF Kept, Completes
<1>3. Mute(s, o.h) /\ Closed(x) => Closed(z)
  BY DEF Outcome
<1> QED BY <1>1, <1>2, <1>3 DEF Outcome

(* An assignment to the reorder queue, of messages q of the other side.    *)
WithQueue(x, q) == [x EXCEPT !.peer.hs.reorder_queue = q]
Mail(s, o, q) ==
  /\ IsFiniteSet(q) /\ q \subseteq Messages
  /\ \A m \in q : /\ Says(Other(s), o.h, o.done, m)
                  /\ \A n \in q : m.seq = n.seq => m = n

(* A new queue of mail of the other side changes nothing else.             *)
LEMMA QueueChanged ==
  ASSUME NEW s, NEW o, NEW x, Good(s, o, x), x.peer # NULL, x.peer.hs # NULL,
         NEW q, Mail(s, o, q)
  PROVE  LET y == WithQueue(x, q)
         IN /\ Outcome(s, o, x, y) /\ Kept(x, y) /\ y \in Endpoints
            /\ y.ret = x.ret /\ y.crashed = x.crashed
            /\ y.peer # NULL /\ y.peer.hs # NULL
            /\ y.peer.role = x.peer.role /\ y.peer.state = x.peer.state
            /\ y.peer.hs.reorder_queue = q
            /\ y.peer.hs.mseq_r = x.peer.hs.mseq_r
<1> DEFINE g == [x.peer.hs EXCEPT !.reorder_queue = q]
           y == [x EXCEPT !.peer.hs = g]
<1>1. x \in Endpoints /\ x.peer.hs \in Handshakes
  BY EndpointType, PeerType DEF Good
<1>2. /\ g \in Handshakes /\ g.reorder_queue = q
      /\ g.mseq_r = x.peer.hs.mseq_r
      /\ g.crand = x.peer.hs.crand /\ g.srand = x.peer.hs.srand
      /\ g.kx = x.peer.hs.kx /\ g.cipher = x.peer.hs.cipher
      /\ g.master = x.peer.hs.master /\ g.hash = x.peer.hs.hash
  BY <1>1 DEF Handshakes, Mail
<1>4. WithQueue(x, q) = y
  BY DEF WithQueue
<1> HIDE DEF g
<1>3. Queued(s, o, g)
  BY <1>2 DEF Queued, Mail
<1>5. /\ Good(s, o, y) /\ Top(x, y) /\ Alike(x.peer, y.peer)
      /\ y.peer # NULL /\ y.peer.hs = g /\ g # NULL
      /\ Guarded(x) => Guarded(y)
      /\ Kept(x, y)
  BY <1>2, <1>3, HsChanged
<1> HIDE DEF y
<1>6. Closed(x) => Closed(y)
  BY <1>5 DEF Closed, Alike
<1>7. Outcome(s, o, x, y)
  BY <1>5, <1>6 DEF Outcome, Top
<1> QED BY <1>2, <1>4, <1>5, <1>7 DEF Top, Alike, Good

-----------------------------------------------------------------------------
(* The loop of handle_handshake *)

Queue(x) ==
  IF HasHandshake(x) /\ x.peer.hs.reorder_queue # NULL
  THEN x.peer.hs.reorder_queue ELSE {}

(* The loop ends. *)
Over(x) == IsError(x) \/ x.crashed \/ NextBuffered(x) = {}

(* The buffered messages of a good endpoint are those of the other side.   *)
LEMMA QueueIs ==
  ASSUME NEW s, NEW o, NEW x, Good(s, o, x)
  PROVE  /\ Mail(s, o, Queue(x)) /\ Cardinality(Queue(x)) \in Nat
         /\ NextBuffered(x) \subseteq Queue(x)
<1>1. CASE HasHandshake(x) /\ x.peer.hs.reorder_queue # NULL
  <2>1. Queue(x) = x.peer.hs.reorder_queue
    BY <1>1 DEF Queue
  <2>2. Buffered(s, o, x) /\ x.peer # NULL /\ x.peer.hs # NULL
    BY <1>1 DEF Good, HasHandshake
  <2>3. IsFiniteSet(Queue(x))
    BY <1>1, <2>1, <2>2 DEF Buffered
  <2>4. \A m \in Queue(x) :
          /\ Says(Other(s), o.h, o.done, m)
          /\ \A n \in Queue(x) : m.seq = n.seq => m = n
    BY <1>1, <2>1, <2>2 DEF Buffered
  <2>5. NextBuffered(x) \subseteq Queue(x)
    BY <1>1, <2>1 DEF NextBuffered
  <2>6. Queue(x) \subseteq Messages
    BY <2>4 DEF Says
  <2> QED BY <2>3, <2>4, <2>5, <2>6, FS_CardinalityType DEF Mail
<1>2. CASE ~(HasHandshake(x) /\ x.peer.hs.reorder_queue # NULL)
  <2>1. Queue(x) = {} /\ NextBuffered(x) = {}
    BY <1>2 DEF Queue, NextBuffered
  <2> QED BY <2>1, FS_EmptySet DEF Mail
<1> QED BY <1>1, <1>2

(* One turn takes a message from the buffer. *)
LEMMA DrainOutcome ==
  ASSUME NEW s \in Side, NEW o, NEW x, Good(s, o, x)
  PROVE  LET y == Drain(x)
         IN /\ Over(x) => y = x
            /\ ~Over(x) =>
                 /\ Outcome(s, o, x, y)
                 /\ Kept(x, y) \/ Over(y)
                 /\ Cardinality(Queue(y)) + 1 <= Cardinality(Queue(x))
<1>1. Over(x) => Drain(x) = x
  BY DEF Over, Drain
<1>2. ASSUME ~Over(x)
      PROVE  /\ Outcome(s, o, x, Drain(x))
             /\ Kept(x, Drain(x)) \/ Over(Drain(x))
             /\ Cardinality(Queue(Drain(x))) + 1 <= Cardinality(Queue(x))
  <2> DEFINE m == CHOOSE m \in NextBuffered(x) : TRUE
             Q == Queue(x)
             R == Q \ {m}
             w == WithQueue(x, R)
             y == HandleHandshakeMsg(w, x.peer.role, x.peer.state, m)
  <2>1. m \in NextBuffered(x) /\ x.ret = "ok"
    BY <1>2 DEF Over, IsError
  <2>2. HasHandshake(x) /\ x.peer.hs.reorder_queue = Q
        /\ x.peer # NULL /\ x.peer.hs # NULL
    BY <2>1 DEF NextBuffered, Queue, HasHandshake
  <2>3. [x EXCEPT !.peer.hs.reorder_queue = @ \ {m}] = w
    BY <2>2 DEF WithQueue
  <2>4. Drain(x) = y
    BY <1>2, <2>3 DEF Over, Drain
  <2> HIDE DEF m
  <2>5. /\ IsFiniteSet(Q) /\ Cardinality(Q) \in Nat /\ m \in Q
        /\ Q \subseteq Messages
        /\ \A n \in Q : /\ Says(Other(s), o.h, o.done, n)
                        /\ \A k \in Q : n.seq = k.seq => n = k
    BY <2>1, QueueIs DEF Mail
  <2> HIDE DEF Q
  <2>6. /\ IsFiniteSet(R) /\ R \in SUBSET Messages
        /\ Cardinality(R) = Cardinality(Q) - 1
        /\ Cardinality(R) \in Nat
    BY <2>5, FS_RemoveElement, FS_CardinalityType
  <2>7. Mail(s, o, R)
    BY <2>5, <2>6 DEF Mail
  <2> HIDE DEF R
  <2>8. /\ Outcome(s, o, x, w) /\ Kept(x, w) /\ w.ret = x.ret
        /\ w.peer # NULL /\ w.peer.hs # NULL
        /\ w.peer.role = x.peer.role /\ w.peer.state = x.peer.state
        /\ w.peer.hs.reorder_queue = R
    BY <2>2, <2>6, <2>7, QueueChanged
  <2> HIDE DEF w
  <2>9. Called(s, o, w, x.peer.role, x.peer.state, m)
    BY <2>1, <2>5, <2>8 DEF Called, Outcome, HasHandshake
  <2>10. /\ Outcome(s, o, w, y)
         /\ HasHandshake(y) => SameQueue(w, y)
    BY <2>9, MsgOutcome
  <2> HIDE DEF y
  <2>11. Outcome(s, o, x, y)
    BY <2>8, <2>10, OutcomeTwice
  <2>12. Kept(x, y) \/ Over(y)
    BY <2>11 DEF Outcome, Completes, Over, NextBuffered, HasHandshake
  <2>13. Queue(y) = R \/ Queue(y) = {}
    BY <2>8, <2>10 DEF Queue, SameQueue, HasHandshake
  <2>14. Cardinality(Queue(y)) + 1 <= Cardinality(Q)
    <3>1. Cardinality(Queue(y)) \in {Cardinality(Q) - 1, 0}
      BY <2>6, <2>13, FS_EmptySet
    <3> QED BY <2>5, <2>6, <3>1
  <2> QED BY <2>4, <2>11, <2>12, <2>14 DEF Q, R
<1> QED BY <1>1, <1>2

(* DrainAll is the last of the endpoints that one turn after the other     *)
(* leads to.                                                               *)
LEMMA DrainAllIs ==
  ASSUME NEW s \in Side, NEW o, NEW x, Good(s, o, x)
  PROVE  \E after \in [0..Cardinality(Queue(x)) -> {z \in Endpoints : Good(s, o, z)}] :
           /\ DrainAll(x) = after[Cardinality(Queue(x))]
           /\ after[0] = x
           /\ \A i \in 1..Cardinality(Queue(x)) : after[i] = Drain(after[i - 1])
<1> DEFINE n == Cardinality(Queue(x))
           V == {z \in Endpoints : Good(s, o, z)}
           step == [a \in V \X Nat |-> Drain(a[1])]
<1>1. n \in Nat /\ x \in V
  BY QueueIs DEF Good
<1>2. step \in [V \X Nat -> V]
  <2> SUFFICES ASSUME NEW z \in V PROVE Drain(z) \in V
    OBVIOUS
  <2>1. Good(s, o, z)
    OBVIOUS
  <2>2. Drain(z) = z \/ Outcome(s, o, z, Drain(z))
    BY <2>1, DrainOutcome
  <2> QED BY <2>1, <2>2 DEF Outcome, Good
<1>3. PICK g \in [0..n -> V] : Unfolds(g, x, step, n)
  <2> HIDE DEF step, V, n
  <2> QED BY <1>1, <1>2, RecursionTo
<1>4. ASSUME NEW i \in 1..n PROVE g[i] = Drain(g[i - 1])
  <2>1. i - 1 \in 0..n /\ i \in Nat
    BY <1>1
  <2>2. g[i] = step[<<g[i - 1], i>>] /\ <<g[i - 1], i>> \in V \X Nat
    <3> HIDE DEF step, V, n
    <3> QED BY <1>3, <2>1 DEF Unfolds
  <2> HIDE DEF V, n
  <2> QED BY <2>2
<1>5. g = [i \in 0..n |-> IF i = 0 THEN x ELSE Drain(g[i - 1])]
  <2> HIDE DEF step, V, n
  <2> QED BY <1>1, <1>3, <1>4 DEF Unfolds
<1> DEFINE after == CHOOSE after :
              after = [i \in 0..n |-> IF i = 0 THEN x ELSE Drain(after[i - 1])]
<1>6. DrainAll(x) = after[n]
  <2> DEFINE b == IF HasHandshake(x) /\ x.peer.hs.reorder_queue # NULL
                  THEN Cardinality(x.peer.hs.reorder_queue) ELSE 0
             all == CHOOSE all :
                all = [i \in 0..b |-> IF i = 0 THEN x ELSE Drain(all[i - 1])]
  <2>1. DrainAll(x) = all[b]
    BY Zenon DEF DrainAll
  <2>2. b = n
    <3>1. CASE HasHandshake(x) /\ x.peer.hs.reorder_queue # NULL
      BY <3>1 DEF Queue
    <3>2. CASE ~(HasHandshake(x) /\ x.peer.hs.reorder_queue # NULL)
      <4>1. Queue(x) = {}
        BY <3>2 DEF Queue
      <4> QED BY <3>2, <4>1, FS_EmptySet
    <3> QED BY <3>1, <3>2
  <2> HIDE DEF b, n
  <2> QED BY <2>1, <2>2, Zenon
<1>7. after = [i \in 0..n |-> IF i = 0 THEN x ELSE Drain(after[i - 1])]
  <2> HIDE DEF n
  <2> QED BY <1>5, Zenon
<1> HIDE DEF after
<1>8. after[0] = x /\ \A i \in 1..n : after[i] = Drain(after[i - 1])
  <2> HIDE DEF n
  <2> QED BY <1>1, <1>7
<1> DEFINE S == {i \in Nat : i <= n => after[i] = g[i]}
<1> HIDE DEF V, n, step
<1>9. 0 \in S
  BY <1>3, <1>8 DEF Unfolds
<1>10. ASSUME NEW i \in Nat, i \in S PROVE i + 1 \in S
  <2> SUFFICES ASSUME i + 1 <= n PROVE after[i + 1] = g[i + 1]
    OBVIOUS
  <2>1. after[i] = g[i] /\ i + 1 \in 1..n /\ (i + 1) - 1 = i
    BY <1>1, <1>10
  <2> QED BY <1>4, <1>8, <2>1
<1>11. Nat \subseteq S
  <2> HIDE DEF S
  <2> QED BY <1>9, <1>10, SetInduction
<1>12. \A i \in 0..n : after[i] = g[i]
  BY <1>1, <1>11
<1>13. /\ DrainAll(x) = g[n] /\ g[0] = x
       /\ \A i \in 1..n : g[i] = Drain(g[i - 1])
  BY <1>1, <1>4, <1>6, <1>8, <1>12
<1> QED BY <1>13 DEF V, n

(* The loop of handle_handshake ends because nothing buffered is next.     *)
LEMMA DrainAllOutcome ==
  ASSUME NEW s \in Side, NEW o, NEW x, Good(s, o, x)
  PROVE  LET y == DrainAll(x)
         IN /\ Outcome(s, o, x, y)
            /\ Over(x) => y = x
            /\ Over(y)
<1> DEFINE n == Cardinality(Queue(x))
           left(z) == Cardinality(Queue(z))
<1>1. PICK after \in [0..n -> {z \in Endpoints : Good(s, o, z)}] :
        /\ DrainAll(x) = after[n] /\ after[0] = x
        /\ \A i \in 1..n : after[i] = Drain(after[i - 1])
  BY DrainAllIs
<1>2. n \in Nat
  BY QueueIs
<1> DEFINE P(i) == LET z == after[i]
                   IN /\ Outcome(s, o, x, z)
                      /\ Over(x) => z = x
                      /\ Over(z) \/ (Kept(x, z) /\ left(z) + i <= n)
           S == {i \in Nat : i <= n => P(i)}
<1>3. 0 \in S
  <2>1. x \in Endpoints
    BY DEF Good
  <2>2. Same(x, x)
    BY <2>1 DEF Same
  <2>3. Outcome(s, o, x, x) /\ Kept(x, x)
    BY <2>2, SameOutcome
  <2> QED BY <1>1, <1>2, <2>3
<1>4. ASSUME NEW i \in Nat, i \in S PROVE i + 1 \in S
  <2> SUFFICES ASSUME i + 1 <= n PROVE P(i + 1)
    OBVIOUS
  <2> DEFINE z == after[i]
             w == after[i + 1]
  <2>1. /\ i \in 0..n /\ i + 1 \in 1..n /\ (i + 1) - 1 = i
        /\ Good(s, o, z)
    BY <1>1, <1>2
  <2>2. P(i)
    BY <1>2, <1>4
  <2>3. w = Drain(z)
    BY <1>1, <2>1
  <2>4. left(z) \in Nat
    BY <2>1, QueueIs
  <2> HIDE DEF n
  <2>5. CASE Over(z)
    <3>1. w = z
      BY <2>1, <2>3, <2>5, DrainOutcome
    <3> QED BY <2>2, <2>5, <3>1
  <2>6. CASE ~Over(z)
    <3>1. /\ Outcome(s, o, z, w)
          /\ Kept(z, w) \/ Over(w)
          /\ left(w) + 1 <= left(z)
      BY <2>1, <2>3, <2>6, DrainOutcome
    <3>2. Good(s, o, w)
      BY <3>1 DEF Outcome
    <3>3. left(w) \in Nat
      BY <3>2, QueueIs
    <3> HIDE DEF left, z, w
    <3>4. Outcome(s, o, x, w)
      BY <2>2, <2>6, <3>1, OutcomeTwice DEF z
    <3>5. Kept(z, w) => Kept(x, w)
      BY <2>2, <2>6 DEF Kept, z
    <3>6. left(w) + (i + 1) <= n
      BY <2>2, <2>4, <2>6, <3>1, <3>3, <1>2 DEF z
    <3>7. ~Over(x)
      BY <2>2, <2>6 DEF z
    <3> QED BY <3>1, <3>4, <3>5, <3>6, <3>7 DEF w
  <2> QED BY <2>5, <2>6
<1>5. P(n)
  <2>1. n \in S
    <3> HIDE DEF S
    <3> QED BY <1>2, <1>3, <1>4, SetInduction
  <2> QED BY <1>2, <2>1
<1>6. Over(after[n])
  <2> SUFFICES ASSUME left(after[n]) + n <= n PROVE Over(after[n])
    BY <1>5
  <2>1. Good(s, o, after[n])
    BY <1>5 DEF Outcome
  <2>2. /\ Mail(s, o, Queue(after[n])) /\ left(after[n]) \in Nat
        /\ NextBuffered(after[n]) \subseteq Queue(after[n])
    BY <2>1, QueueIs
  <2>3. left(after[n]) = 0
    BY <1>2, <2>2
  <2>4. Queue(after[n]) = {}
    BY <2>2, <2>3, FS_EmptySet DEF Mail
  <2> QED BY <2>2, <2>4 DEF Over
<1> QED BY <1>1, <1>5, <1>6

-----------------------------------------------------------------------------
(* handle_handshake *)

(* DrainComplete, for one endpoint. *)
Drained(x) == (x.peer # NULL /\ ~Closed(x)) => NextBuffered(x) = {}

(* A message ahead of the sequence is buffered once. *)
LEMMA BufferOutcome ==
  ASSUME NEW s \in Side, NEW o, NEW x, Good(s, o, x), HasHandshake(x),
         NEW m, Says(Other(s), o.h, o.done, m), m.seq > x.peer.hs.mseq_r
  PROVE  LET y == Buffer(x, m)
         IN Outcome(s, o, x, y) /\ Kept(x, y) /\ (Drained(x) => Drained(y))
<1> DEFINE q == x.peer.hs.reorder_queue
           y == Buffer(x, m)
<1>1. /\ x \in Endpoints /\ x.peer # NULL /\ x.peer.hs # NULL
      /\ x.peer.hs \in Handshakes /\ m \in Messages
  BY EndpointType, PeerType DEF Good, HasHandshake, Says
<1>2. ASSUME Same(x, y), y.fate = x.fate, y.ev = x.ev, x.crashed => y.crashed
      PROVE  Outcome(s, o, x, y) /\ Kept(x, y) /\ (Drained(x) => Drained(y))
  <2>1. Outcome(s, o, x, y) /\ Kept(x, y)
    BY <1>2, SameOutcome
  <2>2. y.peer = x.peer
    BY <1>2 DEF Same
  <2> HIDE DEF y
  <2>3. Drained(x) => Drained(y)
    BY <2>2 DEF Drained, Closed, NextBuffered, HasHandshake
  <2> QED BY <2>1, <2>3
<1>3. CASE q = NULL
  <2>1. y = Crash(x, "null_queue")
    BY <1>3 DEF Buffer
  <2> HIDE DEF y
  <2>2. Same(x, y) /\ y.crashed /\ y.fate = x.fate /\ y.ev = x.ev
    BY <1>1, <2>1, CrashSame
  <2> QED BY <1>2, <2>2 DEF y
<1>4. CASE q # NULL /\ \E n \in q : n.seq = m.seq
  <2>1. y = x
    BY <1>4 DEF Buffer
  <2>2. Same(x, x)
    BY <1>1 DEF Same
  <2> HIDE DEF y
  <2> QED BY <1>2, <2>1, <2>2 DEF y
<1>5. CASE q # NULL /\ ~\E n \in q : n.seq = m.seq
  <2> DEFINE R == q \cup {m}
  <2>1. y = WithQueue(x, R)
    BY <1>5 DEF Buffer, WithQueue
  <2>2. q = Queue(x)
    BY <1>5, <1>1 DEF Queue, HasHandshake
  <2>3. Mail(s, o, q)
    BY <2>2, QueueIs
  <2> HIDE DEF q
  <2>4. IsFiniteSet(R)
    BY <2>3, FS_AddElement DEF Mail
  <2>5. Mail(s, o, R)
    BY <1>1, <1>5, <2>3, <2>4 DEF Mail
  <2>6. \A n \in R : n.seq = x.peer.hs.mseq_r => n \in q
    BY <1>1, HsType DEF Messages
  <2> HIDE DEF R, y
  <2>7. /\ Outcome(s, o, x, y) /\ Kept(x, y)
        /\ y.peer # NULL /\ y.peer.hs # NULL
        /\ y.peer.state = x.peer.state
        /\ y.peer.hs.reorder_queue = R
        /\ y.peer.hs.mseq_r = x.peer.hs.mseq_r
    BY <1>1, <2>1, <2>5, QueueChanged
  <2>8. NextBuffered(y) \subseteq {n \in R : n.seq = x.peer.hs.mseq_r}
    BY <2>7 DEF NextBuffered
  <2>9. {n \in q : n.seq = x.peer.hs.mseq_r} = NextBuffered(x)
    BY <1>5 DEF NextBuffered, q
  <2>10. NextBuffered(x) = {} => NextBuffered(y) = {}
    BY <2>6, <2>8, <2>9
  <2>11. Drained(x) => Drained(y)
    BY <1>1, <2>7, <2>10 DEF Drained, Closed
  <2> QED BY <2>7, <2>11 DEF y
<1> QED BY <1>3, <1>4, <1>5

(* handle_handshake: what is next has been taken from the buffer when it   *)
(* returns without an error.                                               *)
LEMMA HandshakeOutcome ==
  ASSUME NEW s \in Side, NEW o, NEW x, NEW role, NEW state, NEW m,
         Good(s, o, x), x.ret = "ok", Says(Other(s), o.h, o.done, m),
         x.peer # NULL => role = x.peer.role /\ state = x.peer.state
  PROVE  LET y == HandleHandshake(x, role, state, m)
         IN /\ Outcome(s, o, x, y)
            /\ x.peer = NULL => Kept(x, y)
            /\ Drained(x) => IsError(y) \/ y.crashed \/ Drained(y)
<1> DEFINE y == HandleHandshake(x, role, state, m)
           z == HandleHandshakeMsg(x, role, state, m)
           new == ~HasHandshake(x) /\ (m.ht = "client_hello"
                            \/ (x.peer # NULL /\ m.ht = "hello_request"))
           lost == x.peer = NULL /\ m.ht # "client_hello"
           next == HasHandshake(x) /\ m.seq = x.peer.hs.mseq_r
           ahead == HasHandshake(x) /\ m.seq > x.peer.hs.mseq_r
<1>1. x \in Endpoints
  BY DEF Good
<1>2. /\ HasHandshake(x) => x.peer # NULL /\ x.peer.hs \in Handshakes
      /\ m \in Messages
  BY <1>1, EndpointType, PeerType DEF HasHandshake, Says
<1>3. next => ~ahead
  BY <1>2, HsType DEF Messages
<1>4. CASE new
  <2>1. y = z
    BY <1>4 DEF HandleHandshake
  <2>2. Called(s, o, x, role, state, m)
    BY <1>4 DEF Called
  <2> HIDE DEF y, z
  <2>3. /\ Outcome(s, o, x, y)
        /\ HasHandshake(y) => SameQueue(x, y)
        /\ x.peer = NULL => Kept(x, y)
    BY <2>1, <2>2, MsgOutcome DEF z
  <2>4. NextBuffered(y) = {}
    BY <1>4, <2>3 DEF NextBuffered, SameQueue
  <2> QED BY <2>3, <2>4 DEF Drained, y
<1>5. CASE lost
  <2>1. y = Error(x, "handshake_failure") /\ "handshake_failure" \in Errors
    BY <1>5 DEF HandleHandshake, HasHandshake, Errors
  <2> HIDE DEF y
  <2>2. /\ Same(x, y) /\ y.ret = "handshake_failure"
        /\ y.fate = x.fate /\ y.ev = x.ev /\ y.crashed = x.crashed
    BY <1>1, <2>1, ErrorSame
  <2>3. Outcome(s, o, x, y) /\ Kept(x, y)
    BY <2>2, SameOutcome
  <2> QED BY <2>2, <2>3 DEF y, IsError
<1>6. CASE next
  <2>1. y = DrainAll(z)
    BY <1>2, <1>3, <1>6 DEF HandleHandshake
  <2>2. Called(s, o, x, role, state, m)
    BY <1>2, <1>6 DEF Called
  <2> HIDE DEF y, z
  <2>3. Outcome(s, o, x, z)
    BY <2>2, MsgOutcome DEF z
  <2>4. Outcome(s, o, z, y) /\ (Over(z) => y = z) /\ Over(y)
    <3>1. Good(s, o, z)
      BY <2>3 DEF Outcome
    <3> QED BY <2>1, <3>1, DrainAllOutcome
  <2>5. Outcome(s, o, x, y)
    <3>1. CASE Kept(x, z)
      BY <2>3, <2>4, <3>1, OutcomeTwice
    <3>2. CASE Completes(s, o, x, z)
      <4>1. Over(z)
        BY <3>2 DEF Completes, Over, NextBuffered, HasHandshake
      <4> QED BY <2>3, <2>4, <4>1
    <3> QED BY <2>3, <3>1, <3>2 DEF Outcome
  <2> QED BY <1>2, <1>6, <2>4, <2>5 DEF Over, Drained, y
<1>7. CASE ahead
  <2>1. y = Buffer(x, m)
    BY <1>2, <1>3, <1>7 DEF HandleHandshake
  <2> HIDE DEF y
  <2>2. Outcome(s, o, x, y) /\ Kept(x, y) /\ (Drained(x) => Drained(y))
    BY <1>7, <2>1, BufferOutcome
  <2> QED BY <2>2 DEF y
<1>8. CASE ~new /\ ~lost /\ ~next /\ ~ahead
  <2>1. y = x
    BY <1>8 DEF HandleHandshake
  <2>2. Same(x, x)
    BY <1>1 DEF Same
  <2> HIDE DEF y
  <2>3. Outcome(s, o, x, y) /\ Kept(x, y)
    BY <2>1, <2>2, SameOutcome
  <2> QED BY <2>1, <2>3 DEF y
<1> QED BY <1>4, <1>5, <1>6, <1>7, <1>8

-----------------------------------------------------------------------------
(* The steps of an endpoint *)

(* ConnectedQuiet, for one endpoint. *)
Quiet(x) ==
  (x.peer # NULL /\ x.peer.state = "CONNECTED" /\ x.peer.hs = NULL) => Silent(x)

(* The contract of dtls_handle_message, of what it calls, and of what the  *)
(* application calls.                                                      *)
Result(s, o, x, y) ==
  /\ Good(s, o, y) /\ y.h = x.h /\ (x.crashed => y.crashed)
  /\ Kept(x, y) \/ Completes(s, o, x, y)
  /\ Guarded(x) => y.crashed \/ Guarded(y)
  /\ Drained(x) => y.crashed \/ Drained(y)
  /\ Quiet(x) => y.crashed \/ Quiet(y)
  /\ Mute(s, o.h) /\ Closed(x) => y.peer = NULL \/ Closed(y)

(* ... when no session is completed and the peer stays. *)
Passes(s, o, x, y) ==
  Result(s, o, x, y) /\ Kept(x, y) /\ (x.peer # NULL => y.peer # NULL)

(* What changes nothing the contract is about passes. *)
LEMMA SamePasses ==
  ASSUME NEW s, NEW o, NEW x, NEW y, Good(s, o, x), Same(x, y),
         x.crashed => y.crashed
  PROVE  Passes(s, o, x, y)
<1>1. Good(s, o, y) /\ Kept(x, y) /\ (Guarded(x) => Guarded(y))
  BY SameKeeps
<1>2. y.h = x.h /\ y.peer = x.peer /\ y.sendqueue = x.sendqueue
  BY DEF Same
<1>3. (Closed(x) => Closed(y)) /\ (Drained(x) => Drained(y))
  BY <1>2 DEF Closed, Drained, NextBuffered, HasHandshake
<1>4. Quiet(x) => Quiet(y)
  BY <1>2 DEF Quiet, Silent, Live
<1> QED BY <1>1, <1>2, <1>3, <1>4 DEF Result, Passes

(* One after the other. *)
LEMMA PassesOn ==
  ASSUME NEW s, NEW o, NEW x, NEW y, NEW z,
         Passes(s, o, x, y), Result(s, o, y, z)
  PROVE  Result(s, o, x, z) /\ (Passes(s, o, y, z) => Passes(s, o, x, z))
<1> USE DEF Passes
<1>1. Kept(y, z) => Kept(x, z)
  BY DEF Kept
<1>2. Completes(s, o, y, z) => Completes(s, o, x, z)
  BY DEF Kept, Completes
<1>3. Mute(s, o.h) /\ Closed(x) => z.peer = NULL \/ Closed(z)
  BY DEF Result, Closed
<1>4. /\ Guarded(x) => z.crashed \/ Guarded(z)
      /\ Drained(x) => z.crashed \/ Drained(z)
      /\ Quiet(x) => z.crashed \/ Quiet(z)
  BY DEF Result
<1>5. Result(s, o, x, z)
  BY <1>1, <1>2, <1>3, <1>4 DEF Result
<1> QED BY <1>1, <1>5

(* dtls_stop_retransmission *)
LEMMA StopPasses ==
  ASSUME NEW s, NEW o, NEW x, Good(s, o, x)
  PROVE  LET y == StopRetransmission(x)
         IN /\ Passes(s, o, x, y) /\ y \in Endpoints
            /\ y.peer = x.peer /\ y.ret = x.ret /\ y.rnd = x.rnd
            /\ y.peers = x.peers /\ y.h = x.h /\ y.done = x.done
            /\ y.crashed \/ Silent(y)
<1> DEFINE y == StopRetransmission(x)
<1>1. x \in Endpoints
  BY DEF Good
<1>2. Stopped(s, x, y)
  BY <1>1, StopStopped
<1> HIDE DEF y
<1>3. Good(s, o, y) /\ Kept(x, y)
  BY <1>2, StopGood
<1>4. Sealed(x) => Sealed(y)
  BY <1>2 DEF Stopped, Sealed
<1>5. Guarded(x) => y.crashed \/ Guarded(y)
  BY <1>2, <1>4, SilentClear, ClearGuarded DEF Stopped, Guarded
<1>6. Drained(x) => Drained(y)
  BY <1>2 DEF Stopped, Drained, Closed, NextBuffered, HasHandshake
<1>7. y.crashed \/ Quiet(y)
  BY <1>2 DEF Stopped, Quiet
<1>8. Closed(x) => Closed(y)
  BY <1>2 DEF Stopped, Closed
<1>9. Passes(s, o, x, y)
  BY <1>2, <1>3, <1>5, <1>6, <1>7, <1>8 DEF Result, Passes, Stopped
<1> QED BY <1>2, <1>9 DEF Stopped, y

(* The peer is closing, or closed. *)
LEMMA ClosingPasses ==
  ASSUME NEW s, NEW o, NEW x, Good(s, o, x), x.peer # NULL,
         NEW st \in {"CLOSING", "CLOSED"}
  PROVE  LET y == SetState(x, st)
         IN /\ Passes(s, o, x, y) /\ Closed(y) /\ y.peer.state = st
            /\ y.ret = x.ret /\ y.crashed = x.crashed /\ y.peer # NULL
            /\ y.peer.id = x.peer.id /\ y.sendqueue = x.sendqueue
<1> DEFINE y == SetState(x, st)
<1>1. x \in Endpoints /\ st \in States
  BY DEF Good, States
<1>2. /\ y \in Endpoints /\ y.peer \in Peers /\ y.peer # NULL
      /\ y.peer.state = st /\ y.peer.id = x.peer.id
      /\ y.peer.role = x.peer.role /\ y.peer.hs = x.peer.hs
      /\ y.peer.sec = x.peer.sec /\ Top(x, y)
  BY <1>1, PutState
<1> HIDE DEF y
<1> USE DEF Top
<1>3. Posted(s, y.done, y)
  BY <1>2 DEF Good, Posted
<1>4. Sound(s, y)
  <2>1. Sound(s, x)
    BY DEF Good
  <2>2. Fresh(s, x) => Fresh(s, y)
    BY <1>2 DEF Fresh
  <2>3. ~InHandshake(y.peer) /\ y.peer.state # "CONNECTED" /\ Pending(s, y.peer)
    BY <1>2 DEF InHandshake, Pending
  <2>4. Covered(y.h, y.peer.hs, y.peer.state)
    BY <1>2 DEF Covered
  <2>5. (y.peer.hs # NULL /\ s = "client") => Fresh(s, y)
    BY <1>2, <2>1, <2>2 DEF Sound
  <2> QED BY <1>2, <2>1, <2>3, <2>4, <2>5 DEF Sound
<1>5. Buffered(s, o, y)
  BY <1>2 DEF Good, Buffered
<1>6. Good(s, o, y)
  BY <1>2, <1>3, <1>4, <1>5 DEF Good
<1>7. Guarded(x) => Guarded(y)
  <2>1. \A n : Waits(y, n) <=> Waits(x, n)
    BY <1>2 DEF Waits, Live
  <2> QED BY <1>2, <2>1 DEF Guarded, Sealed
<1>8. Closed(y) /\ Kept(x, y) /\ Drained(y) /\ Quiet(y)
  BY <1>2 DEF Closed, Kept, Drained, Quiet
<1>9. Passes(s, o, x, y)
  BY <1>2, <1>6, <1>7, <1>8 DEF Result, Passes
<1> QED BY <1>2, <1>8, <1>9 DEF y

(* What is not copied to the send queue leaves it. *)
LEMMA Unqueued ==
  ASSUME NEW x \in Endpoints, NEW ct \in {"alert", "application_data"}, NEW m
  PROVE  SendMulti(x, ct, m).sendqueue = x.sendqueue
<1> DEFINE security == IF x.peer = NULL THEN NewSecurity ELSE x.peer.sec[0]
           record == [ct |-> ct, epoch |-> security.epoch, key |-> security.key,
                      msg |-> m]
           z == [x EXCEPT !.out = Append(@, record)]
<1>1. SendMulti(x, ct, m) = z
  BY DEF SendMulti
<1> HIDE DEF record
<1>2. z.sendqueue = x.sendqueue
  BY DEF Endpoints
<1> QED BY <1>1, <1>2

(* Writing what is not copied to the send queue. *)
LEMMA WritePasses ==
  ASSUME NEW s \in Side, NEW o, NEW x, Good(s, o, x), x.peer # NULL, NEW y,
         Wrote(s, x.done, "other", x, y),
         y.peer = x.peer, y.sendqueue = x.sendqueue
  PROVE  Passes(s, o, x, y)
<1>1. Good(s, o, y) /\ Kept(x, y)
  <2>1. s = "server" => Covered(x.h, y.peer.hs, x.peer.state)
    BY DEF Good, Sound
  <2>2. Handled(s, o, x, y) /\ Kept(x, y)
    BY <2>1, WroteHandled
  <2> QED BY <2>2 DEF Handled
<1>2. /\ y.h = x.h /\ y.crashed = x.crashed
      /\ Guarded(x) => Guarded(y)
  BY DEF Wrote, Rest
<1>3. (Closed(x) => Closed(y)) /\ (Drained(x) => Drained(y))
  BY DEF Closed, Drained, NextBuffered, HasHandshake
<1>4. Quiet(x) => Quiet(y)
  BY DEF Quiet, Silent, Live
<1> QED BY <1>1, <1>2, <1>3, <1>4 DEF Result, Passes

(* dtls_send_alert *)
LEMMA AlertPasses ==
  ASSUME NEW s \in Side, NEW o, NEW x, Good(s, o, x), x.peer # NULL,
         NEW desc \in Errors
  PROVE  LET y == SendAlert(x, desc)
         IN /\ Passes(s, o, x, y) /\ y.peer = x.peer /\ y.ret = x.ret
            /\ y.crashed = x.crashed
<1> DEFINE a == [level |-> Level(desc), desc |-> desc]
           y == SendAlert(x, desc)
<1>1. x \in Endpoints /\ CanSend(x)
  BY DEF Good, Sound, CanSend
<1>2. Wrote(s, x.done, "other", x, y) /\ y.peer = x.peer
  BY <1>1, AlertWrote
<1>3. y = SendMulti(x, "alert", a)
  BY DEF SendAlert
<1> HIDE DEF a, y
<1>4. y.sendqueue = x.sendqueue
  BY <1>1, <1>3, Unqueued
<1>5. Passes(s, o, x, y)
  BY <1>2, <1>4, WritePasses
<1> QED BY <1>2, <1>5 DEF Wrote, Rest, y

(* The peer object is freed. *)
Freed(x) == [x EXCEPT !.peer = NULL]

(* Freeing the peer keeps the contract.                                    *)
LEMMA FreedResult ==
  ASSUME NEW s, NEW o, NEW x, Good(s, o, x)
  PROVE  Result(s, o, x, Freed(x))
<1> DEFINE y == Freed(x)
<1>1. x \in Endpoints
  BY DEF Good
<1>2. y \in Endpoints /\ y.peer = NULL /\ Top(x, y)
  BY <1>1, PutPeer DEF Freed
<1> HIDE DEF y
<1> USE DEF Top
<1>3. Posted(s, y.done, y)
  BY <1>2 DEF Good, Posted
<1>4. Good(s, o, y)
  BY <1>2, <1>3 DEF Good
<1>5. Guarded(x) => Guarded(y)
  BY <1>2 DEF Guarded, Sealed, Waits, Live
<1> QED BY <1>2, <1>4, <1>5 DEF Result, Kept, Drained, Quiet, y

(* An event is reported. *)
LEMMA EventSame ==
  ASSUME NEW x \in Endpoints, NEW e \in {"CONNECT", "CONNECTED", "ALERT", "READ"}
  PROVE  /\ Same(x, Event(x, e)) /\ Event(x, e).crashed = x.crashed
         /\ Event(x, e).ret = x.ret
<1> DEFINE y == Event(x, e)
<1>1. x.ev \in Seq({"CONNECT", "CONNECTED", "ALERT", "READ"})
  BY EndpointType
<1>2. Append(x.ev, e) \in Seq({"CONNECT", "CONNECTED", "ALERT", "READ"})
  BY <1>1
<1>3. y \in Endpoints
  BY <1>2 DEF Event, Endpoints
<1>4. /\ y.h = x.h /\ y.peer = x.peer /\ y.sendqueue = x.sendqueue
      /\ y.peers = x.peers /\ y.rnd = x.rnd /\ y.out = x.out /\ y.done = x.done
      /\ y.crashed = x.crashed /\ y.ret = x.ret
  BY DEF Event, Endpoints
<1> HIDE DEF y
<1> QED BY <1>3, <1>4 DEF Same, y

(* An invalid access is recorded, and the handler goes on.                 *)
LEMMA FaultSame ==
  ASSUME NEW x \in Endpoints,
         NEW f \in {"freed_peer", "null_peer", "null_queue"}
  PROVE  LET y == [x EXCEPT !.faults = @ \cup {f}]
         IN Same(x, y) /\ y.crashed = x.crashed
<1> DEFINE y == [x EXCEPT !.faults = @ \cup {f}]
<1>1. y \in Endpoints
  BY DEF Endpoints
<1>2. /\ y.h = x.h /\ y.peer = x.peer /\ y.sendqueue = x.sendqueue
      /\ y.peers = x.peers /\ y.rnd = x.rnd /\ y.out = x.out /\ y.done = x.done
      /\ y.crashed = x.crashed
  BY DEF Endpoints
<1> HIDE DEF y
<1> QED BY <1>1, <1>2 DEF Same, y

(* dtls_security_params_free_other frees no parameters in use or pending.  *)
LEMMA FreeOtherPasses ==
  ASSUME NEW s, NEW o, NEW x, Good(s, o, x), x.peer # NULL
  PROVE  LET y == [x EXCEPT !.peer.sec = ParamsFreeOther(@)]
         IN /\ Passes(s, o, x, y) /\ y.ret = x.ret /\ y.crashed = x.crashed
            /\ y.peer # NULL /\ y.peer.state = x.peer.state
            /\ y.peer.role = x.peer.role /\ y.peer.sec[0] = x.peer.sec[0]
<1> DEFINE old == x.peer.sec
           sec == ParamsFreeOther(old)
           y == [x EXCEPT !.peer.sec = sec]
<1>1. /\ x \in Endpoints /\ old \in [Slot -> {NULL} \cup Security]
      /\ old[0] \in Security /\ (old[1] = NULL \/ old[1] \in Security)
  BY EndpointType, PeerType DEF Good, Sound
<1>2. old[0].epoch \in Nat /\ (old[1] # NULL => old[1].epoch \in Nat)
  BY <1>1, SecType
<1>3. /\ sec \in [Slot -> {NULL} \cup Security] /\ sec[0] = old[0]
      /\ (old[1] # NULL /\ old[1].epoch = old[0].epoch + 1) => sec = old
  <2> HIDE DEF old
  <2>1. CASE old[0] # NULL /\ old[1] # NULL /\ old[0].epoch >= old[1].epoch
    <3>1. sec = [old EXCEPT ![1] = NULL]
      BY <2>1 DEF ParamsFreeOther
    <3> QED BY <1>1, <1>2, <2>1, <3>1 DEF Slot
  <2>2. CASE ~(old[0] # NULL /\ old[1] # NULL /\ old[0].epoch >= old[1].epoch)
    <3>1. sec = old
      BY <2>2 DEF ParamsFreeOther
    <3> HIDE DEF sec
    <3> QED BY <1>1, <3>1
  <2> QED BY <2>1, <2>2
<1>4. [x EXCEPT !.peer.sec = ParamsFreeOther(@)] = y
  OBVIOUS
<1> HIDE DEF sec
<1>5. /\ y \in Endpoints /\ y.peer \in Peers /\ y.peer # NULL
      /\ y.peer.state = x.peer.state /\ y.peer.id = x.peer.id
      /\ y.peer.role = x.peer.role /\ y.peer.hs = x.peer.hs
      /\ y.peer.sec = sec /\ Top(x, y)
  BY <1>1, <1>3, PutSec
<1> HIDE DEF y
<1> USE DEF Top
<1>6. Posted(s, y.done, y)
  BY <1>5 DEF Good, Posted
<1>7. Sound(s, y)
  <2>1. Sound(s, x)
    BY DEF Good
  <2>2. Fresh(s, x) => Fresh(s, y)
    BY <1>5 DEF Fresh
  <2>3. Pending(s, y.peer)
    BY <1>3, <1>5, <2>1 DEF Sound, Pending
  <2>4. InHandshake(y.peer) <=> InHandshake(x.peer)
    BY <1>5 DEF InHandshake
  <2> QED BY <1>3, <1>5, <2>1, <2>2, <2>3, <2>4 DEF Sound
<1>8. Buffered(s, o, y)
  BY <1>5 DEF Good, Buffered
<1>9. Good(s, o, y)
  BY <1>5, <1>6, <1>7, <1>8 DEF Good
<1>10. Guarded(x) => Guarded(y)
  <2>1. \A n : Waits(y, n) <=> Waits(x, n)
    BY <1>5 DEF Waits, Live
  <2> QED BY <1>3, <1>5, <2>1 DEF Guarded, Sealed
<1>11. Kept(x, y) /\ (Closed(x) => Closed(y))
  BY <1>3, <1>5 DEF Kept, Closed
<1>12. (Drained(x) => Drained(y)) /\ (Quiet(x) => Quiet(y))
  BY <1>5 DEF Drained, Closed, NextBuffered, HasHandshake, Quiet, Silent, Live
<1>13. Passes(s, o, x, y)
  BY <1>5, <1>9, <1>10, <1>11, <1>12 DEF Result, Passes
<1> QED BY <1>3, <1>4, <1>5, <1>13

(* decrypt_verify *)
LEMMA DecryptPasses ==
  ASSUME NEW s, NEW o, NEW x, Good(s, o, x), x.peer # NULL, NEW record
  PROVE  LET y == DecryptVerify(x, record)
         IN /\ Passes(s, o, x, y) /\ y.ret = x.ret /\ y.crashed = x.crashed
            /\ y.peer # NULL /\ y.peer.state = x.peer.state
            /\ y.peer.role = x.peer.role /\ y.peer.sec[0] = x.peer.sec[0]
<1> DEFINE w == [x EXCEPT !.peer.sec = ParamsFreeOther(@)]
           y == DecryptVerify(x, record)
<1>1. y = x \/ y = w
  BY DEF DecryptVerify
<1>2. /\ Passes(s, o, x, w) /\ w.ret = x.ret /\ w.crashed = x.crashed
      /\ w.peer # NULL /\ w.peer.state = x.peer.state
      /\ w.peer.role = x.peer.role /\ w.peer.sec[0] = x.peer.sec[0]
  BY FreeOtherPasses
<1> HIDE DEF w, y
<1>3. Same(x, x)
  BY DEF Good, Same
<1>4. Passes(s, o, x, x)
  BY <1>3, SamePasses
<1> QED BY <1>1, <1>2, <1>4 DEF y

(* handle_ccs, after dtls_stop_retransmission. *)
LEMMA CcsResult ==
  ASSUME NEW s \in Side, NEW o, NEW x, Good(s, o, x), x.crashed \/ Silent(x)
  PROVE  Result(s, o, x, HandleCcs(x))
<1> DEFINE y == HandleCcs(x)
<1>1. x \in Endpoints
  BY DEF Good
<1>2. ASSUME Same(x, y), x.crashed => y.crashed PROVE Result(s, o, x, y)
  BY <1>2, SamePasses DEF Passes
<1>3. CASE x.peer = NULL
  <2>1. \/ y = Crash(x, "null_peer")
        \/ y = [x EXCEPT !.faults = @ \cup {"null_peer"}]
    BY <1>3 DEF HandleCcs
  <2>2. CASE y = Crash(x, "null_peer")
    <3>1. Same(x, Crash(x, "null_peer")) /\ Crash(x, "null_peer").crashed
      BY <1>1, CrashSame
    <3> QED BY <1>2, <2>2, <3>1
  <2>3. CASE y = [x EXCEPT !.faults = @ \cup {"null_peer"}]
    <3> DEFINE w == [x EXCEPT !.faults = @ \cup {"null_peer"}]
    <3>1. Same(x, w) /\ w.crashed = x.crashed
      BY <1>1, FaultSame
    <3> HIDE DEF y, w
    <3>2. y = w
      BY <2>3 DEF w
    <3> QED BY <1>2, <3>1, <3>2 DEF y
  <2> QED BY <2>1, <2>2, <2>3
<1>4. CASE x.peer # NULL /\ x.peer.state # "WAIT_CHANGECIPHERSPEC"
  <2>1. y = x
    BY <1>4 DEF HandleCcs
  <2>2. Same(x, x)
    BY <1>1 DEF Same
  <2> HIDE DEF y
  <2> QED BY <1>2, <2>1, <2>2 DEF y
<1>5. CASE x.peer # NULL /\ x.peer.state = "WAIT_CHANGECIPHERSPEC"
  <2> DEFINE w == IF x.peer.role = "server" THEN CalculateKeyBlock(x) ELSE x
  <2>1. Sound(s, x) /\ x.peer.role = s /\ InHandshake(x.peer)
    BY <1>5 DEF Good, Sound, InHandshake
  <2>2. Serving(s, o, x) /\ Ready(x)
    BY <1>1, <1>5, <2>1 DEF Serving, Ready, Sound
  <2>3. y = SetState(w, "WAIT_FINISHED")
    BY <1>5 DEF HandleCcs
  <2>4. /\ Handled(s, o, x, y) /\ y.peer # NULL
        /\ y.peer.state = "WAIT_FINISHED"
        /\ y.peer.hs.mseq_r = x.peer.hs.mseq_r
    <3>1. "WAIT_FINISHED" \in States \ {"CONNECTED"}
          /\ "WAIT_FINISHED" \in States
      BY DEF States
    <3>2. CASE s = "server"
      <4>1. w = CalculateKeyBlock(x)
        BY <2>1, <3>2
      <4> HIDE DEF y, w
      <4>2. /\ Ready(w) /\ Stays("server", x.done, "other", x, w)
            /\ w.peer.sec[0] = x.peer.sec[0]
            /\ w.peer.sec[1] # NULL
            /\ w.peer.sec[1].epoch = x.peer.sec[0].epoch + 1
            /\ w.peer.sec[1].key = w.peer.hs.master
            /\ w.peer.hs.master = KeyOf(w.peer.hs)
            /\ w.peer.hs.srand = x.peer.hs.srand
            /\ w.peer.hs.cipher = x.peer.hs.cipher
            /\ w.peer.hs.hash = x.peer.hs.hash
            /\ w.peer.hs.mseq_r = x.peer.hs.mseq_r
        BY <2>2, <4>1, KeyBlockStays
      <4>3. Covered(x.h, x.peer.hs, "WAIT_CHANGECIPHERSPEC")
        BY <1>5, <2>1, <3>2 DEF Sound
      <4>4. Covered(x.h, w.peer.hs, "WAIT_FINISHED")
        BY <4>2, <4>3 DEF Covered
      <4>5. w.peer.sec[0] # NULL
        BY <2>2, <4>2 DEF Ready
      <4>6. Handled("server", o, x, SetState(w, "WAIT_FINISHED"))
        BY <2>1, <2>2, <3>1, <3>2, <4>2, <4>4, <4>5, ServerMoves
      <4>7. /\ SetState(w, "WAIT_FINISHED").peer.state = "WAIT_FINISHED"
            /\ SetState(w, "WAIT_FINISHED").peer.hs = w.peer.hs
            /\ SetState(w, "WAIT_FINISHED").peer # NULL
        BY <3>1, <4>2, PutState DEF Ready
      <4> QED BY <2>3, <3>2, <4>2, <4>6, <4>7
    <3>3. CASE s # "server"
      <4>1. w = x /\ s = "client"
        BY <2>1, <3>3 DEF Side
      <4> HIDE DEF y, w
      <4>2. Keeps(x, x)
        BY <1>1, <2>2, ReadyType DEF Keeps, Ready
      <4>3. Stays("client", x.done, "other", x, x)
        BY <1>1, <1>5, <4>2, KeepsStays
      <4>4. x.peer.sec[0].key = x.peer.hs.master
            /\ x.peer.hs.master = KeyOf(x.peer.hs)
        BY <1>5, <2>1, <4>1 DEF Sound, Pending
      <4>5. Handled("client", o, x, SetState(x, "WAIT_FINISHED"))
        BY <2>2, <3>1, <4>1, <4>3, <4>4, ClientMoves DEF Ready
      <4>6. /\ SetState(x, "WAIT_FINISHED").peer.state = "WAIT_FINISHED"
            /\ SetState(x, "WAIT_FINISHED").peer.hs = x.peer.hs
            /\ SetState(x, "WAIT_FINISHED").peer # NULL
        BY <1>1, <1>5, <3>1, PutState
      <4> QED BY <2>3, <4>1, <4>5, <4>6
    <3> QED BY <3>2, <3>3
  <2> HIDE DEF y
  <2>5. Guarded(x) => y.crashed \/ Guarded(y)
    <3>1. (Guarded(x) /\ Silent(x)) => Clear(x)
      BY SilentClear DEF Guarded
    <3> QED BY <2>4, <3>1 DEF Handled
  <2>6. HasHandshake(y) => y.peer.hs.reorder_queue = x.peer.hs.reorder_queue
    BY <2>2, <2>4 DEF Handled, SameQueue, Serving, HasHandshake
  <2>7. NextBuffered(x) = {} => NextBuffered(y) = {}
    BY <2>2, <2>4, <2>6 DEF NextBuffered, HasHandshake, Serving
  <2>8. Drained(x) => Drained(y)
    BY <1>5, <2>7 DEF Drained, Closed
  <2>9. Quiet(y) /\ ~Closed(x)
    BY <1>5, <2>4 DEF Quiet, Closed
  <2> QED BY <2>4, <2>5, <2>8, <2>9 DEF Result, Handled, y
<1> QED BY <1>3, <1>4, <1>5

-----------------------------------------------------------------------------
(* Closing *)

(* dtls_close *)
LEMMA ClosePasses ==
  ASSUME NEW s \in Side, NEW o, NEW x, Good(s, o, x), x.peer # NULL
  PROVE  LET y == Close(x)
         IN Passes(s, o, x, y) /\ Closed(y) /\ y.peer.id = x.peer.id
<1> DEFINE w == SendAlert(x, "close_notify")
           y == SetState(w, "CLOSING")
<1>1. Close(x) = y /\ "close_notify" \in Errors
  BY DEF Close, Errors
<1>2. Passes(s, o, x, w) /\ w.peer = x.peer
  BY <1>1, AlertPasses
<1> HIDE DEF w
<1>3. Good(s, o, w)
  BY <1>2 DEF Passes, Result
<1>4. Passes(s, o, w, y) /\ Closed(y) /\ y.peer.id = w.peer.id
  BY <1>2, <1>3, ClosingPasses
<1> HIDE DEF y
<1>5. Passes(s, o, x, y)
  BY <1>2, <1>4, PassesOn DEF Passes
<1> QED BY <1>1, <1>2, <1>4, <1>5

(* dtls_destroy_peer *)
LEMMA DestroyResult ==
  ASSUME NEW s \in Side, NEW o, NEW x, Good(s, o, x), x.peer # NULL
  PROVE  Result(s, o, x, DestroyPeer(x))
<1> DEFINE y == IF x.peer.state \in {"CLOSED", "CLOSING"} THEN x ELSE Close(x)
           z == Freed(y)
<1>1. DestroyPeer(x) = z
  BY DEF DestroyPeer, Freed
<1>2. Same(x, x)
  BY DEF Good, Same
<1>3. Passes(s, o, x, y)
  BY <1>2, SamePasses, ClosePasses
<1> HIDE DEF y
<1>4. Good(s, o, y)
  BY <1>3 DEF Passes, Result
<1>5. Result(s, o, y, z)
  BY <1>4, FreedResult
<1> HIDE DEF z
<1> QED BY <1>1, <1>3, <1>5, PassesOn

(* dtls_alert_send_from_err *)
LEMMA SendFromErrPasses ==
  ASSUME NEW s \in Side, NEW o, NEW x, Good(s, o, x), IsError(x)
  PROVE  LET y == AlertSendFromErr(x)
         IN /\ Passes(s, o, x, y)
            /\ x.peer = NULL => y.peer = NULL
            /\ x.peer # NULL => Closed(y) /\ y.peer.id = x.peer.id
<1> DEFINE y == AlertSendFromErr(x)
<1>1. x \in Endpoints /\ x.ret \in Errors
  BY EndpointType DEF Good, IsError
<1>2. CASE x.peer = NULL
  <2>1. y = x
    BY <1>2 DEF AlertSendFromErr
  <2>2. Same(x, x)
    BY <1>1 DEF Same
  <2> HIDE DEF y
  <2>3. Passes(s, o, x, y)
    BY <2>1, <2>2, SamePasses
  <2> QED BY <1>2, <2>1, <2>3 DEF y
<1>3. CASE x.peer # NULL
  <2> DEFINE w == SetState(x, "CLOSING")
             desc == x.ret
  <2>1. y = SendAlert(w, desc)
    BY <1>3 DEF AlertSendFromErr
  <2>2. Passes(s, o, x, w) /\ Closed(w) /\ w.peer # NULL /\ w.peer.id = x.peer.id
    BY <1>3, ClosingPasses
  <2>3. Good(s, o, w)
    BY <2>2 DEF Passes, Result
  <2> HIDE DEF w, y, desc
  <2>4. Passes(s, o, w, y) /\ y.peer = w.peer
    BY <1>1, <2>1, <2>2, <2>3, AlertPasses DEF desc
  <2>5. Passes(s, o, x, y)
    BY <2>2, <2>4, PassesOn DEF Passes
  <2>6. Closed(y)
    BY <2>2, <2>4 DEF Closed
  <2> QED BY <1>3, <2>2, <2>4, <2>5, <2>6 DEF y
<1> QED BY <1>2, <1>3

(* A record that does not open. *)
LEMMA DecryptFailedResult ==
  ASSUME NEW s \in Side, NEW o, NEW x, Good(s, o, x), x.peer # NULL
  PROVE  Result(s, o, x, DecryptFailed(x))
<1> DEFINE w == Error(x, "decrypt_error")
           y == AlertSendFromErr(w)
           c == SetState(y, "CLOSED")
           z == DestroyPeer(c)
<1>1. x \in Endpoints /\ "decrypt_error" \in Errors
  BY DEF Good, Errors
<1>2. Same(x, w) /\ w.ret = "decrypt_error" /\ w.crashed = x.crashed
  BY <1>1, ErrorSame
<1>3. DecryptFailed(x) = IF Handshaking(x.peer) THEN z ELSE w
  BY DEF DecryptFailed
<1> HIDE DEF w
<1>4. Passes(s, o, x, w) /\ w.peer = x.peer
  BY <1>2, SamePasses DEF Same
<1>5. Good(s, o, w) /\ IsError(w)
  BY <1>2, <1>4 DEF Passes, Result, IsError
<1>6. Passes(s, o, w, y) /\ y.peer # NULL
  BY <1>4, <1>5, SendFromErrPasses DEF Closed
<1> HIDE DEF y
<1>7. Good(s, o, y)
  BY <1>6 DEF Passes, Result
<1>8. Passes(s, o, y, c) /\ c.peer # NULL
  BY <1>6, <1>7, ClosingPasses
<1> HIDE DEF c
<1>9. Good(s, o, c)
  BY <1>8 DEF Passes, Result
<1>10. Result(s, o, c, z)
  BY <1>8, <1>9, DestroyResult
<1> HIDE DEF z
<1>11. Passes(s, o, x, c)
  BY <1>4, <1>6, <1>8, PassesOn DEF Passes
<1>12. Result(s, o, x, z)
  BY <1>10, <1>11, PassesOn
<1> QED BY <1>3, <1>4, <1>12 DEF Passes

(* handle_alert *)
LEMMA AlertResult ==
  ASSUME NEW s \in Side, NEW o, NEW x, Good(s, o, x), NEW m
  PROVE  Result(s, o, x, HandleAlert(x, m))
<1> DEFINE y == Event(x, "ALERT")
           c == SetState(y, "CLOSING")
           d == SendAlert(c, "close_notify")
           e == SetState(y, "CLOSED")
           z == CASE m.desc # "close_notify" -> y
                  [] m.desc = "close_notify" /\ x.peer.state # "CLOSING" -> d
                  [] OTHER -> e
           w == StopRetransmission(z)
           v == Freed(w)
<1>1. x \in Endpoints /\ "close_notify" \in Errors
  BY DEF Good, Errors
<1>2. CASE x.peer = NULL
  <2>1. HandleAlert(x, m) = x
    BY <1>2 DEF HandleAlert
  <2>2. Same(x, x)
    BY <1>1 DEF Same
  <2> QED BY <2>1, <2>2, SamePasses DEF Passes
<1>3. CASE x.peer # NULL
  <2>1. HandleAlert(x, m) = v \/ HandleAlert(x, m) = z
    BY <1>3 DEF HandleAlert, Freed
  <2>2. z = y \/ z = d \/ z = e
    OBVIOUS
  <2>3. Same(x, y) /\ y.crashed = x.crashed
    BY <1>1, EventSame
  <2> HIDE DEF z, y
  <2>4. Passes(s, o, x, y) /\ y.peer = x.peer
    BY <2>3, SamePasses DEF Same
  <2>5. Good(s, o, y) /\ y.peer # NULL
    BY <1>3, <2>4 DEF Passes, Result
  <2>6. Passes(s, o, y, c) /\ c.peer # NULL
    BY <2>5, ClosingPasses
  <2>7. Passes(s, o, y, e)
    BY <2>5, ClosingPasses
  <2> HIDE DEF c, e
  <2>8. Good(s, o, c)
    BY <2>6 DEF Passes, Result
  <2>9. Passes(s, o, c, d)
    BY <1>1, <2>6, <2>8, AlertPasses
  <2> HIDE DEF d
  <2>10. Passes(s, o, y, d)
    BY <2>6, <2>9, PassesOn DEF Passes
  <2>11. Passes(s, o, x, d) /\ Passes(s, o, x, e)
    BY <2>4, <2>7, <2>10, PassesOn DEF Passes
  <2>12. Passes(s, o, x, z)
    BY <2>2, <2>4, <2>11
  <2>13. Good(s, o, z)
    BY <2>12 DEF Passes, Result
  <2>14. Passes(s, o, z, w)
    BY <2>13, StopPasses
  <2> HIDE DEF w
  <2>15. Good(s, o, w)
    BY <2>14 DEF Passes, Result
  <2>16. Result(s, o, w, v)
    BY <2>15, FreedResult
  <2> HIDE DEF v
  <2>17. Passes(s, o, x, w)
    BY <2>12, <2>14, PassesOn DEF Passes
  <2>18. Result(s, o, x, v)
    BY <2>16, <2>17, PassesOn
  <2> QED BY <2>1, <2>12, <2>18 DEF Passes
<1> QED BY <1>2, <1>3

-----------------------------------------------------------------------------
(* dtls_handle_message *)

(* A handshake record of the other side. *)
LEMMA HandshakeRecordResult ==
  ASSUME NEW s \in Side, NEW o, NEW x, Good(s, o, x), x.ret = "ok",
         NEW record, Says(Other(s), o.h, o.done, record.msg)
  PROVE  Result(s, o, x, HandleHandshakeRecord(x, record))
<1> DEFINE m == record.msg
           role == IF x.peer # NULL THEN x.peer.role ELSE "server"
           state == IF x.peer # NULL THEN x.peer.state ELSE "WAIT_CLIENTHELLO"
           y == HandleHandshake(x, role, state, m)
           w == StopRetransmission(y)
           z == HandleHandshakeRecord(x, record)
           early == x.peer # NULL /\ record.epoch # ExpectedEpoch(x.peer)
           over == x.peer # NULL /\ y.peer.state = "CONNECTED"
<1>1. /\ early => z = x
      /\ ~early =>
           /\ IsError(y) => z = AlertSendFromErr(y)
           /\ ~IsError(y) /\ over => z = Event(w, "CONNECTED")
           /\ ~IsError(y) /\ ~over => z = y
  <2>1. y = IF x.peer # NULL
            THEN HandleHandshake(x, x.peer.role, x.peer.state, record.msg)
            ELSE HandleHandshake(x, "server", "WAIT_CLIENTHELLO", record.msg)
    OBVIOUS
  <2> HIDE DEF y
  <2> QED BY <2>1 DEF HandleHandshakeRecord
<1>2. x \in Endpoints /\ (x.peer # NULL => role = x.peer.role /\ state = x.peer.state)
  BY DEF Good
<1> HIDE DEF z, role, state, m
<1>3. /\ Outcome(s, o, x, y)
      /\ x.peer = NULL => Kept(x, y)
      /\ Drained(x) => IsError(y) \/ y.crashed \/ Drained(y)
  BY <1>2, HandshakeOutcome DEF m
<1> HIDE DEF y
<1>4. Good(s, o, y) /\ y \in Endpoints
  BY <1>3 DEF Outcome, Good
<1>5. CASE early
  <2>1. Same(x, x) /\ z = x
    BY <1>1, <1>2, <1>5 DEF Same
  <2> QED BY <2>1, SamePasses DEF Passes, z
<1>6. CASE ~early /\ IsError(y)
  <2>1. z = AlertSendFromErr(y)
    BY <1>1, <1>6
  <2>2. /\ Passes(s, o, y, z)
        /\ y.peer = NULL => z.peer = NULL
        /\ y.peer # NULL => Closed(z)
    BY <1>4, <1>6, <2>1, SendFromErrPasses
  <2>3. Kept(x, y)
    BY <1>3, <1>6 DEF Outcome, Completes, IsError
  <2>4. Kept(x, z)
    BY <2>2, <2>3 DEF Passes, Kept
  <2>5. z.peer = NULL \/ Closed(z)
    BY <2>2
  <2>6. Drained(z) /\ Quiet(z)
    BY <2>5 DEF Drained, Quiet, Closed
  <2> QED BY <1>3, <2>2, <2>4, <2>5, <2>6 DEF Passes, Result, Outcome, z
<1>7. CASE ~early /\ ~IsError(y) /\ over
  <2>1. z = Event(w, "CONNECTED")
    BY <1>1, <1>7
  <2>2. /\ Passes(s, o, y, w) /\ w \in Endpoints
        /\ w.peer = y.peer /\ w.ret = y.ret /\ w.done = y.done
        /\ w.crashed \/ Silent(w)
    BY <1>4, StopPasses
  <2> HIDE DEF w
  <2>3. Same(w, z) /\ z.crashed = w.crashed /\ z.ret = w.ret
    BY <2>1, <2>2, EventSame
  <2>4. Good(s, o, w)
    BY <2>2 DEF Passes, Result
  <2>5. Passes(s, o, w, z)
    BY <2>3, <2>4, SamePasses
  <2>6. Passes(s, o, y, z)
    BY <2>2, <2>5, PassesOn DEF Passes
  <2>7. z.crashed \/ Silent(z)
    BY <2>2, <2>3 DEF Same, Silent, Live
  <2>8. Kept(x, z) \/ Completes(s, o, x, z)
    <3>1. Kept(x, y) => Kept(x, z)
      BY <2>6 DEF Passes, Kept
    <3>2. Completes(s, o, x, y) => Completes(s, o, x, z)
      BY <2>2, <2>3 DEF Completes, Same
    <3> QED BY <1>3, <3>1, <3>2 DEF Outcome
  <2>9. Mute(s, o.h) /\ Closed(x) => z.peer = NULL \/ Closed(z)
    BY <1>3, <2>6 DEF Outcome, Passes, Result
  <2>10. Quiet(x) => z.crashed \/ Quiet(z)
    BY <2>7 DEF Quiet
  <2>11. Drained(x) => z.crashed \/ Drained(z)
    BY <1>3, <1>7, <2>6 DEF Passes, Result
  <2> QED BY <1>3, <2>6, <2>8, <2>9, <2>10, <2>11 DEF Passes, Result, Outcome, z
<1>8. CASE ~early /\ ~IsError(y) /\ ~over
  <2>1. z = y
    BY <1>1, <1>8
  <2>2. y.peer = NULL \/ y.peer.state # "CONNECTED"
    BY <1>3, <1>8 DEF Kept
  <2>3. Quiet(y)
    BY <2>2 DEF Quiet
  <2> QED BY <1>3, <1>8, <2>1, <2>3 DEF Outcome, Result, z
<1> QED BY <1>5, <1>6, <1>7, <1>8

(* A datagram of the other side. *)
LEMMA MessageResult ==
  ASSUME NEW s \in Side, NEW o, NEW x, Good(s, o, x), x.ret = "ok",
         NEW record, record.ct \in ContentType,
         record.ct = "handshake" => Says(Other(s), o.h, o.done, record.msg)
  PROVE  Result(s, o, x, HandleMessage(x, record))
<1> DEFINE y == IF x.peer = NULL THEN x ELSE DecryptVerify(x, record)
           w == IF x.peer = NULL THEN y ELSE StopRetransmission(y)
           z == HandleMessage(x, record)
<1>1. x \in Endpoints /\ {"no_peer", "handshake_failure"} \subseteq Errors
  BY DEF Good, Errors
<1>2. Same(x, x)
  BY <1>1 DEF Same
<1>3. Passes(s, o, x, y) /\ y.ret = "ok"
  BY <1>2, SamePasses, DecryptPasses
<1>4. /\ x.peer # NULL /\ ~Opens(x, record) => z = DecryptFailed(x)
      /\ ~(x.peer # NULL /\ ~Opens(x, record)) =>
           /\ record.ct = "ccs" => z = HandleCcs(w)
           /\ record.ct = "alert" => z = HandleAlert(w, record.msg)
           /\ record.ct = "application_data" =>
                z = IF x.peer = NULL THEN Error(x, "no_peer") ELSE Event(w, "READ")
           /\ record.ct = "handshake" =>
                z = IF x.peer = NULL /\ record.key # NULL
                    THEN Error(x, "handshake_failure")
                    ELSE HandleHandshakeRecord(y, record)
  <2> HIDE DEF y
  <2> QED BY DEF HandleMessage, y
<1> HIDE DEF y
<1>5. Good(s, o, y)
  BY <1>3 DEF Passes, Result
<1>6. Passes(s, o, x, w) /\ (w.crashed \/ Silent(w)) /\ w \in Endpoints
  <2>1. CASE x.peer = NULL
    <3>1. w = x
      BY <2>1 DEF y
    <3> QED BY <1>1, <1>2, <2>1, <3>1, SamePasses DEF Silent, Live
  <2>2. CASE x.peer # NULL
    <3>1. w = StopRetransmission(y)
      BY <2>2
    <3> HIDE DEF w
    <3>2. Passes(s, o, y, w) /\ (w.crashed \/ Silent(w)) /\ w \in Endpoints
      BY <1>5, <3>1, StopPasses
    <3>3. Passes(s, o, x, w)
      BY <1>3, <3>2, PassesOn DEF Passes
    <3> QED BY <3>2, <3>3
  <2> QED BY <2>1, <2>2
<1> HIDE DEF w, z
<1>7. Good(s, o, w)
  BY <1>6 DEF Passes, Result
<1>8. ASSUME NEW desc \in Errors PROVE Result(s, o, x, Error(x, desc))
  <2>1. Same(x, Error(x, desc)) /\ Error(x, desc).crashed = x.crashed
    BY <1>1, ErrorSame
  <2> QED BY <2>1, SamePasses DEF Passes
<1>9. CASE x.peer # NULL /\ ~Opens(x, record)
  BY <1>4, <1>9, DecryptFailedResult DEF z
<1>10. CASE ~(x.peer # NULL /\ ~Opens(x, record))
  <2>1. CASE record.ct = "ccs"
    <3>1. Result(s, o, w, HandleCcs(w))
      BY <1>6, <1>7, CcsResult
    <3> QED BY <1>4, <1>6, <1>10, <2>1, <3>1, PassesOn DEF z
  <2>2. CASE record.ct = "alert"
    <3>1. Result(s, o, w, HandleAlert(w, record.msg))
      BY <1>7, AlertResult
    <3> QED BY <1>4, <1>6, <1>10, <2>2, <3>1, PassesOn DEF z
  <2>3. CASE record.ct = "application_data"
    <3>1. Same(w, Event(w, "READ")) /\ Event(w, "READ").crashed = w.crashed
      BY <1>6, EventSame
    <3>2. Result(s, o, w, Event(w, "READ"))
      BY <1>7, <3>1, SamePasses DEF Passes
    <3>3. Result(s, o, x, Event(w, "READ"))
      BY <1>6, <3>2, PassesOn
    <3> QED BY <1>1, <1>4, <1>8, <1>10, <2>3, <3>3 DEF z
  <2>4. CASE record.ct = "handshake"
    <3>1. Result(s, o, y, HandleHandshakeRecord(y, record))
      BY <1>3, <1>5, <2>4, HandshakeRecordResult
    <3>2. Result(s, o, x, HandleHandshakeRecord(y, record))
      BY <1>3, <3>1, PassesOn
    <3> QED BY <1>1, <1>4, <1>8, <1>10, <2>4, <3>2 DEF z
  <2> QED BY <2>1, <2>2, <2>3, <2>4 DEF ContentType
<1> QED BY <1>9, <1>10

-----------------------------------------------------------------------------
(* What the application calls *)

(* dtls_renegotiate *)
LEMMA RenegotiateResult ==
  ASSUME NEW s \in Side, NEW o, NEW x, Good(s, o, x), x.ret = "ok", Quiet(x)
  PROVE  Result(s, o, x, Renegotiate(x))
<1> DEFINE g == NewHandshake(0, 0, NULL)
           y == [x EXCEPT !.peer.hs = g]
           z == SendHandshakeHash(y, Message("hello_request"), FALSE)
<1>1. x \in Endpoints /\ {"no_peer", "busy"} \subseteq Errors
  BY DEF Good, Errors
<1>2. g \in Handshakes /\ g.reorder_queue = NULL
  BY NewHsType
<1>3. /\ x.peer = NULL => Renegotiate(x) = Error(x, "no_peer")
      /\ (x.peer # NULL /\ x.peer.state # "CONNECTED") =>
           Renegotiate(x) = Error(x, "busy")
      /\ (x.peer # NULL /\ x.peer.state = "CONNECTED" /\ x.peer.role = "client") =>
           Renegotiate(x) = Starts(x, g)
      /\ (x.peer # NULL /\ x.peer.state = "CONNECTED" /\ x.peer.role # "client") =>
           Renegotiate(x) = z
  BY DEF Renegotiate, Starts
<1> HIDE DEF g
<1>4. ASSUME NEW desc \in Errors PROVE Result(s, o, x, Error(x, desc))
  <2>1. Same(x, Error(x, desc)) /\ Error(x, desc).crashed = x.crashed
    BY <1>1, ErrorSame
  <2> QED BY <2>1, SamePasses DEF Passes
<1>5. CASE x.peer = NULL \/ x.peer.state # "CONNECTED"
  BY <1>1, <1>3, <1>4, <1>5
<1>6. CASE x.peer # NULL /\ x.peer.state = "CONNECTED"
  <2>1. Sound(s, x) /\ x.peer.role = s /\ ~InHandshake(x.peer) /\ ~Closed(x)
    BY <1>6 DEF Good, Sound, InHandshake, Closed
  <2>2. CASE s = "client"
    <3> DEFINE w == Starts(x, g)
    <3>1. x.peer.hs = NULL
      BY <1>6, <2>1, <2>2 DEF Sound
    <3>2. /\ Good("client", o, w)
          /\ w.h = x.h /\ w.crashed = x.crashed /\ w.done = x.done
          /\ w.peer # NULL /\ w.peer.hs # NULL
          /\ w.peer.state = "CLIENTHELLO"
          /\ w.peer.hs.reorder_queue = NULL
          /\ Clear(x) => Clear(w)
      BY <1>2, <1>6, <2>2, <3>1, ClientStarts
    <3> HIDE DEF w
    <3>3. Guarded(x) => Guarded(w)
      <4>1. Guarded(x) => Clear(x)
        BY <1>6, <3>1, SilentClear DEF Quiet, Guarded
      <4> QED BY <3>2, <4>1, ClearGuarded
    <3>4. Kept(x, w) /\ Quiet(w) /\ Drained(w)
      BY <3>2 DEF Kept, Quiet, Drained, NextBuffered
    <3>5. Result(s, o, x, w)
      BY <2>1, <2>2, <3>2, <3>3, <3>4 DEF Result
    <3> QED BY <1>3, <1>6, <2>1, <2>2, <3>5 DEF w
  <2>3. CASE s # "client"
    <3>1. s = "server"
      BY <2>3 DEF Side
    <3>2. /\ Good("server", o, y) /\ Serving("server", o, y) /\ Ready(y)
          /\ Top(x, y) /\ Alike(x.peer, y.peer) /\ y.peer.hs = g
          /\ Guarded(x) => Guarded(y)
      BY <1>2, <1>6, <2>1, <3>1, HsCreated
    <3> HIDE DEF y
    <3>3. Message("hello_request") \in Messages
          /\ Message("hello_request").ht = "hello_request"
      BY MessageType DEF ServerKinds
    <3>4. "hello_request" \in Sends("server", y.h) \ {"server_hello", "finished"}
      BY DEF Sends, ServerKinds
    <3>5. MaySend("server", y.done, "other", y, "handshake", Message("hello_request"))
      BY <3>2, <3>3, <3>4, SimpleSend DEF Ready
    <3>6. y \in Endpoints /\ CanSend(y) /\ y.peer # NULL /\ FALSE \in BOOLEAN
      BY <3>2, ReadyType DEF Ready
    <3>7. Wrote("server", y.done, "other", y, z)
      BY <3>3, <3>5, <3>6, SendHandshakeHashWrote
    <3> HIDE DEF z
    <3>8. y.peer.state = "CONNECTED"
      BY <1>6, <3>2 DEF Alike
    <3>9. Covered(y.h, z.peer.hs, y.peer.state)
      BY <3>8 DEF Covered
    <3>10. Handled("server", o, y, z) /\ Kept(y, z)
      BY <3>1, <3>2, <3>7, <3>9, WroteHandled
    <3>11. Kept(x, z)
      BY <1>6, <3>2, <3>10 DEF Kept, Top, Alike
    <3>12. /\ z.peer # NULL /\ z.peer.hs # NULL
           /\ z.peer.hs.reorder_queue = NULL
      BY <1>2, <3>2, <3>6, <3>7 DEF Wrote, SameHs, Ready
    <3>13. Quiet(z) /\ Drained(z)
      BY <3>12 DEF Quiet, Drained, NextBuffered
    <3>14. Guarded(x) => Guarded(z)
      BY <3>2, <3>7 DEF Wrote
    <3>15. z.h = x.h /\ z.crashed = x.crashed /\ Good(s, o, z)
      BY <3>1, <3>2, <3>10 DEF Handled, Top
    <3>16. Result(s, o, x, z)
      BY <2>1, <3>11, <3>13, <3>14, <3>15 DEF Result
    <3> QED BY <1>3, <1>6, <2>1, <2>3, <3>16
  <2> QED BY <2>2, <2>3
<1> QED BY <1>5, <1>6

(* dtls_connect to a side without a peer object for it. *)
LEMMA ConnectResult ==
  ASSUME NEW o, NEW x, Good("client", o, x), x.ret = "ok", x.peer = NULL
  PROVE  Result("client", o, x, Connect(x))
<1> DEFINE g == NewHandshake(0, 0, {})
           w == WithPeer(x, "client")
           z == Starts(w, g)
           new == NewPeer(x.peers + 1, "client")
<1>1. x \in Endpoints /\ "client" \in Side
  BY DEF Good, Side
<1>2. g \in Handshakes /\ g.reorder_queue = {}
  BY NewHsType
<1>3. /\ Good("client", o, w)
      /\ w.h = x.h /\ w.crashed = x.crashed /\ w.ret = "ok" /\ w.done = x.done
      /\ w.peer # NULL /\ w.peer.hs = NULL
      /\ Sealed(x) => Clear(w)
  <2>1. \A s \in Side :
          Good(s, o, x) =>
            /\ Good(s, o, WithPeer(x, s))
            /\ WithPeer(x, s).h = x.h /\ WithPeer(x, s).crashed = x.crashed
            /\ WithPeer(x, s).ret = x.ret /\ WithPeer(x, s).done = x.done
            /\ WithPeer(x, s).peer # NULL /\ WithPeer(x, s).peer.hs = NULL
            /\ Sealed(x) => Clear(WithPeer(x, s))
    BY PeerCreated
  <2> QED BY <1>1, <2>1
<1>4. Connect(x) = IF IsError(z) THEN z ELSE Event(z, "CONNECT")
  <2>1. w.peer = new /\ w = [x EXCEPT !.peers = @ + 1, !.peer = new]
    BY <1>1 DEF WithPeer, Endpoints
  <2>2. [w EXCEPT !.peer.hs = g]
          = [x EXCEPT !.peers = @ + 1, !.peer = [new EXCEPT !.hs = g]]
    <3> HIDE DEF new, g, w
    <3>1. [w EXCEPT !.peer.hs = g] = [w EXCEPT !.peer = [new EXCEPT !.hs = g]]
      BY <2>1
    <3> DEFINE p == [new EXCEPT !.hs = g]
    <3> HIDE DEF p
    <3>2. [w EXCEPT !.peer = p] = [x EXCEPT !.peers = @ + 1, !.peer = p]
      BY <1>1, <2>1 DEF Endpoints
    <3> QED BY <3>1, <3>2 DEF p
  <2> HIDE DEF w
  <2> QED BY <2>2 DEF Connect, Starts
<1> HIDE DEF w, g
<1>5. /\ Good("client", o, z)
      /\ z.h = w.h /\ z.crashed = w.crashed /\ z.done = w.done /\ z.ret = w.ret
      /\ z.peer # NULL /\ z.peer.hs # NULL
      /\ z.peer.state = "CLIENTHELLO"
      /\ z.peer.hs.reorder_queue = {}
      /\ Clear(w) => Clear(z)
  BY <1>2, <1>3, ClientStarts
<1> HIDE DEF z
<1>6. Kept(x, z) /\ Quiet(z) /\ Drained(z)
  BY <1>3, <1>5 DEF Kept, Quiet, Drained, NextBuffered
<1>7. Guarded(x) => Guarded(z)
  BY <1>3, <1>5, ClearGuarded DEF Guarded
<1>8. Result("client", o, x, z) /\ Kept(x, z)
  BY <1>1, <1>3, <1>5, <1>6, <1>7 DEF Result, Closed
<1>9. Passes("client", o, x, z) /\ z \in Endpoints
  BY <1>5, <1>8 DEF Passes, Good
<1>10. Same(z, Event(z, "CONNECT")) /\ Event(z, "CONNECT").crashed = z.crashed
  BY <1>9, EventSame
<1>11. Result("client", o, z, Event(z, "CONNECT"))
  BY <1>5, <1>10, SamePasses DEF Passes
<1>12. Result("client", o, x, Event(z, "CONNECT"))
  BY <1>9, <1>11, PassesOn
<1> QED BY <1>4, <1>8, <1>12

(* dtls_write *)
LEMMA WriteResult ==
  ASSUME NEW s \in Side, NEW o, NEW x, Good(s, o, x), x.peer # NULL
  PROVE  Result(s, o, x, Write(x, s))
<1> DEFINE m == [data |-> s]
           y == SendMulti(x, "application_data", m)
<1>1. x \in Endpoints /\ CanSend(x) /\ Sound(s, x)
  BY DEF Good, Sound, CanSend
<1>2. CASE x.peer.state = "CONNECTED"
  <2>1. Write(x, s) = y
    BY <1>2 DEF Write
  <2>2. m \in Contents /\ "application_data" \in ContentType
    BY DEF Contents, ContentType, Side
  <2>3. x.peer.sec[0].key # NULL
    BY <1>1, <1>2, NullAssumption DEF Sound
  <2> HIDE DEF m
  <2>4. MaySend(s, x.done, "other", x, "application_data", m)
    BY <2>2, <2>3 DEF MaySend
  <2>5. Wrote(s, x.done, "other", x, y) /\ y.peer = x.peer
    BY <1>1, <2>4, SendMultiWrote
  <2>6. y.sendqueue = x.sendqueue
    BY <1>1, Unqueued
  <2> HIDE DEF y
  <2>7. Passes(s, o, x, y)
    BY <2>5, <2>6, WritePasses
  <2> QED BY <2>1, <2>7 DEF Passes
<1>3. CASE x.peer.state # "CONNECTED"
  <2>1. Write(x, s) = x
    BY <1>3 DEF Write
  <2>2. Same(x, x)
    BY <1>1 DEF Same
  <2> QED BY <2>1, <2>2, SamePasses DEF Passes
<1> QED BY <1>2, <1>3

-----------------------------------------------------------------------------
(* The timer *)

(* Result, but for what is protected. *)
Moves(s, o, x, y) ==
  /\ Good(s, o, y) /\ y.h = x.h
  /\ Kept(x, y) \/ Completes(s, o, x, y)
  /\ Drained(x) => y.crashed \/ Drained(y)
  /\ Quiet(x) => y.crashed \/ Quiet(y)
  /\ Mute(s, o.h) /\ Closed(x) => y.peer = NULL \/ Closed(y)
Guards(x, y) == Guarded(x) => y.crashed \/ Guarded(y)

(* The contract of the handlers is that and protection.                    *)
LEMMA ResultMoves ==
  ASSUME NEW s, NEW o, NEW x, NEW y, Result(s, o, x, y)
  PROVE  Moves(s, o, x, y) /\ Guards(x, y)
BY DEF Result, Moves, Guards

(* Nothing but what is written and the faults differ. *)
Sent(x, y) ==
  /\ y \in Endpoints
  /\ y.h = x.h /\ y.peer = x.peer /\ y.sendqueue = x.sendqueue
  /\ y.peers = x.peers /\ y.rnd = x.rnd /\ y.done = x.done

(* Writing what has been written before. *)
LEMMA SentMoves ==
  ASSUME NEW s, NEW o, NEW x, NEW y, Good(s, o, x), Sent(x, y),
         \A i \in DOMAIN y.out :
           y.out[i].ct = "handshake" => Says(s, x.h, x.done, y.out[i].msg)
  PROVE  Moves(s, o, x, y) /\ (Sealed(y) => Guards(x, y))
<1> USE DEF Sent
<1>1. Posted(s, y.done, y)
  BY DEF Good, Posted
<1>2. x.peer # NULL => Sound(s, y)
  <2>1. x.peer # NULL => Sound(s, x)
    BY DEF Good
  <2>2. Fresh(s, x) => Fresh(s, y)
    BY DEF Fresh
  <2> QED BY <2>1, <2>2 DEF Sound
<1>3. x.peer # NULL => Buffered(s, o, y)
  <2>1. x.peer # NULL => Buffered(s, o, x)
    BY DEF Good
  <2> QED BY <2>1 DEF Buffered
<1>4. Good(s, o, y)
  BY <1>1, <1>2, <1>3 DEF Good
<1>5. Kept(x, y)
  BY DEF Kept
<1>6. (Drained(x) => Drained(y)) /\ (Closed(x) => Closed(y))
  BY DEF Drained, Closed, NextBuffered, HasHandshake
<1>7. Quiet(x) => Quiet(y)
  BY DEF Quiet, Silent, Live
<1>8. Sealed(y) => Guards(x, y)
  <2>1. \A n : Waits(y, n) <=> Waits(x, n)
    BY DEF Waits, Live
  <2> QED BY <2>1 DEF Guards, Guarded
<1> QED BY <1>4, <1>5, <1>6, <1>7, <1>8 DEF Moves

(* dtls_retransmit of a node: unless the memory of a freed peer is read as *)
(* it was, a Finished goes out under its key again.                        *)
LEMMA RetransmitMoves ==
  ASSUME NEW s, NEW o, NEW x, Good(s, o, x), x.out = <<>>,
         NEW i \in DOMAIN x.sendqueue
  PROVE  LET y == Retransmit(x, x.sendqueue[i])
         IN Moves(s, o, x, y) /\ (x.fate # "stale" => Guards(x, y))
<1> DEFINE node == x.sendqueue[i]
           slot == IF Live(x, node) THEN ParamsEpoch(x.peer.sec, node.epoch)
                   ELSE NULL
           security == IF slot = NULL THEN NewSecurity ELSE x.peer.sec[slot]
           record == [ct |-> node.ct, epoch |-> security.epoch,
                      key |-> security.key, msg |-> node.msg]
           w == [x EXCEPT !.out = <<record>>]
           fault == [w EXCEPT !.faults = @ \cup {"freed_peer"}]
           none == [fault EXCEPT !.out = <<>>]
           y == Retransmit(x, node)
<1>1. x \in Endpoints /\ node \in Nodes
  <2>1. x \in Endpoints
    BY DEF Good
  <2>2. x.sendqueue \in Seq(Nodes)
    BY <2>1, EndpointType
  <2> QED BY <2>1, <2>2
<1>2. /\ Live(x, node) => y = w
      /\ ~Live(x, node) =>
           /\ x.fate = "stale" => y = fault
           /\ x.fate = "reused" => y = none
           /\ x.fate \notin {"stale", "reused"} => y = Crash(x, "freed_peer")
  BY DEF Retransmit
<1>3. security \in Security /\ (Live(x, node) => slot \in {0, 1, NULL})
  <2>1. NewSecurity \in Security
    BY DEF NewSecurity, Security, Cipher
  <2>2. CASE slot = NULL
    BY <2>1, <2>2
  <2>3. CASE slot # NULL
    <3>1. Live(x, node) /\ slot = ParamsEpoch(x.peer.sec, node.epoch)
      BY <2>3
    <3>2. x.peer \in Peers
      BY <1>1, <3>1, EndpointType DEF Live
    <3>3. /\ x.peer.sec[0] \in Security \/ x.peer.sec[0] = NULL
          /\ x.peer.sec[1] \in Security \/ x.peer.sec[1] = NULL
      BY <3>2, PeerType
    <3> HIDE DEF node
    <3>4. \/ slot = 0 /\ 0 \in EpochSlots(x.peer.sec, node.epoch)
          \/ slot = 1 /\ EpochSlots(x.peer.sec, node.epoch) = {1}
      BY <2>3, <3>1 DEF ParamsEpoch
    <3>5. slot \in {0, 1} /\ x.peer.sec[slot] # NULL
      BY <3>4 DEF EpochSlots
    <3> HIDE DEF slot
    <3> QED BY <2>3, <3>3, <3>5
  <2> QED BY <2>2, <2>3
<1>4. record \in Datagrams /\ record.ct = node.ct /\ record.msg = node.msg
      /\ record.key = security.key
  <2> HIDE DEF security, node
  <2>1. security.epoch \in Nat /\ security.key \in {NULL} \cup KeyBlock
    BY <1>3, SecType
  <2>2. node.ct \in ContentType /\ node.msg \in Contents
    BY <1>1 DEF Nodes, ContentType
  <2> QED BY <2>1, <2>2 DEF Datagrams
<1>5. record.ct = "handshake" => Says(s, x.h, x.done, record.msg)
  <2>1. node.ct = "handshake" => Says(s, x.h, x.done, node.msg)
    BY DEF Good, Posted
  <2> QED BY <1>4, <2>1
<1> HIDE DEF record
<1>6. Sent(x, w) /\ w.out = <<record>>
  <2>1. <<record>> \in Seq(Datagrams)
    BY <1>4
  <2>2. w \in Endpoints
    BY <1>1, <2>1 DEF Endpoints
  <2> QED BY <1>1, <2>2 DEF Endpoints, Sent
<1> HIDE DEF w
<1>7. Sent(x, fault) /\ fault.out = <<record>>
  <2>1. w \in Endpoints
    BY <1>6 DEF Sent
  <2>2. fault \in Endpoints
    BY <2>1 DEF Endpoints
  <2>3. /\ fault.h = w.h /\ fault.peer = w.peer /\ fault.sendqueue = w.sendqueue
        /\ fault.peers = w.peers /\ fault.rnd = w.rnd /\ fault.done = w.done
        /\ fault.out = w.out
    BY <2>1 DEF Endpoints
  <2> HIDE DEF fault
  <2> QED BY <1>6, <2>2, <2>3 DEF Sent
<1> HIDE DEF fault
<1>8. Sent(x, none) /\ none.out = <<>>
  <2>1. fault \in Endpoints /\ <<>> \in Seq(Datagrams)
    BY <1>7 DEF Sent
  <2>2. none \in Endpoints
    BY <2>1 DEF Endpoints
  <2>3. /\ none.h = fault.h /\ none.peer = fault.peer
        /\ none.sendqueue = fault.sendqueue /\ none.peers = fault.peers
        /\ none.rnd = fault.rnd /\ none.done = fault.done /\ none.out = <<>>
    BY <2>1 DEF Endpoints
  <2> HIDE DEF none
  <2> QED BY <1>7, <2>2, <2>3 DEF Sent
<1> HIDE DEF none
<1>9. CASE Live(x, node)
  <2>1. Moves(s, o, x, w) /\ (Sealed(w) => Guards(x, w))
    BY <1>5, <1>6, SentMoves
  <2>2. ASSUME Guarded(x) PROVE Sealed(w)
    <3>1. ASSUME record.ct = "handshake", record.msg.ht = "finished"
          PROVE  record.key = record.msg.verify[2]
      <4>1. Waits(x, node) /\ x.peer # NULL
        BY <1>4, <1>9, <3>1 DEF Waits, Live
      <4>2. /\ node.epoch = x.peer.sec[0].epoch
            /\ node.msg.verify[2] = x.peer.sec[0].key
        BY <2>2, <4>1 DEF Guarded
      <4>3. x.peer.sec[0] # NULL
        BY <4>1 DEF Good, Sound
      <4>4. 0 \in EpochSlots(x.peer.sec, node.epoch)
        BY <4>2, <4>3 DEF EpochSlots, Slot
      <4>5. ParamsEpoch(x.peer.sec, node.epoch) = 0
        <5>1. EpochSlots(x.peer.sec, node.epoch) # {1}
          BY <4>4
        <5> QED BY <4>4, <5>1 DEF ParamsEpoch
      <4>6. security = x.peer.sec[0]
        BY <1>9, <4>5, NullAssumption
      <4> QED BY <1>4, <4>2, <4>6
    <3>2. record.ct # "application_data"
      BY <1>1, <1>4 DEF Nodes
    <3> QED BY <1>6, <3>1, <3>2 DEF Sealed
  <2> QED BY <1>2, <1>9, <2>1, <2>2 DEF Guards
<1>10. CASE ~Live(x, node) /\ x.fate = "stale"
  <2>1. Moves(s, o, x, fault)
    BY <1>5, <1>7, SentMoves
  <2> QED BY <1>2, <1>10, <2>1
<1>11. CASE ~Live(x, node) /\ x.fate = "reused"
  <2>1. \A j \in DOMAIN none.out : none.out[j] = record
    BY <1>8
  <2>2. Sealed(none)
    BY <1>8 DEF Sealed
  <2>3. Moves(s, o, x, none) /\ Guards(x, none)
    BY <1>8, <2>2, SentMoves
  <2> QED BY <1>2, <1>11, <2>3
<1>12. CASE ~Live(x, node) /\ x.fate \notin {"stale", "reused"}
  <2>1. Same(x, Crash(x, "freed_peer")) /\ Crash(x, "freed_peer").crashed
    BY <1>1, CrashSame
  <2>2. Result(s, o, x, Crash(x, "freed_peer"))
    BY <2>1, SamePasses DEF Passes
  <2> QED BY <1>2, <1>12, <2>2, ResultMoves
<1> QED BY <1>9, <1>10, <1>11, <1>12

(* Removing a node leaves nodes that were there. *)
LEMMA RemovedNode ==
  ASSUME NEW x \in Endpoints, NEW i \in DOMAIN x.sendqueue
  PROVE  LET q == RemoveAt(x.sendqueue, i)
         IN /\ q \in Seq(Nodes)
            /\ \A j \in DOMAIN q : \E k \in DOMAIN x.sendqueue :
                 q[j] = x.sendqueue[k]
<1> DEFINE p == x.sendqueue
           K == {e \in Nodes : \E k \in DOMAIN p : e = p[k]}
           q == RemoveAt(p, i)
<1>1. p \in Seq(Nodes)
  BY EndpointType
<1> HIDE DEF p
<1>2. p \in Seq(K) /\ Len(p) \in Nat /\ i \in 1..Len(p)
  BY <1>1 DEF p
<1>3. \A e \in K : e \in Nodes /\ \E k \in DOMAIN p : e = p[k]
  OBVIOUS
<1> HIDE DEF K
<1>4. SubSeq(p, 1, i - 1) \in Seq(K) /\ SubSeq(p, i + 1, Len(p)) \in Seq(K)
  BY <1>2
<1>5. q \in Seq(K)
  BY <1>4, ConcatProperties DEF RemoveAt
<1> HIDE DEF q
<1>6. \A j \in DOMAIN q : q[j] \in K
  BY <1>5
<1>7. q \in Seq(Nodes)
  <2>1. K \subseteq Nodes
    BY <1>3
  <2> QED BY <1>5, <2>1
<1> QED BY <1>3, <1>6, <1>7 DEF p, q

(* dtls_retransmit of a node whose count is exhausted. *)
GivenUp(x, i) == [x EXCEPT !.sendqueue = RemoveAt(@, i)]

(* Giving a node up keeps the contract.                                    *)
LEMMA GivenUpResult ==
  ASSUME NEW s, NEW o, NEW x, Good(s, o, x), NEW i \in DOMAIN x.sendqueue
  PROVE  LET y == GivenUp(x, i)
         IN Result(s, o, x, y) /\ y.crashed = x.crashed /\ y.peers = x.peers
<1> DEFINE q == RemoveAt(x.sendqueue, i)
           y == GivenUp(x, i)
<1>1. x \in Endpoints
  BY DEF Good
<1>2. /\ q \in Seq(Nodes)
      /\ \A j \in DOMAIN q : \E k \in DOMAIN x.sendqueue : q[j] = x.sendqueue[k]
  BY <1>1, RemovedNode
<1>3. y = [x EXCEPT !.sendqueue = q]
  BY DEF GivenUp
<1> HIDE DEF q, y
<1>4. /\ y \in Endpoints /\ y.sendqueue = q
      /\ y.h = x.h /\ y.peer = x.peer /\ y.peers = x.peers /\ y.rnd = x.rnd
      /\ y.out = x.out /\ y.done = x.done /\ y.crashed = x.crashed
  BY <1>1, <1>2, <1>3 DEF Endpoints
<1>5. Posted(s, y.done, y)
  <2>1. Posted(s, x.done, x)
    BY DEF Good
  <2> QED BY <1>2, <1>4, <2>1 DEF Posted
<1>6. x.peer # NULL => Sound(s, y)
  <2>1. x.peer # NULL => Sound(s, x)
    BY DEF Good
  <2>2. Fresh(s, x) => Fresh(s, y)
    BY <1>4 DEF Fresh
  <2> QED BY <1>4, <2>1, <2>2 DEF Sound
<1>7. x.peer # NULL => Buffered(s, o, y)
  <2>1. x.peer # NULL => Buffered(s, o, x)
    BY DEF Good
  <2> QED BY <1>4, <2>1 DEF Buffered
<1>8. Good(s, o, y)
  BY <1>4, <1>5, <1>6, <1>7 DEF Good
<1>9. Kept(x, y) /\ (Drained(x) => Drained(y)) /\ (Closed(x) => Closed(y))
  BY <1>4 DEF Kept, Drained, Closed, NextBuffered, HasHandshake
<1>10. Quiet(x) => Quiet(y)
  BY <1>2, <1>4 DEF Quiet, Silent, Live
<1>11. Guarded(x) => Guarded(y)
  <2>1. \A n : Waits(y, n) <=> Waits(x, n)
    BY <1>4 DEF Waits, Live
  <2> QED BY <1>2, <1>4, <2>1 DEF Guarded, Sealed
<1> QED BY <1>4, <1>8, <1>9, <1>10, <1>11 DEF Result, y

-----------------------------------------------------------------------------
(* A step *)

(* What a step leaves of the endpoint a handler ended with, and of the one *)
(* it began with when it crashed.                                          *)
Reset(y) == [y EXCEPT !.out = <<>>, !.ev = <<>>, !.ret = "ok", !.fate = "crash"]
Failed(x, y) == [x EXCEPT !.crashed = TRUE, !.faults = y.faults]

(* Between handlers. *)
Idle(x) == x.out = <<>> /\ x.ev = <<>> /\ x.ret = "ok" /\ x.fate = "crash"

(* What handlers write and report is taken from them. *)
LEMMA ResetIs ==
  ASSUME NEW s, NEW o, NEW y, Good(s, o, y)
  PROVE  LET z == Reset(y)
         IN /\ Idle(z) /\ Sent(y, z) /\ Good(s, o, z)
            /\ (Guarded(y) => Guarded(z))
            /\ (Drained(y) => Drained(z)) /\ (Quiet(y) => Quiet(z))
<1> DEFINE z == Reset(y)
<1>1. y \in Endpoints
  BY DEF Good
<1>2. z \in Endpoints
  <2>1. /\ <<>> \in Seq(Datagrams)
        /\ <<>> \in Seq({"CONNECT", "CONNECTED", "ALERT", "READ"})
    OBVIOUS
  <2> QED BY <1>1, <2>1 DEF Reset, Endpoints
<1>3. /\ z.h = y.h /\ z.peer = y.peer /\ z.sendqueue = y.sendqueue
      /\ z.peers = y.peers /\ z.rnd = y.rnd /\ z.done = y.done
      /\ z.out = <<>> /\ z.ev = <<>> /\ z.ret = "ok" /\ z.fate = "crash"
  BY <1>1 DEF Reset, Endpoints
<1> HIDE DEF z
<1>4. Sent(y, z)
  BY <1>2, <1>3 DEF Sent
<1>5. Good(s, o, z)
  <2>1. Moves(s, o, y, z)
    BY <1>3, <1>4, SentMoves
  <2> QED BY <2>1 DEF Moves
<1>6. Guarded(y) => Guarded(z)
  <2>1. Sealed(z)
    BY <1>3 DEF Sealed
  <2>2. \A n : Waits(z, n) <=> Waits(y, n)
    BY <1>3 DEF Waits, Live
  <2> QED BY <1>3, <2>1, <2>2 DEF Guarded
<1>7. Drained(y) => Drained(z)
  BY <1>3 DEF Drained, Closed, NextBuffered, HasHandshake
<1>8. Quiet(y) => Quiet(z)
  BY <1>3 DEF Quiet, Silent, Live
<1> QED BY <1>3, <1>4, <1>5, <1>6, <1>7, <1>8 DEF Idle, z

(* A crash leaves the rest as it was. *)
LEMMA FailedIs ==
  ASSUME NEW s, NEW o, NEW x, Good(s, o, x), NEW y \in Endpoints
  PROVE  LET z == Failed(x, y)
         IN /\ Same(x, z) /\ Good(s, o, z) /\ (Idle(x) => Idle(z))
            /\ Kept(x, z) /\ (Closed(x) => Closed(z))
            /\ (Guarded(x) => Guarded(z))
            /\ (Drained(x) => Drained(z)) /\ (Quiet(x) => Quiet(z))
<1> DEFINE z == Failed(x, y)
<1>1. x \in Endpoints /\ y.faults \subseteq {"freed_peer", "null_peer", "null_queue"}
  BY EndpointType DEF Good
<1>2. z \in Endpoints
  BY <1>1 DEF Failed, Endpoints
<1>3. /\ z.h = x.h /\ z.peer = x.peer /\ z.sendqueue = x.sendqueue
      /\ z.peers = x.peers /\ z.rnd = x.rnd /\ z.done = x.done
      /\ z.out = x.out /\ z.ev = x.ev /\ z.ret = x.ret /\ z.fate = x.fate
  BY <1>1 DEF Failed, Endpoints
<1> HIDE DEF z
<1>4. Same(x, z)
  BY <1>2, <1>3 DEF Same
<1>5. Good(s, o, z) /\ Kept(x, z) /\ (Guarded(x) => Guarded(z))
  BY <1>4, SameKeeps
<1>6. (Drained(x) => Drained(z)) /\ (Closed(x) => Closed(z))
  BY <1>3 DEF Drained, Closed, NextBuffered, HasHandshake
<1>7. Quiet(x) => Quiet(z)
  BY <1>3 DEF Quiet, Silent, Live
<1> QED BY <1>3, <1>4, <1>5, <1>6, <1>7 DEF Idle, z

(* The fate of freed memory is decided. *)
Decided(x, f) == [x EXCEPT !.fate = f]

(* It changes nothing else. *)
LEMMA FateIs ==
  ASSUME NEW s, NEW o, NEW x, Good(s, o, x), NEW f \in {"crash", "stale", "reused"}
  PROVE  LET z == Decided(x, f)
         IN /\ Same(x, z) /\ Good(s, o, z) /\ z.fate = f /\ z.ret = x.ret
            /\ z.crashed = x.crashed
<1> DEFINE z == Decided(x, f)
<1>1. x \in Endpoints
  BY DEF Good
<1>2. z \in Endpoints
  BY <1>1 DEF Endpoints, Decided
<1>3. /\ z.h = x.h /\ z.peer = x.peer /\ z.sendqueue = x.sendqueue
      /\ z.peers = x.peers /\ z.rnd = x.rnd /\ z.done = x.done
      /\ z.out = x.out /\ z.ret = x.ret /\ z.fate = f /\ z.crashed = x.crashed
  BY <1>1 DEF Endpoints, Decided
<1> HIDE DEF z
<1>4. Same(x, z)
  BY <1>2, <1>3 DEF Same
<1> QED BY <1>3, <1>4, SameKeeps DEF z

(* What is the same moves alike. *)
LEMMA SameMoves ==
  ASSUME NEW s, NEW o, NEW x, NEW z, NEW y, Same(x, z), Moves(s, o, z, y)
  PROVE  Moves(s, o, x, y) /\ (Guards(z, y) => Guards(x, y))
<1>1. x.h = z.h /\ x.peer = z.peer /\ x.done = z.done /\ x.sendqueue = z.sendqueue
  BY DEF Same
<1>2. Kept(z, y) => Kept(x, y)
  BY <1>1 DEF Kept
<1>3. Completes(s, o, z, y) => Completes(s, o, x, y)
  BY <1>1 DEF Completes
<1>4. (Drained(x) => Drained(z)) /\ (Closed(x) => Closed(z))
  BY <1>1 DEF Drained, Closed, NextBuffered, HasHandshake
<1>5. Quiet(x) => Quiet(z)
  BY <1>1 DEF Quiet, Silent, Live
<1>6. Guarded(x) => Guarded(z)
  BY SameKeeps
<1>7. Guards(z, y) => Guards(x, y)
  BY <1>6 DEF Guards
<1>8. y.h = x.h
  BY <1>1 DEF Moves
<1> QED BY <1>2, <1>3, <1>4, <1>5, <1>7, <1>8 DEF Moves

-----------------------------------------------------------------------------
(* The invariant *)

(* Between handlers each side is good, has taken what it buffered as far   *)
(* as it goes, retransmits nothing when it is done, and has sent what its  *)
(* role lets it send.                                                      *)
IInv ==
  /\ use \in Uses
  /\ ep \in [Side -> Endpoints] /\ net \in [Side -> SUBSET Datagrams]
  /\ stray \in [Side -> BOOLEAN]
  /\ \A s \in Side :
       /\ Good(s, ep[Other(s)], ep[s]) /\ Idle(ep[s])
       /\ ep[s].h = use.callbacks[s]
       /\ ep[s].peers <= use.peers /\ ep[s].rnd <= MaxRandoms
       /\ Drained(ep[s]) /\ Quiet(ep[s])
       /\ \A r \in net[s] :
            r.ct = "handshake" => Says(s, ep[s].h, ep[s].done, r.msg)

(* What it takes for the records to be protected, which a freed peer read  *)
(* as it was would break.                                                  *)
GInv == Protected /\ \A s \in Side : Guarded(ep[s])

(* What a step of side s does, the endpoint being z after it.              *)
Stepped(s, z) ==
  /\ z \in Endpoints /\ use' = use /\ ep' = [ep EXCEPT ![s] = z]
  /\ net' \in [Side -> SUBSET Datagrams] /\ stray' \in [Side -> BOOLEAN]
  /\ net'[Other(s)] = net[Other(s)]
  /\ Good(s, ep[Other(s)], z) /\ Idle(z) /\ z.h = ep[s].h
  /\ z.peers <= use.peers /\ z.rnd <= MaxRandoms
  /\ Drained(z) /\ Quiet(z)
  /\ Kept(ep[s], z) \/ Completes(s, ep[Other(s)], ep[s], z)
  /\ (Mute(s, ep[Other(s)].h) /\ Closed(ep[s])) => z.peer = NULL \/ Closed(z)
  /\ \A r \in net'[s] : r.ct = "handshake" => Says(s, z.h, z.done, r.msg)
  /\ ("stale" \notin Fates /\ GInv) =>
       /\ Guarded(z)
       /\ \A r \in net'[s] :
            /\ r.ct = "application_data" => r.key # NULL
            /\ (r.ct = "handshake" /\ r.msg.ht = "finished") =>
                 r.key = r.msg.verify[2]

(* What a side has completed it has completed for good. *)
LEMMA DoneGrows ==
  ASSUME NEW s, NEW o, NEW x, NEW y, Kept(x, y) \/ Completes(s, o, x, y)
  PROVE  x.done \subseteq y.done
BY DEF Kept, Completes

(* There are two sides.                                                    *)
LEMMA Sides ==
  \A s \in Side : /\ Other(s) \in Side /\ Other(s) # s
                  /\ Other(Other(s)) = s /\ Side = {s, Other(s)}
BY DEF Side, Other

(* A handler that ended with y steps to an endpoint that moved as y did.   *)
LEMMA StepStepped ==
  ASSUME IInv, NEW s \in Side, NEW y, Step(s, y),
         Moves(s, ep[Other(s)], ep[s], y),
         "stale" \notin Fates => Guards(ep[s], y)
  PROVE  \E z \in Endpoints : Stepped(s, z)
<1> DEFINE x == ep[s]
           o == ep[Other(s)]
<1>1. /\ Good(s, o, x) /\ Idle(x) /\ x.h = use.callbacks[s] /\ Drained(x) /\ Quiet(x)
      /\ x.peers <= use.peers /\ x.rnd <= MaxRandoms
      /\ \A r \in net[s] : r.ct = "handshake" => Says(s, x.h, x.done, r.msg)
  BY DEF IInv
<1>2. /\ ep \in [Side -> Endpoints] /\ net \in [Side -> SUBSET Datagrams]
      /\ stray \in [Side -> BOOLEAN]
  BY DEF IInv
<1>3. /\ Good(s, o, y) /\ y.h = x.h
      /\ Kept(x, y) \/ Completes(s, o, x, y)
      /\ y.crashed \/ (Drained(y) /\ Quiet(y))
      /\ (Mute(s, o.h) /\ Closed(x)) => y.peer = NULL \/ Closed(y)
  BY <1>1 DEF Moves
<1>4. y \in Endpoints
  BY <1>3 DEF Good
<1>5. use' = use /\ y.peers <= use.peers /\ y.rnd <= MaxRandoms
  BY DEF Step
<1>6. CASE y.crashed
  <2> DEFINE z == Failed(x, y)
  <2>1. /\ ep' = [ep EXCEPT ![s].crashed = TRUE, ![s].faults = y.faults]
        /\ net' = net /\ stray' = stray
    BY <1>6 DEF Step
  <2>2. ep' = [ep EXCEPT ![s] = z]
    BY <1>2, <2>1 DEF Failed
  <2>3. /\ Same(x, z) /\ Good(s, o, z) /\ Idle(z) /\ Kept(x, z)
        /\ Closed(x) => Closed(z)
        /\ Guarded(x) => Guarded(z)
        /\ Drained(z) /\ Quiet(z)
    BY <1>1, <1>4, FailedIs
  <2> HIDE DEF z
  <2>4. /\ z \in Endpoints /\ z.h = x.h /\ z.peers = x.peers /\ z.rnd = x.rnd
        /\ z.done = x.done
    BY <2>3 DEF Same
  <2>5. Stepped(s, z)
    BY <1>1, <1>2, <1>5, <2>1, <2>2, <2>3, <2>4 DEF Stepped, GInv, Protected
  <2> QED BY <2>4, <2>5
<1>7. CASE ~y.crashed
  <2> DEFINE z == Reset(y)
             sent == ToSet(y.out)
  <2>1. /\ ep' = [ep EXCEPT ![s] = z]
        /\ net' = [net EXCEPT ![s] = @ \cup sent]
        /\ stray' = [stray EXCEPT ![s] =
                       @ \/ ("CONNECTED" \in ToSet(y.ev) /\ y.done = ep[s].done)]
    BY <1>7 DEF Step, Reset
  <2>2. /\ Idle(z) /\ Sent(y, z) /\ Good(s, o, z)
        /\ Guarded(y) => Guarded(z)
        /\ Drained(z) /\ Quiet(z)
    BY <1>3, <1>7, ResetIs
  <2> HIDE DEF z
  <2>3. /\ z \in Endpoints /\ z.h = y.h /\ z.peer = y.peer /\ z.done = y.done
        /\ z.peers = y.peers /\ z.rnd = y.rnd /\ z.ret = "ok"
    BY <2>2 DEF Sent, Idle
  <2>4. Kept(x, z) \/ Completes(s, o, x, z)
    BY <1>3, <2>3 DEF Kept, Completes
  <2>5. (Mute(s, o.h) /\ Closed(x)) => z.peer = NULL \/ Closed(z)
    BY <1>3, <2>3 DEF Closed
  <2>6. sent \subseteq Datagrams
        /\ \A r \in sent : \E i \in DOMAIN y.out : r = y.out[i]
    <3>1. y.out \in Seq(Datagrams)
      BY <1>4, EndpointType
    <3> QED BY <3>1 DEF ToSet
  <2>7. \A r \in sent : r.ct = "handshake" => Says(s, z.h, z.done, r.msg)
    BY <1>3, <2>3, <2>6 DEF Good, Posted
  <2> HIDE DEF sent
  <2>8. /\ net' \in [Side -> SUBSET Datagrams]
        /\ net'[Other(s)] = net[Other(s)] /\ net'[s] = net[s] \cup sent
    BY <1>2, <2>1, <2>6, Sides
  <2>9. stray' \in [Side -> BOOLEAN]
    BY <1>2, <2>1
  <2>10. x.done \subseteq z.done
    BY <2>4, DoneGrows
  <2>11. \A r \in net'[s] : r.ct = "handshake" => Says(s, z.h, z.done, r.msg)
    <3>1. \A r \in net[s] : r.ct = "handshake" => Says(s, z.h, z.done, r.msg)
      BY <1>1, <1>3, <2>3, <2>10, SaysMore
    <3> QED BY <2>7, <2>8, <3>1
  <2>12. ASSUME "stale" \notin Fates, GInv
         PROVE  /\ Guarded(z)
                /\ \A r \in net'[s] :
                     /\ r.ct = "application_data" => r.key # NULL
                     /\ (r.ct = "handshake" /\ r.msg.ht = "finished") =>
                          r.key = r.msg.verify[2]
    <3>1. Guarded(y)
      BY <1>7, <2>12 DEF Guards, GInv
    <3>2. \A r \in sent :
            /\ r.ct = "application_data" => r.key # NULL
            /\ (r.ct = "handshake" /\ r.msg.ht = "finished") =>
                 r.key = r.msg.verify[2]
      BY <2>6, <3>1 DEF Guarded, Sealed
    <3>3. \A r \in net[s] :
            /\ r.ct = "application_data" => r.key # NULL
            /\ (r.ct = "handshake" /\ r.msg.ht = "finished") =>
                 r.key = r.msg.verify[2]
      BY <2>12 DEF GInv, Protected
    <3> QED BY <2>2, <2>8, <3>1, <3>2, <3>3
  <2>13. Stepped(s, z)
    BY <1>3, <1>5, <2>1, <2>2, <2>3, <2>4, <2>5, <2>8, <2>9, <2>11, <2>12 DEF Stepped
  <2> QED BY <2>3, <2>13
<1> QED BY <1>6, <1>7

(* Every action is a step of one side. *)
LEMMA NextStepped ==
  ASSUME IInv, Next
  PROVE  \E s \in Side : \E z \in Endpoints : Stepped(s, z)
<1>1. /\ ep \in [Side -> Endpoints] /\ net \in [Side -> SUBSET Datagrams]
      /\ stray \in [Side -> BOOLEAN]
  BY DEF IInv
<1>2. \A s \in Side :
        /\ Good(s, ep[Other(s)], ep[s]) /\ Idle(ep[s])
        /\ ep[s].h = use.callbacks[s] /\ Quiet(ep[s])
        /\ ep[s].peers <= use.peers /\ ep[s].rnd <= MaxRandoms
        /\ \A r \in net[s] :
             r.ct = "handshake" => Says(s, ep[s].h, ep[s].done, r.msg)
  BY DEF IInv
<1>3. \A s \in Side : ep[s].out = <<>> /\ ep[s].ret = "ok"
  BY <1>2 DEF Idle
<1>4. \A f \in Fates : f \in {"crash", "stale", "reused"}
  BY FatesAssumption
<1>5. ASSUME NEW s \in Side, NEW y, Step(s, y),
             Result(s, ep[Other(s)], ep[s], y)
      PROVE  \E z \in Endpoints : Stepped(s, z)
  <2>1. Moves(s, ep[Other(s)], ep[s], y) /\ Guards(ep[s], y)
    BY <1>5, ResultMoves
  <2> QED BY <1>5, <2>1, StepStepped
<1>6. ASSUME NEW s \in Side, NEW record \in net[Other(s)], NEW fate \in Fates,
             Deliver(s, record, fate)
      PROVE  \E z \in Endpoints : Stepped(s, z)
  <2> DEFINE x == Decided(ep[s], fate)
             y == HandleMessage(x, record)
  <2>1. Step(s, y)
    BY <1>6 DEF Deliver, Decided
  <2>2. /\ Same(ep[s], x) /\ Good(s, ep[Other(s)], x) /\ x.ret = ep[s].ret
        /\ x.crashed = ep[s].crashed
    <3>1. Good(s, ep[Other(s)], ep[s]) /\ fate \in {"crash", "stale", "reused"}
      BY <1>2, <1>4
    <3> QED BY <3>1, FateIs
  <2> HIDE DEF x
  <2>3. /\ record.ct \in ContentType
        /\ record.ct = "handshake" =>
             Says(Other(s), ep[Other(s)].h, ep[Other(s)].done, record.msg)
    BY <1>1, <1>2, Sides DEF Datagrams
  <2>4. Result(s, ep[Other(s)], x, y)
    BY <1>3, <2>2, <2>3, MessageResult
  <2> HIDE DEF y
  <2>5. Passes(s, ep[Other(s)], ep[s], x)
    BY <1>2, <2>2, SamePasses
  <2>6. Result(s, ep[Other(s)], ep[s], y)
    BY <2>4, <2>5, PassesOn
  <2> QED BY <1>5, <2>1, <2>6
<1>7. ASSUME NEW s \in Side, NEW node \in ToSet(ep[s].sendqueue),
             NEW fate \in Fates, TimerResend(s, node, fate)
      PROVE  \E z \in Endpoints : Stepped(s, z)
  <2> DEFINE x == Decided(ep[s], fate)
             y == Retransmit(x, node)
  <2>1. Step(s, y)
    BY <1>7 DEF TimerResend, Decided
  <2>2. /\ Same(ep[s], x) /\ Good(s, ep[Other(s)], x) /\ x.fate = fate
    <3>1. Good(s, ep[Other(s)], ep[s]) /\ fate \in {"crash", "stale", "reused"}
      BY <1>2, <1>4
    <3> QED BY <3>1, FateIs
  <2> HIDE DEF x
  <2>3. x.sendqueue = ep[s].sendqueue /\ x.out = <<>>
    BY <1>3, <2>2 DEF Same
  <2>4. PICK i \in DOMAIN x.sendqueue : node = x.sendqueue[i]
    BY <2>3 DEF ToSet
  <2>5. Moves(s, ep[Other(s)], x, y) /\ (x.fate # "stale" => Guards(x, y))
    BY <2>2, <2>3, <2>4, RetransmitMoves
  <2> HIDE DEF y
  <2>6. Moves(s, ep[Other(s)], ep[s], y) /\ (Guards(x, y) => Guards(ep[s], y))
    BY <2>2, <2>5, SameMoves
  <2>7. "stale" \notin Fates => Guards(ep[s], y)
    BY <2>2, <2>5, <2>6
  <2> QED BY <2>1, <2>6, <2>7, StepStepped
<1>8. ASSUME NEW s \in Side, NEW i \in DOMAIN ep[s].sendqueue, TimerGiveUp(s, i)
      PROVE  \E z \in Endpoints : Stepped(s, z)
  <2> DEFINE x == ep[s]
             y == GivenUp(x, i)
  <2>1. /\ ep' = [ep EXCEPT ![s].sendqueue = RemoveAt(@, i)]
        /\ use' = use /\ net' = net /\ stray' = stray /\ ~x.crashed
    BY <1>8 DEF TimerGiveUp, Running
  <2>2. ep' = [ep EXCEPT ![s] = y]
    BY <1>1, <2>1 DEF GivenUp
  <2>3. Result(s, ep[Other(s)], x, y) /\ y.crashed = x.crashed /\ y.peers = x.peers
    BY <1>2, GivenUpResult
  <2>4. /\ y.out = x.out /\ y.ev = x.ev /\ y.ret = x.ret /\ y.fate = x.fate
        /\ y.rnd = x.rnd /\ y.done = x.done
    BY <1>1 DEF GivenUp, Endpoints
  <2> HIDE DEF y
  <2>5. /\ Good(s, ep[Other(s)], y) /\ y.h = x.h /\ ~y.crashed
        /\ Kept(x, y) \/ Completes(s, ep[Other(s)], x, y)
        /\ Guarded(x) => Guarded(y)
        /\ Drained(y) /\ Quiet(y)
        /\ (Mute(s, ep[Other(s)].h) /\ Closed(x)) => y.peer = NULL \/ Closed(y)
    BY <2>1, <2>3 DEF Result, IInv
  <2>6. y \in Endpoints
    BY <2>5 DEF Good
  <2>7. Idle(y)
    BY <1>2, <2>4 DEF Idle
  <2>8. GInv => Guarded(y) /\ \A r \in net[s] :
                                /\ r.ct = "application_data" => r.key # NULL
                                /\ (r.ct = "handshake" /\ r.msg.ht = "finished") =>
                                     r.key = r.msg.verify[2]
    BY <2>5 DEF GInv, Protected
  <2>9. Stepped(s, y)
    BY <1>1, <1>2, <2>1, <2>2, <2>3, <2>4, <2>5, <2>6, <2>7, <2>8 DEF Stepped
  <2> QED BY <2>6, <2>9
<1>9. "client" \in Side
  BY DEF Side
<1>10. ASSUME CallConnect PROVE \E z \in Endpoints : Stepped("client", z)
  <2>1. PICK s \in Side : s = "client"
    BY <1>9
  <2>2. Step(s, Connect(ep[s])) /\ ep[s].peer = NULL
    BY <1>10, <2>1 DEF CallConnect
  <2>3. Result(s, ep[Other(s)], ep[s], Connect(ep[s]))
    BY <1>2, <1>3, <2>1, <2>2, ConnectResult
  <2> QED BY <1>5, <2>1, <2>2, <2>3
<1>11. ASSUME NEW s \in Side, CallRenegotiate(s)
       PROVE  \E z \in Endpoints : Stepped(s, z)
  <2>1. Result(s, ep[Other(s)], ep[s], Renegotiate(ep[s]))
    BY <1>2, <1>3, RenegotiateResult
  <2> QED BY <1>5, <1>11, <2>1 DEF CallRenegotiate
<1>12. ASSUME NEW s \in Side, CallWrite(s)
       PROVE  \E z \in Endpoints : Stepped(s, z)
  <2>1. Result(s, ep[Other(s)], ep[s], Write(ep[s], s))
    BY <1>2, <1>12, WriteResult DEF CallWrite
  <2> QED BY <1>5, <1>12, <2>1 DEF CallWrite
<1>13. ASSUME NEW s \in Side, CallClose(s)
       PROVE  \E z \in Endpoints : Stepped(s, z)
  <2>1. Passes(s, ep[Other(s)], ep[s], Close(ep[s]))
    BY <1>2, <1>13, ClosePasses DEF CallClose
  <2>2. Result(s, ep[Other(s)], ep[s], Close(ep[s]))
    BY <2>1 DEF Passes
  <2> QED BY <1>5, <1>13, <2>2 DEF CallClose
<1> QED BY <1>6, <1>7, <1>8, <1>9, <1>10, <1>11, <1>12, <1>13 DEF Next

(* The contract of one side holds on when the other side completes more.   *)
LEMMA GoodOther ==
  ASSUME NEW s, NEW o, NEW x, NEW p, Good(s, o, x), p.h = o.h,
         o.done \subseteq p.done
  PROVE  Good(s, p, x)
<1>1. x.peer # NULL => Buffered(s, p, x)
  <2>1. x.peer # NULL => Buffered(s, o, x)
    BY DEF Good
  <2>2. \A m : Says(Other(s), o.h, o.done, m) => Says(Other(s), p.h, p.done, m)
    BY SaysMore
  <2> QED BY <2>1, <2>2 DEF Buffered
<1> QED BY <1>1 DEF Good

(* The invariant holds at first: there is no peer yet.                     *)
LEMMA InitInv ==
  ASSUME Init
  PROVE  IInv /\ GInv
<1> DEFINE New(s) == NewEndpoint(use.callbacks[s])
<1>1. /\ use \in Uses /\ ep = [s \in Side |-> New(s)]
      /\ net = [s \in Side |-> {}] /\ stray = [s \in Side |-> FALSE]
  BY DEF Init
<1>2. \A s \in Side : use.callbacks[s] \in SUBSET Callback
  BY <1>1, UsesAssumption
<1>3. use.peers \in Nat /\ MaxRandoms \in Nat
  BY <1>1, UsesAssumption, BoundsAssumption
<1>4. \A s \in Side :
        /\ New(s).h = use.callbacks[s] /\ New(s).peer = NULL
        /\ New(s).sendqueue = <<>> /\ New(s).peers = 0 /\ New(s).rnd = 0
        /\ New(s).out = <<>> /\ New(s).ev = <<>> /\ New(s).ret = "ok"
        /\ New(s).fate = "crash" /\ New(s).done = {}
  BY DEF NewEndpoint
<1>5. \A s \in Side : New(s) \in Endpoints
  <2>1. /\ <<>> \in Seq(Datagrams) /\ <<>> \in Seq(Nodes)
        /\ <<>> \in Seq({"CONNECT", "CONNECTED", "ALERT", "READ"})
    OBVIOUS
  <2> QED BY <1>2, <2>1 DEF NewEndpoint, Endpoints
<1> HIDE DEF New
<1>6. \A s \in Side : ep[s] = New(s) /\ net[s] = {}
  BY <1>1
<1>7. /\ ep \in [Side -> Endpoints] /\ net \in [Side -> SUBSET Datagrams]
      /\ stray \in [Side -> BOOLEAN]
  BY <1>1, <1>5
<1>8. \A s \in Side : Good(s, ep[Other(s)], ep[s])
  BY <1>4, <1>5, <1>6 DEF Good, Posted
<1>9. \A s \in Side : Idle(ep[s]) /\ Drained(ep[s]) /\ Quiet(ep[s])
  BY <1>4, <1>6 DEF Idle, Drained, Quiet
<1>10. \A s \in Side : ep[s].peers <= use.peers /\ ep[s].rnd <= MaxRandoms
  BY <1>3, <1>4, <1>6
<1>11. \A s \in Side : Guarded(ep[s])
  BY <1>4, <1>6 DEF Guarded, Sealed
<1>12. Protected
  BY <1>6 DEF Protected
<1> QED BY <1>1, <1>4, <1>6, <1>7, <1>8, <1>9, <1>10, <1>11, <1>12 DEF IInv, GInv

(* ... and every step keeps it. *)
LEMMA SteppedInv ==
  ASSUME IInv, NEW s \in Side, NEW z \in Endpoints, Stepped(s, z)
  PROVE  IInv'
<1>1. /\ ep \in [Side -> Endpoints]
      /\ \A t \in Side :
           /\ Good(t, ep[Other(t)], ep[t]) /\ Idle(ep[t])
           /\ ep[t].h = use.callbacks[t]
           /\ ep[t].peers <= use.peers /\ ep[t].rnd <= MaxRandoms
           /\ Drained(ep[t]) /\ Quiet(ep[t])
           /\ \A r \in net[t] :
                r.ct = "handshake" => Says(t, ep[t].h, ep[t].done, r.msg)
  BY DEF IInv
<1>2. PICK o \in Side : o = Other(s) /\ o # s /\ Other(o) = s
  BY Sides
<1>3. /\ use' = use /\ use \in Uses
      /\ net' \in [Side -> SUBSET Datagrams] /\ stray' \in [Side -> BOOLEAN]
      /\ ep' \in [Side -> Endpoints] /\ ep'[s] = z /\ ep'[o] = ep[o]
      /\ net'[o] = net[o]
  BY <1>1, <1>2 DEF Stepped, IInv
<1>4. /\ Good(s, ep[o], z) /\ Idle(z) /\ z.h = ep[s].h
      /\ z.peers <= use.peers /\ z.rnd <= MaxRandoms
      /\ Drained(z) /\ Quiet(z)
      /\ \A r \in net'[s] : r.ct = "handshake" => Says(s, z.h, z.done, r.msg)
  BY <1>2 DEF Stepped
<1>5. Good(o, z, ep[o])
  <2>1. ep[s].done \subseteq z.done
    BY DoneGrows DEF Stepped
  <2>2. Good(o, ep[s], ep[o])
    BY <1>1, <1>2
  <2> QED BY <1>4, <2>1, <2>2, GoodOther
<1>6. \A t \in Side : t = s \/ t = o
  BY <1>2, Sides
<1>7. \A t \in Side :
        /\ Good(t, ep'[Other(t)], ep'[t]) /\ Idle(ep'[t])
        /\ ep'[t].h = use.callbacks[t]
        /\ ep'[t].peers <= use.peers /\ ep'[t].rnd <= MaxRandoms
        /\ Drained(ep'[t]) /\ Quiet(ep'[t])
        /\ \A r \in net'[t] :
             r.ct = "handshake" => Says(t, ep'[t].h, ep'[t].done, r.msg)
  <2>1. CASE TRUE
    BY <1>1, <1>2, <1>3, <1>4, <1>5, <1>6
  <2> QED BY <2>1
<1> QED BY <1>3, <1>7 DEF IInv

(* The invariant is inductive.                                             *)
LEMMA NextInv ==
  ASSUME IInv, [Next]_vars
  PROVE  IInv'
<1>1. CASE Next
  BY <1>1, NextStepped, SteppedInv
<1>2. CASE UNCHANGED vars
  BY <1>2 DEF vars, IInv
<1> QED BY <1>1, <1>2

(* The invariant of the two endpoints. *)
THEOREM Invariant == Spec => []IInv
<1>1. Init => IInv
  BY InitInv
<1>2. IInv /\ [Next]_vars => IInv'
  BY NextInv
<1> QED BY <1>1, <1>2, PTL DEF Spec

-----------------------------------------------------------------------------
(* What follows from the invariant *)

(* Between handlers an endpoint is well formed, a peer plays the role of   *)
(* its side and always has parameters to send with.                        *)
THEOREM EndpointsCorrect == Spec => []TypeOK
<1>1. ASSUME IInv PROVE TypeOK
  <2> SUFFICES ASSUME NEW s \in Side
               PROVE  /\ ep[s] \in Endpoints
                      /\ ep[s].out = <<>> /\ ep[s].ev = <<>> /\ ep[s].ret = "ok"
                      /\ ep[s].peers <= use.peers /\ ep[s].rnd <= MaxRandoms
                      /\ \A node \in ToSet(ep[s].sendqueue) :
                           node.peer \in 1..ep[s].peers
                      /\ ep[s].peer # NULL =>
                           /\ ep[s].peer.role = s
                           /\ ep[s].peer.state \in States
                           /\ ep[s].peer.id \in 1..ep[s].peers
                           /\ ep[s].peer.sec[0] # NULL
    BY DEF TypeOK
  <2>1. /\ Good(s, ep[Other(s)], ep[s]) /\ Idle(ep[s])
        /\ ep[s].peers <= use.peers /\ ep[s].rnd <= MaxRandoms
    BY <1>1 DEF IInv
  <2>2. ep[s] \in Endpoints
    BY <2>1 DEF Good
  <2>3. \A node \in ToSet(ep[s].sendqueue) : node.peer \in 1..ep[s].peers
    BY <2>1 DEF Good, Posted, ToSet
  <2>4. ASSUME ep[s].peer # NULL
        PROVE  /\ ep[s].peer.role = s
               /\ ep[s].peer.state \in States
               /\ ep[s].peer.id \in 1..ep[s].peers
               /\ ep[s].peer.sec[0] # NULL
    <3>1. ep[s].peer \in Peers
      BY <2>2, <2>4, EndpointType
    <3> QED BY <2>1, <2>4, <3>1, PeerType DEF Good, Sound
  <2> QED BY <2>1, <2>2, <2>3, <2>4 DEF Idle
<1> QED BY <1>1, Invariant, PTL

(* Where the code will switch to the next parameters they exist and are    *)
(* those of the handshake in progress.                                     *)
THEOREM ParamsPending == Spec => []PendingParams
<1>1. ASSUME IInv PROVE PendingParams
  <2>1. \A s \in Side : ep[s].peer # NULL => Pending(s, ep[s].peer)
    BY <1>1 DEF IInv, Good, Sound
  <2> QED BY <2>1 DEF PendingParams, Pending, InState, Peer
<1> QED BY <1>1, Invariant, PTL

(* The loop of handle_handshake takes every buffered message whose turn    *)
(* has come.                                                               *)
THEOREM DrainsAll == Spec => []DrainComplete
<1>1. ASSUME IInv PROVE DrainComplete
  <2>1. \A s \in Side : Drained(ep[s])
    BY <1>1 DEF IInv
  <2> QED BY <2>1 DEF DrainComplete, Drained, Closed, InState, Peer
<1> QED BY <1>1, Invariant, PTL

(* A connected side that does not renegotiate has nothing to retransmit.   *)
THEOREM QuietWhenConnected == Spec => []ConnectedQuiet
<1>1. ASSUME IInv PROVE ConnectedQuiet
  <2>1. \A s \in Side : Quiet(ep[s])
    BY <1>1 DEF IInv
  <2> QED BY <2>1 DEF ConnectedQuiet, Quiet, Silent, InState, Peer, ToSet
<1> QED BY <1>1, Invariant, PTL

(* Appending by concatenation. *)
LEMMA ConcatOne ==
  ASSUME NEW S, NEW q \in Seq(S), NEW e \in S
  PROVE  /\ q \o <<e>> = Append(q, e) /\ Append(q, e) \in Seq(S)
         /\ q \o <<>> = q
<1>1. q \o <<e>> = Append(q, e)
  BY AppendIsConcat
<1>2. q \o <<>> = q
  BY ConcatEmptySeq
<1>3. Append(q, e) \in Seq(S)
  BY AppendProperties
<1> QED BY <1>1, <1>2, <1>3

(* The handshake the callbacks call for is the one a server goes through.  *)
LEMMA FlightsWhole ==
  ASSUME NEW cipher
  PROVE  Flights(cipher) = Whole(cipher, ep["server"].h)
<1> DEFINE h == ep["server"].h
           K == ClientKinds \cup ServerKinds
           ecdsa == Ecdsa(cipher)
           auth == Ecdsa(cipher) /\ {"get_ecdsa_key", "verify_ecdsa_key"} \subseteq h
           hint == "psk_hint" \in h
           hello == <<"client_hello", "server_hello">>
           q1 == hello \o When(ecdsa, "certificate")
           q2 == q1 \o When(ecdsa \/ hint, "server_key_exchange")
           q3 == q2 \o When(auth, "certificate_request")
           q4 == q3 \o <<"server_hello_done">>
           q5 == q4 \o When(auth, "certificate")
           q6 == q5 \o <<"client_key_exchange">>
           q7 == q6 \o When(auth, "certificate_verify")
           q8 == q7 \o <<"finished">>
<1>1. Flights(cipher) = q8
  BY DEF Flights, ClientAuth
<1>2. /\ hello \in Seq(K) /\ hello = Append(<<"client_hello">>, "server_hello")
      /\ "certificate" \in K /\ "server_key_exchange" \in K
      /\ "certificate_request" \in K /\ "server_hello_done" \in K
      /\ "client_key_exchange" \in K /\ "certificate_verify" \in K
      /\ "finished" \in K
  BY DEF ClientKinds, ServerKinds
<1> HIDE DEF K, hello
<1>3. \A q \in Seq(K) : \A e \in K :
        q \o <<e>> = Append(q, e) /\ Append(q, e) \in Seq(K) /\ q \o <<>> = q
  BY ConcatOne
<1>4. /\ q1 \in Seq(K)
      /\ ecdsa => q1 = Append(hello, "certificate")
      /\ ~ecdsa => q1 = hello
  BY <1>2, <1>3 DEF When
<1> HIDE DEF q1
<1>5. /\ q2 \in Seq(K)
      /\ (ecdsa \/ hint) => q2 = Append(q1, "server_key_exchange")
      /\ ~(ecdsa \/ hint) => q2 = q1
  BY <1>2, <1>3, <1>4 DEF When
<1> HIDE DEF q2
<1>6. /\ q3 \in Seq(K)
      /\ auth => q3 = Append(q2, "certificate_request")
      /\ ~auth => q3 = q2
  BY <1>2, <1>3, <1>5 DEF When
<1> HIDE DEF q3
<1>7. q4 \in Seq(K) /\ q4 = Append(q3, "server_hello_done")
  BY <1>2, <1>3, <1>6
<1> HIDE DEF q4
<1>8. /\ q5 \in Seq(K)
      /\ auth => q5 = Append(q4, "certificate")
      /\ ~auth => q5 = q4
  BY <1>2, <1>3, <1>7 DEF When
<1> HIDE DEF q5
<1>9. q6 \in Seq(K) /\ q6 = Append(q5, "client_key_exchange")
  BY <1>2, <1>3, <1>8
<1> HIDE DEF q6
<1>10. /\ q7 \in Seq(K)
       /\ auth => q7 = Append(q6, "certificate_verify")
       /\ ~auth => q7 = q6
  BY <1>2, <1>3, <1>9 DEF When
<1> HIDE DEF q7
<1>11. q8 = Append(q7, "finished")
  BY <1>2, <1>3, <1>10
<1> HIDE DEF q8
<1>12. ServerFlight(cipher, h) = q4
  <2>1. CASE auth
    BY <1>2, <1>4, <1>5, <1>6, <1>7, <2>1 DEF ServerFlight
  <2>2. CASE ecdsa /\ ~auth
    BY <1>2, <1>4, <1>5, <1>6, <1>7, <2>2 DEF ServerFlight
  <2>3. CASE ~ecdsa /\ hint
    BY <1>2, <1>4, <1>5, <1>6, <1>7, <2>3 DEF ServerFlight
  <2>4. CASE ~ecdsa /\ ~hint
    BY <1>2, <1>4, <1>5, <1>6, <1>7, <2>4 DEF ServerFlight
  <2> QED BY <2>1, <2>2, <2>3, <2>4
<1>13. ClientFlight(cipher, h) = q7
  BY <1>8, <1>9, <1>10, <1>12 DEF ClientFlight
<1> QED BY <1>1, <1>11, <1>13 DEF Whole

(* A handshake completes only over the messages of its cipher suite, each  *)
(* once and in order.                                                      *)
THEOREM TranscriptComplete == Spec => []CompleteTranscript
<1>1. ASSUME IInv PROVE CompleteTranscript
  <2>1. "client" \in Side /\ "server" \in Side /\ Other("client") = "server"
    BY DEF Side, Other
  <2>2. /\ Good("server", ep[Other("server")], ep["server"])
        /\ Good("client", ep["server"], ep["client"])
    BY <1>1, <2>1 DEF IInv
  <2>3. \A s \in Side : \A d \in ep[s].done : d \in ep["server"].done
    BY <2>2 DEF Side, Good
  <2>4. \A d \in ep["server"].done :
          Kinds(d.hash) = Whole(d.key[3], ep["server"].h)
    BY <2>2 DEF Good
  <2>5. \A s \in Side : \A d \in ep[s].done : Kinds(d.hash) = Flights(d.key[3])
    BY <2>3, <2>4, FlightsWhole
  <2> QED BY <2>5, Zenon DEF CompleteTranscript, Kinds
<1> QED BY <1>1, Invariant, PTL

(* Application data is never on the wire unprotected and a Finished only   *)
(* under the key it authenticates, unless freed memory reads as it was.    *)
THEOREM RecordsProtected ==
  ASSUME "stale" \notin Fates
  PROVE  Spec => []Protected
<1>1. Init => IInv /\ GInv
  BY InitInv
<1>2. ASSUME IInv, GInv, [Next]_vars PROVE IInv' /\ GInv'
  <2>1. IInv'
    BY <1>2, NextInv
  <2>2. CASE Next
    <3>1. PICK s \in Side, z \in Endpoints : Stepped(s, z)
      BY <1>2, <2>2, NextStepped
    <3>2. PICK o \in Side : o = Other(s) /\ o # s /\ \A t \in Side : t = s \/ t = o
      BY Sides
    <3>3. ep'[s] = z /\ ep'[o] = ep[o] /\ net'[o] = net[o]
      BY <1>2, <3>1, <3>2 DEF Stepped, IInv
    <3>4. /\ Guarded(z)
          /\ \A r \in net'[s] :
               /\ r.ct = "application_data" => r.key # NULL
               /\ (r.ct = "handshake" /\ r.msg.ht = "finished") =>
                    r.key = r.msg.verify[2]
      BY <1>2, <3>1 DEF Stepped
    <3>5. Protected'
      BY <1>2, <3>2, <3>3, <3>4 DEF GInv, Protected
    <3>6. \A t \in Side : Guarded(ep'[t])
      BY <1>2, <3>2, <3>3, <3>4 DEF GInv
    <3> QED BY <2>1, <3>5, <3>6 DEF GInv
  <2>3. CASE UNCHANGED vars
    BY <1>2, <2>1, <2>3 DEF vars, GInv, Protected
  <2> QED BY <1>2, <2>2, <2>3
<1>3. IInv /\ GInv => Protected
  BY DEF GInv
<1> QED BY <1>1, <1>2, <1>3, PTL DEF Spec

(* A closing peer of side s stays so, if the other side never sends a      *)
(* ServerKeyExchange to it.                                                *)
LEMMA ClosingStep ==
  ASSUME IInv, [Next]_vars, NEW s \in Side, Mute(s, ep[Other(s)].h),
         InState(s, {"CLOSING", "CLOSED"}), Peer(s)' # NULL
  PROVE  Peer(s)'.state \in {"CLOSING", "CLOSED"}
<1>1. Closed(ep[s])
  BY DEF Closed, InState, Peer
<1>2. CASE Next
  <2>1. PICK t \in Side, z \in Endpoints : Stepped(t, z)
    BY <1>2, NextStepped
  <2>2. ep \in [Side -> Endpoints] /\ ep' = [ep EXCEPT ![t] = z]
    BY <2>1 DEF IInv, Stepped
  <2>3. CASE t = s
    <3>1. ep'[s] = z /\ (z.peer = NULL \/ Closed(z))
      BY <1>1, <2>1, <2>2, <2>3 DEF Stepped
    <3> QED BY <3>1 DEF Closed, Peer
  <2>4. CASE t # s
    <3>1. ep'[s] = ep[s]
      BY <2>2, <2>4
    <3> QED BY <1>1, <3>1 DEF Closed, Peer
  <2> QED BY <2>3, <2>4
<1>3. CASE UNCHANGED vars
  <2>1. ep' = ep
    BY <1>3 DEF vars
  <2> QED BY <1>1, <2>1 DEF Closed, Peer
<1> QED BY <1>2, <1>3

(* No message of an old or a new handshake brings a closing peer back, on  *)
(* the client unless it may be sent a ServerKeyExchange, which is accepted *)
(* in every state before a cipher suite is chosen.                         *)
THEOREM ClosedStaysClosed ==
  ASSUME \A u \in Uses :
           {"psk_hint", "get_ecdsa_key"} \cap u.callbacks["server"] = {}
  PROVE  Spec => ClosingStays
<1>1. ASSUME IInv, [Next]_vars, NEW s \in Side,
             InState(s, {"CLOSING", "CLOSED"}), Peer(s)' # NULL
      PROVE  Peer(s)'.state \in {"CLOSING", "CLOSED"}
  <2>1. Mute(s, ep[Other(s)].h)
    <3>1. CASE s = "server"
      BY <3>1 DEF Mute
    <3>2. CASE s = "client"
      <4>1. "server" \in Side /\ Other(s) = "server"
        BY <3>2 DEF Side, Other
      <4>2. ep["server"].h = use.callbacks["server"] /\ use \in Uses
        BY <1>1, <4>1 DEF IInv
      <4> QED BY <4>1, <4>2 DEF Mute
    <3> QED BY <3>1, <3>2 DEF Side
  <2> QED BY <1>1, <2>1, ClosingStep
<1>2. IInv /\ [Next]_vars =>
        [\A s \in Side :
           (InState(s, {"CLOSING", "CLOSED"}) /\ Peer(s)' # NULL
            /\ Peer(s)'.id = Peer(s).id)
             => Peer(s)'.state \in {"CLOSING", "CLOSED"}]_vars
  BY <1>1
<1> QED BY <1>2, Invariant, PTL DEF Spec, ClosingStays

(* The key an endpoint would send data under. *)
KeyIn(y) ==
  IF y.peer # NULL /\ y.peer.state \in {"CONNECTED"} THEN y.peer.sec[0].key
                                                    ELSE NULL

(* Every step of the handlers is one of SessionAgreement, or none.         *)
LEMMA StepAgrees ==
  ASSUME IInv, [Next]_vars
  PROVE  [Agreement!Next]_(Agreement!vars)
<1> DEFINE completed == [s \in Side |-> ep[s].done]
           active == [s \in Side |-> IF InState(s, {"CONNECTED"})
                                     THEN Peer(s).sec[0].key ELSE NULL]
<1>1. CASE UNCHANGED vars
  <2>1. ep' = ep
    BY <1>1 DEF vars
  <2>2. completed' = completed /\ active' = active
    BY <2>1 DEF InState, Peer
  <2> QED BY <2>2 DEF Agreement!vars
<1>2. CASE Next
  <2>1. PICK s \in Side, z \in Endpoints : Stepped(s, z)
    BY <1>2, NextStepped
  <2>2. ep \in [Side -> Endpoints] /\ ep' = [ep EXCEPT ![s] = z]
    BY <2>1 DEF IInv, Stepped
  <2> DEFINE x == ep[s]
  <2>3. /\ active = [t \in Side |-> KeyIn(ep[t])]
        /\ active' = [t \in Side |-> KeyIn(ep'[t])]
    BY DEF InState, Peer, KeyIn
  <2> HIDE DEF active
  <2>4. ep'[s] = z /\ \A t \in Side : t # s => ep'[t] = ep[t]
    BY <2>2
  <2>5. completed' = [completed EXCEPT ![s] = z.done]
    BY <2>4
  <2>6. active' = [active EXCEPT ![s] = KeyIn(z)]
    <3>1. \A t \in Side : KeyIn(ep'[t]) = IF t = s THEN KeyIn(z) ELSE KeyIn(ep[t])
      BY <2>4
    <3> QED BY <2>3, <3>1
  <2>7. completed[s] = x.done /\ active[s] = KeyIn(x)
    BY <2>3
  <2>8. Agreement!Side = Side
    BY DEF Agreement!Side, Side
  <2>9. CASE Kept(x, z)
    <3>1. z.done = x.done /\ (KeyIn(z) = NULL \/ KeyIn(z) = KeyIn(x))
      BY <2>9 DEF Kept, KeyIn
    <3>2. completed' = completed
      BY <2>5, <2>7, <3>1
    <3>3. CASE KeyIn(z) = NULL
      <4>1. Agreement!Leave(s)
        BY <2>6, <3>2, <3>3 DEF Agreement!Leave, active
      <4> QED BY <2>8, <4>1 DEF Agreement!Next
    <3>4. CASE KeyIn(z) = KeyIn(x)
      <4>1. active' = active
        BY <2>3, <2>6, <2>7, <3>4
      <4> QED BY <3>2, <4>1 DEF Agreement!vars, active
    <3> QED BY <3>1, <3>3, <3>4
  <2>10. CASE Completes(s, ep[Other(s)], x, z)
    <3>1. PICK d : /\ z.done = x.done \cup {d}
                   /\ \A e \in x.done : e.key # d.key
                   /\ s = "client" => d \in ep[Other(s)].done
                   /\ KeyIn(z) = d.key
      BY <2>10 DEF Completes, KeyIn
    <3>2. s = "client" => Other(s) = "server" /\ "server" \in Side
      BY DEF Side, Other
    <3>3. s = "client" => d \in completed["server"]
      BY <3>1, <3>2
    <3>4. Agreement!Complete(s, d)
      BY <2>5, <2>6, <2>7, <3>1, <3>3 DEF Agreement!Complete, active
    <3>5. d \in completed'[s] \ completed[s]
      BY <2>4, <2>7, <3>1
    <3> QED BY <2>8, <3>4, <3>5 DEF Agreement!Next
  <2> QED BY <2>1, <2>9, <2>10 DEF Stepped
<1> QED BY <1>1, <1>2

(* The two endpoints implement SessionAgreement: whatever is lost, doubled *)
(* or reordered, and whatever the applications call, the client completes  *)
(* only what the server has completed, no key serves two sessions and data *)
(* is sent only under the key of a completed session.                      *)
THEOREM HandshakeAgrees == Spec => AgreementSpec
<1>1. Init => Agreement!Init
  <2> SUFFICES ASSUME Init PROVE Agreement!Init
    OBVIOUS
  <2>1. \A s \in Side : ep[s].done = {} /\ ep[s].peer = NULL
    BY DEF Init, NewEndpoint
  <2> QED BY <2>1 DEF Agreement!Init, Agreement!Side, Side, InState, Peer
<1>2. IInv /\ [Next]_vars => [Agreement!Next]_(Agreement!vars)
  BY StepAgrees
<1> QED BY <1>1, <1>2, Invariant, PTL DEF Spec, AgreementSpec, Agreement!Spec

-----------------------------------------------------------------------------
(* What SessionAgreement implies *)

(* The invariants together.                                                *)
AInv == Agreement!Agreed /\ Agreement!KeysUnique /\ Agreement!ActiveCompleted

(* Both sides agree on every session the client has completed.             *)
LEMMA AgreedStep ==
  ASSUME AInv, [Agreement!Next]_(Agreement!vars)
  PROVE  Agreement!Agreed'
<1> DEFINE completed == [s \in Side |-> ep[s].done]
           active == [s \in Side |-> IF InState(s, {"CONNECTED"})
                                     THEN Peer(s).sec[0].key ELSE NULL]
<1>1. CASE UNCHANGED Agreement!vars
  BY <1>1 DEF AInv, Agreement!Agreed, Agreement!vars
<1>2. ASSUME NEW s \in Agreement!Side, Agreement!Leave(s)
      PROVE  Agreement!Agreed'
  BY <1>2 DEF AInv, Agreement!Agreed, Agreement!Leave
<1>3. ASSUME NEW s \in Agreement!Side, NEW d, Agreement!Complete(s, d)
      PROVE  Agreement!Agreed'
  <2>1. CASE s = "client"
    <3>1. completed'["client"] = completed["client"] \cup {d}
      BY <1>3, <2>1 DEF Agreement!Complete, AInv, Agreement!Side, Side
    <3>2. completed'["server"] = completed["server"]
      BY <1>3, <2>1 DEF Agreement!Complete, AInv, Agreement!Side, Side
    <3>3. d \in completed["server"]
      BY <1>3, <2>1 DEF Agreement!Complete
    <3> QED BY <3>1, <3>2, <3>3 DEF AInv, Agreement!Agreed
  <2>2. CASE s = "server"
    <3>1. completed'["server"] = completed["server"] \cup {d}
      BY <1>3, <2>2 DEF Agreement!Complete, AInv, Agreement!Side, Side
    <3>2. completed'["client"] = completed["client"]
      BY <1>3, <2>2 DEF Agreement!Complete, AInv, Agreement!Side, Side
    <3> QED BY <3>1, <3>2 DEF AInv, Agreement!Agreed
  <2> QED BY <2>1, <2>2 DEF Agreement!Side
<1> QED BY <1>1, <1>2, <1>3 DEF Agreement!Next

(* A new session has a key no session of the side has.                     *)
LEMMA KeysUniqueStep ==
  ASSUME AInv, [Agreement!Next]_(Agreement!vars)
  PROVE  Agreement!KeysUnique'
<1> DEFINE completed == [s \in Side |-> ep[s].done]
           active == [s \in Side |-> IF InState(s, {"CONNECTED"})
                                     THEN Peer(s).sec[0].key ELSE NULL]
<1>1. CASE UNCHANGED Agreement!vars
  BY <1>1 DEF AInv, Agreement!KeysUnique, Agreement!vars
<1>2. ASSUME NEW s \in Agreement!Side, Agreement!Leave(s)
      PROVE  Agreement!KeysUnique'
  BY <1>2 DEF AInv, Agreement!KeysUnique, Agreement!Leave
<1>3. ASSUME NEW s \in Agreement!Side, NEW d, Agreement!Complete(s, d)
      PROVE  Agreement!KeysUnique'
  <2> SUFFICES ASSUME NEW t \in Agreement!Side, NEW e \in completed'[t],
                      NEW f \in completed'[t], e.key = f.key
               PROVE  e = f
    BY DEF Agreement!KeysUnique
  <2>1. completed'[t] = IF t = s THEN completed[t] \cup {d} ELSE completed[t]
    BY <1>3 DEF Agreement!Complete, AInv, Agreement!Side, Side
  <2>2. t = s => \A g \in completed[t] : g.key # d.key
    BY <1>3 DEF Agreement!Complete
  <2>3. \A g, h \in completed[t] : g.key = h.key => g = h
    BY DEF AInv, Agreement!KeysUnique
  <2> HIDE DEF completed
  <2> QED BY <2>1, <2>2, <2>3
<1> QED BY <1>1, <1>2, <1>3 DEF Agreement!Next

(* A side becomes active by completing, and what is completed stays so.    *)
LEMMA ActiveCompletedStep ==
  ASSUME AInv, [Agreement!Next]_(Agreement!vars)
  PROVE  Agreement!ActiveCompleted'
<1> DEFINE completed == [s \in Side |-> ep[s].done]
           active == [s \in Side |-> IF InState(s, {"CONNECTED"})
                                     THEN Peer(s).sec[0].key ELSE NULL]
<1>1. CASE UNCHANGED Agreement!vars
  BY <1>1 DEF AInv, Agreement!ActiveCompleted, Agreement!vars
<1>2. ASSUME NEW s \in Agreement!Side, Agreement!Leave(s)
      PROVE  Agreement!ActiveCompleted'
  <2> SUFFICES ASSUME NEW t \in Agreement!Side, active'[t] # NULL
               PROVE  \E e \in completed'[t] : e.key = active'[t]
    BY DEF Agreement!ActiveCompleted
  <2>1. active'[t] = active[t]
    BY <1>2 DEF Agreement!Leave, AInv, Agreement!Side, Side
  <2> QED BY <1>2, <2>1 DEF Agreement!Leave, AInv, Agreement!ActiveCompleted
<1>3. ASSUME NEW s \in Agreement!Side, NEW d, Agreement!Complete(s, d)
      PROVE  Agreement!ActiveCompleted'
  <2> SUFFICES ASSUME NEW t \in Agreement!Side, active'[t] # NULL
               PROVE  \E e \in completed'[t] : e.key = active'[t]
    BY DEF Agreement!ActiveCompleted
  <2>1. CASE t = s
    <3>1. d \in completed'[t] /\ active'[t] = d.key
      BY <1>3, <2>1 DEF Agreement!Complete, AInv, Agreement!Side, Side
    <3> QED BY <3>1
  <2>2. CASE t # s
    <3>1. completed'[t] = completed[t] /\ active'[t] = active[t]
      BY <1>3, <2>2 DEF Agreement!Complete, AInv, Agreement!Side, Side
    <3> QED BY <3>1 DEF AInv, Agreement!ActiveCompleted
  <2> QED BY <2>1, <2>2
<1> QED BY <1>1, <1>2, <1>3 DEF Agreement!Next

(* In every behaviour of SessionAgreement both sides agree, no key is used *)
(* for two sessions and data flows only under completed sessions.          *)
THEOREM SessionsAgree ==
  AgreementSpec => [](Agreement!Agreed /\ Agreement!KeysUnique
                      /\ Agreement!ActiveCompleted)
<1>1. Agreement!Init => AInv
  BY DEF Agreement!Init, AInv, Agreement!Agreed,
         Agreement!KeysUnique, Agreement!ActiveCompleted, Agreement!Side, Side
<1>2. AInv /\ [Agreement!Next]_(Agreement!vars) => AInv'
  BY AgreedStep, KeysUniqueStep, ActiveCompletedStep DEF AInv
<1>3. AInv => Agreement!Agreed /\ Agreement!KeysUnique
              /\ Agreement!ActiveCompleted
  BY DEF AInv
<1> QED BY <1>1, <1>2, <1>3, PTL DEF AgreementSpec, Agreement!Spec

(* So this is what the applications get: check_finished of the client lets *)
(* through only what the server has completed, with the same key and the   *)
(* same messages, calculate_key_block gives every session its own key, and *)
(* dtls_write encrypts only under the key of a completed session.          *)
THEOREM ApplicationsAgree ==
  Spec => [](Agreement!Agreed /\ Agreement!KeysUnique
             /\ Agreement!ActiveCompleted)
BY HandshakeAgrees, SessionsAgree, PTL
=============================================================================
