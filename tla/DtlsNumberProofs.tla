-------------------------- MODULE DtlsNumberProofs --------------------------
(***************************************************************************)
(* The last of four modules about DtlsAsync: what the message numbers of a *)
(* handshake say, for every behaviour in which no application renegotiates *)
(* (Steady).  They tie the nodes in the send queue to the state of the     *)
(* peer: a node with a handshake message is only there while the           *)
(* parameters it would be sent again under are (NodesHaveParams); and they *)
(* keep a closing client from taking up a ServerKeyExchange                *)
(* (ClosingLasts).  The proofs follow what every handler writes and queues *)
(* (Adds), state the numbers of both sides as one inductive invariant      *)
(* (NInv) and take it through the handlers, the loop over the reorder      *)
(* queue, dtls_handle_message, the timer and the calls of the              *)
(* applications.                                                           *)
(***************************************************************************)
EXTENDS DtlsAsyncProofs

-----------------------------------------------------------------------------
(* What is written and queued *)

Written(x) == ToSet(x.out)
Waiting(x) == ToSet(x.sendqueue)

(* The record and the node dtls_send_multi makes of content m.             *)
Rec(x, ct, m) ==
  [ct |-> ct, epoch |-> x.peer.sec[0].epoch, key |-> x.peer.sec[0].key,
   msg |-> m]
Node(x, ct, m) ==
  [peer |-> x.peer.id, epoch |-> x.peer.sec[0].epoch, ct |-> ct, msg |-> m]

(* Record or node r holds a handshake message of type ht.                  *)
Of(r, ht) == r.ct = "handshake" /\ r.msg.ht = ht

(* From x to y nothing was written but records of new, nothing was queued  *)
(* but copies of them.                                                     *)
Copies(x, n, r) ==
  /\ n.peer = x.peer.id /\ n.epoch = r.epoch /\ n.ct = r.ct /\ n.msg = r.msg
  /\ ~Of(r, "hello_verify_request")
Adds(x, y, new) ==
  /\ Written(y) \subseteq Written(x) \cup new
  /\ \A n \in Waiting(y) : n \in Waiting(x) \/ \E r \in new : Copies(x, n, r)

(* The elements of a longer sequence. *)
LEMMA AppendSet ==
  ASSUME NEW S, NEW q \in Seq(S), NEW e
  PROVE  ToSet(Append(q, e)) = ToSet(q) \cup {e}
<1> DEFINE r == Append(q, e)
<1>1. /\ Len(q) \in Nat /\ DOMAIN q = 1..Len(q)
      /\ DOMAIN r = 1..(Len(q) + 1)
      /\ \A i \in 1..Len(q) : r[i] = q[i]
      /\ r[Len(q) + 1] = e
  OBVIOUS
<1> HIDE DEF r
<1>2. ToSet(q) = {q[i] : i \in 1..Len(q)} /\ ToSet(r) = {r[i] : i \in 1..(Len(q) + 1)}
  BY <1>1 DEF ToSet
<1>3. 1..(Len(q) + 1) = 1..Len(q) \cup {Len(q) + 1}
  BY <1>1
<1>4. ToSet(r) = {r[i] : i \in 1..Len(q)} \cup {e}
  BY <1>1, <1>2, <1>3
<1>5. {r[i] : i \in 1..Len(q)} = {q[i] : i \in 1..Len(q)}
  BY <1>1
<1> QED BY <1>2, <1>4, <1>5 DEF r

(* The elements of a sequence are those at its positions. *)
LEMMA SetOf ==
  ASSUME NEW S, NEW q \in Seq(S)
  PROVE  /\ \A i \in DOMAIN q : q[i] \in ToSet(q)
         /\ \A e \in ToSet(q) : \E i \in DOMAIN q : e = q[i]
         /\ ToSet(q) \subseteq S
<1>1. ToSet(q) = {q[i] : i \in DOMAIN q}
  BY DEF ToSet
<1>2. \A i \in DOMAIN q : q[i] \in S
  OBVIOUS
<1> QED BY <1>1, <1>2

(* No node of the peer is among those that wait when it is silent. *)
LEMMA SilentIs ==
  ASSUME NEW x \in Endpoints
  PROVE  /\ Silent(x) <=> \A n \in Waiting(x) : ~Live(x, n)
         /\ Waiting(x) \subseteq Nodes /\ Written(x) \subseteq Datagrams
<1>1. x.sendqueue \in Seq(Nodes) /\ x.out \in Seq(Datagrams)
  BY EndpointType
<1> QED BY <1>1, SetOf DEF Silent, Waiting, Written

(* dtls_send_multi for an endpoint with a peer. *)
LEMMA SendMultiIs ==
  ASSUME NEW x \in Endpoints, x.peer # NULL, x.peer.sec[0] # NULL,
         NEW ct \in ContentType, NEW m \in Contents
  PROVE  LET y == SendMulti(x, ct, m)
         IN /\ y \in Endpoints /\ y.peer = x.peer /\ Rest(x, y)
            /\ Written(y) = Written(x) \cup {Rec(x, ct, m)}
            /\ Waiting(y) = Waiting(x) \cup
                 (IF ct = "ccs" \/ (ct = "handshake" /\ m.ht # "hello_verify_request")
                  THEN {Node(x, ct, m)} ELSE {})
            /\ Adds(x, y, {Rec(x, ct, m)}) /\ Rec(x, ct, m) \in Datagrams
<1> DEFINE rec == Rec(x, ct, m)
           node == Node(x, ct, m)
           z == [x EXCEPT !.out = Append(@, rec)]
           y == SendMulti(x, ct, m)
           queued == ct = "ccs" \/ (ct = "handshake" /\ m.ht # "hello_verify_request")
<1>1. /\ x.peer.sec[0].epoch \in Nat /\ x.peer.sec[0].key \in {NULL} \cup KeyBlock
      /\ x.peer.id \in Nat
  BY EndpointType, PeerType, SecType
<1>2. rec \in Datagrams /\ (queued => node \in Nodes)
  BY <1>1 DEF Datagrams, Nodes, Rec, Node
<1>3. x.out \in Seq(Datagrams) /\ x.sendqueue \in Seq(Nodes)
  BY EndpointType
<1>4. ~queued => y = z
  BY DEF SendMulti, Rec
<1>5. queued => y = [z EXCEPT !.sendqueue = Append(@, node)]
  BY DEF SendMulti, Rec, Node
<1> HIDE DEF rec, node, queued
<1>6. /\ z \in Endpoints /\ z.out = Append(x.out, rec)
      /\ z.peer = x.peer /\ z.sendqueue = x.sendqueue /\ Rest(x, z)
  <2>1. Append(x.out, rec) \in Seq(Datagrams)
    BY <1>2, <1>3
  <2>2. z \in Endpoints
    BY <2>1 DEF Endpoints
  <2>3. /\ z.out = Append(x.out, rec)
        /\ z.peer = x.peer /\ z.sendqueue = x.sendqueue
    BY DEF Endpoints
  <2>4. Rest(x, z)
    BY DEF Endpoints, Rest
  <2> QED BY <2>2, <2>3, <2>4
<1> HIDE DEF z, y
<1>7. /\ y \in Endpoints /\ y.out = Append(x.out, rec) /\ y.peer = x.peer
      /\ Rest(x, y)
      /\ y.sendqueue = IF queued THEN Append(x.sendqueue, node) ELSE x.sendqueue
  <2>1. CASE queued
    <3> DEFINE w == [z EXCEPT !.sendqueue = Append(@, node)]
    <3>1. Append(z.sendqueue, node) \in Seq(Nodes)
      BY <1>2, <1>3, <1>6, <2>1
    <3>2. w \in Endpoints
      BY <1>6, <3>1 DEF Endpoints
    <3>3. w.out = z.out /\ w.peer = z.peer /\ w.sendqueue = Append(z.sendqueue, node)
      BY <1>6 DEF Endpoints
    <3>4. Rest(z, w)
      BY <1>6 DEF Endpoints, Rest
    <3>5. y = w
      BY <1>5, <2>1
    <3> HIDE DEF w
    <3> QED BY <2>1, <1>6, <3>2, <3>3, <3>4, <3>5 DEF Rest
  <2>2. CASE ~queued
    BY <2>2, <1>4, <1>6
  <2> QED BY <2>1, <2>2
<1>8. Written(y) = Written(x) \cup {rec}
  BY <1>3, <1>7, AppendSet DEF Written
<1>9. Waiting(y) = Waiting(x) \cup (IF queued THEN {node} ELSE {})
  BY <1>3, <1>7, AppendSet DEF Waiting
<1>10. Adds(x, y, {rec})
  <2>1. queued => Copies(x, node, rec)
    BY DEF queued, Copies, Of, node, rec, Node, Rec
  <2> QED BY <1>8, <1>9, <2>1 DEF Adds
<1> QED BY <1>2, <1>7, <1>8, <1>9, <1>10 DEF rec, node, y, queued

(* What was added to what was added. *)
LEMMA AddsTwice ==
  ASSUME NEW x, NEW y, NEW z, NEW A, NEW B, Adds(x, y, A), Adds(y, z, B),
         y.peer.id = x.peer.id
  PROVE  Adds(x, z, A \cup B)
BY DEF Adds, Copies

(* Nothing was added. *)
LEMMA AddsNone ==
  ASSUME NEW x, NEW y, y.out = x.out, y.sendqueue = x.sendqueue
  PROVE  Adds(x, y, {}) /\ Written(y) = Written(x) /\ Waiting(y) = Waiting(x)
BY DEF Adds, Written, Waiting

(* Assigning the number of the next message, and the hash. *)
Hashed(f, k, hash) == [f EXCEPT !.mseq_s = k, !.hash = hash]

(* Assigning the number of the next message and the hash leaves the rest of *)
(* the parameters.                                                         *)
LEMMA PutNumber ==
  ASSUME NEW f \in Handshakes, NEW k \in Nat, NEW hash \in Transcript
  PROVE  LET g == Hashed(f, k, hash)
         IN g \in Handshakes /\ SameHs(f, g) /\ g.mseq_s = k /\ g.hash = hash
<1> DEFINE e == [f EXCEPT !.mseq_s = k]
<1>1. e \in Handshakes /\ SameHs(f, e) /\ e.mseq_s = k
  BY DEF Handshakes, SameHs
<1> HIDE DEF e
<1> DEFINE g == [e EXCEPT !.hash = hash]
<1>2. g \in Handshakes /\ SameHs(e, g) /\ g.mseq_s = e.mseq_s /\ g.hash = hash
  BY <1>1 DEF Handshakes, SameHs
<1>3. g = Hashed(f, k, hash)
  BY DEF e, Hashed
<1> HIDE DEF g
<1> QED BY <1>1, <1>2, <1>3 DEF SameHs

(* dtls_send_handshake_msg_hash for an endpoint in a handshake: n is what  *)
(* goes out for m, under the current parameters.                           *)
Numbered(x, m) == [m EXCEPT !.seq = x.peer.hs.mseq_s]

(* The message goes out as n, it takes the next number of the side, and    *)
(* update_hs_hash adds what it was sent as.                                *)
LEMMA SendIs ==
  ASSUME NEW x, Ready(x), NEW m \in Messages, NEW hashed \in BOOLEAN
  PROVE  LET y == SendHandshakeHash(x, m, hashed)
             n == Numbered(x, m)
         IN /\ Ready(y) /\ Rest(x, y) /\ Alike(x.peer, y.peer)
            /\ SameHs(x.peer.hs, y.peer.hs)
            /\ y.peer.hs.mseq_s = x.peer.hs.mseq_s + 1
            /\ y.peer.hs.hash = IF hashed THEN Append(x.peer.hs.hash, HashOf(n))
                                          ELSE x.peer.hs.hash
            /\ n \in Messages /\ n.seq = x.peer.hs.mseq_s /\ n.ht = m.ht
            /\ n.rnd = m.rnd /\ n.cookie = m.cookie /\ n.suites = m.suites
            /\ n.verify = m.verify
            /\ Adds(x, y, {Rec(x, "handshake", n)})
            /\ Rec(x, "handshake", n) \in Datagrams
<1> DEFINE f == x.peer.hs
           n == Numbered(x, m)
           g == [f EXCEPT !.mseq_s = f.mseq_s + 1,
                          !.hash = IF hashed THEN Append(f.hash, HashOf(n)) ELSE f.hash]
           z == [x EXCEPT !.peer.hs = g]
           y == SendHandshakeHash(x, m, hashed)
<1>1. /\ x \in Endpoints /\ x.peer # NULL /\ f \in Handshakes /\ f # NULL
      /\ x.peer.sec[0] # NULL /\ x.peer.id \in 1..x.peers /\ f.mseq_s \in Nat
      /\ f.hash \in Transcript
  BY ReadyType, HsType DEF Ready
<1>2. /\ n \in Messages /\ n.seq = f.mseq_s /\ n.ht = m.ht
      /\ n.rnd = m.rnd /\ n.cookie = m.cookie /\ n.suites = m.suites
      /\ n.verify = m.verify
  BY <1>1 DEF Messages, Numbered
<1>3. y = SendMulti(z, "handshake", n)
  <2>1. HasHandshake(x)
    BY <1>1 DEF HasHandshake
  <2>2. CASE hashed
    <3>1. z = Hash([x EXCEPT !.peer.hs.mseq_s = @ + 1], n)
      BY <2>2 DEF Hash
    <3> QED BY <2>1, <2>2, <3>1 DEF SendHandshakeHash, Numbered
  <2>3. CASE ~hashed
    <3>1. z = [x EXCEPT !.peer.hs.mseq_s = @ + 1]
      BY <2>3, <1>1 DEF Handshakes
    <3> QED BY <2>1, <2>3, <3>1 DEF SendHandshakeHash, Numbered
  <2> QED BY <2>2, <2>3
<1> HIDE DEF n, y
<1>4. /\ g \in Handshakes /\ SameHs(f, g) /\ g.mseq_s = f.mseq_s + 1
      /\ g.hash = IF hashed THEN Append(f.hash, HashOf(n)) ELSE f.hash
  <2> DEFINE hash == IF hashed THEN Append(f.hash, HashOf(n)) ELSE f.hash
  <2>1. Append(f.hash, HashOf(n)) \in Transcript
    BY <1>1, <1>2, AppendKinds
  <2>2. hash \in Transcript
    BY <1>1, <2>1
  <2> DEFINE k == f.mseq_s + 1
  <2>3. k \in Nat /\ f \in Handshakes
    BY <1>1
  <2>4. g = Hashed(f, k, hash)
    BY DEF Hashed
  <2> HIDE DEF hash, g, k
  <2>5. g \in Handshakes /\ SameHs(f, g) /\ g.mseq_s = k /\ g.hash = hash
    BY <2>2, <2>3, <2>4, PutNumber
  <2> QED BY <2>5 DEF hash, k
<1> HIDE DEF g
<1>5. /\ z \in Endpoints /\ z.peer # NULL /\ z.peer.hs = g
      /\ Alike(x.peer, z.peer) /\ Top(x, z)
  BY <1>1, <1>4, PutHs
<1> HIDE DEF z
<1>6. n \in Contents /\ "handshake" \in ContentType
  BY <1>2 DEF Contents, ContentType
<1>7. /\ y \in Endpoints /\ y.peer = z.peer /\ Rest(z, y)
      /\ Adds(z, y, {Rec(z, "handshake", n)})
      /\ Rec(z, "handshake", n) \in Datagrams
  BY <1>1, <1>3, <1>5, <1>6, SendMultiIs DEF Alike
<1>8. /\ Rest(x, y) /\ Alike(x.peer, y.peer) /\ y.peer.hs = g
      /\ y.peer # NULL /\ g # NULL
  BY <1>4, <1>5, <1>7, HsType DEF Top, Rest, Alike
<1>9. Ready(y)
  BY <1>1, <1>7, <1>8 DEF Ready, Alike, Rest
<1>10. /\ Adds(x, y, {Rec(x, "handshake", n)})
       /\ Rec(x, "handshake", n) \in Datagrams
  <2>1. Adds(x, z, {})
    BY <1>5, AddsNone DEF Top
  <2>2. Rec(z, "handshake", n) = Rec(x, "handshake", n)
    BY <1>5 DEF Rec, Alike
  <2>3. z.peer.id = x.peer.id
    BY <1>5 DEF Alike
  <2>4. {} \cup {Rec(x, "handshake", n)} = {Rec(x, "handshake", n)}
    OBVIOUS
  <2>5. Adds(x, y, {} \cup {Rec(x, "handshake", n)})
    BY <2>1, <1>7, <2>2, <2>3, AddsTwice
  <2> QED BY <1>7, <2>2, <2>4, <2>5
<1> QED BY <1>2, <1>4, <1>8, <1>9, <1>10 DEF n, y

(* dtls_send_client_hello: n is the hello.                                 *)
Greets(x, y, cookie, n) ==
  /\ n \in Messages /\ n.ht = "client_hello" /\ n.seq = x.peer.hs.mseq_s
  /\ n.cookie = cookie /\ n.rnd = y.peer.hs.crand
  /\ Adds(x, y, {Rec(x, "handshake", n)})
  /\ Rec(x, "handshake", n) \in Datagrams
  /\ y.peer.hs.mseq_s = x.peer.hs.mseq_s + 1
  /\ y.peer.hs.mseq_r = x.peer.hs.mseq_r
  /\ cookie = 0 => y.peer.hs.hash = x.peer.hs.hash
  /\ cookie # 0 => y.peer.hs.hash = Append(<<>>, HashOf(n))

(* dtls_send_client_hello. *)
LEMMA HelloIs ==
  ASSUME NEW x, Ready(x), NEW cookie \in Nat
  PROVE  \E n : Greets(x, SendClientHello(x, cookie), cookie, n)
<1> DEFINE f == x.peer.hs
           g == IF cookie = 0 THEN [f EXCEPT !.crand = x.rnd + 1]
                              ELSE [f EXCEPT !.hash = <<>>]
           d == IF cookie = 0 THEN Draw(x) ELSE x
           y == [d EXCEPT !.peer.hs = g]
           Offer(c) == When(KnownCipher(x, c, "client"), c)
           m == [Message("client_hello") EXCEPT
                             !.rnd = y.peer.hs.crand, !.cookie = cookie,
                             !.suites = Offer("ecdsa") \o Offer("psk")]
           z == SendHandshakeHash(y, m, cookie # 0)
<1>1. f \in Handshakes /\ x.rnd \in Nat /\ x \in Endpoints
  BY ReadyType DEF Ready
<1>2. /\ g \in Handshakes /\ g.mseq_r = f.mseq_r /\ g.mseq_s = f.mseq_s
      /\ g.hash = IF cookie = 0 THEN f.hash ELSE <<>>
  <2>1. <<>> \in Transcript
    BY DEF Transcript
  <2>2. CASE cookie = 0
    <3>1. g = [f EXCEPT !.crand = x.rnd + 1]
      BY <2>2
    <3> HIDE DEF g
    <3>2. x.rnd + 1 \in Nat
      BY <1>1
    <3>3. g \in Handshakes
      BY <1>1, <3>1, <3>2 DEF Handshakes
    <3>4. g.mseq_r = f.mseq_r /\ g.mseq_s = f.mseq_s /\ g.hash = f.hash
      BY <1>1, <3>1 DEF Handshakes
    <3> QED BY <2>2, <3>3, <3>4
  <2>3. CASE cookie # 0
    <3>1. g = [f EXCEPT !.hash = <<>>]
      BY <2>3
    <3> HIDE DEF g
    <3> QED BY <1>1, <2>1, <2>3, <3>1 DEF Handshakes
  <2> QED BY <2>2, <2>3
<1>3. /\ d.peer = x.peer /\ d \in Endpoints /\ d.peers = x.peers
      /\ d.out = x.out /\ d.sendqueue = x.sendqueue
  <2>1. x.rnd + 1 \in Nat
    BY <1>1
  <2>2. Draw(x) = [x EXCEPT !.rnd = x.rnd + 1]
    BY DEF Draw
  <2>3. /\ Draw(x) \in Endpoints /\ Draw(x).peer = x.peer /\ Draw(x).peers = x.peers
        /\ Draw(x).out = x.out /\ Draw(x).sendqueue = x.sendqueue
    BY <1>1, <2>1, <2>2 DEF Endpoints
  <2> QED BY <1>1, <2>3
<1> HIDE DEF g, d
<1>4. /\ y \in Endpoints /\ y.peer # NULL /\ y.peer.hs = g
      /\ Alike(x.peer, y.peer) /\ Top(d, y)
  BY <1>2, <1>3, PutHs DEF Ready
<1> HIDE DEF y
<1>5. Ready(y)
  BY <1>2, <1>3, <1>4, HsType DEF Ready, Alike, Top
<1>6. m \in Messages /\ m.ht = "client_hello" /\ m.cookie = cookie
      /\ m.rnd = y.peer.hs.crand
  <2>1. Offer("ecdsa") \o Offer("psk") \in Seq(Cipher)
    <3>1. Offer("ecdsa") \in Seq(Cipher) /\ Offer("psk") \in Seq(Cipher)
      <4>1. \A c \in Cipher : <<c>> \in Seq(Cipher) /\ <<>> \in Seq(Cipher)
        OBVIOUS
      <4> QED BY <4>1 DEF When, Cipher
    <3> HIDE DEF Offer
    <3> QED BY <3>1
  <2>2. y.peer.hs.crand \in Nat
    BY <1>2, <1>4, HsType
  <2>3. Message("client_hello") \in Messages /\ Message("client_hello").ht = "client_hello"
    BY MessageType DEF ClientKinds
  <2> HIDE DEF Offer
  <2> QED BY <2>1, <2>2, <2>3 DEF Messages
<1> HIDE DEF m
<1>7. SendClientHello(x, cookie) = z
  <2>1. (IF cookie = 0 THEN [Draw(x) EXCEPT !.peer.hs.crand = x.rnd + 1]
                       ELSE [x EXCEPT !.peer.hs.hash = <<>>]) = y
    <3>1. CASE cookie = 0
      <4>1. g = [f EXCEPT !.crand = x.rnd + 1] /\ d = Draw(x)
        BY <3>1 DEF g, d
      <4>2. y = [Draw(x) EXCEPT !.peer.hs = [x.peer.hs EXCEPT !.crand = x.rnd + 1]]
        BY <4>1 DEF y
      <4>3. Draw(x).peer = x.peer
        BY <3>1, <1>3, <4>1
      <4> QED BY <3>1, <4>2, <4>3
    <3>2. CASE cookie # 0
      BY <3>2 DEF y, g, d
    <3> QED BY <3>1, <3>2
  <2> QED BY <2>1 DEF SendClientHello, m
<1> DEFINE hashed == cookie # 0
           n == Numbered(y, m)
<1>8. hashed \in BOOLEAN /\ z = SendHandshakeHash(y, m, hashed)
  OBVIOUS
<1>9. hashed <=> cookie # 0
  OBVIOUS
<1> HIDE DEF hashed, z, n
<1>10. /\ SameHs(y.peer.hs, z.peer.hs)
       /\ z.peer.hs.mseq_s = y.peer.hs.mseq_s + 1
       /\ z.peer.hs.hash = IF hashed THEN Append(y.peer.hs.hash, HashOf(n))
                                     ELSE y.peer.hs.hash
       /\ n \in Messages /\ n.seq = y.peer.hs.mseq_s /\ n.ht = m.ht
       /\ n.rnd = m.rnd /\ n.cookie = m.cookie
       /\ Adds(y, z, {Rec(y, "handshake", n)})
       /\ Rec(y, "handshake", n) \in Datagrams
  BY <1>5, <1>6, <1>8, SendIs DEF n
<1>11. Rec(y, "handshake", n) = Rec(x, "handshake", n)
  BY <1>4 DEF Rec, Alike
<1>12. Adds(x, z, {Rec(x, "handshake", n)})
  <2>1. Adds(x, y, {})
    BY <1>3, <1>4, AddsNone DEF Top
  <2>2. Adds(x, z, {} \cup {Rec(x, "handshake", n)})
    BY <2>1, <1>4, <1>10, <1>11, AddsTwice DEF Alike
  <2>3. {} \cup {Rec(x, "handshake", n)} = {Rec(x, "handshake", n)}
    OBVIOUS
  <2> QED BY <2>2, <2>3
<1>13. z.peer.hs.hash = IF cookie = 0 THEN f.hash ELSE Append(<<>>, HashOf(n))
  BY <1>2, <1>4, <1>9, <1>10
<1>14. /\ n.rnd = z.peer.hs.crand /\ n.seq = f.mseq_s
       /\ z.peer.hs.mseq_s = f.mseq_s + 1 /\ z.peer.hs.mseq_r = f.mseq_r
  BY <1>2, <1>4, <1>6, <1>10 DEF SameHs
<1>15. Greets(x, z, cookie, n)
  BY <1>6, <1>10, <1>11, <1>12, <1>13, <1>14 DEF Greets
<1> QED BY <1>7, <1>15

(* What a hash says of ServerHelloDone. *)
Dones(hash) == {e \in ToSet(hash) : e[1] = "server_hello_done"}

(* Only a ServerHelloDone changes what a hash says of ServerHelloDone.     *)
LEMMA DonesAppend ==
  ASSUME NEW hash \in Transcript, NEW m \in Messages
  PROVE  LET k == Append(hash, HashOf(m))
         IN /\ k \in Transcript
            /\ m.ht = "server_hello_done" =>
                 Dones(k) = Dones(hash) \cup {<<m.ht, m.seq, m.rnd>>}
            /\ m.ht # "server_hello_done" => Dones(k) = Dones(hash)
<1> DEFINE e == HashOf(m)
<1>1. Append(hash, e) \in Transcript
  BY AppendKinds
<1>2. e = <<m.ht, m.seq, m.rnd>> /\ e[1] = m.ht
  BY DEF HashOf
<1> HIDE DEF e
<1>3. ToSet(Append(hash, e)) = ToSet(hash) \cup {e}
  BY AppendSet DEF Transcript
<1> QED BY <1>1, <1>2, <1>3 DEF Dones, e

(* Records of these kinds, under the parameters of x. *)
Flight(x, kinds) ==
  {r \in Datagrams : /\ r.ct = "handshake" /\ r.msg \in Messages /\ r.msg.ht \in kinds
                     /\ r.epoch = x.peer.sec[0].epoch
                     /\ r.key = x.peer.sec[0].key}

(* From x to y messages of these kinds were sent in a handshake. *)
Speaks(x, y, kinds) ==
  /\ Ready(y) /\ Alike(x.peer, y.peer)
  /\ y.h = x.h /\ y.peers = x.peers /\ x.rnd <= y.rnd
  /\ y.ret = x.ret /\ y.done = x.done
  /\ y.peer.hs.mseq_r = x.peer.hs.mseq_r
  /\ y.peer.hs.reorder_queue = x.peer.hs.reorder_queue
  /\ y.peer.hs.crand = x.peer.hs.crand /\ y.peer.hs.srand = x.peer.hs.srand
  /\ y.peer.hs.cipher = x.peer.hs.cipher /\ y.peer.hs.auth = x.peer.hs.auth
  /\ Dones(y.peer.hs.hash) = Dones(x.peer.hs.hash)
  /\ Adds(x, y, Flight(x, kinds))

(* Speaking twice is speaking. *)
LEMMA SpeaksTwice ==
  ASSUME NEW x, NEW y, NEW z, NEW K, Ready(x), Speaks(x, y, K), Speaks(y, z, K)
  PROVE  Speaks(x, z, K)
<1>1. Flight(y, K) = Flight(x, K) /\ y.peer.id = x.peer.id
  BY DEF Flight, Speaks, Alike
<1>2. Adds(x, z, Flight(x, K) \cup Flight(x, K))
  BY <1>1, AddsTwice DEF Speaks
<1>3. Adds(x, z, Flight(x, K))
  BY <1>2 DEF Adds
<1>4. x.rnd \in Nat /\ y.rnd \in Nat /\ z.rnd \in Nat
  BY ReadyType DEF Speaks
<1> QED BY <1>3, <1>4 DEF Speaks, Alike

(* Saying nothing is speaking. *)
LEMMA SpeaksNot ==
  ASSUME NEW x, NEW K, Ready(x)
  PROVE  Speaks(x, x, K)
<1>1. Adds(x, x, Flight(x, K))
  BY DEF Adds
<1>2. x.rnd \in Nat
  BY ReadyType
<1> QED BY <1>1, <1>2 DEF Speaks, Alike

(* ... and so is one message that is hashed. *)
LEMMA SendSpeaks ==
  ASSUME NEW x, Ready(x), NEW m \in Messages, NEW K,
         m.ht \in K, m.ht # "server_hello_done"
  PROVE  LET y == SendHandshake(x, m)
         IN /\ Speaks(x, y, K) /\ y.rnd = x.rnd /\ y.peer.hs.kx = x.peer.hs.kx
            /\ y.peer.hs.master = x.peer.hs.master
            /\ y.peer.hs.hash = Append(x.peer.hs.hash, HashOf(Numbered(x, m)))
            /\ y.peer.hs.mseq_s = x.peer.hs.mseq_s + 1
<1> DEFINE y == SendHandshake(x, m)
           n == Numbered(x, m)
<1>1. TRUE \in BOOLEAN /\ y = SendHandshakeHash(x, m, TRUE)
  BY DEF SendHandshake
<1> HIDE DEF y, n
<1>2. /\ Ready(y) /\ Rest(x, y) /\ Alike(x.peer, y.peer)
      /\ SameHs(x.peer.hs, y.peer.hs)
      /\ y.peer.hs.mseq_s = x.peer.hs.mseq_s + 1
      /\ y.peer.hs.hash = Append(x.peer.hs.hash, HashOf(n))
      /\ n \in Messages /\ n.ht = m.ht
      /\ Adds(x, y, {Rec(x, "handshake", n)})
      /\ Rec(x, "handshake", n) \in Datagrams
  BY <1>1, SendIs DEF n
<1>3. Dones(y.peer.hs.hash) = Dones(x.peer.hs.hash)
  BY <1>2, DonesAppend, ReadyType, HsType
<1>4. Rec(x, "handshake", n) \in Flight(x, K)
  BY <1>2 DEF Rec, Flight
<1>5. Adds(x, y, Flight(x, K))
  BY <1>2, <1>4 DEF Adds
<1>6. x.rnd \in Nat
  BY ReadyType
<1> QED BY <1>2, <1>3, <1>5, <1>6 DEF Speaks, SameHs, Rest, y, n

(* dtls_send_client_key_exchange *)
LEMMA KeyExchangeSpeaks ==
  ASSUME NEW x, Ready(x), NEW K, "client_key_exchange" \in K
  PROVE  Speaks(x, SendClientKeyExchange(x), K)
<1> DEFINE f == x.peer.hs
           y == IF Ecdsa(f.cipher)
                THEN [Draw(x) EXCEPT !.peer.hs.kx = x.rnd + 1] ELSE x
           m == [Message("client_key_exchange") EXCEPT !.rnd = y.peer.hs.kx]
           z == SendHandshake(y, m)
<1>1. f \in Handshakes /\ x.rnd \in Nat /\ x \in Endpoints
  BY ReadyType DEF Ready
<1>2. Speaks(x, y, K)
  <2>1. CASE Ecdsa(f.cipher)
    <3> DEFINE k == x.rnd + 1
               d == [x EXCEPT !.rnd = k]
               g == [f EXCEPT !.kx = k]
               w == [d EXCEPT !.peer.hs = g]
    <3>1. k \in Nat /\ x.rnd <= k
      BY <1>1
    <3>2. d = Draw(x)
      BY DEF Draw
    <3> HIDE DEF k
    <3>3. /\ d \in Endpoints /\ d.peer = x.peer /\ d.rnd = k
          /\ d.h = x.h /\ d.peers = x.peers /\ d.ret = x.ret /\ d.done = x.done
          /\ d.out = x.out /\ d.sendqueue = x.sendqueue
      BY <1>1, <3>1 DEF Endpoints
    <3>4. /\ g \in Handshakes /\ g.reorder_queue = f.reorder_queue
          /\ g.crand = f.crand /\ g.srand = f.srand /\ g.cipher = f.cipher
          /\ g.auth = f.auth /\ g.hash = f.hash /\ g.mseq_r = f.mseq_r
      BY <1>1, <3>1 DEF Handshakes
    <3>5. y = w
      BY <2>1, <3>2, <3>3 DEF k
    <3> HIDE DEF d, g, y
    <3>6. /\ w \in Endpoints /\ w.peer # NULL /\ w.peer.hs = g
          /\ Alike(x.peer, w.peer) /\ Top(d, w)
      BY <3>3, <3>4, PutHs DEF Ready
    <3> HIDE DEF w
    <3>7. Ready(w)
      BY <3>3, <3>4, <3>6, HsType DEF Ready, Alike, Top
    <3>8. Adds(x, w, Flight(x, K))
      <4>1. Adds(x, w, {})
        BY <3>3, <3>6, AddsNone DEF Top
      <4> QED BY <4>1 DEF Adds
    <3> QED BY <3>1, <3>3, <3>4, <3>5, <3>6, <3>7, <3>8 DEF Speaks, Top
  <2>2. CASE ~Ecdsa(f.cipher)
    BY <2>2, SpeaksNot
  <2> QED BY <2>1, <2>2
<1>3. SendClientKeyExchange(x) = z
  BY DEF SendClientKeyExchange
<1> HIDE DEF y
<1>4. m \in Messages /\ m.ht = "client_key_exchange"
  <2>1. y.peer.hs.kx \in Nat
    BY <1>2, ReadyType, HsType DEF Speaks
  <2> QED BY <2>1, MessageType DEF ClientKinds
<1> HIDE DEF m
<1>5. Speaks(y, z, K)
  BY <1>2, <1>4, SendSpeaks DEF Speaks
<1> QED BY <1>2, <1>3, <1>5, SpeaksTwice

(* calculate_key_block and dtls_security_params_switch change the keys and *)
(* the master secret alone.                                                *)
KeyOnly(f, g) ==
  /\ g.mseq_r = f.mseq_r /\ g.mseq_s = f.mseq_s
  /\ g.reorder_queue = f.reorder_queue /\ g.crand = f.crand
  /\ g.srand = f.srand /\ g.kx = f.kx /\ g.cipher = f.cipher
  /\ g.auth = f.auth /\ g.hash = f.hash

(* calculate_key_block derives the key from the randoms of the parameters  *)
(* into the security parameters that wait for ChangeCipherSpec.            *)
LEMMA KeyBlockIs ==
  ASSUME NEW x, Ready(x)
  PROVE  LET y == CalculateKeyBlock(x)
             c == y.peer.sec[1]
         IN /\ Ready(y) /\ Top(x, y) /\ y.peer.id = x.peer.id
            /\ y.peer.role = x.peer.role /\ y.peer.state = x.peer.state
            /\ KeyOnly(x.peer.hs, y.peer.hs)
            /\ y.peer.hs.master = KeyOf(y.peer.hs) /\ y.peer.hs.master \in KeyBlock
            /\ y.peer.sec[0] = x.peer.sec[0]
            /\ c # NULL /\ c.epoch = x.peer.sec[0].epoch + 1
            /\ c.key = y.peer.hs.master /\ c.cipher = x.peer.hs.cipher
<1> DEFINE f == x.peer.hs
           key == KeyOf(f)
           old == x.peer.sec
           next == [NewSecurity EXCEPT !.epoch = old[0].epoch + 1]
           c == [next EXCEPT !.cipher = f.cipher, !.key = key]
           sec == [old EXCEPT ![1] = c]
           g == [f EXCEPT !.master = key]
           z == [x EXCEPT !.peer.sec = sec]
           y == [z EXCEPT !.peer.hs = g]
<1>1. /\ f \in Handshakes /\ x.rnd \in Nat /\ x \in Endpoints
      /\ old \in [Slot -> {NULL} \cup Security] /\ old[0] \in Security
      /\ f.cipher \in Cipher /\ key \in KeyBlock
  <2>1. /\ f \in Handshakes /\ x.rnd \in Nat /\ x \in Endpoints
        /\ old \in [Slot -> {NULL} \cup Security] /\ old[0] \in Security
    BY ReadyType DEF Ready
  <2> QED BY <2>1, HsType
<1>2. /\ c \in Security /\ c.epoch = old[0].epoch + 1 /\ c.key = key
      /\ c.cipher = f.cipher
  <2>1. old[0].epoch \in Nat
    BY <1>1, SecType
  <2>2. NewSecurity \in Security
    BY DEF NewSecurity, Security, Cipher
  <2>3. old[0].epoch + 1 \in Nat
    BY <2>1
  <2> DEFINE d == [next EXCEPT !.cipher = f.cipher]
  <2>4. next \in Security /\ next.epoch = old[0].epoch + 1
    <3> HIDE DEF old
    <3> QED BY <2>2, <2>3 DEF Security
  <2>5. d \in Security /\ d.epoch = next.epoch /\ d.cipher = f.cipher
    <3> HIDE DEF next, f
    <3> QED BY <1>1, <2>4 DEF Security
  <2>6. c = [d EXCEPT !.key = key]
    OBVIOUS
  <2> HIDE DEF key, next, d, c
  <2> QED BY <1>1, <2>4, <2>5, <2>6 DEF Security
<1>3. /\ sec \in [Slot -> {NULL} \cup Security]
      /\ sec[0] = old[0] /\ sec[1] = c
  <2> HIDE DEF c, old
  <2> QED BY <1>1, <1>2 DEF Slot
<1>4. g \in Handshakes /\ KeyOnly(f, g) /\ g.master = key
  <2> HIDE DEF key, f
  <2> QED BY <1>1 DEF Handshakes, KeyOnly
<1>5. CalculateKeyBlock(x) = y
  <2>1. [ParamsNext(old) EXCEPT ![1].cipher = f.cipher, ![1].key = key] = sec
    <3>1. 1 \in DOMAIN old
      BY <1>1 DEF Slot
    <3> HIDE DEF key
    <3> QED BY <3>1 DEF ParamsNext
  <2>2. CalculateKeyBlock(x) = [x EXCEPT !.peer.sec = sec, !.peer.hs.master = key]
    <3> HIDE DEF sec
    <3> QED BY <2>1 DEF CalculateKeyBlock, KeyOf
  <2>3. z.peer = [x.peer EXCEPT !.sec = sec]
    <3> HIDE DEF sec
    <3> QED BY <1>1 DEF Endpoints
  <2>4. z.peer.hs = f
    <3> HIDE DEF sec
    <3> QED BY <1>1, <2>3, ReadyType DEF Peers
  <2> HIDE DEF sec, key
  <2> QED BY <2>2, <2>4
<1> HIDE DEF c, sec, g, key
<1>6. /\ z \in Endpoints /\ z.peer \in Peers /\ z.peer # NULL
      /\ z.peer.state = x.peer.state /\ z.peer.id = x.peer.id
      /\ z.peer.role = x.peer.role /\ z.peer.hs = x.peer.hs
      /\ z.peer.sec = sec /\ Top(x, z)
  BY <1>1, <1>3, PutSec DEF Ready
<1> HIDE DEF z
<1>7. /\ y \in Endpoints /\ y.peer # NULL /\ y.peer.hs = g
      /\ Alike(z.peer, y.peer) /\ Top(z, y)
  BY <1>4, <1>6, PutHs
<1> HIDE DEF y
<1>8. /\ y.peer.sec[0] = x.peer.sec[0] /\ y.peer.sec[1] = c
      /\ y.peer.state = x.peer.state /\ y.peer.id = x.peer.id
      /\ y.peer.role = x.peer.role
  BY <1>3, <1>6, <1>7 DEF Alike
<1>9. Top(x, y)
  BY <1>6, <1>7 DEF Top
<1>10. Ready(y)
  BY <1>4, <1>7, <1>8, <1>9, HsType DEF Ready, Top
<1>11. c # NULL
  BY <1>2, SecType
<1>12. y.peer.hs.master = KeyOf(y.peer.hs) /\ y.peer.hs.master = key
  BY <1>4, <1>7 DEF KeyOf, KeyOnly, key
<1> HIDE DEF f, old
<1> QED BY <1>1, <1>2, <1>4, <1>5, <1>7, <1>8, <1>9, <1>10, <1>11, <1>12 DEF f, old

(* dtls_security_params_switch swaps the two security parameters.          *)
LEMMA SwitchIs ==
  ASSUME NEW x, Ready(x), x.peer.sec[1] # NULL
  PROVE  LET y == Switch(x)
         IN /\ Ready(y) /\ Top(x, y) /\ y.peer.id = x.peer.id
            /\ y.peer.role = x.peer.role /\ y.peer.state = x.peer.state
            /\ y.peer.hs = x.peer.hs
            /\ y.peer.sec[0] = x.peer.sec[1] /\ y.peer.sec[1] = x.peer.sec[0]
<1> DEFINE old == x.peer.sec
           sec == [i \in Slot |-> old[1 - i]]
           y == [x EXCEPT !.peer.sec = sec]
<1>1. old \in [Slot -> {NULL} \cup Security] /\ x \in Endpoints
  BY ReadyType DEF Ready
<1>2. /\ sec \in [Slot -> {NULL} \cup Security] /\ sec[0] = old[1]
      /\ sec[1] = old[0]
  <2> HIDE DEF old
  <2> QED BY <1>1 DEF Slot
<1>3. Switch(x) = y
  BY DEF Switch, ParamsSwitch
<1> HIDE DEF sec
<1>4. /\ y \in Endpoints /\ y.peer # NULL
      /\ y.peer.state = x.peer.state /\ y.peer.id = x.peer.id
      /\ y.peer.role = x.peer.role /\ y.peer.hs = x.peer.hs
      /\ y.peer.sec = sec /\ Top(x, y)
  BY <1>1, <1>2, PutSec DEF Ready
<1> HIDE DEF y
<1>5. Ready(y)
  BY <1>2, <1>4 DEF Ready, Top
<1> QED BY <1>2, <1>3, <1>4, <1>5

(* The end of a flight: ChangeCipherSpec under the old parameters, Finished *)
(* under the new ones.                                                      *)
Concluding(x, n) ==
  [ct |-> "handshake", epoch |-> x.peer.sec[1].epoch,
   key |-> x.peer.sec[1].key, msg |-> n]
Concludes(x, y, label) ==
  /\ Ready(y) /\ Rest(x, y) /\ SameHs(x.peer.hs, y.peer.hs)
  /\ y.peer.id = x.peer.id /\ y.peer.role = x.peer.role
  /\ y.peer.state = x.peer.state
  /\ y.peer.sec[0] = x.peer.sec[1] /\ y.peer.sec[1] = x.peer.sec[0]
  /\ \E n \in Messages :
       /\ n.ht = "finished" /\ n.seq = x.peer.hs.mseq_s
       /\ n.verify = <<label, x.peer.hs.master, x.peer.hs.hash>>
       /\ y.peer.hs.hash = Append(x.peer.hs.hash, HashOf(n))
       /\ Adds(x, y, {Rec(x, "ccs", [ccs |-> 1]), Concluding(x, n)})

(* ChangeCipherSpec and Finished are sent as Concludes says.               *)
LEMMA FlightEnds ==
  ASSUME NEW x, Ready(x), x.peer.sec[1] # NULL, x.peer.hs.master \in KeyBlock,
         NEW label \in {"client", "server"}
  PROVE  Concludes(x, SendFinished(Switch(SendCcs(x)), label), label)
<1> DEFINE ccs == [ccs |-> 1]
           a == SendCcs(x)
           b == Switch(a)
           v == Verify(b, label)
           m == [Message("finished") EXCEPT !.verify = v]
           y == SendHandshake(b, m)
           n == Numbered(b, m)
<1>1. /\ Ready(a) /\ a.peer = x.peer /\ Rest(x, a)
      /\ Adds(x, a, {Rec(x, "ccs", ccs)})
  <2>1. ccs \in Contents /\ "ccs" \in ContentType
    BY DEF Contents, ContentType
  <2>2. a = SendMulti(x, "ccs", ccs)
    BY DEF SendCcs
  <2> HIDE DEF ccs, a
  <2>3. /\ a \in Endpoints /\ a.peer = x.peer /\ Rest(x, a)
        /\ Adds(x, a, {Rec(x, "ccs", ccs)})
    BY <2>1, <2>2, SendMultiIs DEF Ready
  <2> QED BY <2>3 DEF Ready, Rest
<1> HIDE DEF a
<1>2. /\ Ready(b) /\ Top(a, b) /\ b.peer.id = a.peer.id
      /\ b.peer.role = a.peer.role /\ b.peer.state = a.peer.state
      /\ b.peer.hs = a.peer.hs
      /\ b.peer.sec[0] = a.peer.sec[1] /\ b.peer.sec[1] = a.peer.sec[0]
  BY <1>1, SwitchIs
<1> HIDE DEF b
<1>3. /\ v \in Proof /\ v = <<label, x.peer.hs.master, x.peer.hs.hash>>
  <2>1. b.peer.hs.hash \in Transcript
    BY <1>2, ReadyType, HsType
  <2>2. b.peer.hs = x.peer.hs
    BY <1>1, <1>2
  <2>3. v \in {"client", "server"} \X ({<<>>} \cup KeyBlock) \X Transcript
    BY <2>1, <2>2 DEF Verify
  <2> QED BY <2>2, <2>3 DEF Verify, Proof
<1>4. m \in Messages /\ m.ht = "finished" /\ m.verify = v
  <2> HIDE DEF v
  <2> QED BY <1>3, MessageType DEF ClientKinds
<1> HIDE DEF v, m
<1>5. /\ Ready(y) /\ Rest(b, y) /\ Alike(b.peer, y.peer)
      /\ SameHs(b.peer.hs, y.peer.hs)
      /\ y.peer.hs.hash = Append(b.peer.hs.hash, HashOf(n))
      /\ n \in Messages /\ n.seq = b.peer.hs.mseq_s /\ n.ht = "finished"
      /\ n.verify = v
      /\ Adds(b, y, {Rec(b, "handshake", n)})
  <2>1. TRUE \in BOOLEAN /\ y = SendHandshakeHash(b, m, TRUE)
    BY DEF SendHandshake
  <2>2. Ready(b) /\ m \in Messages
    BY <1>2, <1>4
  <2> HIDE DEF y, n
  <2>3. /\ Ready(y) /\ Rest(b, y) /\ Alike(b.peer, y.peer)
        /\ SameHs(b.peer.hs, y.peer.hs)
        /\ y.peer.hs.hash = Append(b.peer.hs.hash, HashOf(n))
        /\ n \in Messages /\ n.seq = b.peer.hs.mseq_s /\ n.ht = m.ht
        /\ n.verify = m.verify
        /\ Adds(b, y, {Rec(b, "handshake", n)})
    BY <2>1, <2>2, SendIs DEF n
  <2> QED BY <1>4, <2>3
<1> HIDE DEF n
<1>6. y = SendFinished(Switch(SendCcs(x)), label)
  BY DEF SendFinished, m, v, a, b
<1> HIDE DEF y
<1>7. Rec(b, "handshake", n) = Concluding(x, n)
  BY <1>1, <1>2 DEF Rec, Concluding
<1>8. Adds(x, y, {Rec(x, "ccs", ccs), Concluding(x, n)})
  <2>1. Adds(a, b, {})
    BY <1>2, AddsNone DEF Top
  <2>2. Adds(x, b, {Rec(x, "ccs", ccs)} \cup {})
    BY <1>1, <2>1, AddsTwice
  <2>3. Adds(x, y, ({Rec(x, "ccs", ccs)} \cup {}) \cup {Concluding(x, n)})
    BY <1>1, <1>2, <1>5, <1>7, <2>2, AddsTwice
  <2>4. ({Rec(x, "ccs", ccs)} \cup {}) \cup {Concluding(x, n)}
        = {Rec(x, "ccs", ccs), Concluding(x, n)}
    OBVIOUS
  <2> QED BY <2>3, <2>4
<1>9. /\ Rest(x, y) /\ SameHs(x.peer.hs, y.peer.hs)
      /\ y.peer.id = x.peer.id /\ y.peer.role = x.peer.role
      /\ y.peer.state = x.peer.state
      /\ y.peer.sec[0] = x.peer.sec[1] /\ y.peer.sec[1] = x.peer.sec[0]
  <2>1. Rest(x, b)
    BY <1>1, <1>2 DEF Rest, Top
  <2>2. Rest(x, y)
    BY <2>1, <1>5 DEF Rest
  <2>3. b.peer.hs = x.peer.hs
    BY <1>1, <1>2
  <2>4. SameHs(x.peer.hs, y.peer.hs)
    BY <2>3, <1>5
  <2> QED BY <1>1, <1>2, <1>5, <2>2, <2>4 DEF Alike
<1>10. /\ n.seq = x.peer.hs.mseq_s
       /\ y.peer.hs.hash = Append(x.peer.hs.hash, HashOf(n))
       /\ n.verify = <<label, x.peer.hs.master, x.peer.hs.hash>>
  BY <1>1, <1>2, <1>3, <1>5
<1> QED BY <1>5, <1>6, <1>8, <1>9, <1>10 DEF Concludes

(* The messages of the client's flight before its Finished. *)
AnswerKinds == {"certificate", "client_key_exchange", "certificate_verify"}

(* The key changes from x to y, and this side's flight ends with n.        *)
Rekeys(x, y, K, n) ==
  /\ n \in Messages /\ n.ht = "finished"
  /\ y.peer.sec[1] = x.peer.sec[0]
  /\ y.peer.sec[0].epoch = x.peer.sec[0].epoch + 1
  /\ y.peer.sec[0].cipher = x.peer.hs.cipher
  /\ y.peer.sec[0].key = y.peer.hs.master /\ y.peer.hs.master = KeyOf(y.peer.hs)
  /\ n.verify[2] = y.peer.sec[0].key
  /\ y.peer.hs.hash = Append(n.verify[3], HashOf(n))
  /\ n.verify[3] \in Transcript
  /\ Adds(x, y, Flight(x, K) \cup
                {Rec(x, "ccs", [ccs |-> 1]),
                 [ct |-> "handshake", epoch |-> y.peer.sec[0].epoch,
                  key |-> y.peer.sec[0].key, msg |-> n]})

(* check_server_hellodone: from x to y the client sends its flight.         *)
Answers(x, y, m) ==
  /\ Ready(y) /\ y.peer.state = "WAIT_CHANGECIPHERSPEC"
  /\ y.peer.id = x.peer.id /\ y.ret = x.ret /\ y.done = x.done
  /\ x.rnd <= y.rnd
  /\ y.peer.hs.mseq_r = x.peer.hs.mseq_r
  /\ y.peer.hs.reorder_queue = x.peer.hs.reorder_queue
  /\ y.peer.hs.crand = x.peer.hs.crand /\ y.peer.hs.cipher = x.peer.hs.cipher
  /\ Dones(y.peer.hs.hash) = Dones(x.peer.hs.hash) \cup {<<m.ht, m.seq, m.rnd>>}
  /\ \E n : Rekeys(x, y, AnswerKinds, n)

(* The client answers, unless it is asked for a certificate it has not.    *)
(* It has a cipher suite.                                                  *)
LEMMA ServerHelloDoneIs ==
  ASSUME NEW x, Ready(x), NEW m \in Messages, m.ht = "server_hello_done"
  PROVE  LET y == ServerHelloDone(x, m)
         IN x.peer.hs.cipher # "null" =>
              y = Error(Hash(x, m), "internal_error") \/ Answers(x, y, m)
<1> DEFINE y == Hash(x, m)
           K == AnswerKinds
           auth == y.peer.hs.auth
           a == IF auth THEN SendCertificate(y) ELSE y
           kx == SendClientKeyExchange(a)
           b == IF auth THEN SendCertificateVerify(kx) ELSE kx
           block == CalculateKeyBlock(b)
           w == SendFinished(Switch(SendCcs(block)), "client")
           z == SetState(w, "WAIT_CHANGECIPHERSPEC")
<1>1. /\ Ready(y) /\ Alike(x.peer, y.peer) /\ SameHs(x.peer.hs, y.peer.hs)
      /\ y.peer.hs.hash = Append(x.peer.hs.hash, HashOf(m)) /\ Rest(x, y)
      /\ y.out = x.out /\ y.sendqueue = x.sendqueue
  <2> DEFINE f == x.peer.hs
             hash == Append(f.hash, HashOf(m))
             k == f.mseq_s
             g == Hashed(f, k, hash)
             u == [x EXCEPT !.peer.hs = g]
  <2>1. f \in Handshakes /\ k \in Nat /\ f.hash \in Transcript
    BY ReadyType, HsType
  <2>2. hash \in Transcript
    BY <2>1, AppendKinds
  <2>3. y = u
    <3>1. g = [f EXCEPT !.hash = hash]
      BY <2>1 DEF Hashed, Handshakes
    <3> HIDE DEF g
    <3> QED BY <3>1 DEF Hash
  <2> HIDE DEF hash, k, g
  <2>4. g \in Handshakes /\ SameHs(f, g) /\ g.hash = hash
    BY <2>1, <2>2, PutNumber DEF g
  <2>5. /\ u \in Endpoints /\ u.peer # NULL /\ u.peer.hs = g
        /\ Alike(x.peer, u.peer) /\ Top(x, u)
    BY <2>4, PutHs DEF Ready
  <2> HIDE DEF u, y
  <2>6. Ready(u)
    BY <2>4, <2>5, HsType DEF Ready, Alike, Top
  <2>7. Rest(x, u) /\ u.out = x.out /\ u.sendqueue = x.sendqueue
    BY <2>5 DEF Rest, Top
  <2> QED BY <2>3, <2>4, <2>5, <2>6, <2>7 DEF hash
<1>2. CASE auth /\ "get_ecdsa_key" \notin x.h
  BY <1>2 DEF ServerHelloDone
<1>3. CASE x.peer.hs.cipher # "null" /\ ~(auth /\ "get_ecdsa_key" \notin x.h)
  <2>1. ServerHelloDone(x, m) = z
    <3>1. y.peer.hs.cipher # "null"
      <4> HIDE DEF y
      <4> QED BY <1>1, <1>3 DEF SameHs
    <3> QED BY <1>3, <3>1 DEF ServerHelloDone
  <2> HIDE DEF y
  <2>2. Speaks(y, a, K)
    <3>1. CASE auth
      <4>1. /\ Message("certificate") \in Messages
            /\ Message("certificate").ht = "certificate"
        BY MessageType DEF ClientKinds
      <4>2. a = SendHandshake(y, Message("certificate"))
        BY <3>1 DEF SendCertificate
      <4> HIDE DEF auth, a
      <4> QED BY <1>1, <4>1, <4>2, SendSpeaks DEF AnswerKinds
    <3>2. CASE ~auth
      BY <3>2, <1>1, SpeaksNot
    <3> QED BY <3>1, <3>2
  <2> HIDE DEF a
  <2>3. Speaks(a, kx, K)
    BY <2>2, KeyExchangeSpeaks DEF Speaks, AnswerKinds
  <2> HIDE DEF kx
  <2>4. Speaks(kx, b, K)
    <3>1. CASE auth
      <4> DEFINE v == <<kx.peer.hs.hash>>
                 n == [Message("certificate_verify") EXCEPT !.verify = v]
      <4>1. v \in Proof
        <5>1. kx.peer.hs.hash \in Transcript
          BY <2>3, ReadyType, HsType DEF Speaks
        <5> QED BY <5>1 DEF Proof
      <4> HIDE DEF v
      <4>2. n \in Messages /\ n.ht = "certificate_verify"
        BY <4>1, MessageType DEF ClientKinds
      <4> HIDE DEF n
      <4>3. b = SendHandshake(kx, n)
        BY <3>1 DEF SendCertificateVerify, n, v
      <4> HIDE DEF b
      <4> QED BY <2>3, <4>2, <4>3, SendSpeaks DEF AnswerKinds, Speaks
    <3>2. CASE ~auth
      BY <3>2, <2>3, SpeaksNot DEF Speaks
    <3> QED BY <3>1, <3>2
  <2> HIDE DEF b, K
  <2>5. Speaks(y, b, K)
    BY <1>1, <2>2, <2>3, <2>4, SpeaksTwice DEF Speaks
  <2>6. /\ Ready(block) /\ Top(b, block) /\ block.peer.id = b.peer.id
        /\ block.peer.role = b.peer.role /\ block.peer.state = b.peer.state
        /\ KeyOnly(b.peer.hs, block.peer.hs)
        /\ block.peer.hs.master = KeyOf(block.peer.hs)
        /\ block.peer.hs.master \in KeyBlock
        /\ block.peer.sec[0] = b.peer.sec[0]
        /\ block.peer.sec[1] # NULL
        /\ block.peer.sec[1].epoch = b.peer.sec[0].epoch + 1
        /\ block.peer.sec[1].key = block.peer.hs.master
        /\ block.peer.sec[1].cipher = b.peer.hs.cipher
    BY <2>5, KeyBlockIs DEF Speaks
  <2> HIDE DEF block
  <2>7. Concludes(block, w, "client")
    BY <2>6, FlightEnds
  <2> HIDE DEF w
  <2>8. /\ Ready(w) /\ Rest(block, w) /\ SameHs(block.peer.hs, w.peer.hs)
        /\ w.peer.id = block.peer.id
        /\ w.peer.sec[0] = block.peer.sec[1] /\ w.peer.sec[1] = block.peer.sec[0]
    BY <2>7 DEF Concludes
  <2>9. PICK n \in Messages :
          /\ n.ht = "finished" /\ n.seq = block.peer.hs.mseq_s
          /\ n.verify = <<"client", block.peer.hs.master, block.peer.hs.hash>>
          /\ w.peer.hs.hash = Append(block.peer.hs.hash, HashOf(n))
          /\ Adds(block, w, {Rec(block, "ccs", [ccs |-> 1]), Concluding(block, n)})
    BY <2>7 DEF Concludes
  <2>10. /\ z \in Endpoints /\ z.peer # NULL
         /\ z.peer.state = "WAIT_CHANGECIPHERSPEC" /\ z.peer.id = w.peer.id
         /\ z.peer.hs = w.peer.hs /\ z.peer.sec = w.peer.sec /\ Top(w, z)
    BY <2>8, PutState DEF Ready, States
  <2> HIDE DEF z
  <2>11. Ready(z)
    BY <2>8, <2>10 DEF Ready, Top
  <2>12. /\ z.peer.id = x.peer.id /\ z.ret = x.ret /\ z.done = x.done
         /\ x.rnd <= z.rnd
    <3>1. y.ret = x.ret /\ y.done = x.done /\ y.rnd = x.rnd /\ y.peer.id = x.peer.id
      BY <1>1 DEF Rest, Alike
    <3>2. b.ret = y.ret /\ b.done = y.done /\ y.rnd <= b.rnd /\ b.peer.id = y.peer.id
      BY <2>5 DEF Speaks, Alike
    <3>3. /\ block.ret = b.ret /\ block.done = b.done /\ block.rnd = b.rnd
      BY <2>6 DEF Top
    <3>4. w.ret = block.ret /\ w.done = block.done /\ w.rnd = block.rnd
      BY <2>8 DEF Rest
    <3>5. z.ret = w.ret /\ z.done = w.done /\ z.rnd = w.rnd
      BY <2>10 DEF Top
    <3> QED BY <3>1, <3>2, <3>3, <3>4, <3>5, <2>6, <2>8, <2>10
  <2>13. /\ z.peer.hs.mseq_r = x.peer.hs.mseq_r
         /\ z.peer.hs.reorder_queue = x.peer.hs.reorder_queue
         /\ z.peer.hs.crand = x.peer.hs.crand
         /\ z.peer.hs.cipher = x.peer.hs.cipher
         /\ block.peer.hs.cipher = x.peer.hs.cipher
    BY <1>1, <2>5, <2>6, <2>8, <2>10 DEF SameHs, Speaks, KeyOnly
  <2>14. /\ z.peer.sec[0].key = z.peer.hs.master
         /\ z.peer.hs.master = KeyOf(z.peer.hs)
         /\ z.peer.hs.master = block.peer.hs.master
    BY <2>6, <2>8, <2>10 DEF SameHs, KeyOf
  <2>15. x.peer.sec = y.peer.sec /\ b.peer.sec = y.peer.sec
    BY <1>1, <2>5 DEF Alike, Speaks
  <2>16. /\ z.peer.sec[1] = x.peer.sec[0]
         /\ z.peer.sec[0].epoch = x.peer.sec[0].epoch + 1
         /\ z.peer.sec[0].cipher = x.peer.hs.cipher
    BY <1>1, <2>5, <2>6, <2>8, <2>10, <2>15 DEF SameHs, Speaks
  <2>17. /\ Dones(y.peer.hs.hash) = Dones(x.peer.hs.hash) \cup {<<m.ht, m.seq, m.rnd>>}
         /\ Dones(w.peer.hs.hash) = Dones(block.peer.hs.hash)
         /\ block.peer.hs.hash \in Transcript
    <3>1. x.peer.hs.hash \in Transcript /\ block.peer.hs.hash \in Transcript
      BY <2>6, ReadyType, HsType
    <3> QED BY <1>1, <2>9, <3>1, DonesAppend
  <2>18. Dones(z.peer.hs.hash) = Dones(x.peer.hs.hash) \cup {<<m.ht, m.seq, m.rnd>>}
    BY <2>5, <2>6, <2>10, <2>17 DEF Speaks, KeyOnly
  <2>19. /\ n.verify[2] = z.peer.sec[0].key
         /\ z.peer.hs.hash = Append(n.verify[3], HashOf(n))
         /\ n.verify[3] \in Transcript
    BY <2>9, <2>10, <2>14, <2>17
  <2> DEFINE fin == [ct |-> "handshake", epoch |-> z.peer.sec[0].epoch,
                     key |-> z.peer.sec[0].key, msg |-> n]
             end == {Rec(x, "ccs", [ccs |-> 1]), fin}
  <2>20. Adds(x, z, Flight(x, K) \cup end)
    <3>1. Adds(x, y, {})
      BY <1>1, AddsNone
    <3>2. Adds(y, b, Flight(x, K))
      BY <1>1, <2>5, <2>15 DEF Speaks, Flight
    <3>3. Adds(b, block, {})
      BY <2>6, AddsNone DEF Top
    <3>4. Rec(block, "ccs", [ccs |-> 1]) = Rec(x, "ccs", [ccs |-> 1])
      BY <2>6, <2>15 DEF Rec
    <3>5. Concluding(block, n) = fin
      BY <2>8, <2>10 DEF Concluding
    <3> HIDE DEF fin
    <3>6. Adds(block, w, end)
      BY <2>9, <3>4, <3>5
    <3>7. Adds(w, z, {})
      BY <2>10, AddsNone DEF Top
    <3>8. /\ y.peer.id = x.peer.id /\ b.peer.id = y.peer.id
          /\ block.peer.id = b.peer.id /\ w.peer.id = block.peer.id
      BY <1>1, <2>5, <2>6, <2>8 DEF Alike, Speaks
    <3> HIDE DEF end
    <3>9. Adds(x, b, {} \cup Flight(x, K))
      BY <3>1, <3>2, <3>8, AddsTwice
    <3>10. Adds(x, block, ({} \cup Flight(x, K)) \cup {})
      BY <3>3, <3>8, <3>9, AddsTwice
    <3>11. Adds(x, w, (({} \cup Flight(x, K)) \cup {}) \cup end)
      BY <3>6, <3>8, <3>10, AddsTwice
    <3>12. Adds(x, z, ((({} \cup Flight(x, K)) \cup {}) \cup end) \cup {})
      BY <3>7, <3>8, <3>11, AddsTwice
    <3>13. ((({} \cup Flight(x, K)) \cup {}) \cup end) \cup {} = Flight(x, K) \cup end
      OBVIOUS
    <3> QED BY <3>12, <3>13
  <2>21. Rekeys(x, z, K, n)
    BY <2>9, <2>14, <2>16, <2>19, <2>20 DEF Rekeys
  <2>22. Answers(x, z, m)
    BY <2>10, <2>11, <2>12, <2>13, <2>18, <2>21, <2>8, <2>6 DEF Answers, K
  <2> QED BY <2>1, <2>22
<1> QED BY <1>2, <1>3

-----------------------------------------------------------------------------
(* The numbers of a handshake, when none is renegotiated *)

(* n continues the numbering after the ServerHelloDone in hash.            *)
Follows(hash, n) == \A e \in Dones(hash) : n = e[2] + 1

(* What a server says: it counts from 0 with a HelloVerifyRequest and from *)
(* 1 with a ServerHello, and never calls for another handshake.            *)
Orderly(m) ==
  /\ m.ht # "hello_request"
  /\ m.ht = "hello_verify_request" => m.seq = 0
  /\ m.ht = "server_key_exchange" => m.seq >= 2
  /\ m.ht = "server_hello" => m.suites[1] # "null"
  /\ m.ht = "finished" => Follows(m.verify[3], m.seq)

(* The session is one the client has switched to, and its transcript stays *)
(* as it was sent as long as the handshake of that random lasts.           *)
Pinned(c, key, hash) ==
  /\ key \in KeyBlock /\ key[1] <= c.rnd
  /\ (HasHandshake(c) /\ c.peer.hs.crand = key[1]) =>
       c.peer.sec[0].epoch = 1 /\ c.peer.hs.hash = hash
Issued(c, m) ==
  m.ht = "finished" => Pinned(c, m.verify[2], Append(m.verify[3], HashOf(m)))

(* What a record or a node of the client, and a record of the server, may  *)
(* hold.                                                                   *)
Asked(c, r) ==
  r.ct = "handshake" => Issued(c, r.msg) /\ (r.epoch # 0 => r.msg.ht = "finished")
Replied(r) ==
  r.ct = "handshake" =>
    Orderly(r.msg) /\ (r.key # NULL => r.msg.ht = "finished" /\ r.key = r.msg.verify[2])

Opening == {"CLIENTHELLO", "WAIT_SERVERCERTIFICATE", "WAIT_SERVERKEYEXCHANGE",
            "WAIT_SERVERHELLODONE"}

(* The client's peer has at most the parameters of epoch 0 and of the one  *)
(* handshake, and its transcript and numbers agree with them.              *)
ClientSec(p) ==
  /\ p.sec[1] # NULL => p.sec[1].epoch = 0 /\ p.sec[1].cipher = "null"
  /\ p.sec[0].epoch \in {0, 1}
  /\ p.sec[0].cipher = "null" <=> p.sec[0].epoch = 0
  /\ p.sec[0].epoch = 1 => p.sec[0].key \in KeyBlock
  /\ p.state \in Opening => p.sec[0].epoch = 0
ClientHs(p, err) ==
  LET g == p.hs
  IN /\ g.cipher = "null" =>
          p.state \in {"CLIENTHELLO", "CLOSING", "CLOSED"} /\ g.mseq_r <= 1
     /\ (p.sec[0].epoch = 0 /\ InHandshake(p) /\ ~err) => Dones(g.hash) = {}
     /\ p.sec[0].epoch = 1 => Follows(g.hash, g.mseq_r) /\ p.sec[0].key[1] = g.crand
ClientPeer(x) ==
  /\ x.peer # NULL =>
       /\ ClientSec(x.peer)
       /\ x.peer.hs # NULL => ClientHs(x.peer, IsError(x))
       /\ x.peer.hs = NULL => Silent(x)
  /\ \A m \in Queue(x) : Orderly(m)
ClientFit(x) ==
  /\ \A r \in Written(x) \cup Waiting(x) : Asked(x, r)
  /\ ClientPeer(x)

(* Every node that waits can be sent under the parameters of its epoch.    *)
Holds(x) ==
  \A n \in Waiting(x) : Live(x, n) => EpochSlots(x.peer.sec, n.epoch) # {}

(* From x to y the client leaves sessions pinned.                          *)
Pins(x, y) ==
  /\ x.rnd <= y.rnd
  /\ HasHandshake(y) =>
       LET g == y.peer.hs
       IN \/ x.rnd < g.crand
          \/ /\ HasHandshake(x) /\ x.peer.hs.crand = g.crand
             /\ x.peer.sec[0].epoch = 1 =>
                  y.peer.sec[0].epoch = 1 /\ g.hash = x.peer.hs.hash

(* A pinned session stays so. *)
LEMMA PinnedOn ==
  ASSUME NEW x, NEW y, x.rnd \in Nat, y.rnd \in Nat, Pins(x, y),
         HasHandshake(y) => y.peer.hs.crand \in Nat,
         NEW key, NEW hash, Pinned(x, key, hash)
  PROVE  Pinned(y, key, hash)
<1>1. key[1] \in Nat /\ key[1] <= y.rnd
  BY DEF Pinned, Pins, KeyBlock
<1>2. CASE HasHandshake(y) /\ y.peer.hs.crand = key[1]
  <2>1. ~(x.rnd < y.peer.hs.crand)
    BY <1>1, <1>2 DEF Pinned
  <2>2. /\ HasHandshake(x) /\ x.peer.hs.crand = key[1]
        /\ x.peer.sec[0].epoch = 1 =>
             y.peer.sec[0].epoch = 1 /\ y.peer.hs.hash = x.peer.hs.hash
    BY <1>2, <2>1 DEF Pins
  <2>3. x.peer.sec[0].epoch = 1 /\ x.peer.hs.hash = hash
    BY <2>2 DEF Pinned
  <2>4. y.peer.sec[0].epoch = 1 /\ y.peer.hs.hash = hash
    BY <2>2, <2>3
  <2> QED BY <1>1, <2>4 DEF Pinned
<1> QED BY <1>1, <1>2 DEF Pinned

(* Pinning composes. *)
LEMMA PinsTwice ==
  ASSUME NEW x, NEW y, NEW z, x.rnd \in Nat, y.rnd \in Nat, z.rnd \in Nat,
         HasHandshake(y) => y.peer.hs.crand \in Nat,
         HasHandshake(z) => z.peer.hs.crand \in Nat,
         Pins(x, y), Pins(y, z)
  PROVE  Pins(x, z)
BY DEF Pins

(* A random is a number. *)
LEMMA RandomType ==
  ASSUME NEW x \in Endpoints
  PROVE  x.rnd \in Nat /\ (HasHandshake(x) => x.peer.hs.crand \in Nat)
BY EndpointType, PeerType, HsType DEF HasHandshake

(* What was asked stays so, in records and nodes.                          *)
LEMMA AskedOn ==
  ASSUME NEW x \in Endpoints, NEW y \in Endpoints, Pins(x, y),
         NEW r, Asked(x, r)
  PROVE  Asked(y, r)
<1>1. /\ x.rnd \in Nat /\ y.rnd \in Nat
      /\ HasHandshake(y) => y.peer.hs.crand \in Nat
  BY RandomType
<1>2. ASSUME Issued(x, r.msg) PROVE Issued(y, r.msg)
  BY <1>1, <1>2, PinnedOn DEF Issued
<1> QED BY <1>2 DEF Asked

(* What is new was asked, so all is. *)
LEMMA AskedAfter ==
  ASSUME NEW x \in Endpoints, NEW y \in Endpoints, Pins(x, y),
         \A r \in Written(x) \cup Waiting(x) : Asked(x, r),
         NEW new, Adds(x, y, new), \A r \in new : Asked(y, r)
  PROVE  \A r \in Written(y) \cup Waiting(y) : Asked(y, r)
<1>1. \A r \in Written(x) \cup Waiting(x) : Asked(y, r)
  BY AskedOn
<1>2. ASSUME NEW n \in Waiting(y), n \notin Waiting(x) PROVE Asked(y, n)
  <2>1. PICK r \in new : Copies(x, n, r)
    BY <1>2 DEF Adds
  <2>2. n.ct = r.ct /\ n.msg = r.msg /\ n.epoch = r.epoch
    BY <2>1 DEF Copies
  <2>3. Asked(y, r)
    BY <2>1
  <2> QED BY <2>2, <2>3 DEF Asked
<1> QED BY <1>1, <1>2 DEF Adds

(* What is queued after the queue was emptied has the epoch of a record.   *)
LEMMA HoldsAfter ==
  ASSUME NEW x \in Endpoints, Silent(x), NEW y \in Endpoints,
         y.peer # NULL => x.peer # NULL /\ y.peer.id = x.peer.id,
         NEW new, Adds(x, y, new),
         \A r \in new : EpochSlots(y.peer.sec, r.epoch) # {}
  PROVE  Holds(y)
<1> SUFFICES ASSUME NEW n \in Waiting(y), Live(y, n)
             PROVE  EpochSlots(y.peer.sec, n.epoch) # {}
  BY DEF Holds
<1>1. \A k \in Waiting(x) : ~Live(x, k)
  BY SilentIs
<1>2. n \notin Waiting(x)
  BY <1>1 DEF Live
<1>3. PICK r \in new : Copies(x, n, r)
  BY <1>2 DEF Adds
<1> QED BY <1>3 DEF Copies

(* dtls_stop_retransmission only takes nodes out of the queue.             *)
LEMMA StopLess ==
  ASSUME NEW x \in Endpoints
  PROVE  LET y == StopRetransmission(x)
         IN Written(y) = Written(x) /\ Waiting(y) \subseteq Waiting(x)
<1> DEFINE q == Dangling(x)
           K == {n \in Nodes : ~Live(x, n) /\ \E j \in DOMAIN x.sendqueue :
                                                n = x.sendqueue[j]}
           y == StopRetransmission(x)
<1>1. q \in Seq(K)
  BY DanglingIs
<1>2. ToSet(q) \subseteq Waiting(x)
  <2> HIDE DEF q, K
  <2>1. ToSet(q) \subseteq K
    BY <1>1, SetOf
  <2>2. K \subseteq Waiting(x)
    BY DEF K, Waiting, ToSet
  <2> QED BY <2>1, <2>2
<1>3. ToSet(<<>>) = {}
  BY DEF ToSet
<1> HIDE DEF q
<1>4. y.out = x.out /\ (y.sendqueue \in {x.sendqueue, <<>>, q})
  BY DEF StopRetransmission, Crash, Endpoints, q
<1> QED BY <1>2, <1>3, <1>4 DEF Written, Waiting

(* ++mseq_r after a message that was handled.                              *)
LEMMA AdvanceIs ==
  ASSUME NEW x \in Endpoints
  PROVE  LET y == Advance(x)
         IN /\ ~HasHandshake(x) \/ IsError(x) => y = x
            /\ HasHandshake(x) /\ ~IsError(x) =>
                 /\ y \in Endpoints /\ y.peer # NULL /\ y.peer.hs # NULL
                 /\ Top(x, y) /\ Alike(x.peer, y.peer)
                 /\ y.peer.hs.mseq_r = x.peer.hs.mseq_r + 1
                 /\ y.peer.hs.mseq_s = x.peer.hs.mseq_s
                 /\ y.peer.hs.reorder_queue = x.peer.hs.reorder_queue
                 /\ y.peer.hs.crand = x.peer.hs.crand
                 /\ y.peer.hs.cipher = x.peer.hs.cipher
                 /\ y.peer.hs.hash = x.peer.hs.hash
<1> DEFINE f == x.peer.hs
           k == f.mseq_r + 1
           g == [f EXCEPT !.mseq_r = k]
           z == [x EXCEPT !.peer.hs = g]
<1>1. CASE ~HasHandshake(x) \/ IsError(x)
  BY <1>1 DEF Advance
<1>2. CASE HasHandshake(x) /\ ~IsError(x)
  <2>1. Advance(x) = z
    BY <1>2 DEF Advance
  <2>2. f \in Handshakes /\ x.peer # NULL /\ k \in Nat
    BY <1>2, EndpointType, PeerType, HsType DEF HasHandshake
  <2> HIDE DEF k
  <2>3. /\ g \in Handshakes /\ g.mseq_r = k /\ g.mseq_s = f.mseq_s
        /\ g.reorder_queue = f.reorder_queue /\ g.crand = f.crand
        /\ g.cipher = f.cipher /\ g.hash = f.hash
    BY <2>2 DEF Handshakes
  <2> HIDE DEF g
  <2>4. /\ z \in Endpoints /\ z.peer # NULL /\ z.peer.hs = g
        /\ Alike(x.peer, z.peer) /\ Top(x, z)
    BY <2>2, <2>3, PutHs
  <2>5. g # NULL
    BY <2>3, HsType
  <2> HIDE DEF z
  <2> QED BY <1>2, <2>1, <2>3, <2>4, <2>5 DEF k
<1> QED BY <1>1, <1>2

(* A message the client only takes note of, in the flight of the server.   *)
Hears(x, y) ==
  /\ y \in Endpoints /\ y.peer # NULL /\ y.peer.hs # NULL
  /\ y.out = x.out /\ y.sendqueue = x.sendqueue /\ y.rnd = x.rnd
  /\ y.peer.id = x.peer.id /\ y.peer.sec = x.peer.sec
  /\ y.peer.state \in Opening
  /\ y.peer.hs.mseq_r = x.peer.hs.mseq_r /\ y.peer.hs.crand = x.peer.hs.crand
  /\ y.peer.hs.reorder_queue = x.peer.hs.reorder_queue
  /\ y.peer.hs.cipher # "null"
  /\ IsError(y) \/ Dones(y.peer.hs.hash) = Dones(x.peer.hs.hash)

(* What a handler keeps or restores of the client.                         *)
ClientGets(x, z) == ClientFit(z) /\ Holds(z) /\ Pins(x, z)

(* A handshake message the client takes while the server's flight is       *)
(* arriving leaves its numbers in order.                                   *)
LEMMA HearsFits ==
  ASSUME NEW x \in Endpoints, ClientFit(x), Silent(x), HasHandshake(x),
         ~IsError(x), x.peer.state \in Opening, NEW y, Hears(x, y)
  PROVE  ClientGets(x, Advance(y))
<1> DEFINE z == Advance(y)
<1>1. /\ ClientSec(x.peer) /\ ClientHs(x.peer, IsError(x))
      /\ x.peer.sec[0].epoch = 0 /\ \A m \in Queue(x) : Orderly(m)
  BY DEF ClientFit, ClientPeer, HasHandshake, ClientSec
<1>2. Dones(x.peer.hs.hash) = {}
  BY <1>1 DEF ClientHs, InHandshake, Opening
<1>3. /\ z \in Endpoints /\ z.peer # NULL /\ z.peer.hs # NULL
      /\ z.out = y.out /\ z.sendqueue = y.sendqueue /\ z.rnd = y.rnd
      /\ z.ret = y.ret /\ Alike(y.peer, z.peer)
      /\ z.peer.hs.reorder_queue = y.peer.hs.reorder_queue
      /\ z.peer.hs.crand = y.peer.hs.crand
      /\ z.peer.hs.cipher = y.peer.hs.cipher
      /\ z.peer.hs.hash = y.peer.hs.hash
  <2>1. y \in Endpoints /\ HasHandshake(y)
    BY DEF Hears, HasHandshake
  <2>2. CASE IsError(y)
    BY <2>1, <2>2, AdvanceIs DEF Hears, Alike, HasHandshake
  <2>3. CASE ~IsError(y)
    BY <2>1, <2>3, AdvanceIs DEF Top
  <2> QED BY <2>2, <2>3
<1> HIDE DEF z
<1>4. /\ z.out = x.out /\ z.sendqueue = x.sendqueue /\ z.rnd = x.rnd
      /\ z.peer.id = x.peer.id /\ z.peer.sec = x.peer.sec
      /\ z.peer.state \in Opening /\ z.peer.hs.crand = x.peer.hs.crand
      /\ z.peer.hs.cipher # "null"
      /\ IsError(z) \/ Dones(z.peer.hs.hash) = {}
      /\ z.peer.hs.reorder_queue = x.peer.hs.reorder_queue
  BY <1>2, <1>3 DEF Hears, Alike, IsError
<1>5. ClientPeer(z)
  <2>1. ClientSec(z.peer)
    BY <1>1, <1>4 DEF ClientSec
  <2>2. ClientHs(z.peer, IsError(z))
    BY <1>1, <1>4 DEF ClientHs
  <2>3. Queue(z) = Queue(x)
    BY <1>3, <1>4 DEF Queue, HasHandshake
  <2> QED BY <1>1, <1>3, <2>1, <2>2, <2>3 DEF ClientPeer
<1>6. Pins(x, z)
  <2>1. x.rnd <= z.rnd
    BY <1>4, RandomType
  <2> QED BY <1>1, <1>4, <2>1 DEF Pins, HasHandshake
<1>7. Adds(x, z, {})
  BY <1>4, AddsNone
<1>8. ClientFit(z)
  BY <1>3, <1>5, <1>6, <1>7, AskedAfter DEF ClientFit
<1>9. Holds(z)
  <2>1. z.peer # NULL => x.peer # NULL /\ z.peer.id = x.peer.id
    BY <1>4 DEF HasHandshake
  <2> QED BY <1>3, <1>7, <2>1, HoldsAfter
<1> QED BY <1>6, <1>8, <1>9 DEF ClientGets, z

(* Hash(x, m) appends m to the transcript and changes nothing else.        *)
LEMMA HashIs ==
  ASSUME NEW x, Ready(x), NEW m \in Messages
  PROVE  LET y == Hash(x, m)
         IN /\ Ready(y) /\ Top(x, y) /\ Alike(x.peer, y.peer)
            /\ SameHs(x.peer.hs, y.peer.hs)
            /\ y.peer.hs.mseq_s = x.peer.hs.mseq_s
            /\ y.peer.hs.hash = Append(x.peer.hs.hash, HashOf(m))
<1> DEFINE f == x.peer.hs
           hash == Append(f.hash, HashOf(m))
           g == [f EXCEPT !.hash = hash]
           y == [x EXCEPT !.peer.hs = g]
<1>1. /\ x \in Endpoints /\ x.peer # NULL /\ f \in Handshakes
      /\ x.peer.sec[0] # NULL /\ x.peer.id \in 1..x.peers /\ f.hash \in Transcript
  BY ReadyType, HsType DEF Ready
<1>2. hash \in Transcript
  BY <1>1, AppendKinds
<1>3. Hash(x, m) = y
  BY DEF Hash
<1> HIDE DEF hash
<1>4. /\ g \in Handshakes /\ SameHs(f, g) /\ g.mseq_s = f.mseq_s
      /\ g.hash = hash
  BY <1>1, <1>2 DEF Handshakes, SameHs
<1> HIDE DEF g
<1>5. /\ y \in Endpoints /\ y.peer # NULL /\ y.peer.hs = g
      /\ Alike(x.peer, y.peer) /\ Top(x, y)
  BY <1>1, <1>4, PutHs
<1> HIDE DEF y
<1>6. Ready(y)
  BY <1>1, <1>4, <1>5, HsType DEF Ready, Alike, Top
<1> QED BY <1>3, <1>4, <1>5, <1>6 DEF hash

(* Only taking note, then a new state or an error.                         *)
LEMMA HearsBy ==
  ASSUME NEW x, Ready(x), NEW h, Ready(h), Top(x, h), Alike(x.peer, h.peer),
         h.peer.hs.mseq_r = x.peer.hs.mseq_r,
         h.peer.hs.crand = x.peer.hs.crand,
         h.peer.hs.reorder_queue = x.peer.hs.reorder_queue,
         h.peer.hs.cipher # "null"
  PROVE  /\ Dones(h.peer.hs.hash) = Dones(x.peer.hs.hash) =>
              /\ \A st \in Opening : Hears(x, SetState(h, st))
              /\ x.peer.state \in Opening => Hears(x, h)
         /\ x.peer.state \in Opening =>
              \A desc \in Errors : Hears(x, Error(h, desc))
<1>1. /\ h \in Endpoints /\ h.peer # NULL /\ h.peer.hs # NULL
      /\ h.out = x.out /\ h.sendqueue = x.sendqueue /\ h.rnd = x.rnd
      /\ h.peer.id = x.peer.id /\ h.peer.sec = x.peer.sec
      /\ h.peer.state = x.peer.state
  BY DEF Ready, Top, Alike
<1>2. ASSUME Dones(h.peer.hs.hash) = Dones(x.peer.hs.hash), NEW st \in Opening
      PROVE  Hears(x, SetState(h, st))
  <2> DEFINE y == SetState(h, st)
  <2>1. st \in States
    BY DEF Opening, States
  <2>2. /\ y \in Endpoints /\ y.peer # NULL /\ y.peer.state = st
        /\ y.peer.id = h.peer.id /\ y.peer.hs = h.peer.hs
        /\ y.peer.sec = h.peer.sec /\ Top(h, y)
    BY <1>1, <2>1, PutState
  <2> HIDE DEF y
  <2>3. Hears(x, y)
    BY <1>1, <1>2, <2>2 DEF Hears, Top
  <2> QED BY <2>3 DEF y
<1>3. ASSUME NEW desc \in Errors, x.peer.state \in Opening
      PROVE  Hears(x, Error(h, desc))
  <2> DEFINE y == Error(h, desc)
  <2>1. Same(h, y) /\ y.ret = desc
    BY <1>1, ErrorSame
  <2>2. desc # "ok"
    BY DEF Errors
  <2> HIDE DEF y
  <2>3. Hears(x, y)
    BY <1>1, <1>3, <2>1, <2>2 DEF Hears, Same, IsError
  <2> QED BY <2>3 DEF y
<1>4. ASSUME Dones(h.peer.hs.hash) = Dones(x.peer.hs.hash), x.peer.state \in Opening
      PROVE  Hears(x, h)
  BY <1>1, <1>4 DEF Hears
<1> QED BY <1>2, <1>3, <1>4

(* The messages of the server's flight before ServerHelloDone.  A          *)
(* ServerKeyExchange, which no state refuses as long as no cipher suite is *)
(* chosen, is not the one the client then waits for.                       *)
LEMMA ClientHears ==
  ASSUME NEW o, NEW x, NEW m, Turn("client", o, x, m), ClientFit(x),
         Orderly(m), m.seq = x.peer.hs.mseq_r,
         m.ht \in {"server_hello", "certificate", "server_key_exchange",
                   "certificate_request"}
  PROVE  Hears(x, Dispatch(x, m)) /\ x.peer.state \in Opening
<1> DEFINE h == Hash(x, m)
           f == h.peer.hs
<1>1. /\ Ready(x) /\ x.peer.role = "client" /\ m \in Messages
      /\ Expected(x, "client", x.peer.state, m)
      /\ x.peer.hs \in Handshakes /\ x.peer.hs.mseq_r \in Nat
      /\ ClientHs(x.peer, IsError(x))
  <2>1. Ready(x) /\ x.peer.role = "client" /\ m \in Messages
    BY TurnReady
  <2>2. ClientHs(x.peer, IsError(x))
    BY <2>1 DEF ClientFit, ClientPeer, Ready
  <2> QED BY <2>1, <2>2, ReadyType, HsType DEF Turn
<1>2. /\ Ready(h) /\ Top(x, h) /\ Alike(x.peer, h.peer)
      /\ SameHs(x.peer.hs, f) /\ f.hash = Append(x.peer.hs.hash, HashOf(m))
      /\ f \in Handshakes
  BY <1>1, HashIs, ReadyType
<1>3. Dones(f.hash) = Dones(x.peer.hs.hash)
  <2>1. x.peer.hs.hash \in Transcript /\ m.ht # "server_hello_done"
    BY <1>1, HsType
  <2> QED BY <1>1, <1>2, <2>1, DonesAppend
<1> HIDE DEF h
<1>4. /\ f.mseq_r = x.peer.hs.mseq_r /\ f.crand = x.peer.hs.crand
      /\ f.reorder_queue = x.peer.hs.reorder_queue
      /\ f.cipher = x.peer.hs.cipher
  BY <1>2 DEF SameHs
<1>5. CASE m.ht = "server_hello"
  <2> DEFINE e == [f EXCEPT !.srand = m.rnd]
             g == [e EXCEPT !.cipher = m.suites[1]]
             y == [h EXCEPT !.peer.hs = g]
             w == [Hash(x, m) EXCEPT !.peer.hs.srand = m.rnd,
                                     !.peer.hs.cipher = m.suites[1]]
  <2>1. m.suites[1] \in Cipher /\ m.rnd \in Nat /\ m.suites[1] # "null"
    <3>1. m.suites \in Seq(Cipher) /\ m.rnd \in Nat
      BY TurnReady
    <3>2. Len(m.suites) = 1
      BY <1>5 DEF Turn, Says
    <3>3. m.suites[1] \in Cipher
      BY <3>1, <3>2
    <3> QED BY <1>5, <3>1, <3>3 DEF Orderly
  <2>2. /\ e \in Handshakes /\ e.hash = f.hash
        /\ e.mseq_r = f.mseq_r /\ e.reorder_queue = f.reorder_queue
        /\ e.crand = f.crand
    <3> HIDE DEF f
    <3> QED BY <1>2, <2>1 DEF Handshakes
  <2> HIDE DEF e
  <2>3. /\ g \in Handshakes /\ g.hash = f.hash /\ g.mseq_r = f.mseq_r
        /\ g.reorder_queue = f.reorder_queue /\ g.crand = f.crand
        /\ g.cipher # "null"
    <3> HIDE DEF f
    <3> QED BY <2>1, <2>2 DEF Handshakes
  <2>4. w = y
    BY DEF h, e
  <2> HIDE DEF g, w
  <2>5. /\ y \in Endpoints /\ y.peer # NULL /\ y.peer.hs = g
        /\ Alike(h.peer, y.peer) /\ Top(h, y)
    BY <1>2, <2>3, PutHs DEF Ready
  <2> HIDE DEF y
  <2>6. Ready(y) /\ Top(x, y) /\ Alike(x.peer, y.peer)
    <3>1. g # NULL
      BY <2>3, HsType
    <3> QED BY <1>2, <2>5, <3>1 DEF Ready, Top, Alike
  <2>7. x.peer.state = "CLIENTHELLO" /\ x.peer.state \in Opening
    BY <1>1, <1>5 DEF Expected, Opening
  <2>8. /\ \A st \in Opening : Hears(x, SetState(y, st))
        /\ \A desc \in Errors : Hears(x, Error(y, desc))
    BY <1>1, <1>3, <1>4, <2>3, <2>5, <2>6, <2>7, HearsBy
  <2>9. Dispatch(x, m) = ServerHello(x, m)
    BY <1>5 DEF Dispatch
  <2> DEFINE st == IF Ecdsa(m.suites[1]) THEN "WAIT_SERVERCERTIFICATE"
                                         ELSE "WAIT_SERVERHELLODONE"
  <2>10. \/ ServerHello(x, m) = Error(y, "insufficient_security")
         \/ ServerHello(x, m) = SetState(y, st)
    BY <2>4 DEF ServerHello, w
  <2>11. st \in Opening /\ "insufficient_security" \in Errors
    BY DEF Opening, Errors
  <2> HIDE DEF st
  <2> QED BY <2>7, <2>8, <2>9, <2>10, <2>11
<1>6. CASE m.ht = "certificate"
  <2>1. x.peer.state = "WAIT_SERVERCERTIFICATE"
    BY <1>1, <1>6 DEF Expected
  <2>2. x.peer.hs.cipher # "null" /\ "WAIT_SERVERKEYEXCHANGE" \in Opening
    BY <1>1, <2>1 DEF ClientHs, Opening
  <2>3. Dispatch(x, m) = SetState(h, "WAIT_SERVERKEYEXCHANGE")
    BY <1>1, <1>6 DEF Dispatch, Certificate, h
  <2>4. Hears(x, SetState(h, "WAIT_SERVERKEYEXCHANGE"))
    BY <1>1, <1>2, <1>3, <1>4, <2>2, HearsBy
  <2> QED BY <2>1, <2>3, <2>4 DEF Opening
<1>7. CASE m.ht = "server_key_exchange"
  <2>1. x.peer.hs.cipher # "null"
    <3>1. m.seq >= 2
      BY <1>7 DEF Orderly
    <3> QED BY <1>1, <3>1 DEF ClientHs
  <2>2. x.peer.state \in Opening /\ "WAIT_SERVERHELLODONE" \in Opening
    <3>1. x.peer.hs.cipher \in {"psk", "ecdsa"}
      BY <1>1, <2>1, HsType DEF Cipher
    <3> QED BY <1>1, <1>7, <3>1 DEF Expected, Ecdsa, Opening
  <2>3. /\ Hears(x, SetState(h, "WAIT_SERVERHELLODONE"))
        /\ \A desc \in Errors : Hears(x, Error(h, desc))
    BY <1>1, <1>2, <1>3, <1>4, <2>1, <2>2, HearsBy
  <2>4. \/ Dispatch(x, m) = Error(h, "handshake_failure")
        \/ Dispatch(x, m) = SetState(h, "WAIT_SERVERHELLODONE")
    BY <1>7, <2>1 DEF Dispatch, ServerKeyExchange, h
  <2>5. "handshake_failure" \in Errors
    BY DEF Errors
  <2> QED BY <2>2, <2>3, <2>4, <2>5
<1>8. CASE m.ht = "certificate_request"
  <2> DEFINE g == [f EXCEPT !.auth = TRUE]
             y == [h EXCEPT !.peer.hs = g]
  <2>1. x.peer.state = "WAIT_SERVERHELLODONE"
    BY <1>1, <1>8 DEF Expected
  <2>2. x.peer.hs.cipher # "null" /\ x.peer.state \in Opening
    BY <1>1, <2>1 DEF ClientHs, Opening
  <2>3. /\ g \in Handshakes /\ g.hash = f.hash /\ g.mseq_r = f.mseq_r
        /\ g.reorder_queue = f.reorder_queue /\ g.crand = f.crand
        /\ g.cipher = f.cipher
    <3> HIDE DEF f
    <3> QED BY <1>2 DEF Handshakes
  <2>4. Dispatch(x, m) = y
    BY <1>8 DEF Dispatch, CertificateRequest, h
  <2> HIDE DEF g
  <2>5. /\ y \in Endpoints /\ y.peer # NULL /\ y.peer.hs = g
        /\ Alike(h.peer, y.peer) /\ Top(h, y)
    BY <1>2, <2>3, PutHs DEF Ready
  <2> HIDE DEF y
  <2>6. Ready(y) /\ Top(x, y) /\ Alike(x.peer, y.peer)
    <3>1. g # NULL
      BY <2>3, HsType
    <3> QED BY <1>2, <2>5, <3>1 DEF Ready, Top, Alike
  <2>7. Hears(x, y)
    BY <1>1, <1>3, <1>4, <2>2, <2>3, <2>5, <2>6, HearsBy
  <2> QED BY <2>2, <2>4, <2>7
<1> QED BY <1>5, <1>6, <1>7, <1>8

(* No message was hashed yet. *)
LEMMA DonesNone ==
  /\ <<>> \in Transcript /\ Dones(<<>>) = {}
  /\ \A m \in Messages : m.ht # "server_hello_done" =>
       Dones(Append(<<>>, HashOf(m))) = {}
<1>1. <<>> \in Transcript
  BY DEF Transcript
<1>2. Dones(<<>>) = {}
  BY DEF Dones, ToSet
<1>3. ASSUME NEW m \in Messages, m.ht # "server_hello_done"
      PROVE  Dones(Append(<<>>, HashOf(m))) = {}
  BY <1>1, <1>2, <1>3, DonesAppend
<1> QED BY <1>1, <1>2, <1>3

(* The parameters in use are those of their epoch.                         *)
LEMMA SlotsIs ==
  ASSUME NEW sec, NEW i \in Slot, sec[i] # NULL
  PROVE  EpochSlots(sec, sec[i].epoch) # {}
BY DEF EpochSlots

(* A ClientHello, first or with the cookie of the answer to it.            *)
LEMMA HelloFits ==
  ASSUME NEW x, Ready(x), NEW cookie \in Nat, ClientSec(x.peer),
         x.peer.sec[0].epoch = 0
  PROVE  LET y == SendClientHello(x, cookie)
         IN /\ Ready(y) /\ Alike(x.peer, y.peer) /\ y.ret = x.ret
            /\ x.rnd <= y.rnd
            /\ x.rnd < y.peer.hs.crand \/ y.peer.hs.crand = x.peer.hs.crand
            /\ y.peer.hs.cipher = x.peer.hs.cipher
            /\ y.peer.hs.mseq_r = x.peer.hs.mseq_r
            /\ y.peer.hs.reorder_queue = x.peer.hs.reorder_queue
            /\ Dones(y.peer.hs.hash) = Dones(x.peer.hs.hash)
               \/ Dones(y.peer.hs.hash) = {}
            /\ \E new : /\ Adds(x, y, new)
                        /\ \A r \in new :
                             /\ r.epoch = x.peer.sec[0].epoch
                             /\ \A z : Asked(z, r)
<1> DEFINE y == SendClientHello(x, cookie)
<1>1. /\ Ready(y) /\ Stays("client", {}, "other", x, y)
      /\ Alike(x.peer, y.peer) /\ y.ret = x.ret
      /\ y.peer.hs.cipher = x.peer.hs.cipher
      /\ cookie = 0 => y.peer.hs.crand = x.rnd + 1
      /\ cookie # 0 => y.peer.hs.crand = x.peer.hs.crand
  BY ClientHelloSent
<1>2. PICK n : Greets(x, y, cookie, n)
  BY HelloIs
<1> HIDE DEF y
<1>3. x.rnd <= y.rnd /\ y.peer.hs.reorder_queue = x.peer.hs.reorder_queue
  BY <1>1 DEF Stays
<1>4. x.rnd < y.peer.hs.crand \/ y.peer.hs.crand = x.peer.hs.crand
  <2>1. x.rnd \in Nat
    BY ReadyType
  <2> QED BY <1>1, <2>1
<1>5. Dones(y.peer.hs.hash) = Dones(x.peer.hs.hash) \/ Dones(y.peer.hs.hash) = {}
  BY <1>2, DonesNone DEF Greets
<1> DEFINE r == Rec(x, "handshake", n)
<1>6. r.epoch = x.peer.sec[0].epoch /\ r.msg = n
  BY DEF Rec
<1> HIDE DEF r
<1>7. \A z : Asked(z, r)
  BY <1>2, <1>6 DEF Asked, Issued, Greets
<1>8. \E new : /\ Adds(x, y, new)
               /\ \A e \in new : /\ e.epoch = x.peer.sec[0].epoch
                                 /\ \A z : Asked(z, e)
  <2>1. Adds(x, y, {r})
    BY <1>2 DEF r, Greets
  <2> WITNESS {r}
  <2> QED BY <1>6, <1>7, <2>1
<1>9. y.peer.hs.mseq_r = x.peer.hs.mseq_r
  BY <1>2 DEF Greets
<1> QED BY <1>1, <1>3, <1>4, <1>5, <1>8, <1>9 DEF y

(* The first flight again, with the cookie.                                *)
LEMMA VerifyRequestFits ==
  ASSUME NEW o, NEW x, NEW m, Turn("client", o, x, m), ClientFit(x),
         Silent(x), Orderly(m), m.seq = x.peer.hs.mseq_r,
         m.ht = "hello_verify_request"
  PROVE  ClientGets(x, Advance(Dispatch(x, m)))
<1> DEFINE y == SendClientHello(x, m.cookie)
           z == Advance(y)
<1>1. /\ Ready(x) /\ m.cookie \in Nat /\ x.peer.state = "CLIENTHELLO"
      /\ ClientSec(x.peer) /\ ClientHs(x.peer, IsError(x)) /\ x.ret = "ok"
      /\ m.seq = 0 /\ x.peer.hs.mseq_r = 0
  <2>1. Ready(x) /\ m.cookie \in Nat
    BY TurnReady
  <2>2. x.peer.state = "CLIENTHELLO" /\ x.ret = "ok"
    BY DEF Turn, Expected
  <2> QED BY <2>1, <2>2 DEF ClientFit, ClientPeer, Ready, Orderly
<1>2. x.peer.sec[0].epoch = 0
  BY <1>1 DEF ClientSec, Opening
<1>3. Dones(x.peer.hs.hash) = {}
  BY <1>1, <1>2 DEF ClientHs, InHandshake, IsError
<1>4. /\ Ready(y) /\ Alike(x.peer, y.peer) /\ y.ret = x.ret
      /\ x.rnd <= y.rnd
      /\ x.rnd < y.peer.hs.crand \/ y.peer.hs.crand = x.peer.hs.crand
      /\ y.peer.hs.mseq_r = x.peer.hs.mseq_r
      /\ y.peer.hs.reorder_queue = x.peer.hs.reorder_queue
      /\ Dones(y.peer.hs.hash) = {}
  BY <1>1, <1>2, <1>3, HelloFits
<1>5. PICK new : /\ Adds(x, y, new)
                 /\ \A r \in new : /\ r.epoch = x.peer.sec[0].epoch
                                   /\ \A c : Asked(c, r)
  BY <1>1, <1>2, HelloFits
<1>6. Dispatch(x, m) = y
  BY DEF Dispatch, HelloVerifyRequest
<1> HIDE DEF y
<1>7. /\ z \in Endpoints /\ z.peer # NULL /\ z.peer.hs # NULL
      /\ Top(y, z) /\ Alike(y.peer, z.peer)
      /\ z.peer.hs.mseq_r = y.peer.hs.mseq_r + 1
      /\ z.peer.hs.reorder_queue = y.peer.hs.reorder_queue
      /\ z.peer.hs.crand = y.peer.hs.crand
      /\ z.peer.hs.hash = y.peer.hs.hash
  <2>1. y \in Endpoints /\ HasHandshake(y) /\ ~IsError(y)
    BY <1>1, <1>4 DEF Ready, HasHandshake, IsError
  <2> QED BY <2>1, AdvanceIs
<1> HIDE DEF z
<1>8. /\ z.peer.sec = x.peer.sec /\ z.peer.state = "CLIENTHELLO"
      /\ z.peer.id = x.peer.id /\ z.peer.hs.mseq_r = 1
      /\ Dones(z.peer.hs.hash) = {}
      /\ z.peer.hs.reorder_queue = x.peer.hs.reorder_queue
      /\ z.rnd = y.rnd
  BY <1>1, <1>4, <1>7 DEF Alike, Top
<1>9. ClientPeer(z)
  <2>1. ClientSec(z.peer)
    BY <1>1, <1>2, <1>8 DEF ClientSec
  <2>2. ClientHs(z.peer, IsError(z))
    BY <1>2, <1>8 DEF ClientHs
  <2>3. Queue(z) = Queue(x)
    BY <1>1, <1>7, <1>8 DEF Queue, HasHandshake, Ready
  <2> QED BY <1>7, <2>1, <2>2, <2>3 DEF ClientPeer, ClientFit
<1>10. Pins(x, z)
  <2>1. x.rnd < z.peer.hs.crand \/ z.peer.hs.crand = x.peer.hs.crand
    BY <1>4, <1>7
  <2> QED BY <1>1, <1>2, <1>4, <1>8, <2>1 DEF Pins, HasHandshake, Ready
<1>11. Adds(x, z, new)
  BY <1>5, <1>7 DEF Adds, Top, Written, Waiting
<1>12. x \in Endpoints
  BY <1>1 DEF Ready
<1>13. ClientFit(z)
  BY <1>5, <1>7, <1>9, <1>10, <1>11, <1>12, AskedAfter DEF ClientFit
<1>14. Holds(z)
  <2>1. \A r \in new : EpochSlots(z.peer.sec, r.epoch) # {}
    BY <1>1, <1>5, <1>8, SlotsIs DEF Ready, Slot
  <2>2. z.peer # NULL => x.peer # NULL /\ z.peer.id = x.peer.id
    BY <1>1, <1>8 DEF Ready
  <2> QED BY <1>7, <1>11, <1>12, <2>1, <2>2, HoldsAfter
<1> QED BY <1>6, <1>10, <1>13, <1>14 DEF ClientGets, z

(* ServerHelloDone: the client switches to the parameters of the handshake *)
(* and its Finished says which they are.                                   *)
LEMMA HelloDoneFits ==
  ASSUME NEW o, NEW x, NEW m, Turn("client", o, x, m), ClientFit(x),
         Silent(x), m.seq = x.peer.hs.mseq_r, m.ht = "server_hello_done"
  PROVE  ClientGets(x, Advance(Dispatch(x, m)))
<1> DEFINE y == ServerHelloDone(x, m)
           z == Advance(y)
           f == x.peer.hs
<1>1. /\ Ready(x) /\ x.peer.state = "WAIT_SERVERHELLODONE" /\ m \in Messages
      /\ ClientSec(x.peer) /\ ClientHs(x.peer, IsError(x)) /\ x.ret = "ok"
      /\ x \in Endpoints /\ f \in Handshakes /\ x.rnd \in Nat /\ m.seq \in Nat
      /\ x.peer.sec[0] # NULL
  <2>1. Ready(x) /\ m \in Messages
    BY TurnReady
  <2>2. x.peer.state = "WAIT_SERVERHELLODONE" /\ x.ret = "ok"
    BY DEF Turn, Expected
  <2>3. f \in Handshakes /\ x.rnd \in Nat
    BY <2>1, ReadyType
  <2> QED BY <2>1, <2>2, <2>3 DEF ClientFit, ClientPeer, Ready, Messages
<1>2. x.peer.sec[0].epoch = 0 /\ x.peer.sec[0].cipher = "null"
  BY <1>1 DEF ClientSec, Opening
<1>3. Dones(f.hash) = {} /\ f.cipher # "null"
  BY <1>1, <1>2 DEF ClientHs, InHandshake, IsError
<1>4. f.crand <= x.rnd /\ f.crand \in Nat
  <2>1. Fresh("client", x)
    BY DEF Turn, Good, Sound
  <2> QED BY <1>1, <2>1, HsType DEF Fresh, OwnRandom
<1>5. Dispatch(x, m) = y
  BY DEF Dispatch
<1>6. CASE y = Error(Hash(x, m), "internal_error")
  <2> DEFINE h == Hash(x, m)
  <2>1. /\ Ready(h) /\ Top(x, h) /\ Alike(x.peer, h.peer)
        /\ h.peer.hs.mseq_r = f.mseq_r /\ h.peer.hs.crand = f.crand
        /\ h.peer.hs.reorder_queue = f.reorder_queue
        /\ h.peer.hs.cipher = f.cipher
    BY <1>1, HashIs DEF SameHs
  <2> HIDE DEF h, y
  <2>2. "internal_error" \in Errors /\ x.peer.state \in Opening
    BY <1>1 DEF Errors, Opening
  <2>3. Hears(x, Error(h, "internal_error"))
    BY <1>1, <1>3, <2>1, <2>2, HearsBy
  <2>4. HasHandshake(x) /\ ~IsError(x)
    BY <1>1 DEF HasHandshake, IsError, Ready
  <2>5. ClientGets(x, Advance(y))
    BY <1>1, <1>6, <2>2, <2>3, <2>4, HearsFits DEF h
  <2> QED BY <1>5, <2>5
<1>7. CASE Answers(x, y, m)
  <2> HIDE DEF y
  <2>1. PICK n : Rekeys(x, y, AnswerKinds, n)
    BY <1>7 DEF Answers
  <2>2. /\ z \in Endpoints /\ z.peer # NULL /\ z.peer.hs # NULL
        /\ Top(y, z) /\ Alike(y.peer, z.peer)
        /\ z.peer.hs.mseq_r = y.peer.hs.mseq_r + 1
        /\ z.peer.hs.reorder_queue = y.peer.hs.reorder_queue
        /\ z.peer.hs.crand = y.peer.hs.crand
        /\ z.peer.hs.cipher = y.peer.hs.cipher
        /\ z.peer.hs.hash = y.peer.hs.hash
    <3>1. y \in Endpoints /\ HasHandshake(y) /\ ~IsError(y)
      BY <1>1, <1>7 DEF Answers, Ready, HasHandshake, IsError
    <3> QED BY <3>1, AdvanceIs
  <2> HIDE DEF z
  <2>3. /\ z.peer.state = "WAIT_CHANGECIPHERSPEC" /\ z.peer.id = x.peer.id
        /\ z.peer.sec = y.peer.sec /\ z.rnd = y.rnd /\ x.rnd <= z.rnd
        /\ z.peer.hs.mseq_r = m.seq + 1 /\ z.peer.hs.crand = f.crand
        /\ z.peer.hs.cipher # "null"
        /\ z.peer.hs.reorder_queue = f.reorder_queue
        /\ Dones(z.peer.hs.hash) = {<<m.ht, m.seq, m.rnd>>}
    <3>1. {} \cup {<<m.ht, m.seq, m.rnd>>} = {<<m.ht, m.seq, m.rnd>>}
      OBVIOUS
    <3> QED BY <1>3, <1>7, <2>2, <3>1 DEF Answers, Top, Alike
  <2>4. /\ z.peer.sec[1] = x.peer.sec[0]
        /\ z.peer.sec[0].epoch = 1 /\ z.peer.sec[0].cipher # "null"
        /\ z.peer.sec[0].key \in KeyBlock /\ z.peer.sec[0].key[1] = f.crand
    <3>1. /\ z.peer.sec[1] = x.peer.sec[0] /\ z.peer.sec[0].epoch = 0 + 1
          /\ z.peer.sec[0].cipher = f.cipher
          /\ z.peer.sec[0].key = KeyOf(y.peer.hs)
      BY <1>2, <2>1, <2>3 DEF Rekeys
    <3>2. y.peer.hs \in Handshakes /\ y.peer.hs.crand = f.crand
      BY <1>7, ReadyType DEF Answers
    <3>3. KeyOf(y.peer.hs) \in KeyBlock
      BY <3>2, HsType
    <3> QED BY <1>3, <3>1, <3>2, <3>3 DEF KeyOf
  <2>5. ClientSec(z.peer)
    BY <1>2, <2>3, <2>4 DEF ClientSec, Opening
  <2>6. ClientHs(z.peer, IsError(z))
    BY <2>3, <2>4 DEF ClientHs, Follows
  <2>7. ClientPeer(z)
    <3>1. Queue(z) = Queue(x)
      BY <1>1, <2>2, <2>3 DEF Queue, HasHandshake, Ready
    <3> QED BY <2>2, <2>5, <2>6, <3>1 DEF ClientPeer, ClientFit
  <2>8. Pins(x, z)
    BY <1>1, <1>2, <2>3 DEF Pins, HasHandshake, Ready
  <2> DEFINE ccs == Rec(x, "ccs", [ccs |-> 1])
             fin == [ct |-> "handshake", epoch |-> y.peer.sec[0].epoch,
                     key |-> y.peer.sec[0].key, msg |-> n]
             new == Flight(x, AnswerKinds) \cup {ccs, fin}
  <2>9. Adds(x, z, new)
    <3>1. Adds(x, y, new)
      BY <2>1 DEF Rekeys
    <3> HIDE DEF new
    <3> QED BY <2>2, <3>1 DEF Adds, Top, Written, Waiting
  <2> HIDE DEF y
  <2> DEFINE sec == z.peer.sec
  <2>0. 0 \in Slot /\ 1 \in Slot /\ sec[0] # NULL /\ sec[1] # NULL
    BY <1>1, <1>7, <2>3, <2>4 DEF Slot, Answers, Ready
  <2>a. EpochSlots(sec, sec[0].epoch) # {} /\ EpochSlots(sec, sec[1].epoch) # {}
    <3> HIDE DEF sec
    <3> QED BY <2>0, SlotsIs
  <2>b. Pinned(z, z.peer.sec[0].key, z.peer.hs.hash)
    <3>1. z.rnd \in Nat /\ x.rnd <= z.rnd
      BY <2>2, <2>3, RandomType
    <3>2. f.crand <= z.rnd
      BY <1>1, <1>4, <3>1
    <3> QED BY <2>3, <2>4, <3>2 DEF Pinned
  <2>10. ASSUME NEW r \in new PROVE Asked(z, r) /\ EpochSlots(z.peer.sec, r.epoch) # {}
    <3>1. CASE r \in Flight(x, AnswerKinds)
      <4>1. r.epoch = sec[1].epoch /\ r.epoch = 0 /\ r.msg.ht # "finished"
        BY <1>2, <2>4, <3>1 DEF Flight, AnswerKinds
      <4>2. Asked(z, r)
        BY <4>1 DEF Asked, Issued
      <4> QED BY <2>a, <4>1, <4>2
    <3>2. CASE r = ccs
      <4>1. r.ct = "ccs" /\ r.epoch = sec[1].epoch
        BY <2>4, <3>2 DEF Rec
      <4>2. Asked(z, r)
        BY <4>1 DEF Asked
      <4> QED BY <2>a, <4>1, <4>2
    <3>3. CASE r = fin
      <4>1. r.msg = n /\ r.epoch = z.peer.sec[0].epoch
        BY <2>3, <3>3
      <4>2. n.ht = "finished" /\ n.verify[2] = z.peer.sec[0].key
            /\ z.peer.hs.hash = Append(n.verify[3], HashOf(n))
        BY <2>1, <2>2, <2>3 DEF Rekeys
      <4>3. Pinned(z, n.verify[2], Append(n.verify[3], HashOf(n)))
        BY <2>b, <4>2
      <4>4. Asked(z, r)
        BY <4>1, <4>2, <4>3 DEF Asked, Issued
      <4>5. EpochSlots(z.peer.sec, r.epoch) # {}
        BY <2>a, <4>1
      <4> QED BY <4>4, <4>5
    <3> QED BY <3>1, <3>2, <3>3
  <2> HIDE DEF new
  <2>11. ClientFit(z)
    BY <1>1, <2>2, <2>7, <2>8, <2>9, <2>10, AskedAfter DEF ClientFit
  <2>12. Holds(z)
    <3>1. z.peer # NULL => x.peer # NULL /\ z.peer.id = x.peer.id
      BY <1>1, <2>3 DEF Ready
    <3> QED BY <1>1, <2>2, <2>9, <2>10, <3>1, HoldsAfter
  <2> QED BY <1>5, <2>8, <2>11, <2>12 DEF ClientGets, z
<1> QED BY <1>1, <1>3, <1>6, <1>7, ServerHelloDoneIs

(* What may change between two states of the client without a new handshake*)
(* message: less waits, other records are written, the peer moves on with  *)
(* the handshake it has, closes or is freed.                               *)
Less(x, y) ==
  /\ y \in Endpoints /\ y.rnd = x.rnd /\ y.done = x.done /\ y.h = x.h
  /\ x.crashed => y.crashed
  /\ \A r \in Written(y) : r \in Written(x) \/ r.ct # "handshake"
  /\ Waiting(y) \subseteq Waiting(x)
  /\ y.peer # NULL =>
       /\ x.peer # NULL /\ y.peer.id = x.peer.id /\ y.peer.sec = x.peer.sec
       /\ y.peer.hs = x.peer.hs
       /\ \/ y.peer.state = x.peer.state
          \/ y.peer.state \in {"CLOSING", "CLOSED"}
          \/ x.peer.state = "WAIT_CHANGECIPHERSPEC"
             /\ y.peer.state = "WAIT_FINISHED"
       /\ IsError(x) => IsError(y) \/ ~InHandshake(y.peer)

(* Nothing of that disturbs the client.                                    *)
LEMMA LessFits ==
  ASSUME NEW x \in Endpoints, ClientFit(x), NEW y, Less(x, y)
  PROVE  /\ ClientFit(y) /\ Pins(x, y)
         /\ (Holds(x) => Holds(y)) /\ (Silent(x) => Silent(y))
<1>1. y \in Endpoints
  BY DEF Less
<1>2. Pins(x, y)
  BY RandomType DEF Less, Pins, HasHandshake
<1>3. ASSUME NEW r \in Written(y) \cup Waiting(y) PROVE Asked(y, r)
  <2>1. r \in Written(x) \cup Waiting(x) \/ r.ct # "handshake"
    BY <1>3 DEF Less
  <2>2. CASE r \in Written(x) \cup Waiting(x)
    BY <1>1, <1>2, <2>2, AskedOn DEF ClientFit
  <2>3. CASE r.ct # "handshake"
    BY <2>3 DEF Asked
  <2> QED BY <2>1, <2>2, <2>3
<1>4. \A n : Live(y, n) => Live(x, n)
  BY DEF Less, Live
<1>5. Silent(x) => Silent(y)
  BY <1>1, <1>4, SilentIs DEF Less
<1>6. ClientPeer(y)
  <2>1. ASSUME y.peer # NULL
        PROVE  /\ ClientSec(y.peer)
               /\ y.peer.hs # NULL => ClientHs(y.peer, IsError(y))
               /\ y.peer.hs = NULL => Silent(y)
    <3>1. /\ ClientSec(x.peer) /\ x.peer # NULL
          /\ x.peer.hs # NULL => ClientHs(x.peer, IsError(x))
          /\ x.peer.hs = NULL => Silent(x)
      BY <2>1 DEF ClientFit, ClientPeer, Less
    <3>2. ClientSec(y.peer)
      BY <2>1, <3>1 DEF Less, ClientSec, Opening
    <3>3. y.peer.hs # NULL => ClientHs(y.peer, IsError(y))
      BY <2>1, <3>1 DEF Less, ClientHs, InHandshake
    <3> QED BY <1>5, <2>1, <3>1, <3>2, <3>3 DEF Less
  <2>2. Queue(y) \subseteq Queue(x)
    BY DEF Queue, HasHandshake, Less
  <2> QED BY <2>1, <2>2 DEF ClientPeer, ClientFit
<1>7. Holds(x) => Holds(y)
  BY <1>4 DEF Holds, Less, Live
<1> QED BY <1>2, <1>3, <1>5, <1>6, <1>7 DEF ClientFit

(* Less composes with what a handler of the client does before it.         *)
LEMMA LessGets ==
  ASSUME NEW x \in Endpoints, NEW y \in Endpoints, ClientGets(x, y),
         NEW z, Less(y, z)
  PROVE  ClientGets(x, z)
<1>1. z \in Endpoints
  BY DEF Less
<1>2. ClientFit(z) /\ Pins(y, z) /\ Holds(z)
  BY LessFits DEF ClientGets
<1>3. Pins(x, z)
  BY <1>1, <1>2, RandomType, PinsTwice DEF ClientGets
<1> QED BY <1>2, <1>3 DEF ClientGets

(* Stopping the retransmission and reporting an error are such changes.    *)
LEMMA StopIsLess ==
  ASSUME NEW s, NEW x \in Endpoints
  PROVE  LET y == StopRetransmission(x)
         IN /\ Less(x, y) /\ Stopped(s, x, y)
            /\ y.peer = x.peer /\ y.ret = x.ret /\ y.rnd = x.rnd
            /\ y.crashed \/ Silent(y)
<1> DEFINE y == StopRetransmission(x)
<1>1. Stopped(s, x, y) /\ Written(y) = Written(x) /\ Waiting(y) \subseteq Waiting(x)
  BY StopStopped, StopLess
<1> HIDE DEF y
<1> QED BY <1>1 DEF Less, Stopped, IsError, y

(* An error does less.                                                     *)
LEMMA ErrorIsLess ==
  ASSUME NEW x \in Endpoints, NEW desc \in Errors
  PROVE  LET y == Error(x, desc)
         IN Less(x, y) /\ IsError(y) /\ y.crashed = x.crashed /\ y.peer = x.peer
<1> DEFINE y == Error(x, desc)
<1>1. Same(x, y) /\ y.ret = desc /\ y.crashed = x.crashed
  BY ErrorSame
<1>2. desc # "ok"
  BY DEF Errors
<1> HIDE DEF y
<1> QED BY <1>1, <1>2, AddsNone DEF Less, Same, IsError, y

(* The server's Finished ends the client's handshake.                      *)
LEMMA ClientFinishedFits ==
  ASSUME NEW o, NEW x, NEW m, Turn("client", o, x, m), ClientFit(x),
         Silent(x), m.ht = "finished"
  PROVE  ClientGets(x, Finished(x, m))
<1> DEFINE z == Finished(x, m)
           d == [key |-> x.peer.hs.master, hash |-> x.peer.hs.hash]
<1>1. /\ x \in Endpoints /\ x.peer # NULL /\ x.peer.role = "client"
      /\ x.peer.hs # NULL /\ Ready(x)
  BY TurnReady DEF Ready
<1>2. CASE z = Error(x, "handshake_failure")
  <2>1. Less(x, z) /\ "handshake_failure" \in Errors
    BY <1>1, <1>2, ErrorIsLess DEF Errors
  <2>2. Holds(x)
    BY <1>1, SilentIs DEF Holds
  <2> HIDE DEF z
  <2> QED BY <1>1, <2>1, <2>2, LessFits DEF ClientGets, z
<1>3. CASE z = Ended(x, d)
  <2>1. Good("client", o, z) /\ z.peer # NULL
    BY <1>1, ClientFinishedHandled DEF Handled
  <2>2. z \in Endpoints
    BY <2>1 DEF Good
  <2>3. /\ z.peer # NULL /\ z.peer.hs = NULL /\ z.peer.id = x.peer.id
        /\ z.peer.sec = x.peer.sec /\ z.peer.state = "CONNECTED"
        /\ z.out = x.out /\ z.sendqueue = x.sendqueue /\ z.rnd = x.rnd
    <3> DEFINE e == [x EXCEPT !.peer.hs = NULL]
               f == [e EXCEPT !.peer.state = "CONNECTED"]
               g == [f EXCEPT !.done = @ \cup {d}]
    <3>1. x.peer \in Peers
      BY <1>1, EndpointType
    <3>2. /\ e.peer.hs = NULL /\ e.peer.id = x.peer.id
          /\ e.peer.sec = x.peer.sec /\ e.out = x.out
          /\ e.sendqueue = x.sendqueue /\ e.rnd = x.rnd
      BY <1>1, <3>1 DEF Endpoints, Peers
    <3>3. /\ f.peer.hs = NULL /\ f.peer.id = x.peer.id
          /\ f.peer.sec = x.peer.sec /\ f.peer.state = "CONNECTED"
          /\ f.out = x.out /\ f.sendqueue = x.sendqueue /\ f.rnd = x.rnd
      BY <1>1, <3>1 DEF Endpoints, Peers
    <3>4. /\ g.peer = f.peer /\ g.out = f.out
          /\ g.sendqueue = f.sendqueue /\ g.rnd = f.rnd
      OBVIOUS
    <3>5. g = Ended(x, d)
      BY DEF Ended
    <3> HIDE DEF f, g, d
    <3> QED BY <1>3, <2>1, <3>3, <3>4, <3>5
  <2> HIDE DEF z
  <2>4. Silent(z)
    BY <2>3, <1>1 DEF Silent, Live
  <2>5. Pins(x, z)
    BY <1>1, <2>3, RandomType DEF Pins, HasHandshake
  <2>6. \A r \in Written(z) \cup Waiting(z) : Asked(z, r)
    <3>1. Adds(x, z, {})
      BY <2>3, AddsNone
    <3> QED BY <1>1, <2>2, <2>5, <3>1, AskedAfter DEF ClientFit
  <2>7. ClientPeer(z)
    <3>1. ClientSec(z.peer)
      <4>1. ClientSec(x.peer)
        BY <1>1 DEF ClientFit, ClientPeer
      <4> QED BY <2>3, <4>1 DEF ClientSec, Opening
    <3>2. Queue(z) = {}
      BY <2>3 DEF Queue, HasHandshake
    <3> QED BY <2>3, <2>4, <3>1, <3>2 DEF ClientPeer
  <2>8. Holds(z)
    BY <2>2, <2>4, SilentIs DEF Holds
  <2> QED BY <2>5, <2>6, <2>7, <2>8 DEF ClientGets, ClientFit, z
<1>4. z = Error(x, "handshake_failure") \/ z = Ended(x, d)
  BY <1>1 DEF Finished, Ended
<1> QED BY <1>2, <1>3, <1>4

(* handle_handshake_msg with handshake parameters: the flight sent before  *)
(* is dropped, then the message is refused, or has its turn.               *)
Turns(s, o, x, m, y, z) ==
  /\ Good(s, o, y) /\ Less(x, y) /\ Silent(y) /\ y.peer = x.peer
  /\ y.done = x.done /\ y.ret = "ok"
  /\ \/ z = Error(y, "unexpected_message")
     \/ Turn(s, o, y, m) /\ m.ht = "finished" /\ z = Finished(y, m)
     \/ Turn(s, o, y, m) /\ m.ht # "finished" /\ z = Advance(Dispatch(y, m))

(* handle_handshake_msg refuses a message, handles a Finished or passes the *)
(* message on and counts it.                                               *)
LEMMA MsgTurns ==
  ASSUME NEW s \in Side, NEW o, NEW x, NEW role, NEW state, NEW m,
         Called(s, o, x, role, state, m), HasHandshake(x),
         m.ht # "hello_request"
  PROVE  LET z == HandleHandshakeMsg(x, role, state, m)
         IN z.crashed \/ Turns(s, o, x, m, StopRetransmission(x), z)
<1> DEFINE y == StopRetransmission(x)
           z == HandleHandshakeMsg(x, role, state, m)
<1>1. /\ Good(s, o, x) /\ x.ret = "ok" /\ x \in Endpoints
      /\ Says(Other(s), o.h, o.done, m)
      /\ x.peer # NULL /\ role = x.peer.role /\ state = x.peer.state
      /\ x.peer.hs # NULL
  BY DEF Called, Good, HasHandshake
<1>2. /\ Stopped(s, x, y) /\ Less(x, y) /\ y.ret = "ok" /\ y.peer = x.peer
      /\ y.crashed \/ Silent(y)
  BY <1>1, StopIsLess
<1>3. z = IF ~Expected(x, role, state, m) THEN Error(y, "unexpected_message")
          ELSE CASE m.ht = "hello_request" /\ state # "CONNECTED" -> y
                 [] m.ht = "finished" -> Finished(y, m)
                 [] OTHER -> Advance(Dispatch(y, m))
  BY <1>1 DEF HandleHandshakeMsg
<1> HIDE DEF y, z
<1>4. Good(s, o, y) /\ y \in Endpoints /\ y.done = x.done
  BY <1>1, <1>2, StopGood DEF Good, Stopped
<1>5. Expected(x, role, state, m) => Expected(y, y.peer.role, y.peer.state, m)
  BY <1>1, <1>2 DEF Expected
<1>6. Expected(x, role, state, m) => Turn(s, o, y, m)
  BY <1>1, <1>2, <1>4, <1>5 DEF Turn
<1>7. CASE ~y.crashed
  BY <1>2, <1>3, <1>4, <1>6, <1>7 DEF Turns, y, z
<1>8. CASE y.crashed
  <2>1. CASE ~Expected(x, role, state, m)
    <3>1. z = Error(y, "unexpected_message") /\ "unexpected_message" \in Errors
      BY <1>3, <2>1 DEF Errors
    <3> QED BY <1>4, <1>8, <3>1, ErrorSame DEF z
  <2>2. CASE Turn(s, o, y, m) /\ m.ht = "finished" /\ z = Finished(y, m)
    <3>1. Handled(s, o, y, z)
      BY <2>2, ClientFinishedHandled, ServerFinishedHandled DEF Side
    <3> QED BY <1>8, <3>1 DEF Handled, z
  <2>3. CASE Turn(s, o, y, m) /\ m.ht # "finished" /\ z = Advance(Dispatch(y, m))
    <3>1. /\ Good(s, o, y) /\ y.ret = "ok" /\ Says(Other(s), o.h, o.done, m)
          /\ y.peer # NULL /\ Expected(y, y.peer.role, y.peer.state, m)
          /\ HasHandshake(y)
      BY <2>3 DEF Turn, HasHandshake
    <3>2. Handled(s, o, y, Dispatch(y, m))
      BY <2>3, <3>1, DispatchHandled
    <3>3. Handled(s, o, y, z)
      BY <2>3, <3>2, AdvanceHandled
    <3> QED BY <1>8, <3>3 DEF Handled, z
  <2> QED BY <1>3, <1>6, <2>1, <2>2, <2>3
<1> QED BY <1>7, <1>8

(* What the client does with one message of the server.                    *)
LEMMA ClientMsgFits ==
  ASSUME NEW o, NEW x, NEW role, NEW state, NEW m,
         Called("client", o, x, role, state, m), ClientFit(x), Orderly(m),
         HasHandshake(x) => m.seq = x.peer.hs.mseq_r
  PROVE  LET z == HandleHandshakeMsg(x, role, state, m)
         IN z.crashed \/ ClientGets(x, z)
<1> DEFINE y == StopRetransmission(x)
           z == HandleHandshakeMsg(x, role, state, m)
<1>1. /\ "client" \in Side /\ x \in Endpoints /\ Other("client") = "server"
      /\ Says("server", o.h, o.done, m)
  BY DEF Called, Good, Side, Other
<1>2. /\ m.ht # "hello_request" /\ m.ht \in ServerKinds
  BY <1>1 DEF Orderly, Says, Sends
<1>3. HasHandshake(x) /\ m.seq = x.peer.hs.mseq_r
  BY <1>2 DEF Called, ServerKinds
<1>4. z.crashed \/ Turns("client", o, x, m, y, z)
  BY <1>1, <1>2, <1>3, MsgTurns
<1> HIDE DEF y, z
<1>5. ASSUME Turns("client", o, x, m, y, z) PROVE ClientGets(x, z)
  <2>1. /\ Good("client", o, y) /\ Less(x, y) /\ Silent(y) /\ y.peer = x.peer
        /\ y \in Endpoints
    BY <1>5 DEF Turns, Good
  <2>2. ClientFit(y) /\ Pins(x, y)
    BY <1>1, <2>1, LessFits
  <2>3. Holds(y)
    BY <2>1, SilentIs DEF Holds
  <2>4. m.seq = y.peer.hs.mseq_r /\ HasHandshake(y)
    BY <1>3, <2>1 DEF HasHandshake
  <2>5. ASSUME ClientGets(y, z), z \in Endpoints PROVE ClientGets(x, z)
    <3>1. Pins(x, z)
      BY <1>1, <2>1, <2>2, <2>5, RandomType, PinsTwice DEF ClientGets
    <3> QED BY <2>5, <3>1 DEF ClientGets
  <2>6. z \in Endpoints
    <3>1. Outcome("client", o, x, z)
      BY <1>1, MsgOutcome DEF z
    <3> QED BY <3>1 DEF Outcome, Good
  <2>7. CASE z = Error(y, "unexpected_message")
    <3>1. "unexpected_message" \in Errors
      BY DEF Errors
    <3>2. Less(y, z)
      BY <2>1, <2>7, <3>1, ErrorIsLess
    <3>3. ClientFit(z) /\ Pins(y, z) /\ Holds(z)
      BY <2>1, <2>2, <2>3, <3>2, LessFits
    <3> QED BY <2>5, <2>6, <3>3 DEF ClientGets
  <2>8. CASE Turn("client", o, y, m) /\ m.ht = "finished" /\ z = Finished(y, m)
    BY <2>1, <2>2, <2>5, <2>6, <2>8, ClientFinishedFits
  <2>9. CASE Turn("client", o, y, m) /\ m.ht # "finished"
             /\ z = Advance(Dispatch(y, m))
    <3>1. CASE m.ht = "hello_verify_request"
      BY <2>1, <2>2, <2>4, <2>5, <2>6, <2>9, <3>1, VerifyRequestFits
    <3>2. CASE m.ht = "server_hello_done"
      BY <2>1, <2>2, <2>4, <2>5, <2>6, <2>9, <3>2, HelloDoneFits
    <3>3. CASE m.ht \in {"server_hello", "certificate", "server_key_exchange",
                         "certificate_request"}
      <4>1. Hears(y, Dispatch(y, m)) /\ y.peer.state \in Opening
        BY <2>2, <2>4, <2>9, <3>3, ClientHears
      <4>2. ~IsError(y)
        BY <2>9 DEF Turn, IsError
      <4>3. ClientGets(y, z)
        BY <2>1, <2>2, <2>4, <2>9, <4>1, <4>2, HearsFits
      <4> QED BY <2>5, <2>6, <4>3
    <3> QED BY <1>2, <2>9, <3>1, <3>2, <3>3 DEF ServerKinds
  <2> QED BY <1>5, <2>7, <2>8, <2>9 DEF Turns
<1> QED BY <1>4, <1>5 DEF z

-----------------------------------------------------------------------------
(* The loop of handle_handshake, for what its turns keep *)

(* The endpoint with another reorder queue.                                *)
LEMMA QueueOnly ==
  ASSUME NEW s, NEW o, NEW x, Good(s, o, x), HasHandshake(x),
         NEW q, Mail(s, o, q)
  PROVE  LET w == WithQueue(x, q)
         IN /\ w \in Endpoints /\ Top(x, w) /\ w.peer # NULL
            /\ w.peer.hs # NULL /\ Alike(x.peer, w.peer) /\ Queue(w) \subseteq q
            /\ w.peer.hs.mseq_r = x.peer.hs.mseq_r
            /\ w.peer.hs.mseq_s = x.peer.hs.mseq_s
            /\ w.peer.hs.crand = x.peer.hs.crand
            /\ w.peer.hs.cipher = x.peer.hs.cipher
            /\ w.peer.hs.hash = x.peer.hs.hash
            /\ Outcome(s, o, x, w)
<1> DEFINE g == [x.peer.hs EXCEPT !.reorder_queue = q]
           y == [x EXCEPT !.peer.hs = g]
<1>1. x \in Endpoints /\ x.peer # NULL /\ x.peer.hs \in Handshakes
  BY EndpointType, PeerType DEF Good, HasHandshake
<1>2. /\ g.reorder_queue = q /\ g.mseq_r = x.peer.hs.mseq_r
      /\ g.mseq_s = x.peer.hs.mseq_s
      /\ g.crand = x.peer.hs.crand /\ g.cipher = x.peer.hs.cipher
      /\ g.hash = x.peer.hs.hash
  BY <1>1 DEF Handshakes
<1>3. WithQueue(x, q) = y
  BY DEF WithQueue
<1>4. g \in Handshakes
  BY <1>1 DEF Handshakes, Mail
<1>5. /\ Outcome(s, o, x, y) /\ y \in Endpoints
      /\ y.peer # NULL /\ y.peer.hs # NULL
  <2> HIDE DEF y
  <2>1. x.peer # NULL /\ x.peer.hs # NULL
    BY DEF HasHandshake
  <2> QED BY <1>3, <2>1, QueueChanged
<1> HIDE DEF g
<1>6. Top(x, y) /\ Alike(x.peer, y.peer) /\ y.peer.hs = g
  <2>1. g \in {NULL} \cup Handshakes
    BY <1>4
  <2> QED BY <1>1, <2>1, PutHs
<1> HIDE DEF y
<1>7. Queue(y) \subseteq q
  BY <1>2, <1>5, <1>6 DEF Queue, HasHandshake
<1> QED BY <1>2, <1>3, <1>5, <1>6, <1>7

(* One turn of the loop.                                                   *)
Takes(s, o, x, m, q) ==
  /\ m \in Queue(x) /\ q \subseteq Queue(x) /\ Mail(s, o, q)
  /\ HasHandshake(x) /\ m.seq = x.peer.hs.mseq_r
  /\ Called(s, o, WithQueue(x, q), x.peer.role, x.peer.state, m)
  /\ Drain(x) = HandleHandshakeMsg(WithQueue(x, q), x.peer.role, x.peer.state, m)

(* The loop of handle_handshake takes a message of the reorder queue that has *)
(* the next number.                                                        *)
LEMMA DrainTakes ==
  ASSUME NEW s, NEW o, NEW x, Good(s, o, x), ~Over(x)
  PROVE  \E m, q : Takes(s, o, x, m, q)
<1> DEFINE m == CHOOSE m \in NextBuffered(x) : TRUE
           Q == Queue(x)
           R == Q \ {m}
           w == WithQueue(x, R)
           y == HandleHandshakeMsg(w, x.peer.role, x.peer.state, m)
<1>1. m \in NextBuffered(x) /\ x.ret = "ok"
  BY DEF Over, IsError
<1>2. /\ HasHandshake(x) /\ x.peer.hs.reorder_queue = Q
      /\ x.peer # NULL /\ x.peer.hs # NULL
      /\ m.seq = x.peer.hs.mseq_r
  BY <1>1 DEF NextBuffered, Queue, HasHandshake
<1>3. [x EXCEPT !.peer.hs.reorder_queue = @ \ {m}] = w
  BY <1>2 DEF WithQueue
<1>4. Drain(x) = y
  BY <1>3 DEF Over, Drain
<1> HIDE DEF m
<1>5. /\ IsFiniteSet(Q) /\ Cardinality(Q) \in Nat /\ m \in Q
      /\ Q \subseteq Messages
      /\ \A n \in Q : /\ Says(Other(s), o.h, o.done, n)
                      /\ \A k \in Q : n.seq = k.seq => n = k
  BY <1>1, QueueIs DEF Mail
<1>6. Mail(s, o, R) /\ R \subseteq Q
  <2> HIDE DEF Q
  <2>1. IsFiniteSet(R) /\ R \subseteq Messages
    BY <1>5, FS_RemoveElement
  <2> QED BY <1>5, <2>1 DEF Mail
<1> HIDE DEF R
<1>7. /\ w.ret = "ok" /\ Alike(x.peer, w.peer) /\ w.peer # NULL
      /\ w.peer.hs # NULL /\ Good(s, o, w)
  BY <1>1, <1>2, <1>6, QueueOnly DEF Outcome, Top
<1> HIDE DEF w, Q
<1>8. Called(s, o, w, x.peer.role, x.peer.state, m)
  BY <1>5, <1>7 DEF Called, HasHandshake, Alike
<1>9. Takes(s, o, x, m, R)
  BY <1>2, <1>4, <1>5, <1>6, <1>8 DEF Takes, w, Q
<1> QED BY <1>9

(* What every turn keeps, the loop keeps.                                  *)
LEMMA DrainAllKeeps ==
  ASSUME NEW s \in Side, NEW o, NEW x, Good(s, o, x), NEW V, x \in V,
         \A z \in V : Good(s, o, z) /\ ~Over(z) => Drain(z) \in V
  PROVE  DrainAll(x) \in V
<1> DEFINE n == Cardinality(Queue(x))
<1>1. PICK after \in [0..n -> {z \in Endpoints : Good(s, o, z)}] :
        /\ DrainAll(x) = after[n] /\ after[0] = x
        /\ \A i \in 1..n : after[i] = Drain(after[i - 1])
  BY DrainAllIs
<1>2. n \in Nat
  BY QueueIs
<1> DEFINE S == {i \in Nat : i <= n => after[i] \in V}
<1>3. 0 \in S
  BY <1>1
<1>4. ASSUME NEW i \in Nat, i \in S PROVE i + 1 \in S
  <2> SUFFICES ASSUME i + 1 <= n PROVE after[i + 1] \in V
    OBVIOUS
  <2>1. /\ i \in 0..n /\ i + 1 \in 1..n /\ (i + 1) - 1 = i
        /\ Good(s, o, after[i])
    BY <1>1, <1>2
  <2>2. after[i] \in V
    BY <1>2, <1>4
  <2>3. after[i + 1] = Drain(after[i])
    BY <1>1, <2>1
  <2> HIDE DEF n
  <2>4. CASE Over(after[i])
    <3>1. after[i + 1] = after[i]
      BY <2>1, <2>3, <2>4, DrainOutcome
    <3> QED BY <2>2, <3>1
  <2>5. CASE ~Over(after[i])
    BY <2>1, <2>2, <2>3, <2>5
  <2> QED BY <2>4, <2>5
<1>5. n \in S
  <2> HIDE DEF S
  <2> QED BY <1>2, <1>3, <1>4, SetInduction
<1> QED BY <1>1, <1>2, <1>5

-----------------------------------------------------------------------------
(* handle_handshake on the client *)

(* A crash excuses the client; otherwise it keeps its contract.            *)
ClientKeeps(x, y) == y.crashed \/ ClientGets(x, y)

(* A client that does nothing keeps the contract.                          *)
LEMMA GetsItself ==
  ASSUME NEW x \in Endpoints, ClientFit(x), Holds(x)
  PROVE  ClientGets(x, x)
<1>1. Pins(x, x)
  BY RandomType DEF Pins
<1> QED BY <1>1 DEF ClientGets

(* A step that keeps the contract after one that pins the hash keeps it too. *)
LEMMA GetsTwice ==
  ASSUME NEW x \in Endpoints, NEW y \in Endpoints, NEW z \in Endpoints,
         Pins(x, y), ClientGets(y, z)
  PROVE  ClientGets(x, z)
<1>1. Pins(x, z)
  BY RandomType, PinsTwice DEF ClientGets
<1> QED BY <1>1 DEF ClientGets

(* The reorder queue holds what the server says.                           *)
LEMMA QueueFits ==
  ASSUME NEW o, NEW x, Good("client", o, x), ClientFit(x), HasHandshake(x),
         NEW q, Mail("client", o, q), \A m \in q : Orderly(m)
  PROVE  LET w == WithQueue(x, q)
         IN w \in Endpoints /\ ClientFit(w) /\ Pins(x, w) /\ (Holds(x) => Holds(w))
<1> DEFINE w == WithQueue(x, q)
<1>1. /\ w \in Endpoints /\ Top(x, w) /\ w.peer # NULL
      /\ w.peer.hs # NULL /\ Alike(x.peer, w.peer) /\ Queue(w) \subseteq q
      /\ w.peer.hs.mseq_r = x.peer.hs.mseq_r
      /\ w.peer.hs.crand = x.peer.hs.crand
      /\ w.peer.hs.cipher = x.peer.hs.cipher
      /\ w.peer.hs.hash = x.peer.hs.hash
  BY QueueOnly
<1> HIDE DEF w
<1>2. x \in Endpoints /\ x.peer # NULL /\ x.peer.hs # NULL /\ w.rnd = x.rnd
  BY <1>1 DEF Good, HasHandshake, Top
<1>3. Pins(x, w)
  BY <1>1, <1>2, RandomType DEF Pins, HasHandshake, Alike
<1>4. \A r \in Written(w) \cup Waiting(w) : Asked(w, r)
  <2>1. Adds(x, w, {})
    BY <1>1, AddsNone DEF Top
  <2> QED BY <1>1, <1>2, <1>3, <2>1, AskedAfter DEF ClientFit
<1>5. ClientPeer(w)
  <2>1. ClientSec(x.peer) /\ ClientHs(x.peer, IsError(x))
    BY <1>2 DEF ClientFit, ClientPeer
  <2>2. ClientSec(w.peer)
    BY <1>1, <2>1 DEF ClientSec, Alike
  <2>3. ClientHs(w.peer, IsError(w))
    BY <1>1, <2>1 DEF ClientHs, Alike, Top, IsError, InHandshake
  <2> QED BY <1>1, <2>2, <2>3 DEF ClientPeer
<1>6. Holds(x) => Holds(w)
  BY <1>1, <1>2 DEF Holds, Live, Waiting, Top, Alike
<1> QED BY <1>1, <1>3, <1>4, <1>5, <1>6 DEF ClientFit, w

(* One turn of the loop, and the loop.                                     *)
LEMMA ClientDrain ==
  ASSUME NEW o, NEW x, Good("client", o, x), ClientFit(x), Holds(x), ~Over(x)
  PROVE  ClientKeeps(x, Drain(x))
<1>1. PICK m, q : Takes("client", o, x, m, q)
  BY DrainTakes
<1> DEFINE w == WithQueue(x, q)
<1>2. \A n \in q \cup {m} : Orderly(n)
  BY <1>1 DEF Takes, ClientFit, ClientPeer
<1>3. HasHandshake(x) /\ Mail("client", o, q) /\ m.seq = x.peer.hs.mseq_r
      /\ Called("client", o, w, x.peer.role, x.peer.state, m)
  BY <1>1 DEF Takes
<1>4. w \in Endpoints /\ ClientFit(w) /\ Pins(x, w)
  BY <1>2, <1>3, QueueFits
<1>5. w.peer.hs.mseq_r = x.peer.hs.mseq_r
  BY <1>3, QueueOnly
<1> DEFINE z == HandleHandshakeMsg(w, x.peer.role, x.peer.state, m)
<1> HIDE DEF w
<1>6. z.crashed \/ ClientGets(w, z)
  BY <1>2, <1>3, <1>4, <1>5, ClientMsgFits
<1>7. z \in Endpoints /\ x \in Endpoints
  <2>1. "client" \in Side
    BY DEF Side
  <2>2. Outcome("client", o, w, z)
    BY <1>3, <2>1, MsgOutcome
  <2> QED BY <2>2 DEF Outcome, Good
<1>8. z.crashed \/ ClientGets(x, z)
  BY <1>4, <1>6, <1>7, GetsTwice
<1> QED BY <1>1, <1>8 DEF Takes, ClientKeeps, w

(* The whole loop over the reorder queue keeps the client's contract.      *)
LEMMA ClientDrainAll ==
  ASSUME NEW o, NEW x, Good("client", o, x), ClientFit(x), Holds(x)
  PROVE  ClientKeeps(x, DrainAll(x))
<1> DEFINE V == {z \in Endpoints : ClientKeeps(x, z)}
<1>1. "client" \in Side /\ x \in Endpoints
  BY DEF Side, Good
<1>2. x \in V
  BY <1>1, GetsItself DEF ClientKeeps
<1>3. ASSUME NEW z \in V, Good("client", o, z), ~Over(z)
      PROVE  Drain(z) \in V
  <2>1. ~z.crashed /\ ClientGets(x, z)
    BY <1>3 DEF Over, ClientKeeps
  <2>2. ClientKeeps(z, Drain(z))
    BY <1>3, <2>1, ClientDrain DEF ClientGets
  <2>3. Drain(z) \in Endpoints
    BY <1>1, <1>3, DrainOutcome DEF Outcome, Good
  <2> QED BY <1>1, <2>1, <2>2, <2>3, GetsTwice DEF ClientKeeps, ClientGets
<1>4. DrainAll(x) \in V
  <2> HIDE DEF V
  <2> QED BY <1>1, <1>2, <1>3, DrainAllKeeps
<1> QED BY <1>4

(* A message of the server at any place of the sequence.                   *)
LEMMA ClientHandshakeFits ==
  ASSUME NEW o, NEW x, NEW role, NEW state, NEW m,
         Good("client", o, x), x.ret = "ok", ClientFit(x),
         Says("server", o.h, o.done, m), Orderly(m),
         x.peer # NULL => role = x.peer.role /\ state = x.peer.state,
         Holds(x) \/ (HasHandshake(x) /\ m.seq = x.peer.hs.mseq_r)
  PROVE  ClientKeeps(x, HandleHandshake(x, role, state, m))
<1> DEFINE y == HandleHandshake(x, role, state, m)
           z == HandleHandshakeMsg(x, role, state, m)
<1>1. /\ x \in Endpoints /\ "client" \in Side /\ Other("client") = "server"
      /\ m \in Messages /\ m.ht \notin {"client_hello", "hello_request"}
  BY DEF Good, Side, Other, Says, Sends, ServerKinds, Orderly
<1>2. HasHandshake(x) => x.peer.hs \in Handshakes
  BY <1>1, EndpointType, PeerType DEF HasHandshake
<1>3. CASE HasHandshake(x) /\ m.seq = x.peer.hs.mseq_r
  <2>1. y = DrainAll(z)
    <3>1. ~(m.seq > x.peer.hs.mseq_r)
      BY <1>1, <1>2, <1>3, HsType DEF Messages
    <3> QED BY <1>1, <1>3, <3>1 DEF HandleHandshake, HasHandshake
  <2>2. Called("client", o, x, role, state, m)
    BY <1>1, <1>3 DEF Called, HasHandshake
  <2> HIDE DEF y, z
  <2>3. Good("client", o, z) /\ z \in Endpoints
    BY <1>1, <2>2, MsgOutcome DEF Outcome, Good, z
  <2>4. ClientKeeps(x, z)
    BY <1>3, <2>2, ClientMsgFits DEF ClientKeeps, z
  <2>5. Outcome("client", o, z, y) /\ y \in Endpoints /\ (z.crashed => y.crashed)
    <3>1. Outcome("client", o, z, y)
      BY <1>1, <2>1, <2>3, DrainAllOutcome
    <3> QED BY <3>1 DEF Outcome, Good
  <2>6. CASE z.crashed
    BY <2>5, <2>6 DEF ClientKeeps, y
  <2>7. CASE ~z.crashed
    <3>1. ClientGets(x, z)
      BY <2>4, <2>7 DEF ClientKeeps
    <3>2. ClientKeeps(z, y)
      BY <2>1, <2>3, <3>1, ClientDrainAll DEF ClientGets
    <3>3. Pins(x, z)
      BY <3>1 DEF ClientGets
    <3>4. ClientGets(z, y) => ClientGets(x, y)
      BY <1>1, <2>3, <2>5, <3>3, GetsTwice
    <3> QED BY <3>2, <3>4 DEF ClientKeeps, y
  <2> QED BY <2>6, <2>7 DEF y
<1>4. CASE ~(HasHandshake(x) /\ m.seq = x.peer.hs.mseq_r)
  <2>1. CASE x.peer = NULL
    <3>1. y = Error(x, "handshake_failure") /\ "handshake_failure" \in Errors
      BY <1>1, <2>1 DEF HandleHandshake, HasHandshake, Errors
    <3>2. Less(x, y) /\ Holds(x)
      BY <1>1, <1>4, <3>1, ErrorIsLess
    <3> QED BY <1>1, <3>2, LessFits DEF ClientKeeps, ClientGets
  <2>2. CASE HasHandshake(x) /\ m.seq > x.peer.hs.mseq_r
    <3> DEFINE q == x.peer.hs.reorder_queue
    <3>1. y = Buffer(x, m)
      BY <1>1, <1>4, <2>2 DEF HandleHandshake, HasHandshake
    <3>2. CASE q = NULL
      <4>1. y = Crash(x, "null_queue")
        BY <3>1, <3>2 DEF Buffer
      <4> HIDE DEF y
      <4> QED BY <1>1, <4>1, CrashSame DEF ClientKeeps, y
    <3>3. CASE q # NULL /\ \E n \in q : n.seq = m.seq
      BY <1>1, <1>4, <3>1, <3>3, GetsItself DEF Buffer, ClientKeeps
    <3>4. CASE q # NULL /\ ~\E n \in q : n.seq = m.seq
      <4> DEFINE R == q \cup {m}
      <4>1. y = WithQueue(x, R)
        BY <3>1, <3>4 DEF Buffer, WithQueue
      <4>2. q = Queue(x)
        BY <2>2, <3>4 DEF Queue, HasHandshake
      <4>3. Mail("client", o, q) /\ \A n \in q : Orderly(n)
        BY <4>2, QueueIs DEF ClientFit, ClientPeer
      <4> HIDE DEF q
      <4>4. Mail("client", o, R)
        <5>1. IsFiniteSet(R)
          BY <4>3, FS_AddElement DEF Mail
        <5> QED BY <1>1, <3>4, <4>3, <5>1 DEF Mail
      <4>5. \A n \in R : Orderly(n)
        BY <4>3
      <4> HIDE DEF R, y
      <4> QED BY <1>4, <2>2, <4>1, <4>4, <4>5, QueueFits DEF ClientKeeps, ClientGets, y
    <3> QED BY <3>2, <3>3, <3>4
  <2>3. CASE x.peer # NULL /\ ~(HasHandshake(x) /\ m.seq > x.peer.hs.mseq_r)
    <3>1. y = x
      BY <1>1, <1>4, <2>3 DEF HandleHandshake
    <3> QED BY <1>1, <1>4, <3>1, GetsItself DEF ClientKeeps
  <2> QED BY <2>1, <2>2, <2>3 DEF HasHandshake
<1> QED BY <1>3, <1>4

-----------------------------------------------------------------------------
(* dtls_handle_message, but for what handle_handshake does in it *)

(* An error has closed the peer before the handler returns.                *)
Settled(y) == IsError(y) => y.peer = NULL \/ ~InHandshake(y.peer)

(* Such changes compose.                                                   *)
LEMMA LessTwice ==
  ASSUME NEW x, NEW y, NEW z, Less(x, y), Less(y, z)
  PROVE  Less(x, z)
<1>1. \A r \in Written(z) : r \in Written(x) \/ r.ct # "handshake"
  BY DEF Less
<1>2. ASSUME z.peer # NULL
      PROVE  /\ x.peer # NULL /\ z.peer.id = x.peer.id
             /\ z.peer.sec = x.peer.sec /\ z.peer.hs = x.peer.hs
             /\ \/ z.peer.state = x.peer.state
                \/ z.peer.state \in {"CLOSING", "CLOSED"}
                \/ x.peer.state = "WAIT_CHANGECIPHERSPEC"
                   /\ z.peer.state = "WAIT_FINISHED"
             /\ IsError(x) => IsError(z) \/ ~InHandshake(z.peer)
  BY <1>2 DEF Less, InHandshake
<1> QED BY <1>1, <1>2 DEF Less

(* What only the bookkeeping sees.                                         *)
LEMMA SameIsLess ==
  ASSUME NEW x, NEW y, Same(x, y), x.crashed => y.crashed, y.ret = x.ret
  PROVE  Less(x, y)
BY AddsNone DEF Less, Same, IsError

(* Leaving, and the alert that says so.                                    *)
LEMMA ClosingIsLess ==
  ASSUME NEW x \in Endpoints, x.peer # NULL, NEW st \in {"CLOSING", "CLOSED"}
  PROVE  LET y == SetState(x, st)
         IN Less(x, y) /\ Settled(y) /\ y.peer # NULL /\ y.ret = x.ret
            /\ y.peer.state = st /\ y.peer.id = x.peer.id
<1> DEFINE y == SetState(x, st)
<1>1. st \in States
  BY DEF States
<1>2. /\ y \in Endpoints /\ y.peer # NULL /\ y.peer.state = st
      /\ y.peer.id = x.peer.id /\ y.peer.hs = x.peer.hs
      /\ y.peer.sec = x.peer.sec /\ Top(x, y)
  BY <1>1, PutState
<1> HIDE DEF y
<1>3. Written(y) = Written(x) /\ Waiting(y) = Waiting(x)
  BY <1>2, AddsNone DEF Top
<1> QED BY <1>2, <1>3 DEF Less, Top, Settled, InHandshake, y

(* An alert is not a handshake message: sending it does less.              *)
LEMMA AlertIsLess ==
  ASSUME NEW x \in Endpoints, x.peer # NULL, x.peer.sec[0] # NULL,
         NEW desc \in Errors
  PROVE  LET y == SendAlert(x, desc)
         IN Less(x, y) /\ y.peer = x.peer /\ y.ret = x.ret
<1> DEFINE a == [level |-> Level(desc), desc |-> desc]
           y == SendAlert(x, desc)
<1>1. a \in Contents /\ "alert" \in ContentType
  BY DEF Contents, Level, ContentType
<1>2. y = SendMulti(x, "alert", a)
  BY DEF SendAlert
<1> HIDE DEF a, y
<1>3. /\ y \in Endpoints /\ y.peer = x.peer /\ Rest(x, y)
      /\ Written(y) = Written(x) \cup {Rec(x, "alert", a)}
      /\ Waiting(y) = Waiting(x) \cup {}
  BY <1>1, <1>2, SendMultiIs
<1>4. Rec(x, "alert", a).ct = "alert"
  BY DEF Rec
<1> QED BY <1>3, <1>4 DEF Less, Rest, IsError, y

(* The peer is freed.                                                      *)
LEMMA FreedIsLess ==
  ASSUME NEW x \in Endpoints
  PROVE  LET y == Freed(x) IN Less(x, y) /\ y.peer = NULL /\ y.ret = x.ret
<1> DEFINE y == Freed(x)
<1>1. y \in Endpoints /\ y.peer = NULL /\ Top(x, y)
  BY PutPeer DEF Freed
<1> HIDE DEF y
<1> QED BY <1>1, AddsNone DEF Less, Top, y

(* dtls_alert_send_from_err.                                               *)
LEMMA SendFromErrIsLess ==
  ASSUME NEW x \in Endpoints, IsError(x),
         x.peer # NULL => x.peer.sec[0] # NULL
  PROVE  LET y == AlertSendFromErr(x)
         IN Less(x, y) /\ Settled(y) /\ (x.peer # NULL => y.peer # NULL)
<1> DEFINE y == AlertSendFromErr(x)
<1>1. x.ret \in Errors
  BY EndpointType DEF IsError
<1>2. CASE x.peer = NULL
  <2>1. y = x
    BY <1>2 DEF AlertSendFromErr
  <2>2. Less(x, x)
    BY DEF Less
  <2> QED BY <1>2, <2>1, <2>2 DEF Settled
<1>3. CASE x.peer # NULL
  <2> DEFINE w == SetState(x, "CLOSING")
             desc == x.ret
  <2>1. y = SendAlert(w, desc)
    BY <1>3 DEF AlertSendFromErr
  <2>2. /\ Less(x, w) /\ w.peer # NULL /\ w.peer.state = "CLOSING"
        /\ w \in Endpoints
    BY <1>3, ClosingIsLess DEF Less
  <2>3. w.peer.sec[0] # NULL
    BY <2>2 DEF Less
  <2> HIDE DEF w, y, desc
  <2>4. Less(w, y) /\ y.peer = w.peer
    BY <1>1, <2>1, <2>2, <2>3, AlertIsLess DEF desc
  <2>5. Less(x, y)
    BY <2>2, <2>4, LessTwice
  <2> QED BY <2>2, <2>4, <2>5 DEF Settled, InHandshake, y
<1> QED BY <1>2, <1>3

(* An event is reported.                                                   *)
LEMMA EventIsLess ==
  ASSUME NEW x \in Endpoints, NEW e \in {"CONNECT", "CONNECTED", "ALERT", "READ"}
  PROVE  LET y == Event(x, e)
         IN Less(x, y) /\ y.peer = x.peer /\ y.ret = x.ret
<1>1. /\ Same(x, Event(x, e)) /\ Event(x, e).crashed = x.crashed
      /\ Event(x, e).ret = x.ret
  BY EventSame
<1> QED BY <1>1, SameIsLess DEF Same

(* A record that does not open.                                            *)
LEMMA DecryptFailedIsLess ==
  ASSUME NEW x \in Endpoints, x.peer # NULL, x.peer.sec[0] # NULL
  PROVE  LET y == DecryptFailed(x) IN Less(x, y) /\ Settled(y)
<1> DEFINE w == Error(x, "decrypt_error")
           y == AlertSendFromErr(w)
           c == SetState(y, "CLOSED")
           z == DestroyPeer(c)
<1>1. "decrypt_error" \in Errors
  BY DEF Errors
<1>2. Less(x, w) /\ IsError(w) /\ w.peer = x.peer /\ w \in Endpoints
  BY <1>1, ErrorIsLess DEF Less
<1>3. DecryptFailed(x) = IF Handshaking(x.peer) THEN z ELSE w
  BY DEF DecryptFailed
<1> HIDE DEF w
<1>4. Less(w, y) /\ y.peer # NULL /\ y \in Endpoints
  BY <1>2, SendFromErrIsLess DEF Less
<1> HIDE DEF y
<1>5. Less(y, c) /\ c.peer # NULL /\ c.peer.state = "CLOSED" /\ c \in Endpoints
  BY <1>4, ClosingIsLess DEF Less
<1> HIDE DEF c
<1>6. z = Freed(c)
  BY <1>5 DEF DestroyPeer, Freed
<1> HIDE DEF z
<1>7. Less(c, z) /\ z.peer = NULL
  BY <1>5, <1>6, FreedIsLess
<1>8. Less(x, z)
  BY <1>2, <1>4, <1>5, <1>7, LessTwice
<1>9. ~Handshaking(x.peer) => Settled(w)
  BY <1>2 DEF Handshaking, Settled, InHandshake
<1> QED BY <1>2, <1>3, <1>7, <1>8, <1>9 DEF Settled

(* handle_alert.                                                           *)
LEMMA HandleAlertIsLess ==
  ASSUME NEW x \in Endpoints, x.ret = "ok",
         x.peer # NULL => x.peer.sec[0] # NULL, NEW m
  PROVE  LET y == HandleAlert(x, m) IN Less(x, y) /\ Settled(y)
<1> DEFINE y == Event(x, "ALERT")
           c == SetState(y, "CLOSING")
           d == SendAlert(c, "close_notify")
           e == SetState(y, "CLOSED")
           z == CASE m.desc # "close_notify" -> y
                  [] m.desc = "close_notify" /\ x.peer.state # "CLOSING" -> d
                  [] OTHER -> e
           w == StopRetransmission(z)
           v == Freed(w)
<1>1. "close_notify" \in Errors
  BY DEF Errors
<1>2. CASE x.peer = NULL
  <2>1. HandleAlert(x, m) = x
    BY <1>2 DEF HandleAlert
  <2> QED BY <1>2, <2>1 DEF Less, Settled
<1>3. CASE x.peer # NULL
  <2>1. HandleAlert(x, m) = v \/ HandleAlert(x, m) = z
    BY <1>3 DEF HandleAlert, Freed
  <2>2. z = y \/ z = d \/ z = e
    OBVIOUS
  <2> HIDE DEF z
  <2>3. Less(x, y) /\ y.peer = x.peer /\ y.ret = "ok" /\ y \in Endpoints
    BY EventIsLess DEF Less
  <2> HIDE DEF y
  <2>4. /\ Less(y, c) /\ c.peer # NULL /\ c.ret = "ok" /\ c \in Endpoints
        /\ c.peer.sec[0] # NULL
    BY <1>3, <2>3, ClosingIsLess DEF Less
  <2>5. Less(y, e) /\ e.ret = "ok"
    BY <1>3, <2>3, ClosingIsLess
  <2> HIDE DEF c, e
  <2>6. Less(c, d) /\ d.ret = "ok"
    BY <1>1, <2>4, AlertIsLess
  <2> HIDE DEF d
  <2>7. Less(x, d) /\ Less(x, e)
    BY <2>3, <2>4, <2>5, <2>6, LessTwice
  <2>8. Less(x, z) /\ z.ret = "ok" /\ z \in Endpoints
    BY <2>2, <2>3, <2>5, <2>6, <2>7 DEF Less
  <2>9. Less(z, w) /\ w.ret = "ok" /\ w \in Endpoints
    BY <2>8, StopIsLess DEF Less
  <2> HIDE DEF w
  <2>10. Less(w, v) /\ v.ret = "ok"
    BY <2>9, FreedIsLess
  <2> HIDE DEF v
  <2>11. Less(x, v)
    BY <2>8, <2>9, <2>10, LessTwice
  <2> QED BY <2>1, <2>8, <2>10, <2>11 DEF Settled, IsError
<1> QED BY <1>2, <1>3

(* handle_ccs, but for the server's key block.                             *)
LEMMA HandleCcsIsLess ==
  ASSUME NEW x \in Endpoints, x.ret = "ok",
         x.peer # NULL => x.peer.sec[0] # NULL
  PROVE  LET y == HandleCcs(x)
         IN \/ Less(x, y) /\ Settled(y)
            \/ /\ x.peer # NULL /\ x.peer.state = "WAIT_CHANGECIPHERSPEC"
               /\ x.peer.role = "server"
               /\ y = SetState(CalculateKeyBlock(x), "WAIT_FINISHED")
<1> DEFINE y == HandleCcs(x)
<1>1. CASE x.peer = NULL
  <2>1. \/ y = Crash(x, "null_peer")
        \/ y = [x EXCEPT !.faults = @ \cup {"null_peer"}]
    BY <1>1 DEF HandleCcs
  <2>2. CASE y = Crash(x, "null_peer")
    <3> DEFINE w == Crash(x, "null_peer")
    <3>1. Same(x, w) /\ w.crashed /\ w.ret = x.ret
      BY CrashSame
    <3> HIDE DEF w, y
    <3>2. Less(x, w) /\ ~IsError(w)
      BY <3>1, SameIsLess DEF IsError
    <3> QED BY <2>2, <3>2 DEF w, y, Settled
  <2>3. CASE y = [x EXCEPT !.faults = @ \cup {"null_peer"}]
    <3> DEFINE w == [x EXCEPT !.faults = @ \cup {"null_peer"}]
    <3>1. Same(x, w) /\ w.crashed = x.crashed
      BY FaultSame
    <3>2. w.ret = x.ret
      OBVIOUS
    <3>3. y = w
      BY <2>3
    <3> HIDE DEF w, y
    <3>4. Less(x, w) /\ ~IsError(w)
      BY <3>1, <3>2, SameIsLess DEF IsError
    <3> QED BY <3>3, <3>4 DEF y, Settled
  <2> QED BY <2>1, <2>2, <2>3
<1>2. CASE x.peer # NULL /\ x.peer.state # "WAIT_CHANGECIPHERSPEC"
  <2>1. y = x
    BY <1>2 DEF HandleCcs
  <2> QED BY <2>1 DEF Less, Settled, IsError
<1>3. CASE /\ x.peer # NULL /\ x.peer.state = "WAIT_CHANGECIPHERSPEC"
           /\ x.peer.role = "server"
  BY <1>3 DEF HandleCcs
<1>4. CASE /\ x.peer # NULL /\ x.peer.state = "WAIT_CHANGECIPHERSPEC"
           /\ x.peer.role # "server"
  <2>1. y = SetState(x, "WAIT_FINISHED")
    BY <1>4 DEF HandleCcs
  <2>2. "WAIT_FINISHED" \in States
    BY DEF States
  <2> HIDE DEF y
  <2>3. /\ y \in Endpoints /\ y.peer # NULL /\ y.peer.state = "WAIT_FINISHED"
        /\ y.peer.id = x.peer.id /\ y.peer.hs = x.peer.hs
        /\ y.peer.sec = x.peer.sec /\ Top(x, y)
    BY <1>4, <2>1, <2>2, PutState
  <2>4. Written(y) = Written(x) /\ Waiting(y) = Waiting(x)
    BY <2>3, AddsNone DEF Top
  <2>5. Less(x, y) /\ Settled(y)
    BY <1>4, <2>3, <2>4 DEF Less, Top, Settled, IsError
  <2> QED BY <2>5 DEF y
<1> QED BY <1>1, <1>2, <1>3, <1>4

(* decrypt_verify drops at most the older parameters, and only for a record*)
(* of the parameters found for its epoch.                                  *)
Deciphers(x, record, y) ==
  /\ y \in Endpoints /\ Top(x, y) /\ y.peer # NULL /\ y.peer.id = x.peer.id
  /\ y.peer.role = x.peer.role /\ y.peer.state = x.peer.state
  /\ y.peer.hs = x.peer.hs /\ y.peer.sec[0] = x.peer.sec[0]
  /\ y.peer.sec[1] \in {NULL, x.peer.sec[1]}
  /\ \/ y = x
     \/ \E i \in Slot : /\ x.peer.sec[i] # NULL
                        /\ x.peer.sec[i].epoch = record.epoch
                        /\ x.peer.sec[i].cipher # "null"
                        /\ x.peer.sec[i].key = record.key

(* What decrypt_verify returns came under parameters of the peer.          *)
LEMMA DecryptDeciphers ==
  ASSUME NEW s, NEW o, NEW x, Good(s, o, x), x.peer # NULL, NEW record,
         Opens(x, record)
  PROVE  Deciphers(x, record, DecryptVerify(x, record))
<1> DEFINE old == x.peer.sec
           sec == ParamsFreeOther(old)
           w == [x EXCEPT !.peer.sec = sec]
           slot == ParamsEpoch(old, record.epoch)
           y == DecryptVerify(x, record)
<1>1. /\ x \in Endpoints /\ old \in [Slot -> {NULL} \cup Security]
      /\ x.peer.sec[0] # NULL
  BY EndpointType, PeerType DEF Good, Sound
<1>2. /\ sec \in [Slot -> {NULL} \cup Security] /\ sec[0] = old[0]
      /\ sec[1] \in {NULL, old[1]}
  <2> HIDE DEF old
  <2>1. sec = [old EXCEPT ![1] = NULL] \/ sec = old
    BY DEF ParamsFreeOther
  <2> HIDE DEF sec
  <2> QED BY <1>1, <2>1 DEF Slot
<1>3. slot \in Slot /\ old[slot] # NULL /\ old[slot].epoch = record.epoch
  <2>1. slot # NULL
    BY DEF Opens
  <2>2. \/ slot = 0 /\ 0 \in EpochSlots(old, record.epoch)
        \/ slot = 1 /\ EpochSlots(old, record.epoch) = {1}
    BY <2>1 DEF ParamsEpoch
  <2> HIDE DEF slot, old
  <2> QED BY <2>2 DEF EpochSlots
<1>4. old[slot].cipher = "null" \/ old[slot].key = record.key
  BY DEF Opens
<1>5. y = IF old[slot].cipher = "null" THEN x ELSE w
  BY DEF DecryptVerify
<1> HIDE DEF slot, sec
<1>6. /\ w \in Endpoints /\ w.peer # NULL
      /\ w.peer.state = x.peer.state /\ w.peer.id = x.peer.id
      /\ w.peer.role = x.peer.role /\ w.peer.hs = x.peer.hs
      /\ w.peer.sec = sec /\ Top(x, w)
  BY <1>1, <1>2, PutSec
<1> HIDE DEF w, y
<1>7. CASE old[slot].cipher = "null"
  <2>1. y = x
    BY <1>5, <1>7
  <2> QED BY <1>1, <2>1 DEF Deciphers, Top, y
<1>8. CASE old[slot].cipher # "null"
  <2>1. y = w
    BY <1>5, <1>8
  <2> QED BY <1>2, <1>3, <1>4, <1>6, <1>8, <2>1 DEF Deciphers, y
<1> QED BY <1>7, <1>8

(* A handshake record: refused for its epoch, or the work of               *)
(* handle_handshake, then closing, reporting or nothing.                   *)
Concerns(x, record, y, z) ==
  \/ x.peer # NULL /\ record.epoch # ExpectedEpoch(x.peer) /\ z = x
  \/ /\ x.peer # NULL => record.epoch = ExpectedEpoch(x.peer)
     /\ Less(y, z) /\ Settled(z)
     /\ z.peer = NULL => y.peer = NULL
     /\ ~IsError(y) => z.peer = y.peer
     /\ \/ x.peer # NULL /\ y = HandleHandshake(x, x.peer.role, x.peer.state, record.msg)
        \/ x.peer = NULL /\ y = HandleHandshake(x, "server", "WAIT_CLIENTHELLO", record.msg)

(* A handshake record ends in handle_handshake or changes nothing it is    *)
(* about.                                                                  *)
LEMMA RecordConcerns ==
  ASSUME NEW s \in Side, NEW o, NEW x, Good(s, o, x), x.ret = "ok",
         NEW record, Says(Other(s), o.h, o.done, record.msg)
  PROVE  \E y : /\ Concerns(x, record, y, HandleHandshakeRecord(x, record))
                /\ Outcome(s, o, x, y)
<1> DEFINE m == record.msg
           role == IF x.peer # NULL THEN x.peer.role ELSE "server"
           state == IF x.peer # NULL THEN x.peer.state ELSE "WAIT_CLIENTHELLO"
           y == HandleHandshake(x, role, state, m)
           w == StopRetransmission(y)
           z == HandleHandshakeRecord(x, record)
           early == x.peer # NULL /\ record.epoch # ExpectedEpoch(x.peer)
           over == x.peer # NULL /\ y.peer.state = "CONNECTED"
<1>1. /\ early => z = x
      /\ ~early =>
           /\ IsError(y) => z = AlertSendFromErr(y)
           /\ ~IsError(y) /\ over => z = Event(w, "CONNECTED")
           /\ ~IsError(y) /\ ~over => z = y
      /\ \/ x.peer # NULL /\ y = HandleHandshake(x, x.peer.role, x.peer.state, record.msg)
         \/ x.peer = NULL /\ y = HandleHandshake(x, "server", "WAIT_CLIENTHELLO", record.msg)
  <2>1. y = IF x.peer # NULL
            THEN HandleHandshake(x, x.peer.role, x.peer.state, record.msg)
            ELSE HandleHandshake(x, "server", "WAIT_CLIENTHELLO", record.msg)
    OBVIOUS
  <2> HIDE DEF y
  <2> QED BY <2>1 DEF HandleHandshakeRecord
<1>2. x.peer # NULL => role = x.peer.role /\ state = x.peer.state
  OBVIOUS
<1> HIDE DEF z, role, state, m
<1>3. Outcome(s, o, x, y) /\ (x.peer = NULL => Kept(x, y))
  BY <1>2, HandshakeOutcome DEF m
<1> HIDE DEF y
<1>4. /\ y \in Endpoints /\ (y.peer # NULL => y.peer.sec[0] # NULL)
      /\ (y.peer # NULL /\ y.peer.state = "CONNECTED") => x.peer # NULL
  BY <1>3 DEF Outcome, Good, Sound, Kept
<1>5. CASE early
  BY <1>1, <1>3, <1>5 DEF Concerns, z
<1>6. CASE ~early /\ IsError(y)
  <2>1. z = AlertSendFromErr(y)
    BY <1>1, <1>6
  <2>2. Less(y, z) /\ Settled(z) /\ (y.peer # NULL => z.peer # NULL)
    BY <1>4, <1>6, <2>1, SendFromErrIsLess
  <2> QED BY <1>1, <1>3, <1>6, <2>2 DEF Concerns, z
<1>7. CASE ~early /\ ~IsError(y) /\ over
  <2>1. z = Event(w, "CONNECTED")
    BY <1>1, <1>7
  <2>2. Less(y, w) /\ w.ret = y.ret /\ w \in Endpoints /\ w.peer = y.peer
    BY <1>4, StopIsLess DEF Less
  <2> HIDE DEF w
  <2>3. Less(w, z) /\ z.peer = w.peer /\ z.ret = w.ret
    BY <2>1, <2>2, EventIsLess
  <2>4. Less(y, z) /\ ~IsError(z) /\ z.peer = y.peer
    BY <1>7, <2>2, <2>3, LessTwice DEF IsError
  <2> QED BY <1>1, <1>3, <1>7, <2>4 DEF Concerns, Settled, z
<1>8. CASE ~early /\ ~IsError(y) /\ ~over
  <2>1. z = y
    BY <1>1, <1>8
  <2>2. Less(y, z) /\ Settled(z)
    BY <1>4, <1>8, <2>1 DEF Less, Settled
  <2> QED BY <1>1, <1>3, <1>8, <2>1, <2>2 DEF Concerns, z
<1> QED BY <1>5, <1>6, <1>7, <1>8

(* A datagram of the other side: what is not a handshake record, and what  *)
(* does not open, only closes, frees or reports.                           *)
Arrives(x, record, y, z) ==
  \/ Less(x, z) /\ Settled(z)
  \/ /\ x.peer # NULL /\ Deciphers(x, record, y)
     /\ Less(y, z) /\ Settled(z) /\ (z.crashed \/ Silent(z))
  \/ /\ x.peer # NULL /\ Deciphers(x, record, y) /\ record.ct = "ccs"
     /\ \E w : /\ Less(y, w) /\ (w.crashed \/ Silent(w)) /\ w.peer = y.peer
               /\ w.ret = "ok" /\ w.peers = y.peers
               /\ w.peer.state = "WAIT_CHANGECIPHERSPEC"
               /\ w.peer.role = "server"
               /\ z = SetState(CalculateKeyBlock(w), "WAIT_FINISHED")
  \/ /\ record.ct = "handshake" /\ z = HandleHandshakeRecord(y, record)
     /\ \/ x.peer = NULL /\ y = x /\ record.key = NULL
        \/ x.peer # NULL /\ Deciphers(x, record, y)

(* dtls_handle_message does one of these with a datagram.                  *)
LEMMA MessageArrives ==
  ASSUME NEW s, NEW o, NEW x, Good(s, o, x), x.ret = "ok",
         NEW record, record.ct \in ContentType
  PROVE  LET y == IF x.peer = NULL THEN x ELSE DecryptVerify(x, record)
         IN Arrives(x, record, y, HandleMessage(x, record))
<1> DEFINE y == IF x.peer = NULL THEN x ELSE DecryptVerify(x, record)
           w == IF x.peer = NULL THEN y ELSE StopRetransmission(y)
           z == HandleMessage(x, record)
<1>1. /\ x \in Endpoints /\ "no_peer" \in Errors /\ "handshake_failure" \in Errors
      /\ x.peer # NULL => x.peer.sec[0] # NULL
  BY DEF Good, Errors, Sound
<1>2. CASE x.peer # NULL /\ ~Opens(x, record)
  <2>1. z = DecryptFailed(x)
    BY <1>2 DEF HandleMessage
  <2> HIDE DEF z, y
  <2>2. Less(x, z) /\ Settled(z)
    BY <1>1, <1>2, <2>1, DecryptFailedIsLess
  <2> QED BY <2>2 DEF Arrives, z, y
<1>3. CASE ~(x.peer # NULL /\ ~Opens(x, record))
  <2>1. /\ record.ct = "ccs" => z = HandleCcs(w)
        /\ record.ct = "alert" => z = HandleAlert(w, record.msg)
        /\ record.ct = "application_data" =>
             z = IF x.peer = NULL THEN Error(x, "no_peer") ELSE Event(w, "READ")
        /\ record.ct = "handshake" =>
             z = IF x.peer = NULL /\ record.key # NULL
                 THEN Error(x, "handshake_failure")
                 ELSE HandleHandshakeRecord(y, record)
    <3> HIDE DEF y
    <3> QED BY <1>3 DEF HandleMessage, y
  <2>2. x.peer = NULL => y = x /\ w = x
    OBVIOUS
  <2>3. x.peer # NULL => y = DecryptVerify(x, record) /\ w = StopRetransmission(y)
    OBVIOUS
  <2> HIDE DEF y, w, z
  <2>4. ASSUME NEW desc \in Errors PROVE Less(x, Error(x, desc))
    BY <1>1, ErrorIsLess
  <2>5. CASE x.peer = NULL
    <3>1. x.peer = NULL => w = x /\ y = x
      BY <2>2
    <3>2. CASE record.ct = "ccs"
      <4>1. z = HandleCcs(x)
        BY <2>1, <2>2, <2>5, <3>2
      <4>2. Less(x, z) /\ Settled(z)
        BY <1>1, <2>5, <4>1, HandleCcsIsLess
      <4> QED BY <4>2 DEF Arrives, z, y
    <3>3. CASE record.ct = "alert"
      <4>1. z = HandleAlert(x, record.msg)
        BY <2>1, <2>2, <2>5, <3>3
      <4>2. Less(x, z) /\ Settled(z)
        BY <1>1, <4>1, HandleAlertIsLess
      <4> QED BY <4>2 DEF Arrives, z, y
    <3>4. CASE record.ct = "application_data"
      <4>1. z = Error(x, "no_peer")
        BY <2>1, <2>5, <3>4
      <4>2. Less(x, z) /\ z.peer = NULL
        BY <1>1, <2>4, <2>5, <4>1, ErrorIsLess
      <4> QED BY <4>2 DEF Arrives, Settled, z, y
    <3>5. CASE record.ct = "handshake"
      <4>1. CASE record.key # NULL
        <5>1. z = Error(x, "handshake_failure")
          BY <2>1, <2>5, <3>5, <4>1
        <5>2. Less(x, z) /\ z.peer = NULL
          BY <1>1, <2>4, <2>5, <5>1, ErrorIsLess
        <5> QED BY <5>2 DEF Arrives, Settled, z, y
      <4>2. CASE record.key = NULL
        BY <2>1, <2>2, <2>5, <3>5, <4>2 DEF Arrives, z, y
      <4> QED BY <4>1, <4>2
    <3> QED BY <3>2, <3>3, <3>4, <3>5 DEF ContentType
  <2>6. CASE x.peer # NULL
    <3>1. Deciphers(x, record, y)
      BY <1>3, <2>3, <2>6, DecryptDeciphers
    <3>2. /\ y \in Endpoints /\ y.peer # NULL /\ y.ret = "ok"
          /\ y.peer.sec[0] # NULL
      BY <1>1, <2>6, <3>1 DEF Deciphers, Top
    <3>3. /\ Less(y, w) /\ w.peer = y.peer /\ w.ret = "ok"
          /\ w.crashed \/ Silent(w)
          /\ w.peers = y.peers
      BY <2>3, <2>6, <3>2, StopIsLess DEF Stopped
    <3>4. w \in Endpoints
      BY <3>3 DEF Less
    <3>5. ASSUME Less(w, z) PROVE Less(y, z) /\ (z.crashed \/ Silent(z))
      <4>1. \A n : Live(z, n) => Live(w, n)
        BY <3>5 DEF Live, Less
      <4>2. z \in Endpoints /\ Waiting(z) \subseteq Waiting(w) /\ (w.crashed => z.crashed)
        BY <3>5 DEF Less
      <4>3. Silent(w) => Silent(z)
        BY <3>4, <4>1, <4>2, SilentIs
      <4> QED BY <3>3, <3>5, <4>2, <4>3, LessTwice
    <3>6. ASSUME Less(w, z), Settled(z) PROVE Arrives(x, record, y, z)
      BY <2>6, <3>1, <3>5, <3>6 DEF Arrives
    <3>7. CASE record.ct = "ccs"
      <4>1. z = HandleCcs(w)
        BY <2>1, <3>7
      <4>2. \/ Less(w, z) /\ Settled(z)
            \/ /\ w.peer # NULL /\ w.peer.state = "WAIT_CHANGECIPHERSPEC"
               /\ w.peer.role = "server"
               /\ z = SetState(CalculateKeyBlock(w), "WAIT_FINISHED")
        BY <3>2, <3>3, <3>4, <4>1, HandleCcsIsLess
      <4>3. Arrives(x, record, y, z)
        BY <2>6, <3>1, <3>3, <3>6, <3>7, <4>2 DEF Arrives
      <4> QED BY <4>3 DEF z, y
    <3>8. CASE record.ct = "alert"
      <4>1. Less(w, z) /\ Settled(z)
        BY <2>1, <3>2, <3>3, <3>4, <3>8, HandleAlertIsLess
      <4> QED BY <3>6, <4>1 DEF z, y
    <3>9. CASE record.ct = "application_data"
      <4>1. Less(w, z) /\ z.ret = "ok"
        BY <2>1, <2>6, <3>3, <3>4, <3>9, EventIsLess
      <4> QED BY <3>6, <4>1 DEF Settled, IsError, z, y
    <3>10. CASE record.ct = "handshake"
      <4>1. Arrives(x, record, y, z)
        BY <2>1, <2>6, <3>1, <3>10 DEF Arrives
      <4> QED BY <4>1 DEF z, y
    <3> QED BY <3>7, <3>8, <3>9, <3>10 DEF ContentType
  <2> QED BY <2>5, <2>6
<1> QED BY <1>2, <1>3

(* A handshake hashed in full has the ServerHelloDone of its server: it    *)
(* ends every server flight.                                               *)
Among(e, q) == \E i \in DOMAIN q : q[i] = e

(* What is in a sequence is in it when it gets longer.                     *)
LEMMA AmongAppend ==
  ASSUME NEW S, NEW q \in Seq(S), NEW e \in S, NEW d
  PROVE  /\ Append(q, e) \in Seq(S)
         /\ Among(e, Append(q, e))
         /\ Among(d, q) => Among(d, Append(q, e))
<1> DEFINE k == Append(q, e)
<1>1. /\ k \in Seq(S) /\ DOMAIN q = 1..Len(q) /\ DOMAIN k = 1..(Len(q) + 1)
      /\ k[Len(q) + 1] = e /\ Len(q) \in Nat
      /\ \A i \in 1..Len(q) : k[i] = q[i]
  OBVIOUS
<1> HIDE DEF k
<1>2. Len(q) + 1 \in DOMAIN k /\ DOMAIN q \subseteq DOMAIN k
  BY <1>1
<1> QED BY <1>1, <1>2 DEF Among, k

(* The hash of a whole handshake has a ServerHelloDone.                    *)
LEMMA WholeDone ==
  ASSUME NEW hash \in Transcript, NEW c, NEW h, Kinds(hash) = Whole(c, h)
  PROVE  Dones(hash) # {}
<1> DEFINE done == "server_hello_done"
           flight == ServerFlight(c, h)
           client == ClientFlight(c, h)
           K == ClientKinds \cup ServerKinds
<1>0. /\ done \in K /\ "client_hello" \in K /\ "server_hello" \in K
      /\ "certificate" \in K /\ "server_key_exchange" \in K
      /\ "certificate_request" \in K /\ "client_key_exchange" \in K
      /\ "certificate_verify" \in K /\ "finished" \in K
  BY DEF ClientKinds, ServerKinds
<1> HIDE DEF K
<1>1. flight \in Seq(K) /\ Among(done, flight)
  <2> DEFINE auth == {"get_ecdsa_key", "verify_ecdsa_key"} \subseteq h
             hello == Append(<<"client_hello">>, "server_hello")
             cert == Append(Append(hello, "certificate"), "server_key_exchange")
             all == CASE Ecdsa(c) /\ auth -> Append(cert, "certificate_request")
                      [] Ecdsa(c) /\ ~auth -> cert
                      [] ~Ecdsa(c) /\ "psk_hint" \in h ->
                           Append(hello, "server_key_exchange")
                      [] OTHER -> hello
  <2>1. hello \in Seq(K)
    <3>1. <<"client_hello">> \in Seq(K)
      BY <1>0
    <3> QED BY <1>0, <3>1
  <2> HIDE DEF hello
  <2>2. cert \in Seq(K)
    <3>1. Append(hello, "certificate") \in Seq(K)
      BY <1>0, <2>1
    <3> QED BY <1>0, <3>1
  <2> HIDE DEF cert
  <2>3. all \in Seq(K)
    BY <1>0, <2>1, <2>2
  <2>4. flight = Append(all, done)
    BY DEF ServerFlight, hello, cert
  <2> HIDE DEF all, flight
  <2> HIDE DEF done
  <2> QED BY <1>0, <2>3, <2>4, AmongAppend
<1>2. Among(done, client)
  <2> HIDE DEF done, flight
  <2> DEFINE a == Append(flight, "certificate")
             b == Append(a, "client_key_exchange")
             k == Append(flight, "client_key_exchange")
  <2>2. a \in Seq(K) /\ Among(done, a)
    BY <1>0, <1>1, AmongAppend
  <2>3. Among(done, k)
    BY <1>0, <1>1, AmongAppend
  <2> HIDE DEF a
  <2>4. b \in Seq(K) /\ Among(done, b)
    BY <1>0, <2>2, AmongAppend
  <2>5. client \in {Append(b, "certificate_verify"), k}
    BY DEF ClientFlight, a, b, flight
  <2> HIDE DEF b, k, client
  <2>6. Among(done, Append(b, "certificate_verify"))
    BY <1>0, <2>4, AmongAppend
  <2> QED BY <2>3, <2>5, <2>6
<1>3. client \in Seq(K)
  <2> HIDE DEF flight
  <2>1. client \in {Append(Append(Append(flight, "certificate"),
                           "client_key_exchange"), "certificate_verify"),
                    Append(flight, "client_key_exchange")}
    BY DEF ClientFlight, flight
  <2>2. /\ Append(flight, "certificate") \in Seq(K)
        /\ Append(flight, "client_key_exchange") \in Seq(K)
    BY <1>0, <1>1
  <2> DEFINE a == Append(flight, "certificate")
             b == Append(a, "client_key_exchange")
  <2> HIDE DEF a
  <2>3. b \in Seq(K)
    BY <1>0, <2>2 DEF a
  <2> HIDE DEF b
  <2>4. Append(b, "certificate_verify") \in Seq(K)
    BY <1>0, <2>3
  <2> QED BY <2>1, <2>2, <2>4 DEF a, b
<1>4. Among(done, Kinds(hash))
  <2>1. Kinds(hash) = Append(client, "finished")
    BY DEF Whole
  <2> HIDE DEF client, done
  <2> QED BY <1>0, <1>2, <1>3, <2>1, AmongAppend
<1>5. PICK i \in DOMAIN hash : hash[i][1] = done
  BY <1>4 DEF Among, Kinds
<1>6. hash[i] \in ToSet(hash)
  BY <1>5, SetOf DEF Transcript
<1> QED BY <1>5, <1>6 DEF Dones

(* A record that opens on the client leaves it as it was, or it was        *)
(* protected by the parameters the client sends with.                      *)
LEMMA ClientDeciphers ==
  ASSUME NEW o, NEW x, Good("client", o, x), ClientFit(x), x.peer # NULL,
         NEW record, NEW y, Deciphers(x, record, y)
  PROVE  /\ ClientFit(y) /\ Pins(x, y) /\ (Silent(x) => Silent(y))
         /\ \/ y = x
            \/ /\ record.epoch = x.peer.sec[0].epoch
               /\ record.key = x.peer.sec[0].key /\ record.key \in KeyBlock
               /\ x.peer.sec[0].epoch = 1
<1>1. /\ x \in Endpoints /\ y \in Endpoints /\ Top(x, y) /\ y.peer # NULL
      /\ y.peer.id = x.peer.id
      /\ y.peer.role = x.peer.role /\ y.peer.state = x.peer.state
      /\ y.peer.hs = x.peer.hs /\ y.peer.sec[0] = x.peer.sec[0]
      /\ y.peer.sec[1] \in {NULL, x.peer.sec[1]}
  BY DEF Deciphers, Good
<1>2. ClientPeer(x) /\ ClientSec(x.peer)
  BY DEF ClientFit, ClientPeer
<1>3. ClientSec(y.peer)
  BY <1>1, <1>2 DEF ClientSec
<1>4. Silent(x) => Silent(y)
  BY <1>1 DEF Silent, Live, Top
<1>5. Pins(x, y)
  BY <1>1, RandomType DEF Pins, HasHandshake, Top
<1>6. \A r : Asked(x, r) => Asked(y, r)
  BY <1>1, <1>5, AskedOn
<1>7. Written(y) = Written(x) /\ Waiting(y) = Waiting(x)
  BY <1>1 DEF Top, Written, Waiting
<1>8. Queue(y) = Queue(x) /\ (IsError(y) <=> IsError(x))
  BY <1>1 DEF Queue, HasHandshake, IsError, Top
<1>9. x.peer.hs # NULL => ClientHs(y.peer, IsError(y))
  <2>1. InHandshake(y.peer) <=> InHandshake(x.peer)
    BY <1>1 DEF InHandshake
  <2>2. x.peer.hs # NULL => ClientHs(x.peer, IsError(x))
    BY <1>2 DEF ClientPeer
  <2> QED BY <1>1, <1>8, <2>1, <2>2 DEF ClientHs
<1>10. ClientPeer(y)
  <2>1. x.peer.hs = NULL => Silent(x)
    BY <1>2 DEF ClientPeer
  <2>2. \A m \in Queue(y) : Orderly(m)
    BY <1>2, <1>8 DEF ClientPeer
  <2> QED BY <1>1, <1>3, <1>4, <1>9, <2>1, <2>2 DEF ClientPeer
<1>11. ClientFit(y)
  BY <1>6, <1>7, <1>10 DEF ClientFit
<1>12. \/ y = x
       \/ /\ record.epoch = x.peer.sec[0].epoch
          /\ record.key = x.peer.sec[0].key /\ record.key \in KeyBlock
          /\ x.peer.sec[0].epoch = 1
  <2> SUFFICES ASSUME y # x
               PROVE  /\ record.epoch = x.peer.sec[0].epoch
                      /\ record.key = x.peer.sec[0].key /\ record.key \in KeyBlock
                      /\ x.peer.sec[0].epoch = 1
    OBVIOUS
  <2>1. PICK i \in Slot : /\ x.peer.sec[i] # NULL
                          /\ x.peer.sec[i].epoch = record.epoch
                          /\ x.peer.sec[i].cipher # "null"
                          /\ x.peer.sec[i].key = record.key
    BY DEF Deciphers
  <2>2. i = 0 \/ i = 1
    BY DEF Slot
  <2>3. i = 0
    BY <1>2, <2>1, <2>2 DEF ClientSec
  <2> QED BY <1>2, <2>1, <2>3 DEF ClientSec
<1> QED BY <1>4, <1>5, <1>11, <1>12

(* The Finished of the server that the client can open has the number the  *)
(* client is waiting for: both count on from the same ServerHelloDone.     *)
LEMMA FinishedNumber ==
  ASSUME NEW o, NEW x \in Endpoints, ClientFit(x), HasHandshake(x),
         x.peer.sec[0].epoch = 1,
         NEW record, record.key = x.peer.sec[0].key, record.key \in KeyBlock,
         record.ct = "handshake", Replied(record),
         Says("server", o.h, o.done, record.msg),
         \A d \in o.done : /\ Pinned(x, d.key, d.hash) /\ d.hash \in Transcript
                           /\ Kinds(d.hash) = Whole(d.key[3], o.h)
  PROVE  record.msg.seq = x.peer.hs.mseq_r
<1> DEFINE m == record.msg
           d == SessionOf(m)
<1>1. record.key # NULL
  BY NullAssumption
<1>2. m.ht = "finished" /\ record.key = m.verify[2] /\ Orderly(m)
  BY <1>1 DEF Replied
<1>3. d \in o.done
  BY <1>2 DEF Says
<1>4. d.key = m.verify[2] /\ d.hash = m.verify[3]
  BY DEF SessionOf
<1> HIDE DEF d, m
<1>5. /\ Pinned(x, d.key, d.hash) /\ d.hash \in Transcript
      /\ Kinds(d.hash) = Whole(d.key[3], o.h)
  BY <1>3
<1>6. /\ Follows(x.peer.hs.hash, x.peer.hs.mseq_r)
      /\ x.peer.sec[0].key[1] = x.peer.hs.crand
  <2>1. ClientHs(x.peer, IsError(x))
    BY DEF ClientFit, ClientPeer, HasHandshake
  <2> QED BY <2>1 DEF ClientHs
<1>7. x.peer.hs.hash = d.hash
  BY <1>2, <1>4, <1>5, <1>6 DEF Pinned
<1>8. PICK e \in Dones(d.hash) : TRUE
  BY <1>5, WholeDone
<1>9. Follows(m.verify[3], m.seq)
  BY <1>2 DEF Orderly
<1>10. m.seq = e[2] + 1 /\ x.peer.hs.mseq_r = e[2] + 1
  BY <1>4, <1>6, <1>7, <1>8, <1>9 DEF Follows
<1> QED BY <1>10 DEF m

(* A handshake record on the client, with the parameters that opened it. *)
LEMMA ClientRecordFits ==
  ASSUME NEW o, NEW x, Good("client", o, x), x.ret = "ok", ClientFit(x),
         NEW record, Says("server", o.h, o.done, record.msg), Orderly(record.msg),
         Holds(x) \/ /\ HasHandshake(x) /\ record.msg.seq = x.peer.hs.mseq_r
                     /\ record.epoch = x.peer.sec[0].epoch
  PROVE  LET z == HandleHandshakeRecord(x, record)
         IN z.crashed \/ (ClientGets(x, z) /\ Settled(z))
<1> DEFINE z == HandleHandshakeRecord(x, record)
<1>1. "client" \in Side /\ Other("client") = "server"
  BY DEF Side, Other
<1>2. Says(Other("client"), o.h, o.done, record.msg)
  BY <1>1
<1>3. PICK y : Concerns(x, record, y, z) /\ Outcome("client", o, x, y)
  BY <1>1, <1>2, RecordConcerns
<1> HIDE DEF z
<1>4. x \in Endpoints /\ (x.peer # NULL => x.peer.role = "client")
  BY DEF Good, Sound
<1>5. CASE x.peer # NULL /\ record.epoch # ExpectedEpoch(x.peer) /\ z = x
  <2>1. ExpectedEpoch(x.peer) = x.peer.sec[0].epoch
    BY <1>4, <1>5 DEF ExpectedEpoch
  <2>2. Holds(x)
    BY <1>5, <2>1
  <2>3. ClientGets(x, x)
    BY <1>4, <2>2, GetsItself
  <2> QED BY <1>5, <2>3 DEF Settled, IsError, z
<1>6. CASE Less(y, z) /\ Settled(z) /\
           (\/ x.peer # NULL /\ y = HandleHandshake(x, x.peer.role, x.peer.state, record.msg)
            \/ x.peer = NULL /\ y = HandleHandshake(x, "server", "WAIT_CLIENTHELLO", record.msg))
  <2>1. y \in Endpoints
    BY <1>3 DEF Outcome, Good
  <2>2. Holds(x) \/ (HasHandshake(x) /\ record.msg.seq = x.peer.hs.mseq_r)
    OBVIOUS
  <2>3. ClientKeeps(x, y)
    <3>1. CASE x.peer # NULL /\ y = HandleHandshake(x, x.peer.role, x.peer.state, record.msg)
      BY <2>2, <3>1, ClientHandshakeFits
    <3>2. CASE x.peer = NULL /\ y = HandleHandshake(x, "server", "WAIT_CLIENTHELLO", record.msg)
      BY <2>2, <3>2, ClientHandshakeFits
    <3> QED BY <1>6, <3>1, <3>2
  <2>4. CASE y.crashed
    BY <1>6, <2>4 DEF Less, z
  <2>5. CASE ClientGets(x, y)
    <3>1. ClientGets(x, z)
      BY <1>4, <1>6, <2>1, <2>5, LessGets
    <3> QED BY <1>6, <3>1 DEF z
  <2> QED BY <2>3, <2>4, <2>5 DEF ClientKeeps
<1> QED BY <1>3, <1>5, <1>6 DEF Concerns

(* Whatever arrives at the client, the records it has sent and the nodes   *)
(* it holds stay in step with the handshake.                               *)
LEMMA ClientMessageFits ==
  ASSUME NEW o, NEW x, Good("client", o, x), x.ret = "ok", ClientFit(x), Holds(x),
         NEW record, record.ct \in ContentType, Replied(record),
         record.ct = "handshake" => Says("server", o.h, o.done, record.msg),
         \A d \in o.done : /\ Pinned(x, d.key, d.hash) /\ d.hash \in Transcript
                           /\ Kinds(d.hash) = Whole(d.key[3], o.h)
  PROVE  LET z == HandleMessage(x, record)
         IN z.crashed \/ (ClientGets(x, z) /\ Settled(z))
<1> DEFINE z == HandleMessage(x, record)
           y == IF x.peer = NULL THEN x ELSE DecryptVerify(x, record)
<1>1. Arrives(x, record, y, z)
  BY MessageArrives
<1>2. Good("client", o, y) /\ y.ret = "ok"
  <2>1. CASE x.peer = NULL
    BY <2>1
  <2>2. CASE x.peer # NULL
    <3> DEFINE w == DecryptVerify(x, record)
    <3>1. Passes("client", o, x, w) /\ w.ret = x.ret
      BY <2>2, DecryptPasses
    <3> HIDE DEF w
    <3> QED BY <2>2, <3>1 DEF Passes, Result, w
  <2> QED BY <2>1, <2>2
<1> HIDE DEF z, y
<1>3. /\ x \in Endpoints /\ y \in Endpoints
      /\ x.peer # NULL => x.peer.role = "client"
  BY <1>2 DEF Good, Sound
<1>4. ClientGets(x, x)
  BY <1>3, GetsItself
<1>5. ASSUME x.peer # NULL, Deciphers(x, record, y)
      PROVE  ClientFit(y) /\ Pins(x, y)
  BY <1>5, ClientDeciphers
<1>6. CASE Less(x, z) /\ Settled(z)
  <2>1. ClientGets(x, z)
    BY <1>3, <1>4, <1>6, LessGets
  <2> QED BY <1>6, <2>1 DEF z
<1>7. CASE /\ x.peer # NULL /\ Deciphers(x, record, y)
           /\ Less(y, z) /\ Settled(z) /\ (z.crashed \/ Silent(z))
  <2>1. ClientFit(y) /\ Pins(x, y)
    BY <1>5, <1>7
  <2>2. ClientFit(z) /\ Pins(y, z) /\ z \in Endpoints
    BY <1>3, <1>7, <2>1, LessFits DEF Less
  <2>3. Pins(x, z)
    BY <1>3, <2>1, <2>2, PinsTwice, RandomType
  <2>4. Silent(z) => Holds(z)
    BY <2>2, SilentIs DEF Holds
  <2> QED BY <1>7, <2>2, <2>3, <2>4 DEF ClientGets, z
<1>8. CASE /\ x.peer # NULL /\ Deciphers(x, record, y) /\ record.ct = "ccs"
           /\ \E w : /\ Less(y, w) /\ (w.crashed \/ Silent(w)) /\ w.peer = y.peer
                     /\ w.ret = "ok" /\ w.peers = y.peers
                     /\ w.peer.state = "WAIT_CHANGECIPHERSPEC"
                     /\ w.peer.role = "server"
                     /\ z = SetState(CalculateKeyBlock(w), "WAIT_FINISHED")
  <2>1. y.peer.role = "client"
    BY <1>3, <1>8 DEF Deciphers
  <2> QED BY <1>8, <2>1
<1>9. CASE /\ record.ct = "handshake" /\ z = HandleHandshakeRecord(y, record)
           /\ \/ x.peer = NULL /\ y = x /\ record.key = NULL
              \/ x.peer # NULL /\ Deciphers(x, record, y)
  <2>1. Orderly(record.msg) /\ Says("server", o.h, o.done, record.msg)
    BY <1>9 DEF Replied
  <2>2. ClientFit(y) /\ Pins(x, y)
    BY <1>3, <1>4, <1>5, <1>9 DEF ClientGets
  <2>3. Holds(y) \/ /\ HasHandshake(y) /\ record.msg.seq = y.peer.hs.mseq_r
                    /\ record.epoch = y.peer.sec[0].epoch
    <3>1. CASE y = x
      BY <3>1
    <3>2. CASE y # x /\ x.peer.hs = NULL
      <4>1. Silent(x) /\ x.peer # NULL
        BY <1>9, <3>2 DEF ClientFit, ClientPeer
      <4>2. Silent(y)
        BY <1>9, <3>2, <4>1, ClientDeciphers
      <4> QED BY <1>3, <4>2, SilentIs DEF Holds
    <3>3. CASE y # x /\ x.peer.hs # NULL
      <4>1. x.peer # NULL /\ Deciphers(x, record, y)
        BY <1>9, <3>3
      <4>2. /\ record.epoch = x.peer.sec[0].epoch
            /\ record.key = x.peer.sec[0].key /\ record.key \in KeyBlock
            /\ x.peer.sec[0].epoch = 1
        BY <3>3, <4>1, ClientDeciphers
      <4>3. HasHandshake(x)
        BY <3>3, <4>1 DEF HasHandshake
      <4>4. record.msg.seq = x.peer.hs.mseq_r
        BY <1>3, <1>9, <2>1, <4>2, <4>3, FinishedNumber
      <4>5. /\ y.peer # NULL /\ y.peer.hs = x.peer.hs
            /\ y.peer.sec[0] = x.peer.sec[0]
        BY <4>1 DEF Deciphers
      <4> QED BY <4>2, <4>3, <4>4, <4>5 DEF HasHandshake
    <3> QED BY <3>1, <3>2, <3>3
  <2> DEFINE w == HandleHandshakeRecord(y, record)
  <2>4. w.crashed \/ (ClientGets(y, w) /\ Settled(w))
    BY <1>2, <2>1, <2>2, <2>3, ClientRecordFits
  <2>5. w = z
    BY <1>9
  <2> HIDE DEF w
  <2>6. CASE z.crashed
    BY <2>6 DEF z
  <2>7. CASE ClientGets(y, z) /\ Settled(z)
    <3>1. z \in Endpoints
      <4>1. "client" \in Side /\ Other("client") = "server"
        BY DEF Side, Other
      <4>2. Says(Other("client"), o.h, o.done, record.msg)
        BY <2>1, <4>1
      <4>3. Result("client", o, y, w)
        BY <1>2, <4>1, <4>2, HandshakeRecordResult DEF w
      <4> QED BY <2>5, <4>3 DEF Result, Good
    <3>2. ClientGets(x, z)
      BY <1>3, <2>2, <2>7, <3>1, GetsTwice
    <3> QED BY <2>7, <3>2 DEF z
  <2> QED BY <2>4, <2>5, <2>6, <2>7
<1> QED BY <1>1, <1>6, <1>7, <1>8, <1>9 DEF Arrives

(* dtls_connect: the new handshake draws a new random, so nothing that was *)
(* sent before speaks of it.                                               *)
LEMMA ConnectFits ==
  ASSUME NEW o, NEW x, Good("client", o, x), x.ret = "ok", ClientFit(x),
         x.peer = NULL
  PROVE  LET y == Connect(x)
         IN y \in Endpoints /\ ClientGets(x, y) /\ Settled(y)
<1> DEFINE g == NewHandshake(0, 0, {})
           w == WithPeer(x, "client")
           b == [w EXCEPT !.peer.hs = g]
           v == SendClientHello(b, 0)
           z == SetState(v, "CLIENTHELLO")
           new == NewPeer(x.peers + 1, "client")
<1>1. x \in Endpoints /\ "client" \in Side
  BY DEF Good, Side
<1>2. /\ g \in Handshakes /\ g.reorder_queue = {} /\ g.hash = <<>>
      /\ g.cipher = "null" /\ g.mseq_r = 0 /\ g # NULL
  <2>1. g \in Handshakes /\ g.reorder_queue = {} /\ g.hash = <<>>
    BY NewHsType
  <2>2. g.cipher = "null" /\ g.mseq_r = 0
    BY DEF NewHandshake
  <2> QED BY <2>1, <2>2, HsType
<1>3. /\ Good("client", o, w)
      /\ w.rnd = x.rnd /\ w.ret = "ok"
      /\ w.peer # NULL /\ w.peer.hs = NULL /\ w.peer.sec[0] # NULL
      /\ w.sendqueue = x.sendqueue /\ w.out = x.out
      /\ \A i \in DOMAIN w.sendqueue : ~Live(w, w.sendqueue[i])
  <2>1. \A s \in Side :
          Good(s, o, x) =>
            /\ Good(s, o, WithPeer(x, s))
            /\ WithPeer(x, s).rnd = x.rnd
            /\ WithPeer(x, s).ret = x.ret
            /\ WithPeer(x, s).peer # NULL /\ WithPeer(x, s).peer.hs = NULL
            /\ WithPeer(x, s).peer.sec[0] # NULL
            /\ WithPeer(x, s).sendqueue = x.sendqueue
            /\ WithPeer(x, s).out = x.out
            /\ \A i \in DOMAIN WithPeer(x, s).sendqueue :
                 ~Live(WithPeer(x, s), WithPeer(x, s).sendqueue[i])
    BY PeerCreated
  <2> QED BY <1>1, <2>1
<1>4. w.peer.sec = NewSecurityParams
  <2>1. w.peer = new
    BY <1>1 DEF WithPeer, Endpoints
  <2> QED BY <2>1 DEF NewPeer
<1>5. Connect(x) = IF IsError(z) THEN z ELSE Event(z, "CONNECT")
  <2>1. w.peer = new /\ w = [x EXCEPT !.peers = @ + 1, !.peer = new]
    BY <1>1 DEF WithPeer, Endpoints
  <2>2. b = [x EXCEPT !.peers = @ + 1, !.peer = [new EXCEPT !.hs = g]]
    <3> HIDE DEF new, g, w
    <3>1. b = [w EXCEPT !.peer = [new EXCEPT !.hs = g]]
      BY <2>1
    <3> DEFINE p == [new EXCEPT !.hs = g]
    <3> HIDE DEF p
    <3>2. [w EXCEPT !.peer = p] = [x EXCEPT !.peers = @ + 1, !.peer = p]
      BY <1>1, <2>1 DEF Endpoints
    <3> QED BY <3>1, <3>2 DEF p
  <2> HIDE DEF w
  <2> QED BY <2>2 DEF Connect
<1> HIDE DEF w, g
<1>6. /\ b \in Endpoints /\ b.peer # NULL /\ b.peer.hs = g
      /\ Alike(w.peer, b.peer) /\ Top(w, b)
  <2>1. w \in Endpoints
    BY <1>3 DEF Good
  <2> QED BY <1>2, <1>3, <2>1, PutHs
<1> HIDE DEF b
<1>7. /\ Ready(b) /\ b.rnd = x.rnd /\ b.ret = "ok" /\ Silent(b)
      /\ Written(b) = Written(x) /\ Waiting(b) = Waiting(x)
  <2>1. w.peer.id \in 1..w.peers
    BY <1>3 DEF Good, Sound
  <2>2. Ready(b)
    BY <1>2, <1>3, <1>6, <2>1 DEF Ready, Alike, Top
  <2>3. Silent(b)
    BY <1>3, <1>6 DEF Silent, Live, Alike, Top
  <2> QED BY <1>3, <1>6, <2>2, <2>3 DEF Top, Written, Waiting
<1>8. /\ b.peer.sec[0].epoch = 0 /\ b.peer.sec[0].cipher = "null"
      /\ ClientSec(b.peer)
      /\ b.peer.sec[1].epoch = 0 /\ b.peer.sec[1].cipher = "null"
  <2>1. b.peer.sec = NewSecurityParams
    BY <1>4, <1>6 DEF Alike
  <2>2. \A i \in Slot : b.peer.sec[i].epoch = 0 /\ b.peer.sec[i].cipher = "null"
    BY <2>1 DEF NewSecurityParams, NewSecurity
  <2>3. 0 \in Slot /\ 1 \in Slot
    BY DEF Slot
  <2>4. /\ b.peer.sec[0].epoch = 0 /\ b.peer.sec[0].cipher = "null"
        /\ b.peer.sec[1].epoch = 0 /\ b.peer.sec[1].cipher = "null"
    BY <2>2, <2>3
  <2> QED BY <2>4 DEF ClientSec
<1>9. 0 \in Nat
  OBVIOUS
<1>10. /\ Ready(v) /\ Alike(b.peer, v.peer) /\ v.ret = b.ret
       /\ b.rnd <= v.rnd
       /\ v.peer.hs.cipher = b.peer.hs.cipher
       /\ v.peer.hs.mseq_r = b.peer.hs.mseq_r
       /\ v.peer.hs.reorder_queue = b.peer.hs.reorder_queue
       /\ Dones(v.peer.hs.hash) = Dones(b.peer.hs.hash)
          \/ Dones(v.peer.hs.hash) = {}
  BY <1>7, <1>8, <1>9, HelloFits
<1>11. PICK news : /\ Adds(b, v, news)
                   /\ \A r \in news : /\ r.epoch = b.peer.sec[0].epoch
                                      /\ \A c : Asked(c, r)
  BY <1>7, <1>8, <1>9, HelloFits
<1>12. v.peer.hs.crand = b.rnd + 1
  BY <1>7, <1>9, ClientHelloSent
<1> HIDE DEF v
<1>13. /\ z \in Endpoints /\ z.peer # NULL /\ z.peer.state = "CLIENTHELLO"
       /\ z.peer.id = v.peer.id /\ z.peer.hs = v.peer.hs
       /\ z.peer.sec = v.peer.sec /\ Top(v, z)
  <2>1. "CLIENTHELLO" \in States
    BY DEF States
  <2> QED BY <1>10, <2>1, PutState DEF Ready
<1> HIDE DEF z
<1>14. Dones(v.peer.hs.hash) = {}
  BY <1>2, <1>6, <1>10, DonesNone
<1>15. ClientPeer(z)
  <2>1. ClientSec(z.peer)
    BY <1>8, <1>10, <1>13 DEF ClientSec, Alike
  <2>2. ClientHs(z.peer, IsError(z))
    BY <1>2, <1>6, <1>8, <1>10, <1>13, <1>14 DEF ClientHs, Alike
  <2>3. Queue(z) = {}
    BY <1>2, <1>6, <1>10, <1>13 DEF Queue
  <2>4. z.peer.hs # NULL
    BY <1>10, <1>13 DEF Ready
  <2> QED BY <2>1, <2>2, <2>3, <2>4 DEF ClientPeer
<1>16. x.rnd \in Nat /\ z.rnd = v.rnd
  BY <1>1, <1>13, RandomType DEF Top
<1>17. Pins(x, z)
  <2>1. x.rnd < z.peer.hs.crand
    BY <1>7, <1>12, <1>13, <1>16
  <2> QED BY <1>7, <1>10, <1>16, <2>1 DEF Pins
<1>18. Adds(b, z, news)
  BY <1>11, <1>13 DEF Adds, Top, Written, Waiting
<1>19. \A r \in Written(z) \cup Waiting(z) : Asked(z, r)
  <2>1. \A r \in Written(x) \cup Waiting(x) : Asked(z, r)
    BY <1>1, <1>13, <1>17, AskedOn DEF ClientFit
  <2>2. ASSUME NEW n, NEW r \in news, Copies(b, n, r)
        PROVE  Asked(z, n)
    <3>1. Asked(z, r)
      BY <1>11
    <3>2. n.ct = r.ct /\ n.epoch = r.epoch /\ n.msg = r.msg
      BY <2>2 DEF Copies
    <3> QED BY <3>1, <3>2 DEF Asked
  <2>3. \A r \in news : Asked(z, r)
    BY <1>11
  <2> QED BY <1>7, <1>18, <2>1, <2>2, <2>3 DEF Adds
<1>20. ClientFit(z)
  BY <1>15, <1>19 DEF ClientFit
<1>21. Holds(z)
  <2>1. \A r \in news : EpochSlots(z.peer.sec, r.epoch) # {}
    <3> DEFINE sec == z.peer.sec
    <3>1. 0 \in Slot
      BY DEF Slot
    <3>2. sec[0] # NULL /\ sec[0].epoch = 0
      BY <1>8, <1>10, <1>13 DEF Alike, Ready
    <3> HIDE DEF sec
    <3>3. EpochSlots(sec, 0) # {}
      BY <3>1, <3>2, SlotsIs
    <3> QED BY <1>8, <1>11, <3>3 DEF sec
  <2>2. z.peer.id = b.peer.id /\ b.peer # NULL /\ b \in Endpoints
    BY <1>6, <1>10, <1>13 DEF Alike
  <2> QED BY <1>7, <1>13, <1>18, <2>1, <2>2, HoldsAfter
<1>22. ClientGets(x, z)
  BY <1>17, <1>20, <1>21 DEF ClientGets
<1>23. ~IsError(z)
  BY <1>7, <1>10, <1>13 DEF IsError, Top
<1> DEFINE e == Event(z, "CONNECT")
<1>24. Less(z, e) /\ e.ret = z.ret
  BY <1>13, EventIsLess
<1>25. Connect(x) = e
  BY <1>5, <1>23 DEF z, v, b, g, w
<1> HIDE DEF e
<1>26. ClientGets(x, e) /\ e \in Endpoints
  BY <1>1, <1>13, <1>22, <1>24, LessGets DEF Less
<1> QED BY <1>23, <1>24, <1>25, <1>26 DEF Settled, IsError

(* dtls_retransmit: the message again, under the parameters of its epoch   *)
(* when the peer still has them and unprotected otherwise.                 *)
Resent(x, n, r) ==
  /\ r.ct = n.ct /\ r.msg = n.msg
  /\ \/ r.epoch = 0 /\ r.key = NULL
     \/ /\ Live(x, n)
        /\ \E i \in Slot : /\ x.peer.sec[i] # NULL
                           /\ x.peer.sec[i].epoch = n.epoch
                           /\ r.epoch = n.epoch /\ r.key = x.peer.sec[i].key
                           /\ i = 0 \/ x.peer.sec[0] = NULL
                                \/ x.peer.sec[0].epoch # n.epoch

(* dtls_retransmit of a node writes only the node's message again.         *)
LEMMA Retransmits ==
  ASSUME NEW x \in Endpoints, x.out = <<>>, NEW node \in Waiting(x)
  PROVE  LET y == Retransmit(x, node)
         IN /\ Sent(x, y) /\ y.ret = x.ret /\ (x.crashed => y.crashed)
            /\ \A r \in Written(y) : Resent(x, node, r)
<1> DEFINE slot == IF Live(x, node) THEN ParamsEpoch(x.peer.sec, node.epoch)
                   ELSE NULL
           security == IF slot = NULL THEN NewSecurity ELSE x.peer.sec[slot]
           record == [ct |-> node.ct, epoch |-> security.epoch,
                      key |-> security.key, msg |-> node.msg]
           w == [x EXCEPT !.out = <<record>>]
           fault == [w EXCEPT !.faults = @ \cup {"freed_peer"}]
           none == [fault EXCEPT !.out = <<>>]
           y == Retransmit(x, node)
<1>1. node \in Nodes
  BY SilentIs
<1>2. y \in {w, fault, none, Crash(x, "freed_peer")}
  BY DEF Retransmit
<1>3. /\ security \in Security
      /\ \/ security = NewSecurity
         \/ /\ Live(x, node)
            /\ \E i \in Slot : /\ x.peer.sec[i] # NULL
                               /\ x.peer.sec[i].epoch = node.epoch
                               /\ security = x.peer.sec[i]
                               /\ i = 0 \/ x.peer.sec[0] = NULL
                                    \/ x.peer.sec[0].epoch # node.epoch
  <2>1. NewSecurity \in Security
    BY DEF NewSecurity, Security, Cipher
  <2>2. CASE slot = NULL
    BY <2>1, <2>2
  <2>3. CASE slot # NULL
    <3>1. Live(x, node) /\ slot = ParamsEpoch(x.peer.sec, node.epoch)
      BY <2>3
    <3>2. x.peer \in Peers
      BY <3>1, EndpointType DEF Live
    <3>3. /\ x.peer.sec[0] \in Security \/ x.peer.sec[0] = NULL
          /\ x.peer.sec[1] \in Security \/ x.peer.sec[1] = NULL
      BY <3>2, PeerType
    <3>4. \/ slot = 0 /\ 0 \in EpochSlots(x.peer.sec, node.epoch)
          \/ slot = 1 /\ EpochSlots(x.peer.sec, node.epoch) = {1}
      BY <2>3, <3>1 DEF ParamsEpoch
    <3>5. /\ slot \in Slot /\ x.peer.sec[slot] # NULL
          /\ x.peer.sec[slot].epoch = node.epoch
          /\ slot = 0 \/ x.peer.sec[0] = NULL \/ x.peer.sec[0].epoch # node.epoch
      BY <3>4 DEF EpochSlots, Slot
    <3>6. security = x.peer.sec[slot]
      BY <2>3
    <3> HIDE DEF slot, security
    <3>7. security \in Security
      BY <3>3, <3>4, <3>5, <3>6
    <3> QED BY <3>1, <3>5, <3>6, <3>7
  <2> QED BY <2>2, <2>3
<1> HIDE DEF slot, security
<1>4. /\ record \in Datagrams /\ record.ct = node.ct /\ record.msg = node.msg
      /\ record.epoch = security.epoch /\ record.key = security.key
  <2>1. security.epoch \in Nat /\ security.key \in {NULL} \cup KeyBlock
    BY <1>3, SecType
  <2>2. node.ct \in ContentType /\ node.msg \in Contents
    BY <1>1 DEF Nodes, ContentType
  <2> QED BY <2>1, <2>2 DEF Datagrams
<1> HIDE DEF record
<1>5. Resent(x, node, record)
  <2>1. CASE security = NewSecurity
    BY <1>4, <2>1 DEF Resent, NewSecurity
  <2>2. CASE security # NewSecurity
    BY <1>3, <1>4, <2>2 DEF Resent
  <2> QED BY <2>1, <2>2
<1>6. /\ Sent(x, w) /\ w.out = <<record>> /\ w.ret = x.ret
      /\ w.crashed = x.crashed
  <2>1. <<record>> \in Seq(Datagrams)
    BY <1>4
  <2>2. w \in Endpoints
    BY <2>1 DEF Endpoints
  <2> QED BY <2>2 DEF Endpoints, Sent
<1> HIDE DEF w
<1>7. /\ Sent(x, fault) /\ fault.out = <<record>> /\ fault.ret = x.ret
      /\ fault.crashed = x.crashed
  <2>1. w \in Endpoints
    BY <1>6 DEF Sent
  <2>2. fault \in Endpoints
    BY <2>1 DEF Endpoints
  <2>3. /\ fault.h = w.h /\ fault.peer = w.peer /\ fault.sendqueue = w.sendqueue
        /\ fault.peers = w.peers /\ fault.rnd = w.rnd /\ fault.done = w.done
        /\ fault.out = w.out /\ fault.ret = w.ret /\ fault.crashed = w.crashed
    BY <2>1 DEF Endpoints
  <2> HIDE DEF fault
  <2> QED BY <1>6, <2>2, <2>3 DEF Sent
<1> HIDE DEF fault
<1>8. /\ Sent(x, none) /\ none.out = <<>> /\ none.ret = x.ret
      /\ none.crashed = x.crashed
  <2>1. fault \in Endpoints /\ <<>> \in Seq(Datagrams)
    BY <1>7 DEF Sent
  <2>2. none \in Endpoints
    BY <2>1 DEF Endpoints
  <2>3. /\ none.h = fault.h /\ none.peer = fault.peer
        /\ none.sendqueue = fault.sendqueue /\ none.peers = fault.peers
        /\ none.rnd = fault.rnd /\ none.done = fault.done /\ none.out = <<>>
        /\ none.ret = fault.ret /\ none.crashed = fault.crashed
    BY <2>1 DEF Endpoints
  <2> HIDE DEF none
  <2> QED BY <1>7, <2>2, <2>3 DEF Sent
<1> HIDE DEF none
<1>9. LET c == Crash(x, "freed_peer")
      IN Sent(x, c) /\ c.out = <<>> /\ c.ret = x.ret /\ (x.crashed => c.crashed)
  BY CrashSame DEF Same, Sent
<1>10. \A c : /\ c.out = <<>> => Written(c) = {}
              /\ c.out = <<record>> => Written(c) = {record}
  BY DEF Written, ToSet
<1> HIDE DEF y
<1>11. CASE y \in {w, fault}
  BY <1>5, <1>6, <1>7, <1>10, <1>11 DEF y
<1>12. CASE y = none
  BY <1>8, <1>10, <1>12 DEF y
<1>13. CASE y = Crash(x, "freed_peer")
  <2> DEFINE c == Crash(x, "freed_peer")
  <2>1. Sent(x, c) /\ c.out = <<>> /\ c.ret = x.ret /\ (x.crashed => c.crashed)
    BY <1>9
  <2>2. y = c
    BY <1>13
  <2> HIDE DEF c
  <2> QED BY <1>10, <2>1, <2>2 DEF y
<1> QED BY <1>2, <1>11, <1>12, <1>13

(* dtls_write and dtls_close of a peer, and a node given up, leave nothing *)
(* new to retransmit.                                                      *)
LEMMA WriteIsLess ==
  ASSUME NEW x \in Endpoints, x.ret = "ok", x.peer # NULL,
         x.peer.sec[0] # NULL, NEW s \in Side
  PROVE  LET y == Write(x, s) IN Less(x, y) /\ Settled(y)
<1> DEFINE m == [data |-> s]
           w == SendMulti(x, "application_data", m)
           y == Write(x, s)
<1>1. y \in {w, x}
  BY DEF Write
<1>2. m \in Contents /\ "application_data" \in ContentType
  BY DEF Contents, ContentType, Side
<1> HIDE DEF m
<1>3. /\ w \in Endpoints /\ w.peer = x.peer /\ Rest(x, w)
      /\ Adds(x, w, {Rec(x, "application_data", m)})
      /\ Waiting(w) = Waiting(x)
      /\ Written(w) = Written(x) \cup {Rec(x, "application_data", m)}
  <2>1. /\ w \in Endpoints /\ w.peer = x.peer /\ Rest(x, w)
        /\ Adds(x, w, {Rec(x, "application_data", m)})
        /\ Waiting(w) = Waiting(x) \cup {}
        /\ Written(w) = Written(x) \cup {Rec(x, "application_data", m)}
    BY <1>2, SendMultiIs
  <2> HIDE DEF w
  <2> QED BY <2>1
<1> HIDE DEF w
<1>4. Less(x, w) /\ w.ret = x.ret
  BY <1>3 DEF Less, Rest, Rec, IsError
<1>5. Less(x, x)
  BY AddsNone DEF Less
<1> HIDE DEF y
<1> QED BY <1>1, <1>4, <1>5 DEF Settled, IsError, y

(* dtls_close does less: it sends an alert and leaves the handshake.       *)
LEMMA CloseIsLess ==
  ASSUME NEW x \in Endpoints, x.ret = "ok", x.peer # NULL,
         x.peer.sec[0] # NULL
  PROVE  LET y == Close(x) IN Less(x, y) /\ Settled(y)
<1> DEFINE w == SendAlert(x, "close_notify")
           y == SetState(w, "CLOSING")
<1>1. "close_notify" \in Errors
  BY DEF Errors
<1>2. Less(x, w) /\ w.peer = x.peer
  BY <1>1, AlertIsLess
<1>3. Close(x) = y
  BY DEF Close
<1> HIDE DEF w
<1>4. w \in Endpoints /\ w.peer # NULL
  BY <1>2 DEF Less
<1>5. Less(w, y) /\ Settled(y)
  BY <1>4, ClosingIsLess
<1> HIDE DEF y
<1> QED BY <1>2, <1>3, <1>5, LessTwice

(* Dropping a node after its last retransmission does less.                *)
LEMMA GivenUpIsLess ==
  ASSUME NEW x \in Endpoints, NEW i \in DOMAIN x.sendqueue
  PROVE  Less(x, GivenUp(x, i))
<1> DEFINE q == RemoveAt(x.sendqueue, i)
           y == [x EXCEPT !.sendqueue = q]
<1>1. /\ q \in Seq(Nodes)
      /\ \A j \in DOMAIN q : \E k \in DOMAIN x.sendqueue : q[j] = x.sendqueue[k]
  BY RemovedNode
<1>2. y = GivenUp(x, i)
  BY DEF GivenUp
<1> HIDE DEF q
<1>3. /\ y \in Endpoints /\ y.rnd = x.rnd /\ y.done = x.done /\ y.h = x.h
      /\ y.crashed = x.crashed /\ y.out = x.out /\ y.sendqueue = q
      /\ y.peer = x.peer /\ y.ret = x.ret
  BY <1>1 DEF Endpoints
<1> HIDE DEF y
<1>4. Waiting(y) \subseteq Waiting(x)
  BY <1>1, <1>3 DEF Waiting, ToSet
<1>5. Written(y) = Written(x)
  BY <1>3 DEF Written
<1> QED BY <1>2, <1>3, <1>4, <1>5 DEF Less, IsError

(* dtls_retransmit on the client. *)
LEMMA ClientRetransmits ==
  ASSUME NEW x \in Endpoints, x.out = <<>>, x.ret = "ok", ClientFit(x), Holds(x),
         NEW node \in Waiting(x)
  PROVE  LET y == Retransmit(x, node) IN ClientGets(x, y) /\ Settled(y)
<1> DEFINE y == Retransmit(x, node)
<1>1. /\ Sent(x, y) /\ y.ret = x.ret
      /\ \A r \in Written(y) : Resent(x, node, r)
  BY Retransmits
<1> HIDE DEF y
<1>2. /\ y \in Endpoints /\ y.peer = x.peer /\ y.rnd = x.rnd
      /\ Waiting(y) = Waiting(x)
  BY <1>1 DEF Sent, Waiting
<1>3. Pins(x, y)
  BY <1>2, RandomType DEF Pins, HasHandshake
<1>4. \A r : Asked(x, r) => Asked(y, r)
  BY <1>2, <1>3, AskedOn
<1>5. \A r \in Written(y) : Asked(y, r)
  <2> SUFFICES ASSUME NEW r \in Written(y) PROVE Asked(y, r)
    OBVIOUS
  <2>1. Asked(x, node)
    BY DEF ClientFit
  <2>2. /\ r.ct = node.ct /\ r.msg = node.msg
        /\ r.epoch = 0 \/ r.epoch = node.epoch
    BY <1>1 DEF Resent
  <2>3. Asked(x, r)
    BY <2>1, <2>2 DEF Asked
  <2> QED BY <1>4, <2>3
<1>6. ClientPeer(y)
  <2>1. Queue(y) = Queue(x) /\ (Silent(x) => Silent(y)) /\ (IsError(x) <=> IsError(y))
    BY <1>1, <1>2 DEF Queue, HasHandshake, Silent, Live, IsError, Sent
  <2>2. ClientPeer(x)
    BY DEF ClientFit
  <2> HIDE DEF y
  <2>3. y.peer = x.peer /\ IsError(y) = IsError(x)
    BY <1>1, <1>2 DEF IsError
  <2> QED BY <2>1, <2>2, <2>3 DEF ClientPeer
<1>7. ClientFit(y)
  BY <1>2, <1>4, <1>5, <1>6 DEF ClientFit
<1>8. Holds(y)
  BY <1>2 DEF Holds, Live
<1> QED BY <1>1, <1>3, <1>7, <1>8 DEF ClientGets, Settled, IsError, y

-----------------------------------------------------------------------------
(* The server *)

(* What waits was sent in the clear, and so is what is sent now; or the    *)
(* handshake has just ended, and what waits is about to be dropped.        *)
Plain(x) ==
  \A n \in Waiting(x) : Live(x, n) => n.epoch = 0 /\ x.peer.sec[0].epoch = 0
Lasts(x) ==
  Plain(x) \/ (x.peer # NULL /\ x.peer.state = "CONNECTED" /\ ~IsError(x))

(* The server handshakes in epoch 0, its number follows its ServerHello-   *)
(* Done, and its sessions, which the client finished, are pinned there.    *)
ServerPeer(x) ==
  x.peer # NULL =>
    /\ x.peer.sec[0].epoch = 0 => x.peer.sec[0].key = NULL
    /\ InHandshake(x.peer) =>
         x.peer.sec[0].epoch = 0 /\ Follows(x.peer.hs.hash, x.peer.hs.mseq_s)
    /\ x.peer.state = "CONNECTED" => x.peer.hs = NULL
ServerFit(c, x) ==
  /\ \A r \in Written(x) : Replied(r)
  /\ \A n \in Waiting(x) : n.ct = "handshake" => Orderly(n.msg)
  /\ ServerPeer(x)
  /\ \A d \in x.done : Pinned(c, d.key, d.hash)
  /\ \A m \in Queue(x) : Issued(c, m)

(* What a handler keeps or restores of the server.                         *)
ServerGets(c, x) == ServerFit(c, x) /\ Lasts(x)

(* Nothing of that disturbs the server either. *)
LEMMA LessServes ==
  ASSUME NEW c, NEW x \in Endpoints, ServerFit(c, x), NEW y, Less(x, y)
  PROVE  ServerFit(c, y) /\ (Plain(x) => Plain(y))
<1>1. ASSUME NEW r \in Written(y) PROVE Replied(r)
  <2>1. r \in Written(x) \/ r.ct # "handshake"
    BY <1>1 DEF Less
  <2> QED BY <2>1 DEF ServerFit, Replied
<1>2. \A n \in Waiting(y) : n.ct = "handshake" => Orderly(n.msg)
  BY DEF Less, ServerFit
<1>3. ServerPeer(y)
  BY DEF Less, ServerFit, ServerPeer, InHandshake
<1>4. \A d \in y.done : Pinned(c, d.key, d.hash)
  BY DEF Less, ServerFit
<1>5. \A m \in Queue(y) : Issued(c, m)
  <2>1. Queue(y) \subseteq Queue(x)
    BY DEF Queue, HasHandshake, Less
  <2> QED BY <2>1 DEF ServerFit
<1>6. Plain(x) => Plain(y)
  BY DEF Plain, Less, Live
<1> QED BY <1>1, <1>2, <1>3, <1>4, <1>5, <1>6 DEF ServerFit

(* A silent endpoint waits for nothing. *)
LEMMA SilentPlain ==
  ASSUME NEW x \in Endpoints, Silent(x)
  PROVE  Plain(x)
BY SilentIs DEF Plain

(* What was written and queued after what was added. *)
LEMMA RepliedAfter ==
  ASSUME NEW c, NEW x, NEW y, ServerFit(c, x), NEW new, Adds(x, y, new),
         \A r \in new : Replied(r)
  PROVE  /\ \A r \in Written(y) : Replied(r)
         /\ \A n \in Waiting(y) : n.ct = "handshake" => Orderly(n.msg)
<1>1. \A r \in Written(y) : Replied(r)
  BY DEF Adds, ServerFit
<1>2. ASSUME NEW n \in Waiting(y), n.ct = "handshake" PROVE Orderly(n.msg)
  <2>1. CASE n \in Waiting(x)
    BY <1>2, <2>1 DEF ServerFit
  <2>2. CASE \E r \in new : Copies(x, n, r)
    BY <1>2, <2>2 DEF Copies, Replied
  <2> QED BY <2>1, <2>2 DEF Adds
<1> QED BY <1>1, <1>2

(* All that was added is in the clear. *)
LEMMA PlainAfter ==
  ASSUME NEW x \in Endpoints, Silent(x), NEW y,
         y.peer # NULL, x.peer # NULL, y.peer.id = x.peer.id,
         NEW new, Adds(x, y, new), \A r \in new : r.epoch = 0,
         y.peer.sec[0].epoch = 0
  PROVE  Plain(y)
<1>1. \A n \in Waiting(x) : ~Live(x, n)
  BY SilentIs
<1>2. \A n : Live(y, n) => Live(x, n)
  BY DEF Live
<1> QED BY <1>1, <1>2 DEF Plain, Adds, Copies

(* The server has heard a message that calls for no answer.                *)
Heeds(x, y) ==
  /\ y \in Endpoints /\ y.peer # NULL /\ y.peer.hs # NULL
  /\ y.out = x.out /\ y.sendqueue = x.sendqueue /\ y.done = x.done
  /\ y.peer.id = x.peer.id /\ y.peer.sec = x.peer.sec
  /\ InHandshake(x.peer) /\ InHandshake(y.peer)
  /\ y.peer.hs.mseq_s = x.peer.hs.mseq_s
  /\ y.peer.hs.reorder_queue = x.peer.hs.reorder_queue
  /\ Dones(y.peer.hs.hash) = Dones(x.peer.hs.hash)

(* Then it counts it. *)
LEMMA HeedsFits ==
  ASSUME NEW c, NEW x \in Endpoints, ServerFit(c, x), Silent(x),
         HasHandshake(x), NEW y, Heeds(x, y)
  PROVE  ServerGets(c, Advance(y))
<1> DEFINE z == Advance(y)
<1>1. /\ z \in Endpoints /\ z.peer # NULL /\ z.peer.hs # NULL
      /\ z.out = y.out /\ z.sendqueue = y.sendqueue /\ z.done = y.done
      /\ z.peer.id = y.peer.id /\ z.peer.sec = y.peer.sec
      /\ z.peer.state = y.peer.state
      /\ z.peer.hs.mseq_s = y.peer.hs.mseq_s
      /\ z.peer.hs.reorder_queue = y.peer.hs.reorder_queue
      /\ z.peer.hs.hash = y.peer.hs.hash
  <2>1. y \in Endpoints /\ y.peer # NULL /\ y.peer.hs # NULL
    BY DEF Heeds
  <2>2. /\ ~HasHandshake(y) \/ IsError(y) => z = y
        /\ HasHandshake(y) /\ ~IsError(y) =>
             /\ z \in Endpoints /\ z.peer # NULL /\ z.peer.hs # NULL
             /\ Top(y, z) /\ Alike(y.peer, z.peer)
             /\ z.peer.hs.mseq_s = y.peer.hs.mseq_s
             /\ z.peer.hs.reorder_queue = y.peer.hs.reorder_queue
             /\ z.peer.hs.hash = y.peer.hs.hash
    BY <2>1, AdvanceIs
  <2> HIDE DEF z
  <2> QED BY <2>1, <2>2 DEF Top, Alike
<1> HIDE DEF z
<1>2. /\ \A r \in Written(z) : Replied(r)
      /\ \A n \in Waiting(z) : n.ct = "handshake" => Orderly(n.msg)
  BY <1>1 DEF Heeds, ServerFit, Written, Waiting
<1>3. ServerPeer(z)
  BY <1>1 DEF Heeds, ServerFit, ServerPeer, HasHandshake, InHandshake, Follows
<1>4. \A d \in z.done : Pinned(c, d.key, d.hash)
  BY <1>1 DEF Heeds, ServerFit
<1>5. \A m \in Queue(z) : Issued(c, m)
  <2>1. Queue(z) = Queue(x)
    BY <1>1 DEF Queue, HasHandshake, Heeds
  <2> QED BY <2>1 DEF ServerFit
<1>6. Silent(z)
  BY <1>1 DEF Heeds, Silent, Live, HasHandshake
<1>7. Plain(z)
  BY <1>1, <1>6, SilentPlain
<1> QED BY <1>2, <1>3, <1>4, <1>5, <1>7 DEF ServerGets, ServerFit, Lasts, z

(* check_client_certificate and its like: a message, then a state.         *)
LEMMA ServerHears ==
  ASSUME NEW o, NEW x, NEW m, Turn("server", o, x, m), ServerPeer(x),
         m.ht \in {"certificate", "client_key_exchange", "certificate_verify"}
  PROVE  Heeds(x, Dispatch(x, m))
<1> DEFINE d == Dispatch(x, m)
<1>1. /\ x \in Endpoints /\ x.peer # NULL /\ x.peer.hs # NULL /\ Ready(x)
      /\ m \in Messages /\ m.rnd \in Nat /\ x.peer.role = "server"
  BY TurnReady DEF Ready
<1>2. x.peer.hs \in Handshakes /\ x.peer.hs.hash \in Transcript
  BY <1>1, ReadyType, HsType
<1>3. InHandshake(x.peer)
  <2>1. Expected(x, x.peer.role, x.peer.state, m)
    BY DEF Turn
  <2> QED BY <1>1, <2>1 DEF Expected, InHandshake
<1>4. ASSUME NEW g \in Handshakes, g.mseq_s = x.peer.hs.mseq_s,
             g.reorder_queue = x.peer.hs.reorder_queue,
             g.hash = x.peer.hs.hash, NEW st \in States,
             st \in {"WAIT_CLIENTKEYEXCHANGE", "WAIT_CERTIFICATEVERIFY",
                     "WAIT_CHANGECIPHERSPEC"}
      PROVE  Heeds(x, SetState(Hash([x EXCEPT !.peer.hs = g], m), st))
  <2> DEFINE a == [x EXCEPT !.peer.hs = g]
             h == Hash(a, m)
             y == SetState(h, st)
  <2>1. /\ a \in Endpoints /\ a.peer # NULL /\ a.peer.hs = g
        /\ Alike(x.peer, a.peer) /\ Top(x, a)
    BY <1>1, PutHs
  <2> HIDE DEF a
  <2>2. Ready(a)
    BY <1>1, <2>1, HsType DEF Ready, Alike, Top
  <2>3. /\ Ready(h) /\ Top(a, h) /\ Alike(a.peer, h.peer)
        /\ SameHs(a.peer.hs, h.peer.hs)
        /\ h.peer.hs.mseq_s = a.peer.hs.mseq_s
        /\ h.peer.hs.hash = Append(a.peer.hs.hash, HashOf(m))
    BY <1>1, <2>2, HashIs
  <2> HIDE DEF h
  <2>4. /\ y \in Endpoints /\ y.peer # NULL /\ y.peer.state = st
        /\ y.peer.id = h.peer.id /\ y.peer.hs = h.peer.hs
        /\ y.peer.sec = h.peer.sec /\ Top(h, y)
    BY <2>3, PutState DEF Ready
  <2> HIDE DEF y
  <2>5. m.ht # "server_hello_done"
    OBVIOUS
  <2>6. Dones(h.peer.hs.hash) = Dones(x.peer.hs.hash)
    BY <1>1, <1>2, <1>4, <2>1, <2>3, <2>5, DonesAppend
  <2>7. InHandshake(y.peer)
    BY <1>4, <2>4 DEF InHandshake
  <2>8. y.peer.hs # NULL
    BY <2>3, <2>4 DEF Ready
  <2>9. Heeds(x, y)
    BY <1>3, <1>4, <2>1, <2>3, <2>4, <2>6, <2>7, <2>8
    DEF Heeds, Top, Alike, SameHs
  <2> QED BY <2>9 DEF y, h, a
<1>5. Heeds(x, Error(x, "handshake_failure"))
  <2> DEFINE y == Error(x, "handshake_failure")
  <2>1. "handshake_failure" \in Errors
    BY DEF Errors
  <2>2. Same(x, y)
    BY <1>1, <2>1, ErrorSame
  <2> HIDE DEF y
  <2>3. Heeds(x, y)
    BY <1>1, <1>3, <2>2 DEF Same, Heeds
  <2> QED BY <2>3 DEF y
<1>6. {"WAIT_CLIENTKEYEXCHANGE", "WAIT_CERTIFICATEVERIFY",
       "WAIT_CHANGECIPHERSPEC"} \subseteq States
  BY DEF States
<1>7. [x EXCEPT !.peer.hs = x.peer.hs] = x
  BY <1>1, EndpointType DEF Endpoints, Peers
<1>8. CASE m.ht = "certificate"
  <2>1. d = SetState(Hash(x, m), "WAIT_CLIENTKEYEXCHANGE")
    BY <1>1, <1>8 DEF Dispatch, Certificate
  <2>2. Heeds(x, SetState(Hash([x EXCEPT !.peer.hs = x.peer.hs], m),
                          "WAIT_CLIENTKEYEXCHANGE"))
    BY <1>2, <1>4, <1>6
  <2> QED BY <1>7, <2>1, <2>2
<1>9. CASE m.ht = "client_key_exchange"
  <2> DEFINE g == [x.peer.hs EXCEPT !.kx = m.rnd]
             st == IF Ecdsa(x.peer.hs.cipher) /\ ClientAuth(x)
                   THEN "WAIT_CERTIFICATEVERIFY" ELSE "WAIT_CHANGECIPHERSPEC"
  <2>1. g \in Handshakes
    BY <1>1, <1>2 DEF Handshakes
  <2>2. /\ g.mseq_s = x.peer.hs.mseq_s /\ g.hash = x.peer.hs.hash
        /\ g.reorder_queue = x.peer.hs.reorder_queue
    BY <1>2 DEF Handshakes
  <2>3. [x EXCEPT !.peer.hs.kx = m.rnd] = [x EXCEPT !.peer.hs = g]
    OBVIOUS
  <2>4. d = SetState(Hash([x EXCEPT !.peer.hs = g], m), st)
    BY <1>9, <2>3 DEF Dispatch, ClientKeyExchange
  <2>5. st \in {"WAIT_CLIENTKEYEXCHANGE", "WAIT_CERTIFICATEVERIFY",
                "WAIT_CHANGECIPHERSPEC"}
    OBVIOUS
  <2> HIDE DEF g, st, d
  <2>6. Heeds(x, SetState(Hash([x EXCEPT !.peer.hs = g], m), st))
    BY <1>4, <1>6, <2>1, <2>2, <2>5
  <2> QED BY <2>4, <2>6 DEF d
<1>10. CASE m.ht = "certificate_verify"
  <2>1. \/ d = Error(x, "handshake_failure")
        \/ d = SetState(Hash(x, m), "WAIT_CHANGECIPHERSPEC")
    BY <1>10 DEF Dispatch, CertificateVerify
  <2>2. Heeds(x, SetState(Hash([x EXCEPT !.peer.hs = x.peer.hs], m),
                          "WAIT_CHANGECIPHERSPEC"))
    BY <1>2, <1>4, <1>6
  <2> HIDE DEF d
  <2> QED BY <1>5, <1>7, <2>1, <2>2 DEF d
<1> QED BY <1>8, <1>9, <1>10

(* The end of a handshake, as an endpoint. *)
LEMMA EndedIs ==
  ASSUME NEW z, Ready(z), NEW d
  PROVE  LET y == Ended(z, d)
         IN /\ y.peer # NULL /\ y.peer.hs = NULL /\ y.peer.id = z.peer.id
            /\ y.peer.sec = z.peer.sec /\ y.peer.state = "CONNECTED"
            /\ y.out = z.out /\ y.sendqueue = z.sendqueue /\ y.ret = z.ret
            /\ y.done = z.done \cup {d}
<1> DEFINE e == [z EXCEPT !.peer.hs = NULL]
           f == [e EXCEPT !.peer.state = "CONNECTED"]
           g == [f EXCEPT !.done = @ \cup {d}]
<1>1. z \in Endpoints /\ z.peer \in Peers /\ z.peer # NULL
  BY ReadyType DEF Ready
<1>2. /\ e \in Endpoints /\ e.peer # NULL /\ e.peer.hs = NULL
      /\ Alike(z.peer, e.peer) /\ Top(z, e)
  BY <1>1, PutHs
<1>3. f = SetState(e, "CONNECTED")
  BY DEF SetState
<1> HIDE DEF e
<1>4. /\ f \in Endpoints /\ f.peer # NULL /\ f.peer.state = "CONNECTED"
      /\ f.peer.id = e.peer.id /\ f.peer.hs = e.peer.hs
      /\ f.peer.sec = e.peer.sec /\ Top(e, f)
  <2>1. "CONNECTED" \in States
    BY DEF States
  <2> HIDE DEF f
  <2> QED BY <1>2, <1>3, <2>1, PutState
<1>5. g = Ended(z, d)
  BY DEF Ended, e
<1> HIDE DEF f
<1>6. /\ g.peer = f.peer /\ g.out = f.out /\ g.sendqueue = f.sendqueue
      /\ g.ret = f.ret /\ g.done = f.done \cup {d}
  BY <1>4 DEF Endpoints
<1> HIDE DEF g
<1> QED BY <1>2, <1>4, <1>5, <1>6 DEF Top, Alike

(* The client's Finished ends the server's handshake, with the server's.   *)
LEMMA ServerFinishedFits ==
  ASSUME NEW c, NEW o, NEW x, NEW m, Turn("server", o, x, m),
         ServerFit(c, x), Silent(x), m.ht = "finished", Issued(c, m)
  PROVE  ServerGets(c, Finished(x, m))
<1> DEFINE z == Finished(x, m)
           y == Hash(x, m)
           w == SendFinished(Switch(SendCcs(y)), "server")
           d == [key |-> y.peer.hs.master, hash |-> y.peer.hs.hash]
<1>1. /\ x \in Endpoints /\ x.peer # NULL /\ x.peer.role = "server"
      /\ x.peer.hs # NULL /\ Ready(x) /\ m \in Messages
      /\ x.peer.state = "WAIT_FINISHED"
  BY TurnReady DEF Ready, Turn, Expected
<1>2. CASE m.verify # Verify(x, "client")
  <2>1. z = Error(x, "handshake_failure")
    BY <1>1, <1>2 DEF Finished
  <2>2. "handshake_failure" \in Errors
    BY DEF Errors
  <2>3. Less(x, z)
    BY <1>1, <2>1, <2>2, ErrorIsLess
  <2> HIDE DEF z
  <2>4. ServerFit(c, z) /\ Plain(z)
    BY <1>1, <2>3, LessServes, SilentPlain
  <2> QED BY <2>4 DEF ServerGets, Lasts, z
<1>3. CASE m.verify = Verify(x, "client")
  <2>1. z = Ended(w, d)
    BY <1>1, <1>3 DEF Finished, Ended
  <2>2. /\ x.peer.sec[1] # NULL /\ x.peer.sec[1].key = x.peer.hs.master
        /\ x.peer.sec[1].epoch = x.peer.sec[0].epoch + 1
        /\ x.peer.hs.master = KeyOf(x.peer.hs)
    <3>1. Pending("server", x.peer)
      BY <1>1 DEF Turn, Good, Sound
    <3> QED BY <1>1, <3>1 DEF Pending
  <2>3. /\ x.peer.hs.hash \in Transcript /\ x.peer.hs.master \in KeyBlock
        /\ x.peer.hs.mseq_s \in Nat
    BY <1>1, <2>2, ReadyType, HsType
  <2>4. x.peer.sec[0].epoch = 0 /\ Follows(x.peer.hs.hash, x.peer.hs.mseq_s)
    BY <1>1 DEF ServerFit, ServerPeer, InHandshake
  <2>5. /\ Ready(y) /\ Top(x, y) /\ Alike(x.peer, y.peer)
        /\ SameHs(x.peer.hs, y.peer.hs)
        /\ y.peer.hs.mseq_s = x.peer.hs.mseq_s
        /\ y.peer.hs.hash = Append(x.peer.hs.hash, HashOf(m))
    BY <1>1, HashIs
  <2>6. d = [key |-> y.peer.hs.master, hash |-> y.peer.hs.hash]
    OBVIOUS
  <2> HIDE DEF d, y
  <2>7. /\ y.peer.hs.master = x.peer.hs.master /\ y.peer.hs.master \in KeyBlock
        /\ y.peer.sec[1] = x.peer.sec[1] /\ y.peer.sec[0] = x.peer.sec[0]
    BY <2>3, <2>5 DEF SameHs, Alike
  <2>8. Concludes(y, w, "server")
    BY <2>2, <2>5, <2>7, FlightEnds
  <2> HIDE DEF w
  <2>9. PICK n \in Messages :
          /\ n.ht = "finished" /\ n.seq = y.peer.hs.mseq_s
          /\ n.verify = <<"server", y.peer.hs.master, y.peer.hs.hash>>
          /\ Adds(y, w, {Rec(y, "ccs", [ccs |-> 1]), Concluding(y, n)})
    BY <2>8 DEF Concludes
  <2>10. /\ Ready(w) /\ Rest(y, w) /\ w.peer.id = y.peer.id
         /\ w.peer.sec[0] = y.peer.sec[1]
    BY <2>8 DEF Concludes
  <2>11. /\ z.peer # NULL /\ z.peer.hs = NULL /\ z.peer.id = w.peer.id
         /\ z.peer.sec = w.peer.sec /\ z.peer.state = "CONNECTED"
         /\ z.out = w.out /\ z.sendqueue = w.sendqueue /\ z.ret = w.ret
         /\ z.done = w.done \cup {d}
    <3> HIDE DEF z
    <3> QED BY <2>1, <2>10, EndedIs
  <2> HIDE DEF z
  <2> DEFINE new == {Rec(y, "ccs", [ccs |-> 1]), Concluding(y, n)}
  <2>12. \A r \in new : Replied(r)
    <3>1. Replied(Rec(y, "ccs", [ccs |-> 1]))
      BY DEF Replied, Rec
    <3>2. Orderly(n)
      <4>1. Dones(y.peer.hs.hash) = Dones(x.peer.hs.hash)
        BY <1>1, <2>3, <2>5, DonesAppend
      <4>2. Follows(n.verify[3], n.seq)
        BY <2>4, <2>5, <2>9, <4>1 DEF Follows
      <4> QED BY <2>9, <4>2 DEF Orderly
    <3>3. Concluding(y, n).key = n.verify[2]
      BY <2>2, <2>7, <2>9 DEF Concluding
    <3>4. Concluding(y, n).msg = n
      BY DEF Concluding
    <3>5. Replied(Concluding(y, n))
      BY <2>9, <3>2, <3>3, <3>4 DEF Replied
    <3> QED BY <3>1, <3>5
  <2>13. Adds(y, w, new)
    BY <2>9
  <2> HIDE DEF new
  <2>14. Adds(x, z, new)
    BY <2>5, <2>11, <2>13 DEF Adds, Copies, Written, Waiting, Top, Alike
  <2>15. /\ \A r \in Written(z) : Replied(r)
         /\ \A k \in Waiting(z) : k.ct = "handshake" => Orderly(k.msg)
    BY <2>12, <2>14, RepliedAfter
  <2>16. ServerPeer(z)
    <3>1. x.peer.sec[1].epoch # 0
      BY <2>2, <2>4
    <3> QED BY <2>7, <2>10, <2>11, <3>1 DEF ServerPeer, InHandshake
  <2>17. \A e \in z.done : Pinned(c, e.key, e.hash)
    <3>1. z.done = x.done \cup {d}
      BY <2>5, <2>10, <2>11 DEF Top, Rest
    <3>2. /\ m.verify[2] = x.peer.hs.master /\ m.verify[3] = x.peer.hs.hash
      BY <1>3 DEF Verify
    <3>3. Pinned(c, d.key, d.hash)
      BY <2>5, <2>6, <2>7, <3>2 DEF Issued
    <3> QED BY <3>1, <3>3 DEF ServerFit
  <2>18. Queue(z) = {}
    BY <2>11 DEF Queue, HasHandshake
  <2>19. Lasts(z)
    <3>1. z.ret = "ok"
      BY <2>5, <2>10, <2>11 DEF Top, Rest, Turn
    <3> QED BY <2>11, <3>1 DEF Lasts, IsError
  <2> QED BY <2>15, <2>16, <2>17, <2>18, <2>19 DEF ServerGets, ServerFit, z
<1> QED BY <1>2, <1>3

-----------------------------------------------------------------------------
(* The server's flight *)

(* A first ClientHello that shows the cookie creates a peer and a          *)
(* handshake that counts from 1.                                           *)
LEMMA WithHelloIs ==
  ASSUME NEW o, NEW x, Good("server", o, x), x.peer = NULL, NEW k \in Nat
  PROVE  LET w == WithHello(x, k)
         IN /\ Ready(w) /\ Silent(w)
            /\ w.out = x.out /\ w.sendqueue = x.sendqueue /\ w.done = x.done
            /\ w.ret = x.ret /\ w.h = x.h
            /\ w.peer.sec[0].epoch = 0 /\ w.peer.sec[0].key = NULL
            /\ w.peer.state = "INIT"
            /\ w.peer.hs.mseq_s = 1 /\ w.peer.hs.hash = <<>>
            /\ w.peer.hs.reorder_queue = {}
<1> DEFINE new == NewHandshake(k, 1, {})
           p == WithPeer(x, "server")
           a == [p EXCEPT !.peer.hs = new]
           b == [a EXCEPT !.peer.hs.hash = <<>>]
           w == WithHello(x, k)
<1>1. /\ new \in Handshakes /\ new.reorder_queue = {} /\ new.hash = <<>>
      /\ new.mseq_s = 1
  <2>1. new.mseq_s = 1 /\ 1 \in Nat
    BY DEF NewHandshake
  <2> HIDE DEF new
  <2>2. new \in Handshakes /\ new.reorder_queue = {} /\ new.hash = <<>>
    BY NewHsType DEF new
  <2> QED BY <2>1, <2>2
<1>2. /\ p \in Endpoints /\ p.h = x.h /\ p.ret = x.ret /\ p.done = x.done
      /\ p.peer # NULL /\ p.peer.hs = NULL /\ p.peer.state = "INIT"
      /\ p.peer.id \in 1..p.peers /\ p.peer.sec[0] # NULL
      /\ p.sendqueue = x.sendqueue /\ p.out = x.out
      /\ Silent(p)
  <2>1. "server" \in Side /\ x.peers \in Nat
    BY EndpointType DEF Side, Good
  <2> HIDE DEF p
  <2>2. /\ Good("server", o, p)
        /\ p.h = x.h /\ p.ret = x.ret /\ p.done = x.done
        /\ p.peer # NULL /\ p.peer.hs = NULL /\ p.peer.state = "INIT"
        /\ p.peer.id = x.peers + 1 /\ p.peers = x.peers + 1
        /\ p.peer.sec[0] # NULL
        /\ p.sendqueue = x.sendqueue /\ p.out = x.out
        /\ \A i \in DOMAIN p.sendqueue : ~Live(p, p.sendqueue[i])
    BY <2>1, PeerCreated DEF p
  <2> QED BY <2>1, <2>2 DEF Silent, Good
<1>3. p.peer.sec[0].epoch = 0 /\ p.peer.sec[0].key = NULL
  <2>1. p.peer = NewPeer(x.peers + 1, "server")
    BY EndpointType DEF WithPeer, Good, Endpoints
  <2> HIDE DEF p
  <2> QED BY <2>1 DEF NewPeer, NewSecurityParams, NewSecurity, Slot
<1>4. w = b
  <2>1. p = [x EXCEPT !.peers = @ + 1, !.peer = NewPeer(x.peers + 1, "server")]
    BY DEF WithPeer
  <2> HIDE DEF p, new
  <2>2. ~HasHandshake(p)
    BY <1>2 DEF HasHandshake
  <2> QED BY <2>1, <2>2 DEF WithHello, new
<1> HIDE DEF new, p, w
<1>5. /\ a \in Endpoints /\ a.peer # NULL /\ a.peer.hs = new
      /\ Alike(p.peer, a.peer) /\ Top(p, a)
  BY <1>1, <1>2, PutHs
<1> DEFINE g == [a.peer.hs EXCEPT !.hash = <<>>]
<1>6. b = [a EXCEPT !.peer.hs = g]
  OBVIOUS
<1> HIDE DEF a, b
<1>7. /\ g \in Handshakes /\ g.mseq_s = new.mseq_s /\ g.hash = <<>>
      /\ g.reorder_queue = new.reorder_queue
  <2>1. <<>> \in Transcript
    BY DEF Transcript
  <2> QED BY <1>1, <1>5, <2>1 DEF Handshakes
<1> HIDE DEF g
<1>8. /\ b \in Endpoints /\ b.peer # NULL /\ b.peer.hs = g
      /\ Alike(a.peer, b.peer) /\ Top(a, b)
  BY <1>5, <1>6, <1>7, PutHs
<1>9. Ready(b)
  BY <1>2, <1>5, <1>7, <1>8, HsType DEF Ready, Alike, Top
<1>10. Silent(b)
  BY <1>2, <1>5, <1>8 DEF Silent, Live, Alike, Top
<1> QED BY <1>1, <1>2, <1>3, <1>4, <1>5, <1>7, <1>8, <1>9, <1>10 DEF Alike, Top, w

(* dtls_update_parameters sends nothing and counts nothing. *)
LEMMA ParametersKeep ==
  ASSUME NEW x, Ready(x), NEW m \in Messages
  PROVE  LET y == UpdateParameters(x, m)
         IN /\ y.out = x.out /\ y.sendqueue = x.sendqueue /\ y.done = x.done
            /\ y.peer.hs.mseq_s = x.peer.hs.mseq_s
            /\ y.peer.hs.reorder_queue = x.peer.hs.reorder_queue
            /\ y.ret = x.ret \/ IsError(y)
<1> DEFINE known == {i \in DOMAIN m.suites : KnownCipher(x, m.suites[i], "server")}
           y == [x EXCEPT !.peer.hs.crand = m.rnd]
           Suite(cipher) == [y EXCEPT !.peer.hs.cipher = cipher]
           desc == IF x.peer.state = "CONNECTED" THEN "no_renegotiation"
                                                 ELSE "handshake_failure"
           u == UpdateParameters(x, m)
<1>1. /\ x \in Endpoints /\ x.peer # NULL /\ x.peer \in Peers
      /\ x.peer.hs \in Handshakes
  BY ReadyType DEF Ready
<1>2. ASSUME NEW cipher
      PROVE  LET v == Suite(cipher)
             IN /\ v.out = x.out /\ v.sendqueue = x.sendqueue /\ v.done = x.done
                /\ v.peer.hs.mseq_s = x.peer.hs.mseq_s
                /\ v.peer.hs.reorder_queue = x.peer.hs.reorder_queue
                /\ v.ret = x.ret
  BY <1>1 DEF Endpoints, Peers, Handshakes
<1>3. u = Suite(m.suites[Min(known)]) \/ u = Error(Suite("null"), desc)
  BY DEF UpdateParameters
<1> HIDE DEF Suite, known
<1>4. CASE u = Suite(m.suites[Min(known)])
  <2> DEFINE cipher == m.suites[Min(known)]
  <2> HIDE DEF cipher
  <2>1. u = Suite(cipher)
    BY <1>4 DEF cipher
  <2> HIDE DEF u
  <2> QED BY <1>2, <2>1 DEF u
<1>5. CASE u = Error(Suite("null"), desc)
  <2> DEFINE v == Suite("null")
  <2>1. /\ v.out = x.out /\ v.sendqueue = x.sendqueue /\ v.done = x.done
        /\ v.peer.hs.mseq_s = x.peer.hs.mseq_s
        /\ v.peer.hs.reorder_queue = x.peer.hs.reorder_queue
    BY <1>2
  <2>2. u = [v EXCEPT !.ret = desc]
    BY <1>5 DEF Error
  <2> HIDE DEF u, v
  <2>3. u.out = v.out /\ u.sendqueue = v.sendqueue /\ u.done = v.done /\ u.peer = v.peer
    BY <2>2
  <2>4. IsError(u)
    <3>1. u \in Endpoints
      BY ParametersUpdated DEF u, Ready
    <3>2. u.ret = desc
      BY <2>2, <3>1 DEF Endpoints
    <3> QED BY <3>2 DEF IsError
  <2> QED BY <2>1, <2>3, <2>4 DEF u
<1> QED BY <1>3, <1>4, <1>5

(* From x to y the server sent orderly messages of its flight.             *)
Told(x) ==
  {r \in Datagrams : /\ r.ct = "handshake" /\ Orderly(r.msg)
                     /\ r.epoch = x.peer.sec[0].epoch
                     /\ r.key = x.peer.sec[0].key}
Tells(x, y) ==
  /\ Ready(y) /\ Alike(x.peer, y.peer) /\ y.h = x.h
  /\ y.ret = x.ret /\ y.done = x.done
  /\ y.peer.hs.reorder_queue = x.peer.hs.reorder_queue
  /\ y.peer.hs.cipher = x.peer.hs.cipher
  /\ Adds(x, y, Told(x))

(* Telling twice is telling. *)
LEMMA TellsTwice ==
  ASSUME NEW x, NEW y, NEW z, Tells(x, y), Tells(y, z)
  PROVE  Tells(x, z)
<1>1. Told(y) = Told(x) /\ Told(x) \cup Told(x) = Told(x)
  BY DEF Tells, Told, Alike
<1>2. y.peer.id = x.peer.id
  BY DEF Tells, Alike
<1>3. Adds(x, z, Told(x) \cup Told(y))
  BY <1>2, AddsTwice DEF Tells
<1>4. Adds(x, z, Told(x))
  BY <1>1, <1>3
<1> QED BY <1>4 DEF Tells, Alike

(* One message of the flight, n as it goes out. *)
LEMMA SendTells ==
  ASSUME NEW x, Ready(x), NEW m \in Messages, Orderly(Numbered(x, m))
  PROVE  LET y == SendHandshake(x, m)
             n == Numbered(x, m)
         IN /\ Tells(x, y) /\ y.peer.hs.mseq_s = x.peer.hs.mseq_s + 1
            /\ m.ht # "server_hello_done" =>
                 Dones(y.peer.hs.hash) = Dones(x.peer.hs.hash)
            /\ m.ht = "server_hello_done" =>
                 Dones(y.peer.hs.hash) = Dones(x.peer.hs.hash)
                                           \cup {<<n.ht, x.peer.hs.mseq_s, n.rnd>>}
<1> DEFINE y == SendHandshake(x, m)
           n == Numbered(x, m)
           rec == Rec(x, "handshake", n)
<1>1. TRUE \in BOOLEAN /\ y = SendHandshakeHash(x, m, TRUE)
  BY DEF SendHandshake
<1> HIDE DEF y, n
<1>2. /\ Ready(y) /\ Rest(x, y) /\ Alike(x.peer, y.peer)
      /\ SameHs(x.peer.hs, y.peer.hs)
      /\ y.peer.hs.mseq_s = x.peer.hs.mseq_s + 1
      /\ y.peer.hs.hash = Append(x.peer.hs.hash, HashOf(n))
      /\ n \in Messages /\ n.seq = x.peer.hs.mseq_s /\ n.ht = m.ht
      /\ Adds(x, y, {rec}) /\ rec \in Datagrams
  BY <1>1, SendIs DEF n
<1>3. rec \in Told(x)
  BY <1>2 DEF Told, Rec, n
<1> HIDE DEF rec
<1>4. Adds(x, y, Told(x))
  BY <1>2, <1>3 DEF Adds
<1>5. Tells(x, y)
  BY <1>2, <1>4 DEF Tells, Rest, SameHs
<1>6. x.peer.hs.hash \in Transcript
  BY ReadyType, HsType
<1>7. /\ m.ht # "server_hello_done" =>
           Dones(y.peer.hs.hash) = Dones(x.peer.hs.hash)
      /\ m.ht = "server_hello_done" =>
           Dones(y.peer.hs.hash) = Dones(x.peer.hs.hash)
                                     \cup {<<n.ht, n.seq, n.rnd>>}
  BY <1>2, <1>6, DonesAppend
<1> QED BY <1>2, <1>5, <1>7 DEF y, n

(* A message of the flight that is not its last. *)
LEMMA MessageTells ==
  ASSUME NEW x, Ready(x), NEW m \in Messages,
         m.ht \in {"server_hello", "certificate", "server_key_exchange",
                   "certificate_request"},
         m.ht = "server_hello" => m.suites[1] # "null",
         m.ht = "server_key_exchange" => x.peer.hs.mseq_s >= 2
  PROVE  LET y == SendHandshake(x, m)
         IN /\ Tells(x, y) /\ y.peer.hs.mseq_s = x.peer.hs.mseq_s + 1
            /\ Dones(y.peer.hs.hash) = Dones(x.peer.hs.hash)
<1> DEFINE n == Numbered(x, m)
<1>1. n.ht = m.ht /\ n.seq = x.peer.hs.mseq_s /\ n.suites = m.suites
  BY DEF Numbered, Messages
<1> HIDE DEF n
<1>2. Orderly(n)
  BY <1>1 DEF Orderly
<1>3. Orderly(Numbered(x, m)) /\ m.ht # "server_hello_done"
  BY <1>2 DEF n
<1> DEFINE y == SendHandshake(x, m)
<1> HIDE DEF y
<1>4. /\ Tells(x, y) /\ y.peer.hs.mseq_s = x.peer.hs.mseq_s + 1
      /\ m.ht # "server_hello_done" =>
           Dones(y.peer.hs.hash) = Dones(x.peer.hs.hash)
  BY <1>3, SendTells DEF y
<1> QED BY <1>3, <1>4 DEF y

(* dtls_send_server_hello_msgs in a handshake that has not sent it before. *)
LEMMA ServerFlightIs ==
  ASSUME NEW x, Ready(x), x.peer.hs.cipher \in {"psk", "ecdsa"},
         x.peer.hs.mseq_s >= 1, Dones(x.peer.hs.hash) = {}
  PROVE  LET y == SendServerHelloMsgs(x)
         IN /\ Ready(y) /\ Alike(x.peer, y.peer)
            /\ y.ret = x.ret /\ y.done = x.done
            /\ y.peer.hs.reorder_queue = x.peer.hs.reorder_queue
            /\ Adds(x, y, Told(x))
            /\ Follows(y.peer.hs.hash, y.peer.hs.mseq_s)
<1> DEFINE cipher == x.peer.hs.cipher
           d == Draw(x)
           g == [x.peer.hs EXCEPT !.srand = x.rnd + 1]
           y == [d EXCEPT !.peer.hs = g]
           m0 == [Message("server_hello") EXCEPT
                    !.rnd = y.peer.hs.srand, !.suites = <<cipher>>]
           hello == SendHandshake(y, m0)
           v == IF Ecdsa(cipher)
                THEN <<y.peer.hs.crand, y.peer.hs.srand>> ELSE <<>>
           ske == [Message("server_key_exchange") EXCEPT !.verify = v]
           cert == SendHandshake(hello, Message("certificate"))
           ecdsa == SendHandshake(cert, ske)
           ask == SendHandshake(ecdsa, Message("certificate_request"))
           hint == SendHandshake(hello, ske)
           key == CASE Ecdsa(cipher) /\ ClientAuth(x) -> ask
                    [] Ecdsa(cipher) /\ ~ClientAuth(x) -> ecdsa
                    [] cipher = "psk" /\ "psk_hint" \in x.h -> hint
                    [] OTHER -> hello
           z == SendHandshake(key, Message("server_hello_done"))
<1>1. /\ x \in Endpoints /\ x.peer # NULL /\ x.peer \in Peers
      /\ x.peer.hs \in Handshakes /\ x.rnd \in Nat /\ x.peer.hs.mseq_s \in Nat
  BY ReadyType, HsType DEF Ready
<1>2. /\ d.peer = x.peer /\ d \in Endpoints /\ d.peers = x.peers
      /\ d.out = x.out /\ d.sendqueue = x.sendqueue /\ d.ret = x.ret
      /\ d.done = x.done /\ d.h = x.h
  <2>1. x.rnd + 1 \in Nat
    BY <1>1
  <2>2. d = [x EXCEPT !.rnd = x.rnd + 1]
    BY DEF Draw
  <2> HIDE DEF d
  <2> QED BY <1>1, <2>1, <2>2 DEF Endpoints
<1>3. /\ g \in Handshakes /\ g.reorder_queue = x.peer.hs.reorder_queue
      /\ g.mseq_s = x.peer.hs.mseq_s /\ g.hash = x.peer.hs.hash
      /\ g.cipher = cipher
  <2> DEFINE f == x.peer.hs
             k == x.rnd + 1
  <2>1. f \in Handshakes /\ k \in Nat /\ g = [f EXCEPT !.srand = k]
    BY <1>1
  <2> HIDE DEF f, k, g
  <2>2. g \in Handshakes
    BY <2>1 DEF Handshakes
  <2>3. /\ g.reorder_queue = f.reorder_queue /\ g.mseq_s = f.mseq_s
        /\ g.hash = f.hash /\ g.cipher = f.cipher
    BY <2>1 DEF Handshakes
  <2> QED BY <2>2, <2>3 DEF f
<1>4. z = SendServerHelloMsgs(x)
  <2>1. y = [Draw(x) EXCEPT !.peer.hs.srand = x.rnd + 1]
    BY <1>2
  <2> HIDE DEF y, d
  <2>2. z = SendServerHelloMsgs(x)
    BY <2>1 DEF SendServerHelloMsgs, SendCertificate
  <2> QED BY <2>2
<1> HIDE DEF d, g, z
<1>5. /\ y \in Endpoints /\ y.peer # NULL /\ y.peer.hs = g
      /\ Alike(d.peer, y.peer) /\ Top(d, y)
  BY <1>2, <1>3, PutHs DEF Ready
<1> HIDE DEF y
<1>6. Ready(y)
  BY <1>2, <1>3, <1>5, HsType DEF Ready, Alike, Top
<1>7. /\ m0 \in Messages /\ m0.ht = "server_hello" /\ m0.suites = <<cipher>>
      /\ ske \in Messages /\ ske.ht = "server_key_exchange"
      /\ Message("certificate") \in Messages
      /\ Message("certificate").ht = "certificate"
      /\ Message("certificate_request") \in Messages
      /\ Message("certificate_request").ht = "certificate_request"
      /\ Message("server_hello_done") \in Messages
      /\ Message("server_hello_done").ht = "server_hello_done"
  <2>1. {"server_hello", "server_key_exchange", "certificate",
         "certificate_request", "server_hello_done"}
          \subseteq ClientKinds \cup ServerKinds
    BY DEF ServerKinds
  <2>2. y.peer.hs.crand \in Nat /\ y.peer.hs.srand \in Nat
    BY <1>6, ReadyType, HsType
  <2>3. v \in Proof
    BY <2>2 DEF Proof
  <2>4. cipher \in Cipher
    BY <1>1, HsType
  <2>5. <<cipher>> \in Seq(Cipher)
    BY <2>4
  <2>6. m0 \in Messages /\ m0.ht = "server_hello" /\ m0.suites = <<cipher>>
    <3> DEFINE s == <<cipher>>
               a == [Message("server_hello") EXCEPT !.rnd = y.peer.hs.srand]
    <3>1. a \in Messages /\ a.ht = "server_hello"
      BY <2>1, <2>2, MessageType
    <3>2. m0 = [a EXCEPT !.suites = s]
      OBVIOUS
    <3>3. s \in Seq(Cipher)
      BY <2>5
    <3> HIDE DEF a, s, m0
    <3>4. m0 \in Messages /\ m0.ht = "server_hello" /\ m0.suites = s
      BY <3>1, <3>2, <3>3 DEF Messages
    <3> QED BY <3>4 DEF s
  <2> HIDE DEF v, m0
  <2>7. ske \in Messages /\ ske.ht = "server_key_exchange"
    BY <2>1, <2>3, MessageType
  <2>8. \A k \in {"certificate", "certificate_request", "server_hello_done"} :
          Message(k) \in Messages /\ Message(k).ht = k
    BY <2>1, MessageType
  <2> QED BY <2>6, <2>7, <2>8
<1> HIDE DEF m0, v, ske
<1> DEFINE Good2(a) == /\ Tells(y, a) /\ a.peer.hs.mseq_s \in Nat
                       /\ a.peer.hs.mseq_s >= 2
                       /\ Dones(a.peer.hs.hash) = {}
<1>8. Good2(hello)
  <2>1. m0.suites[1] # "null"
    BY <1>7
  <2>2. /\ Tells(y, hello) /\ hello.peer.hs.mseq_s = y.peer.hs.mseq_s + 1
        /\ Dones(hello.peer.hs.hash) = Dones(y.peer.hs.hash)
    <3> HIDE DEF hello
    <3> QED BY <1>6, <1>7, <2>1, MessageTells DEF hello
  <2> HIDE DEF hello
  <2>3. y.peer.hs.mseq_s = x.peer.hs.mseq_s /\ y.peer.hs.hash = x.peer.hs.hash
    BY <1>3, <1>5
  <2> QED BY <1>1, <2>2, <2>3
<1>9. ASSUME NEW a, Good2(a), NEW m \in Messages,
             m.ht \in {"certificate", "server_key_exchange", "certificate_request"}
      PROVE  Good2(SendHandshake(a, m))
  <2> DEFINE b == SendHandshake(a, m)
  <2>1. Ready(a) /\ a.peer.hs.mseq_s >= 2
    BY <1>9 DEF Tells
  <2> HIDE DEF b
  <2>2. /\ Tells(a, b) /\ b.peer.hs.mseq_s = a.peer.hs.mseq_s + 1
        /\ Dones(b.peer.hs.hash) = Dones(a.peer.hs.hash)
    BY <1>9, <2>1, MessageTells DEF b
  <2>3. Tells(y, b)
    BY <1>9, <2>2, TellsTwice
  <2> QED BY <1>9, <2>2, <2>3 DEF b
<1> HIDE DEF Good2, hello, cert, ecdsa, ask, hint
<1>10. Good2(hint)
  BY <1>7, <1>8, <1>9 DEF hint
<1>11. Good2(cert)
  BY <1>7, <1>8, <1>9 DEF cert
<1>12. Good2(ecdsa)
  BY <1>7, <1>11, <1>9 DEF ecdsa
<1>13. Good2(ask)
  BY <1>7, <1>12, <1>9 DEF ask
<1>14. Good2(key)
  BY <1>8, <1>10, <1>12, <1>13
<1> HIDE DEF key
<1>15. Tells(y, key) /\ key.peer.hs.mseq_s \in Nat /\ Dones(key.peer.hs.hash) = {}
  BY <1>14 DEF Good2
<1> DEFINE m == Message("server_hello_done")
           n == Numbered(key, m)
<1>16. Orderly(n)
  <2>1. m \in Messages /\ m.ht = "server_hello_done"
    BY <1>7
  <2> HIDE DEF m
  <2>2. n.ht = m.ht
    BY <2>1 DEF Numbered, Messages
  <2> QED BY <2>1, <2>2 DEF Orderly
<1>17. /\ Tells(key, z) /\ z.peer.hs.mseq_s = key.peer.hs.mseq_s + 1
       /\ Dones(z.peer.hs.hash) =
            Dones(key.peer.hs.hash) \cup {<<n.ht, key.peer.hs.mseq_s, n.rnd>>}
  <2>1. Ready(key) /\ m \in Messages /\ m.ht = "server_hello_done"
    BY <1>7, <1>15 DEF Tells
  <2>2. z = SendHandshake(key, m)
    BY DEF z
  <2> HIDE DEF m
  <2> QED BY <1>16, <2>1, <2>2, SendTells
<1>18. Follows(z.peer.hs.hash, z.peer.hs.mseq_s)
  BY <1>15, <1>17 DEF Follows
<1>19. Tells(y, z)
  BY <1>15, <1>17, TellsTwice
<1>20. Adds(x, z, Told(x))
  <2>1. Told(y) = Told(x)
    BY <1>2, <1>5 DEF Told, Alike
  <2>2. Adds(y, z, Told(x))
    BY <1>19, <2>1 DEF Tells
  <2> QED BY <1>2, <1>5, <2>2 DEF Adds, Copies, Written, Waiting, Alike, Top
<1> QED BY <1>2, <1>3, <1>4, <1>5, <1>18, <1>19, <1>20 DEF Tells, Alike, Top

(* handle_verified_client_hello without a peer: the cookie is asked for,   *)
(* or the server's flight goes out, or no cipher suite is known.           *)
LEMMA FirstHelloFits ==
  ASSUME NEW c, NEW o, NEW x, Good("server", o, x), x.peer = NULL,
         ServerFit(c, x), NEW m \in Messages, m.ht = "client_hello"
  PROVE  ServerGets(c, Advance(ClientHello(x, m)))
<1> DEFINE e == ClientHello(x, m)
           a == Advance(e)
           w == WithHello(x, m.seq)
           y == UpdateParameters(w, m)
           h == Hash(y, m)
           z == SendServerHelloMsgs(h)
           st == IF Ecdsa(y.peer.hs.cipher) /\ ClientAuth(x)
                 THEN "WAIT_CLIENTCERTIFICATE" ELSE "WAIT_CLIENTKEYEXCHANGE"
<1>1. x \in Endpoints /\ m.seq \in Nat /\ m.rnd \in Nat
  BY DEF Messages, Good
<1>2. e = CASE m.cookie # Cookie(m) -> VerifyPeer(x, m)
            [] m.cookie = Cookie(m) /\ IsError(y) -> y
            [] OTHER -> SetState(z, st)
  BY DEF ClientHello, WithHello
<1>3. /\ Ready(w) /\ Silent(w)
      /\ w.out = x.out /\ w.sendqueue = x.sendqueue /\ w.done = x.done
      /\ w.peer.sec[0].epoch = 0 /\ w.peer.sec[0].key = NULL
      /\ w.peer.state = "INIT"
      /\ w.peer.hs.mseq_s = 1 /\ w.peer.hs.hash = <<>>
      /\ w.peer.hs.reorder_queue = {}
  BY <1>1, WithHelloIs
<1> HIDE DEF e, w
<1>4. /\ Ready(y) /\ Alike(w.peer, y.peer) /\ y.peer.hs.hash = w.peer.hs.hash
      /\ y.out = w.out /\ y.sendqueue = w.sendqueue /\ y.done = w.done
      /\ y.peer.hs.mseq_s = w.peer.hs.mseq_s
      /\ y.peer.hs.reorder_queue = w.peer.hs.reorder_queue
      /\ IsError(y) \/ y.peer.hs.cipher \in {"psk", "ecdsa"}
  BY <1>3, ParametersUpdated, ParametersKeep
<1> HIDE DEF y
<1>5. ServerFit(c, y) /\ Silent(y) /\ y \in Endpoints
  <2>1. ServerPeer(y)
    BY <1>3, <1>4 DEF ServerPeer, InHandshake, Alike
  <2>2. Queue(y) = {}
    BY <1>3, <1>4 DEF Queue
  <2>3. Silent(y)
    BY <1>3, <1>4 DEF Silent, Live, Alike, Ready
  <2>4. Written(y) = Written(x) /\ Waiting(y) = Waiting(x) /\ y.done = x.done
    BY <1>3, <1>4 DEF Written, Waiting
  <2> QED BY <1>4, <2>1, <2>2, <2>3, <2>4 DEF ServerFit, Ready
<1>6. CASE m.cookie # Cookie(m)
  <2> DEFINE n == [Message("hello_verify_request") EXCEPT !.cookie = Cookie(m)]
             rec == [ct |-> "handshake", epoch |-> 0, key |-> NULL, msg |-> n]
  <2>1. n \in Messages /\ n.ht = "hello_verify_request" /\ n.seq = 0
    <3>1. /\ Message("hello_verify_request") \in Messages
          /\ Message("hello_verify_request").ht = "hello_verify_request"
          /\ Message("hello_verify_request").seq = 0
      BY MessageType DEF ServerKinds, Message
    <3>2. Cookie(m) \in Nat
      BY <1>1 DEF Cookie
    <3> QED BY <3>1, <3>2 DEF Messages
  <2>2. e = SendHandshakeHash(x, n, FALSE)
    BY <1>2, <1>6 DEF VerifyPeer
  <2> HIDE DEF n
  <2>3. e = SendMulti(x, "handshake", n)
    BY <2>2 DEF SendHandshakeHash, HasHandshake
  <2>4. e = [x EXCEPT !.out = Append(@, rec)]
    BY <2>1, <2>3 DEF SendMulti, NewSecurity
  <2>5. rec \in Datagrams /\ Replied(rec)
    <3>1. n \in Contents /\ "handshake" \in ContentType
      BY <2>1 DEF Contents, ContentType
    <3>2. Orderly(n)
      BY <2>1 DEF Orderly
    <3> QED BY <3>1, <3>2 DEF Datagrams, Replied
  <2> HIDE DEF rec
  <2>6. x.out \in Seq(Datagrams)
    BY <1>1, EndpointType
  <2>7. /\ e.out = Append(x.out, rec) /\ e.sendqueue = x.sendqueue
        /\ e.peer = NULL /\ e.done = x.done
    BY <1>1, <2>4 DEF Endpoints
  <2>8. Written(e) = Written(x) \cup {rec} /\ Waiting(e) = Waiting(x)
    BY <2>5, <2>6, <2>7, AppendSet DEF Written, Waiting
  <2>9. ServerFit(c, e)
    BY <2>5, <2>7, <2>8 DEF ServerFit, ServerPeer, Queue, HasHandshake
  <2>10. Plain(e)
    BY <2>7 DEF Plain, Live
  <2>11. a = e
    BY <2>7 DEF Advance, HasHandshake
  <2> HIDE DEF a
  <2> QED BY <2>9, <2>10, <2>11 DEF ServerGets, Lasts, a, e
<1>7. CASE m.cookie = Cookie(m) /\ IsError(y)
  <2>1. e = y /\ a = y
    BY <1>2, <1>7 DEF Advance
  <2> HIDE DEF a
  <2> QED BY <1>5, <2>1, SilentPlain DEF ServerGets, Lasts, a, e
<1>8. CASE m.cookie = Cookie(m) /\ ~IsError(y)
  <2>1. e = SetState(z, st)
    BY <1>2, <1>8
  <2>2. st \in States /\ st \notin {"INIT", "CONNECTED", "CLOSING", "CLOSED"}
    BY DEF States
  <2>3. /\ Ready(h) /\ Top(y, h) /\ Alike(y.peer, h.peer)
        /\ SameHs(y.peer.hs, h.peer.hs)
        /\ h.peer.hs.mseq_s = y.peer.hs.mseq_s
        /\ h.peer.hs.hash = Append(y.peer.hs.hash, HashOf(m))
    BY <1>4, HashIs
  <2> HIDE DEF h, st
  <2>4. Dones(h.peer.hs.hash) = {}
    <3>1. m.ht # "server_hello_done"
      OBVIOUS
    <3> QED BY <1>3, <1>4, <2>3, <3>1, DonesNone
  <2>5. /\ h.peer.hs.cipher \in {"psk", "ecdsa"} /\ h.peer.hs.mseq_s >= 1
    BY <1>3, <1>4, <1>8, <2>3 DEF SameHs
  <2>6. /\ Ready(z) /\ Alike(h.peer, z.peer)
        /\ z.ret = h.ret /\ z.done = h.done
        /\ z.peer.hs.reorder_queue = h.peer.hs.reorder_queue
        /\ Adds(h, z, Told(h))
        /\ Follows(z.peer.hs.hash, z.peer.hs.mseq_s)
    BY <2>3, <2>4, <2>5, ServerFlightIs
  <2> HIDE DEF z
  <2>7. /\ e \in Endpoints /\ e.peer # NULL /\ e.peer.state = st
        /\ e.peer.id = z.peer.id /\ e.peer.hs = z.peer.hs
        /\ e.peer.sec = z.peer.sec /\ Top(z, e)
    BY <2>1, <2>2, <2>6, PutState DEF Ready
  <2>8. /\ a \in Endpoints /\ a.peer # NULL /\ a.peer.hs # NULL
        /\ a.out = e.out /\ a.sendqueue = e.sendqueue /\ a.done = e.done
        /\ a.peer.id = e.peer.id /\ a.peer.sec = e.peer.sec
        /\ a.peer.state = e.peer.state
        /\ a.peer.hs.mseq_s = e.peer.hs.mseq_s
        /\ a.peer.hs.reorder_queue = e.peer.hs.reorder_queue
        /\ a.peer.hs.hash = e.peer.hs.hash
    <3>1. e.peer.hs # NULL
      BY <2>6, <2>7 DEF Ready
    <3>2. /\ ~HasHandshake(e) \/ IsError(e) => a = e
          /\ HasHandshake(e) /\ ~IsError(e) =>
               /\ a \in Endpoints /\ a.peer # NULL /\ a.peer.hs # NULL
               /\ Top(e, a) /\ Alike(e.peer, a.peer)
               /\ a.peer.hs.mseq_s = e.peer.hs.mseq_s
               /\ a.peer.hs.reorder_queue = e.peer.hs.reorder_queue
               /\ a.peer.hs.hash = e.peer.hs.hash
      BY <2>7, AdvanceIs
    <3> HIDE DEF a
    <3> QED BY <2>7, <3>1, <3>2 DEF Top, Alike
  <2> HIDE DEF a
  <2>9. /\ h.peer.sec[0].epoch = 0 /\ h.peer.sec[0].key = NULL
        /\ a.peer.sec = h.peer.sec /\ a.peer.id = y.peer.id
        /\ a.peer.hs.reorder_queue = {}
        /\ a.done = y.done
    BY <1>3, <1>4, <2>3, <2>6, <2>7, <2>8 DEF Alike, Top, SameHs
  <2>10. Adds(y, a, Told(h))
    BY <2>3, <2>6, <2>7, <2>8
    DEF Adds, Copies, Written, Waiting, Top, Alike
  <2>11. \A r \in Told(h) : Replied(r) /\ r.epoch = 0
    BY <2>9 DEF Told, Replied
  <2>12. /\ \A r \in Written(a) : Replied(r)
         /\ \A k \in Waiting(a) : k.ct = "handshake" => Orderly(k.msg)
    BY <1>5, <2>10, <2>11, RepliedAfter
  <2>13. ServerPeer(a)
    BY <2>2, <2>6, <2>7, <2>8, <2>9 DEF ServerPeer, InHandshake
  <2>14. Queue(a) = {}
    BY <2>9 DEF Queue
  <2>15. Plain(a)
    BY <1>4, <1>5, <2>8, <2>9, <2>10, <2>11, PlainAfter DEF Ready
  <2>16. \A d \in a.done : Pinned(c, d.key, d.hash)
    BY <1>5, <2>9 DEF ServerFit
  <2>17. ServerFit(c, a)
    BY <2>12, <2>13, <2>14, <2>16 DEF ServerFit
  <2> QED BY <2>15, <2>17 DEF ServerGets, Lasts, a, e
<1> QED BY <1>6, <1>7, <1>8

(* A handshake message the server handles in a handshake. *)
LEMMA ServerMsgFits ==
  ASSUME NEW c, NEW o, NEW x, NEW role, NEW state, NEW m,
         Called("server", o, x, role, state, m), HasHandshake(x),
         ServerFit(c, x), Issued(c, m)
  PROVE  LET z == HandleHandshakeMsg(x, role, state, m)
         IN z.crashed \/ ServerGets(c, z)
<1> DEFINE y == StopRetransmission(x)
           z == HandleHandshakeMsg(x, role, state, m)
<1>1. /\ "server" \in Side /\ x \in Endpoints /\ Other("server") = "client"
      /\ Says("client", o.h, o.done, m)
  BY DEF Called, Good, Side, Other
<1>2. m.ht \in ClientKinds /\ m.ht # "hello_request"
  BY <1>1 DEF Says, Sends, ClientKinds
<1>3. z.crashed \/ Turns("server", o, x, m, y, z)
  BY <1>1, <1>2, MsgTurns
<1> HIDE DEF y, z
<1>4. ASSUME Turns("server", o, x, m, y, z) PROVE ServerGets(c, z)
  <2>1. /\ Good("server", o, y) /\ Less(x, y) /\ Silent(y) /\ y.peer = x.peer
        /\ y \in Endpoints
    BY <1>4 DEF Turns, Good
  <2>2. ServerFit(c, y)
    BY <1>1, <2>1, LessServes
  <2>3. HasHandshake(y)
    BY <2>1 DEF HasHandshake
  <2>4. CASE z = Error(y, "unexpected_message")
    <3>1. "unexpected_message" \in Errors
      BY DEF Errors
    <3>2. Less(y, z)
      BY <2>1, <2>4, <3>1, ErrorIsLess
    <3>3. Plain(y)
      BY <2>1, SilentPlain
    <3>4. ServerFit(c, z) /\ Plain(z)
      BY <2>1, <2>2, <3>2, <3>3, LessServes
    <3> QED BY <3>4 DEF ServerGets, Lasts
  <2>5. CASE Turn("server", o, y, m) /\ m.ht = "finished" /\ z = Finished(y, m)
    BY <2>1, <2>2, <2>5, ServerFinishedFits
  <2>6. CASE Turn("server", o, y, m) /\ m.ht # "finished"
             /\ z = Advance(Dispatch(y, m))
    <3>1. m.ht # "client_hello"
      <4>1. m.ht = "client_hello" => y.peer.state = "CONNECTED"
        BY <2>3, <2>6 DEF Turn, Expected, HasHandshake
      <4> QED BY <2>2, <2>3, <4>1 DEF ServerFit, ServerPeer, HasHandshake
    <3>2. m.ht \in {"certificate", "client_key_exchange", "certificate_verify"}
      BY <1>2, <2>6, <3>1 DEF ClientKinds
    <3>3. ServerPeer(y)
      BY <2>2 DEF ServerFit
    <3>4. Heeds(y, Dispatch(y, m))
      BY <2>6, <3>2, <3>3, ServerHears
    <3>5. ServerGets(c, Advance(Dispatch(y, m)))
      BY <2>1, <2>2, <2>3, <3>4, HeedsFits
    <3> QED BY <2>6, <3>5
  <2> QED BY <1>4, <2>4, <2>5, <2>6 DEF Turns
<1> QED BY <1>3, <1>4 DEF z

(* Another buffer of messages, for the server. *)
LEMMA ServerQueueFits ==
  ASSUME NEW c, NEW o, NEW x, Good("server", o, x), ServerFit(c, x),
         HasHandshake(x), NEW q, Mail("server", o, q), \A m \in q : Issued(c, m)
  PROVE  LET w == WithQueue(x, q)
         IN w \in Endpoints /\ ServerFit(c, w) /\ (Plain(x) => Plain(w))
<1> DEFINE w == WithQueue(x, q)
<1>1. /\ w \in Endpoints /\ Top(x, w) /\ w.peer # NULL
      /\ w.peer.hs # NULL /\ Alike(x.peer, w.peer) /\ Queue(w) \subseteq q
      /\ w.peer.hs.mseq_s = x.peer.hs.mseq_s
      /\ w.peer.hs.hash = x.peer.hs.hash
  BY QueueOnly
<1> HIDE DEF w
<1>2. /\ \A r \in Written(w) : Replied(r)
      /\ \A n \in Waiting(w) : n.ct = "handshake" => Orderly(n.msg)
      /\ \A d \in w.done : Pinned(c, d.key, d.hash)
  BY <1>1 DEF Top, ServerFit, Written, Waiting
<1>3. ServerPeer(w)
  BY <1>1 DEF ServerFit, ServerPeer, HasHandshake, Alike, InHandshake
<1>4. \A m \in Queue(w) : Issued(c, m)
  BY <1>1
<1>5. Plain(x) => Plain(w)
  BY <1>1 DEF Plain, HasHandshake, Alike, Live, Waiting, Top
<1> QED BY <1>1, <1>2, <1>3, <1>4, <1>5 DEF ServerFit, w

(* What a server is after one of its steps, unless it crashed. *)
ServerKeeps(c, y) == y.crashed \/ ServerGets(c, y)

(* One turn of the loop over the buffer, on the server. *)
LEMMA ServerDrain ==
  ASSUME NEW c, NEW o, NEW x, Good("server", o, x), ServerFit(c, x), ~Over(x)
  PROVE  ServerKeeps(c, Drain(x))
<1>1. PICK m, q : Takes("server", o, x, m, q)
  BY DrainTakes
<1> DEFINE w == WithQueue(x, q)
<1>2. \A n \in q \cup {m} : Issued(c, n)
  BY <1>1 DEF Takes, ServerFit
<1>3. HasHandshake(x) /\ Mail("server", o, q)
      /\ Called("server", o, w, x.peer.role, x.peer.state, m)
  BY <1>1 DEF Takes
<1>4. ServerFit(c, w)
  BY <1>2, <1>3, ServerQueueFits
<1>5. HasHandshake(w)
  BY <1>3, QueueOnly DEF HasHandshake
<1> DEFINE z == HandleHandshakeMsg(w, x.peer.role, x.peer.state, m)
<1> HIDE DEF w
<1>6. z.crashed \/ ServerGets(c, z)
  BY <1>2, <1>3, <1>4, <1>5, ServerMsgFits
<1> QED BY <1>1, <1>6 DEF Takes, ServerKeeps, w

(* The loop over the buffer, on the server. *)
LEMMA ServerDrainAll ==
  ASSUME NEW c, NEW o, NEW x, Good("server", o, x), ServerGets(c, x)
  PROVE  ServerKeeps(c, DrainAll(x))
<1> DEFINE V == {z \in Endpoints : ServerKeeps(c, z)}
<1>1. "server" \in Side /\ x \in Endpoints
  BY DEF Side, Good
<1>2. x \in V
  BY <1>1 DEF ServerKeeps
<1>3. ASSUME NEW z \in V, Good("server", o, z), ~Over(z)
      PROVE  Drain(z) \in V
  <2>1. ServerGets(c, z)
    BY <1>3 DEF Over, ServerKeeps
  <2>2. ServerKeeps(c, Drain(z))
    BY <1>3, <2>1, ServerDrain DEF ServerGets
  <2>3. Drain(z) \in Endpoints
    BY <1>1, <1>3, DrainOutcome DEF Outcome, Good
  <2> QED BY <2>2, <2>3
<1>4. DrainAll(x) \in V
  <2> HIDE DEF V
  <2> QED BY <1>1, <1>2, <1>3, DrainAllKeeps
<1> QED BY <1>4

(* handle_handshake on a server. *)
LEMMA ServerHandshakeFits ==
  ASSUME NEW c, NEW o, NEW x, NEW role, NEW state, NEW m,
         Good("server", o, x), x.ret = "ok", ServerFit(c, x), Plain(x),
         Says("client", o.h, o.done, m), Issued(c, m),
         x.peer # NULL => role = x.peer.role /\ state = x.peer.state,
         x.peer # NULL /\ x.peer.state = "CONNECTED" => m.ht = "finished"
  PROVE  ServerKeeps(c, HandleHandshake(x, role, state, m))
<1> DEFINE y == HandleHandshake(x, role, state, m)
           z == HandleHandshakeMsg(x, role, state, m)
<1>1. /\ x \in Endpoints /\ "server" \in Side /\ Other("server") = "client"
      /\ m \in Messages /\ m.ht # "hello_request"
  BY DEF Good, Side, Other, Says, Sends, ClientKinds
<1>2. HasHandshake(x) => x.peer.hs \in Handshakes
  BY <1>1, EndpointType, PeerType DEF HasHandshake
<1>3. ServerGets(c, x)
  BY DEF ServerGets, Lasts
<1>4. ASSUME NEW w, Less(x, w) PROVE ServerGets(c, w)
  BY <1>1, <1>4, LessServes DEF ServerGets, Lasts
<1>5. CASE HasHandshake(x) /\ m.seq = x.peer.hs.mseq_r
  <2>1. y = DrainAll(z)
    <3>1. ~(m.seq > x.peer.hs.mseq_r)
      BY <1>1, <1>2, <1>5, HsType DEF Messages
    <3> QED BY <1>1, <1>5, <3>1 DEF HandleHandshake, HasHandshake
  <2>2. Called("server", o, x, role, state, m)
    BY <1>1, <1>5 DEF Called, HasHandshake
  <2> HIDE DEF y, z
  <2>3. Good("server", o, z)
    BY <1>1, <2>2, MsgOutcome DEF Outcome, z
  <2>4. z.crashed \/ ServerGets(c, z)
    BY <1>5, <2>2, ServerMsgFits DEF z
  <2>5. z.crashed => y.crashed
    <3>1. Outcome("server", o, z, y)
      BY <1>1, <2>1, <2>3, DrainAllOutcome
    <3> QED BY <3>1 DEF Outcome
  <2>6. ServerGets(c, z) => ServerKeeps(c, y)
    BY <2>1, <2>3, ServerDrainAll
  <2> QED BY <2>4, <2>5, <2>6 DEF ServerKeeps, y
<1>6. CASE x.peer = NULL
  <2>1. CASE m.ht # "client_hello"
    <3>1. y = Error(x, "handshake_failure") /\ "handshake_failure" \in Errors
      BY <1>1, <1>6, <2>1 DEF HandleHandshake, HasHandshake, Errors
    <3>2. Less(x, y)
      BY <1>1, <3>1, ErrorIsLess
    <3> QED BY <1>4, <3>2 DEF ServerKeeps
  <2>2. CASE m.ht = "client_hello"
    <3>1. y = z
      BY <1>6, <2>2 DEF HandleHandshake, HasHandshake
    <3>2. z = IF ~Expected(x, role, state, m) THEN Error(x, "unexpected_message")
              ELSE Advance(ClientHello(x, m))
      BY <1>6, <2>2 DEF HandleHandshakeMsg, Dispatch
    <3> HIDE DEF y, z
    <3>3. CASE ~Expected(x, role, state, m)
      <4>1. z = Error(x, "unexpected_message") /\ "unexpected_message" \in Errors
        BY <3>2, <3>3 DEF Errors
      <4>2. Less(x, z)
        BY <1>1, <4>1, ErrorIsLess
      <4> QED BY <1>4, <3>1, <4>2 DEF ServerKeeps, y
    <3>4. CASE Expected(x, role, state, m)
      <4>1. ServerGets(c, Advance(ClientHello(x, m)))
        BY <1>1, <1>6, <2>2, FirstHelloFits
      <4> QED BY <3>1, <3>2, <3>4, <4>1 DEF ServerKeeps, y
    <3> QED BY <3>3, <3>4
  <2> QED BY <2>1, <2>2
<1>7. CASE x.peer # NULL /\ ~HasHandshake(x)
  <2>1. CASE m.ht # "client_hello"
    <3>1. y = x
      BY <1>1, <1>7, <2>1 DEF HandleHandshake
    <3> QED BY <1>3, <3>1 DEF ServerKeeps
  <2>2. CASE m.ht = "client_hello"
    <3> DEFINE w == StopRetransmission(x)
    <3>1. y = z
      BY <1>7, <2>2 DEF HandleHandshake
    <3>2. ~Expected(x, role, state, m)
      BY <1>7, <2>2 DEF Expected
    <3>3. z = Error(w, "unexpected_message") /\ "unexpected_message" \in Errors
      BY <1>7, <3>2 DEF HandleHandshakeMsg, Errors
    <3>4. Less(x, w)
      BY <1>1, <1>7, StopIsLess
    <3> HIDE DEF w, y, z
    <3>5. Less(w, z)
      BY <3>3, <3>4, ErrorIsLess DEF Less
    <3>6. Less(x, z)
      BY <3>4, <3>5, LessTwice
    <3> QED BY <1>4, <3>1, <3>6 DEF ServerKeeps, y
  <2> QED BY <2>1, <2>2
<1>8. CASE HasHandshake(x) /\ m.seq > x.peer.hs.mseq_r
  <2> DEFINE q == x.peer.hs.reorder_queue
  <2>1. y = Buffer(x, m)
    <3>1. m.seq # x.peer.hs.mseq_r
      BY <1>1, <1>2, <1>8, HsType DEF Messages
    <3> QED BY <1>1, <1>8, <3>1 DEF HandleHandshake, HasHandshake
  <2>2. CASE q = NULL
    <3>1. y = Crash(x, "null_queue")
      BY <2>1, <2>2 DEF Buffer
    <3> HIDE DEF y
    <3> QED BY <1>1, <3>1, CrashSame DEF ServerKeeps, y
  <2>3. CASE q # NULL /\ \E n \in q : n.seq = m.seq
    BY <1>3, <2>1, <2>3 DEF Buffer, ServerKeeps
  <2>4. CASE q # NULL /\ ~\E n \in q : n.seq = m.seq
    <3> DEFINE R == q \cup {m}
    <3>1. y = WithQueue(x, R)
      BY <2>1, <2>4 DEF Buffer, WithQueue
    <3>2. q = Queue(x)
      BY <1>8, <2>4 DEF Queue, HasHandshake
    <3>3. Mail("server", o, q) /\ \A n \in q : Issued(c, n)
      BY <3>2, QueueIs DEF ServerFit
    <3> HIDE DEF q
    <3>4. Mail("server", o, R)
      <4>1. IsFiniteSet(R)
        BY <3>3, FS_AddElement DEF Mail
      <4> QED BY <1>1, <2>4, <3>3, <4>1 DEF Mail
    <3>5. \A n \in R : Issued(c, n)
      BY <3>3
    <3> HIDE DEF R, y
    <3>6. ServerFit(c, WithQueue(x, R)) /\ Plain(WithQueue(x, R))
      BY <1>8, <3>4, <3>5, ServerQueueFits
    <3> QED BY <3>1, <3>6 DEF ServerKeeps, ServerGets, Lasts, y
  <2> QED BY <2>2, <2>3, <2>4
<1>9. CASE HasHandshake(x) /\ ~(m.seq > x.peer.hs.mseq_r)
           /\ m.seq # x.peer.hs.mseq_r
  <2>1. y = x
    BY <1>1, <1>9 DEF HandleHandshake, HasHandshake
  <2> QED BY <1>3, <2>1 DEF ServerKeeps
<1> QED BY <1>5, <1>6, <1>7, <1>8, <1>9

(* handle_handshake and what dtls_handle_message does after it, on a       *)
(* server.                                                                 *)
LEMMA ServerRecordFits ==
  ASSUME NEW c, NEW o, NEW x, Good("server", o, x), x.ret = "ok",
         ServerFit(c, x), Plain(x), Quiet(x),
         NEW record, record.ct = "handshake", Asked(c, record),
         Says("client", o.h, o.done, record.msg)
  PROVE  LET z == HandleHandshakeRecord(x, record)
         IN z.crashed \/ (ServerFit(c, z) /\ Plain(z) /\ Settled(z))
<1> DEFINE z == HandleHandshakeRecord(x, record)
<1>1. "server" \in Side /\ Other("server") = "client"
  BY DEF Side, Other
<1>2. Says(Other("server"), o.h, o.done, record.msg)
  BY <1>1
<1>3. PICK y : Concerns(x, record, y, z) /\ Outcome("server", o, x, y)
  BY <1>1, <1>2, RecordConcerns
<1>4. Result("server", o, x, z)
  BY <1>1, <1>2, HandshakeRecordResult
<1> HIDE DEF z
<1>5. CASE x.peer # NULL /\ record.epoch # ExpectedEpoch(x.peer) /\ z = x
  BY <1>5 DEF Settled, IsError, z
<1>6. CASE /\ x.peer # NULL => record.epoch = ExpectedEpoch(x.peer)
           /\ Less(y, z) /\ Settled(z)
           /\ ~IsError(y) => z.peer = y.peer
           /\ \/ x.peer # NULL /\ y = HandleHandshake(x, x.peer.role, x.peer.state, record.msg)
              \/ x.peer = NULL /\ y = HandleHandshake(x, "server", "WAIT_CLIENTHELLO", record.msg)
  <2>1. y \in Endpoints
    BY <1>3 DEF Outcome, Good
  <2>2. Issued(c, record.msg)
    BY DEF Asked
  <2>3. x.peer # NULL /\ x.peer.state = "CONNECTED" => record.msg.ht = "finished"
    <3> SUFFICES ASSUME x.peer # NULL, x.peer.state = "CONNECTED"
                 PROVE  record.msg.ht = "finished"
      OBVIOUS
    <3>1. x.peer.sec[0].key \in KeyBlock
      BY DEF Good, Sound
    <3>2. x.peer.sec[0].key # NULL
      BY <3>1, NullAssumption DEF KeyBlock
    <3>3. x.peer.sec[0].epoch # 0
      BY <3>2 DEF ServerFit, ServerPeer
    <3>4. record.epoch # 0
      BY <1>6, <3>3 DEF ExpectedEpoch
    <3> QED BY <3>4 DEF Asked
  <2>4. ServerKeeps(c, y)
    <3>1. CASE x.peer # NULL /\ y = HandleHandshake(x, x.peer.role, x.peer.state, record.msg)
      BY <2>2, <2>3, <3>1, ServerHandshakeFits
    <3>2. CASE x.peer = NULL /\ y = HandleHandshake(x, "server", "WAIT_CLIENTHELLO", record.msg)
      BY <2>2, <3>2, ServerHandshakeFits
    <3> QED BY <1>6, <3>1, <3>2
  <2>5. CASE y.crashed
    BY <1>6, <2>5 DEF Less, z
  <2>6. CASE ServerGets(c, y)
    <3>1. ServerFit(c, z) /\ (Plain(y) => Plain(z))
      BY <1>6, <2>1, <2>6, LessServes DEF ServerGets
    <3>2. CASE y.peer # NULL /\ y.peer.state = "CONNECTED" /\ ~IsError(y)
      <4>1. z.peer = y.peer /\ y.peer.hs = NULL
        BY <1>6, <2>6, <3>2 DEF ServerGets, ServerFit, ServerPeer
      <4>2. z.crashed \/ Silent(z)
        BY <1>4, <3>2, <4>1 DEF Result, Quiet
      <4>3. z \in Endpoints
        BY <1>6 DEF Less
      <4>4. Silent(z) => Plain(z)
        BY <4>3, SilentPlain
      <4> QED BY <1>6, <3>1, <4>2, <4>4 DEF z
    <3>3. CASE Plain(y)
      BY <1>6, <3>1, <3>3 DEF z
    <3> QED BY <2>6, <3>2, <3>3 DEF ServerGets, Lasts
  <2> QED BY <2>4, <2>5, <2>6 DEF ServerKeeps
<1> QED BY <1>3, <1>5, <1>6 DEF Concerns

(* decrypt_verify on a server: at most the other parameters were freed. *)
LEMMA ServerDeciphers ==
  ASSUME NEW c, NEW o, NEW x, Good("server", o, x), ServerFit(c, x),
         x.peer # NULL, NEW record, NEW y, Deciphers(x, record, y)
  PROVE  ServerFit(c, y) /\ (Plain(x) => Plain(y))
<1>1. /\ x \in Endpoints /\ y \in Endpoints /\ Top(x, y) /\ y.peer # NULL
      /\ y.peer.id = x.peer.id
      /\ y.peer.role = x.peer.role /\ y.peer.state = x.peer.state
      /\ y.peer.hs = x.peer.hs /\ y.peer.sec[0] = x.peer.sec[0]
  BY DEF Deciphers, Good
<1>2. ServerPeer(y)
  BY <1>1 DEF ServerFit, ServerPeer, InHandshake
<1>3. /\ \A r \in Written(y) : Replied(r)
      /\ \A n \in Waiting(y) : n.ct = "handshake" => Orderly(n.msg)
      /\ \A d \in y.done : Pinned(c, d.key, d.hash)
  BY <1>1 DEF Top, ServerFit, Written, Waiting
<1>4. \A m \in Queue(y) : Issued(c, m)
  BY <1>1 DEF Queue, HasHandshake, ServerFit
<1>5. Plain(x) => Plain(y)
  BY <1>1 DEF Plain, Live, Waiting, Top
<1> QED BY <1>2, <1>3, <1>4, <1>5 DEF ServerFit

(* handle_ccs on a server: the key block in a silent endpoint. *)
LEMMA ServerCcsFits ==
  ASSUME NEW c, NEW w, Ready(w), ServerFit(c, w), Silent(w), w.ret = "ok",
         InHandshake(w.peer)
  PROVE  LET z == SetState(CalculateKeyBlock(w), "WAIT_FINISHED")
         IN ServerFit(c, z) /\ Plain(z) /\ Settled(z)
<1> DEFINE k == CalculateKeyBlock(w)
           z == SetState(k, "WAIT_FINISHED")
<1>1. /\ Ready(k) /\ Top(w, k) /\ k.peer.id = w.peer.id
      /\ KeyOnly(w.peer.hs, k.peer.hs) /\ k.peer.sec[0] = w.peer.sec[0]
  BY KeyBlockIs
<1> HIDE DEF k
<1>2. "WAIT_FINISHED" \in States
  BY DEF States
<1>3. /\ z \in Endpoints /\ z.peer # NULL /\ z.peer.state = "WAIT_FINISHED"
      /\ z.peer.id = k.peer.id /\ z.peer.hs = k.peer.hs
      /\ z.peer.sec = k.peer.sec /\ Top(k, z)
  BY <1>1, <1>2, PutState DEF Ready
<1> HIDE DEF z
<1>4. w.peer # NULL /\ w.peer.hs # NULL /\ k.peer.hs # NULL
  BY <1>1 DEF Ready
<1>5. ServerPeer(z)
  <2>1. /\ w.peer.sec[0].epoch = 0 => w.peer.sec[0].key = NULL
        /\ w.peer.sec[0].epoch = 0 /\ Follows(w.peer.hs.hash, w.peer.hs.mseq_s)
    BY <1>4 DEF ServerFit, ServerPeer
  <2>2. Follows(z.peer.hs.hash, z.peer.hs.mseq_s)
    BY <1>1, <1>3, <2>1 DEF KeyOnly
  <2> QED BY <1>1, <1>3, <2>1, <2>2 DEF ServerPeer
<1>6. /\ \A r \in Written(z) : Replied(r)
      /\ \A n \in Waiting(z) : n.ct = "handshake" => Orderly(n.msg)
      /\ \A d \in z.done : Pinned(c, d.key, d.hash)
  BY <1>1, <1>3 DEF Top, ServerFit, Written, Waiting
<1>7. \A m \in Queue(z) : Issued(c, m)
  <2>1. Queue(z) = Queue(w)
    BY <1>1, <1>3, <1>4 DEF Queue, HasHandshake, KeyOnly
  <2> QED BY <2>1 DEF ServerFit
<1>8. Silent(z)
  BY <1>1, <1>3, <1>4 DEF Silent, Live, Top
<1>9. Plain(z) /\ Settled(z)
  <2>1. z.ret = "ok"
    BY <1>1, <1>3 DEF Top
  <2> QED BY <1>3, <1>8, <2>1, SilentPlain DEF Settled, IsError
<1> QED BY <1>5, <1>6, <1>7, <1>9 DEF ServerFit, z, k

(* dtls_handle_message on a server, for a record the client wrote. *)
LEMMA ServerMessageFits ==
  ASSUME NEW c, NEW o, NEW x, Good("server", o, x), x.ret = "ok",
         ServerFit(c, x), Plain(x), Quiet(x),
         NEW record, record.ct \in ContentType, Asked(c, record),
         record.ct = "handshake" => Says("client", o.h, o.done, record.msg)
  PROVE  LET z == HandleMessage(x, record)
         IN z.crashed \/ (ServerFit(c, z) /\ Plain(z) /\ Settled(z))
<1> DEFINE z == HandleMessage(x, record)
           y == IF x.peer = NULL THEN x ELSE DecryptVerify(x, record)
<1>1. Arrives(x, record, y, z)
  BY MessageArrives
<1>2. Good("server", o, y) /\ y.ret = "ok" /\ (y.crashed \/ Quiet(y))
  <2>1. CASE x.peer = NULL
    BY <2>1
  <2>2. CASE x.peer # NULL
    <3> DEFINE w == DecryptVerify(x, record)
    <3>1. Passes("server", o, x, w) /\ w.ret = x.ret
      BY <2>2, DecryptPasses
    <3> HIDE DEF w
    <3> QED BY <2>2, <3>1 DEF Passes, Result, w
  <2> QED BY <2>1, <2>2
<1> HIDE DEF z, y
<1>3. x \in Endpoints /\ y \in Endpoints
  BY <1>2 DEF Good
<1>4. ASSUME x.peer # NULL, Deciphers(x, record, y)
      PROVE  ServerFit(c, y) /\ Plain(y)
  BY <1>4, ServerDeciphers
<1>5. CASE Less(x, z) /\ Settled(z)
  <2>1. ServerFit(c, z) /\ Plain(z)
    BY <1>3, <1>5, LessServes
  <2> QED BY <1>5, <2>1 DEF z
<1>6. CASE /\ x.peer # NULL /\ Deciphers(x, record, y)
           /\ Less(y, z) /\ Settled(z) /\ (z.crashed \/ Silent(z))
  <2>1. ServerFit(c, y) /\ Plain(y)
    BY <1>4, <1>6
  <2>2. ServerFit(c, z) /\ Plain(z)
    BY <1>3, <1>6, <2>1, LessServes
  <2> QED BY <1>6, <2>2 DEF z
<1>7. CASE /\ x.peer # NULL /\ Deciphers(x, record, y) /\ record.ct = "ccs"
           /\ \E w : /\ Less(y, w) /\ (w.crashed \/ Silent(w)) /\ w.peer = y.peer
                     /\ w.ret = "ok" /\ w.peers = y.peers
                     /\ w.peer.state = "WAIT_CHANGECIPHERSPEC"
                     /\ w.peer.role = "server"
                     /\ z = SetState(CalculateKeyBlock(w), "WAIT_FINISHED")
  <2>1. ServerFit(c, y) /\ y.peer # NULL
    BY <1>4, <1>7 DEF Deciphers
  <2>2. PICK w : /\ Less(y, w) /\ (w.crashed \/ Silent(w)) /\ w.peer = y.peer
                 /\ w.ret = "ok" /\ w.peers = y.peers
                 /\ w.peer.state = "WAIT_CHANGECIPHERSPEC"
                 /\ w.peer.role = "server"
                 /\ z = SetState(CalculateKeyBlock(w), "WAIT_FINISHED")
    BY <1>7
  <2>3. InHandshake(w.peer) /\ w \in Endpoints
    BY <2>2 DEF InHandshake, Less
  <2>4. Sound("server", y)
    BY <1>2, <2>1 DEF Good
  <2>5. Ready(w)
    BY <2>1, <2>2, <2>3, <2>4 DEF Sound, Ready
  <2>6. ServerFit(c, w)
    BY <1>3, <2>1, <2>2, LessServes
  <2>7. CASE Silent(w)
    <3>1. ServerFit(c, SetState(CalculateKeyBlock(w), "WAIT_FINISHED"))
          /\ Plain(SetState(CalculateKeyBlock(w), "WAIT_FINISHED"))
          /\ Settled(SetState(CalculateKeyBlock(w), "WAIT_FINISHED"))
      BY <2>2, <2>3, <2>5, <2>6, <2>7, ServerCcsFits
    <3> QED BY <2>2, <3>1 DEF z
  <2>8. CASE w.crashed
    <3> DEFINE k == CalculateKeyBlock(w)
    <3>1. Ready(k) /\ Top(w, k)
      BY <2>5, KeyBlockIs
    <3> HIDE DEF k
    <3>2. "WAIT_FINISHED" \in States
      BY DEF States
    <3>3. Top(k, SetState(k, "WAIT_FINISHED"))
      BY <3>1, <3>2, PutState DEF Ready
    <3>4. SetState(k, "WAIT_FINISHED").crashed
      BY <2>8, <3>1, <3>3 DEF Top
    <3> QED BY <2>2, <3>4 DEF z, k
  <2> QED BY <2>2, <2>7, <2>8
<1>8. CASE /\ record.ct = "handshake" /\ z = HandleHandshakeRecord(y, record)
           /\ \/ x.peer = NULL /\ y = x /\ record.key = NULL
              \/ x.peer # NULL /\ Deciphers(x, record, y)
  <2>1. ServerFit(c, y) /\ Plain(y)
    BY <1>4, <1>8
  <2>2. Says("client", o.h, o.done, record.msg)
    BY <1>8
  <2>3. CASE Quiet(y)
    <3> DEFINE w == HandleHandshakeRecord(y, record)
    <3>1. w.crashed \/ (ServerFit(c, w) /\ Plain(w) /\ Settled(w))
      BY <1>2, <1>8, <2>1, <2>2, <2>3, ServerRecordFits
    <3> HIDE DEF w
    <3>2. z = w
      BY <1>8 DEF w
    <3> QED BY <3>1, <3>2 DEF z
  <2>4. CASE y.crashed
    <3>1. "server" \in Side /\ Other("server") = "client"
      BY DEF Side, Other
    <3>2. Says(Other("server"), o.h, o.done, record.msg)
      BY <2>2, <3>1
    <3>3. Result("server", o, y, HandleHandshakeRecord(y, record))
      BY <1>2, <3>1, <3>2, HandshakeRecordResult
    <3> QED BY <1>8, <2>4, <3>3 DEF Result, z
  <2> QED BY <1>2, <2>3, <2>4
<1> QED BY <1>1, <1>5, <1>6, <1>7, <1>8 DEF Arrives

(* A retransmission of a server. *)
LEMMA ServerRetransmits ==
  ASSUME NEW c, NEW x \in Endpoints, x.out = <<>>, x.ret = "ok",
         ServerFit(c, x), Plain(x), x.peer # NULL => x.peer.sec[0] # NULL,
         NEW node \in Waiting(x)
  PROVE  LET y == Retransmit(x, node)
         IN ServerFit(c, y) /\ Plain(y) /\ Settled(y)
<1> DEFINE y == Retransmit(x, node)
<1>1. /\ Sent(x, y) /\ y.ret = x.ret
      /\ \A r \in Written(y) : Resent(x, node, r)
  BY Retransmits
<1> HIDE DEF y
<1>2. ASSUME NEW r \in Written(y) PROVE Replied(r)
  <2>1. Resent(x, node, r)
    BY <1>1
  <2>2. r.ct = "handshake" => Orderly(r.msg)
    BY <2>1 DEF Resent, ServerFit
  <2>3. r.key = NULL
    <3>1. CASE r.epoch = 0 /\ r.key = NULL
      BY <3>1
    <3>2. CASE Live(x, node)
      <4>1. node.epoch = 0 /\ x.peer.sec[0].epoch = 0 /\ x.peer # NULL
        BY <3>2 DEF Plain, Live
      <4>2. x.peer.sec[0].key = NULL
        BY <4>1 DEF ServerFit, ServerPeer
      <4> QED BY <2>1, <4>1, <4>2 DEF Resent, Slot
    <3> QED BY <2>1, <3>1, <3>2 DEF Resent
  <2> QED BY <2>2, <2>3 DEF Replied
<1>3. /\ y.peer = x.peer /\ y.sendqueue = x.sendqueue /\ y.done = x.done
  BY <1>1 DEF Sent
<1>4. /\ \A n \in Waiting(y) : n.ct = "handshake" => Orderly(n.msg)
      /\ \A d \in y.done : Pinned(c, d.key, d.hash)
      /\ ServerPeer(y)
  BY <1>3 DEF ServerFit, Waiting, ServerPeer
<1>5. \A m \in Queue(y) : Issued(c, m)
  BY <1>3 DEF Queue, HasHandshake, ServerFit
<1>6. Plain(y)
  BY <1>3 DEF Plain, Live, Waiting
<1>7. Settled(y)
  BY <1>1 DEF Settled, IsError
<1> QED BY <1>2, <1>4, <1>5, <1>6, <1>7 DEF ServerFit, y

-----------------------------------------------------------------------------
(* The two sides together *)

(* Between handlers: what the client waits to send again can be, what the  *)
(* server waits to send again goes out under the parameters it started     *)
(* with, and all that is on the way fits the client as it is now.          *)
NInv ==
  /\ ClientFit(ep["client"]) /\ Holds(ep["client"])
  /\ ServerFit(ep["client"], ep["server"]) /\ Plain(ep["server"])
  /\ \A r \in net["client"] : Asked(ep["client"], r)
  /\ \A r \in net["server"] : Replied(r)

(* What a handler of each side ends with, unless it crashed.               *)
ClientMoved(x, y) == y.crashed \/ (ClientGets(x, y) /\ Settled(y))
ServerMoved(c, y) == y.crashed \/ (ServerFit(c, y) /\ Plain(y) /\ Settled(y))

(* At the end of a handler what it wrote leaves the endpoint. *)
LEMMA ResetIsLess ==
  ASSUME NEW s, NEW o, NEW y, Good(s, o, y), Settled(y)
  PROVE  LET z == Reset(y) IN z \in Endpoints /\ Less(y, z)
<1> DEFINE z == Reset(y)
<1>1. Idle(z) /\ Sent(y, z)
  BY ResetIs
<1>2. z.crashed = y.crashed
  BY DEF Reset, Good, Endpoints
<1> HIDE DEF z
<1>3. z.out = <<>> /\ z.sendqueue = y.sendqueue /\ z.peer = y.peer
  BY <1>1 DEF Idle, Sent
<1>4. Written(z) = {} /\ Waiting(z) = Waiting(y)
  BY <1>3 DEF Written, Waiting, ToSet
<1>5. Less(y, z)
  BY <1>1, <1>2, <1>3, <1>4 DEF Less, Sent, Settled
<1> QED BY <1>1, <1>5 DEF Sent, z

(* A crash leaves the endpoint as it was before the handler. *)
LEMMA FailedIsLess ==
  ASSUME NEW s, NEW o, NEW x, Good(s, o, x), NEW y \in Endpoints
  PROVE  LET z == Failed(x, y) IN z \in Endpoints /\ Less(x, z)
<1> DEFINE z == Failed(x, y)
<1>1. Same(x, z)
  BY FailedIs
<1>2. z.crashed /\ z.ret = x.ret
  BY DEF Failed, Good, Endpoints
<1> HIDE DEF z
<1>3. Less(x, z)
  BY <1>1, <1>2, SameIsLess
<1> QED BY <1>1, <1>3 DEF Same, z

(* What a step is, whichever side takes it. *)
LEMMA StepIs ==
  ASSUME IInv, NEW s \in Side, NEW y \in Endpoints, Step(s, y)
  PROVE  \/ /\ y.crashed /\ ep' = [ep EXCEPT ![s] = Failed(ep[s], y)]
            /\ net' = net
         \/ /\ ~y.crashed /\ ep' = [ep EXCEPT ![s] = Reset(y)]
            /\ net'[s] = net[s] \cup Written(y) /\ net'[Other(s)] = net[Other(s)]
<1>1. ep \in [Side -> Endpoints] /\ net \in [Side -> SUBSET Datagrams]
  BY DEF IInv
<1>2. CASE y.crashed
  <2>1. /\ ep' = [ep EXCEPT ![s].crashed = TRUE, ![s].faults = y.faults]
        /\ net' = net
    BY <1>2 DEF Step
  <2>2. ep' = [ep EXCEPT ![s] = Failed(ep[s], y)]
    BY <1>1, <2>1 DEF Failed
  <2> QED BY <1>2, <2>1, <2>2
<1>3. CASE ~y.crashed
  <2>1. /\ ep' = [ep EXCEPT ![s] = Reset(y)]
        /\ net' = [net EXCEPT ![s] = @ \cup ToSet(y.out)]
    BY <1>3 DEF Step, Reset
  <2>2. net'[s] = net[s] \cup Written(y) /\ net'[Other(s)] = net[Other(s)]
    BY <1>1, <2>1, Sides DEF Written
  <2> QED BY <1>3, <2>1, <2>2
<1> QED BY <1>2, <1>3

(* The client becomes z: the server still fits it. *)
LEMMA ClientTo ==
  ASSUME IInv, NInv, NEW z \in Endpoints, ep' = [ep EXCEPT !["client"] = z],
         ClientFit(z), Holds(z), Pins(ep["client"], z),
         \A r \in net'["client"] : r \in net["client"] \/ Asked(z, r),
         net'["server"] = net["server"]
  PROVE  NInv'
<1> DEFINE x == ep["client"]
           v == ep["server"]
<1>1. "client" \in Side /\ "server" \in Side /\ ep \in [Side -> Endpoints]
  BY DEF IInv, Side
<1>2. ep'["client"] = z /\ ep'["server"] = v /\ x \in Endpoints
  BY <1>1
<1>3. \A r \in net["client"] : Asked(x, r)
  BY DEF NInv
<1>4. ServerFit(x, v)
  BY DEF NInv
<1> HIDE DEF x, v
<1>5. Pins(x, z)
  BY DEF x
<1>6. ASSUME NEW key, NEW hash, Pinned(x, key, hash)
      PROVE  Pinned(z, key, hash)
  BY <1>2, <1>5, <1>6, PinnedOn, RandomType
<1>7. ServerFit(z, v)
  BY <1>4, <1>6 DEF ServerFit, Issued
<1>8. \A r \in net'["client"] : Asked(z, r)
  BY <1>2, <1>3, <1>5, AskedOn
<1> QED BY <1>2, <1>7, <1>8 DEF NInv, v

(* The server becomes z. *)
LEMMA ServerTo ==
  ASSUME IInv, NInv, NEW z \in Endpoints, ep' = [ep EXCEPT !["server"] = z],
         ServerFit(ep["client"], z), Plain(z),
         \A r \in net'["server"] : r \in net["server"] \/ Replied(r),
         net'["client"] = net["client"]
  PROVE  NInv'
<1>1. "client" \in Side /\ "server" \in Side /\ ep \in [Side -> Endpoints]
  BY DEF IInv, Side
<1>2. ep'["client"] = ep["client"] /\ ep'["server"] = z
  BY <1>1
<1>3. \A r \in net'["server"] : Replied(r)
  BY DEF NInv
<1> QED BY <1>2, <1>3 DEF NInv

(* A step of the client. *)
LEMMA ClientSteps ==
  ASSUME IInv, NInv, NEW y, Step("client", y),
         Good("client", ep["server"], y), ClientMoved(ep["client"], y)
  PROVE  NInv'
<1> DEFINE x == ep["client"]
<1>1. /\ "client" \in Side /\ "server" \in Side /\ Other("client") = "server"
      /\ y \in Endpoints /\ x \in Endpoints
      /\ Good("client", ep[Other("client")], x)
  BY DEF IInv, Side, Other, Good
<1>2. ClientFit(x) /\ Holds(x)
  BY DEF NInv
<1>3. \/ /\ y.crashed /\ ep' = [ep EXCEPT !["client"] = Failed(x, y)]
         /\ net' = net
      \/ /\ ~y.crashed /\ ep' = [ep EXCEPT !["client"] = Reset(y)]
         /\ net'["client"] = net["client"] \cup Written(y)
         /\ net'["server"] = net["server"]
  BY <1>1, StepIs
<1> HIDE DEF x
<1>4. CASE y.crashed
  <2> DEFINE z == Failed(x, y)
  <2>1. z \in Endpoints /\ Less(x, z)
    BY <1>1, FailedIsLess
  <2>2. ep' = [ep EXCEPT !["client"] = z] /\ net' = net
    BY <1>3, <1>4
  <2> HIDE DEF z
  <2>3. ClientFit(z) /\ Holds(z) /\ Pins(x, z)
    BY <1>1, <1>2, <2>1, LessFits
  <2> QED BY <2>1, <2>2, <2>3, ClientTo DEF x
<1>5. CASE ~y.crashed
  <2> DEFINE z == Reset(y)
  <2>1. ClientGets(x, y) /\ Settled(y)
    BY <1>5 DEF ClientMoved, x
  <2>2. z \in Endpoints /\ Less(y, z)
    BY <2>1, ResetIsLess
  <2>3. /\ ep' = [ep EXCEPT !["client"] = z]
        /\ net'["client"] = net["client"] \cup Written(y)
        /\ net'["server"] = net["server"]
    BY <1>3, <1>5
  <2> HIDE DEF z
  <2>4. ClientFit(z) /\ Holds(z) /\ Pins(y, z)
    BY <1>1, <2>1, <2>2, LessFits DEF ClientGets
  <2>5. Pins(x, z)
    BY <1>1, <2>1, <2>2, <2>4, PinsTwice, RandomType DEF ClientGets
  <2>6. \A r \in Written(y) : Asked(z, r)
    BY <1>1, <2>1, <2>2, <2>4, AskedOn DEF ClientGets, ClientFit
  <2> QED BY <2>2, <2>3, <2>4, <2>5, <2>6, ClientTo DEF x
<1> QED BY <1>4, <1>5

(* A step of the server. *)
LEMMA ServerSteps ==
  ASSUME IInv, NInv, NEW y, Step("server", y),
         Good("server", ep["client"], y), ServerMoved(ep["client"], y)
  PROVE  NInv'
<1> DEFINE x == ep["server"]
           c == ep["client"]
<1>1. /\ "client" \in Side /\ "server" \in Side /\ Other("server") = "client"
      /\ y \in Endpoints /\ x \in Endpoints
      /\ Good("server", ep[Other("server")], x)
  BY DEF IInv, Side, Other, Good
<1>2. ServerFit(c, x) /\ Plain(x)
  BY DEF NInv
<1>3. \/ /\ y.crashed /\ ep' = [ep EXCEPT !["server"] = Failed(x, y)]
         /\ net' = net
      \/ /\ ~y.crashed /\ ep' = [ep EXCEPT !["server"] = Reset(y)]
         /\ net'["server"] = net["server"] \cup Written(y)
         /\ net'["client"] = net["client"]
  BY <1>1, StepIs
<1> HIDE DEF x, c
<1>4. CASE y.crashed
  <2> DEFINE z == Failed(x, y)
  <2>1. z \in Endpoints /\ Less(x, z)
    BY <1>1, FailedIsLess
  <2>2. ep' = [ep EXCEPT !["server"] = z] /\ net' = net
    BY <1>3, <1>4
  <2> HIDE DEF z
  <2>3. ServerFit(c, z) /\ Plain(z)
    BY <1>1, <1>2, <2>1, LessServes
  <2> QED BY <2>1, <2>2, <2>3, ServerTo DEF c
<1>5. CASE ~y.crashed
  <2> DEFINE z == Reset(y)
  <2>1. ServerFit(c, y) /\ Plain(y) /\ Settled(y)
    BY <1>5 DEF ServerMoved, c
  <2>2. z \in Endpoints /\ Less(y, z)
    BY <2>1, ResetIsLess
  <2>3. /\ ep' = [ep EXCEPT !["server"] = z]
        /\ net'["server"] = net["server"] \cup Written(y)
        /\ net'["client"] = net["client"]
    BY <1>3, <1>5
  <2> HIDE DEF z
  <2>4. ServerFit(c, z) /\ Plain(z)
    BY <1>1, <2>1, <2>2, LessServes
  <2>5. \A r \in Written(y) : Replied(r)
    BY <2>1 DEF ServerFit
  <2> QED BY <2>2, <2>3, <2>4, <2>5, ServerTo DEF c
<1> QED BY <1>4, <1>5

(* At first nothing is written, queued or completed. *)
LEMMA InitNumber ==
  ASSUME Init
  PROVE  NInv
<1> DEFINE New(s) == NewEndpoint(use.callbacks[s])
<1>1. "client" \in Side /\ "server" \in Side
  BY DEF Side
<1>2. /\ ep = [s \in Side |-> New(s)] /\ net = [s \in Side |-> {}]
  BY DEF Init
<1>3. \A s \in Side :
        /\ New(s).peer = NULL /\ New(s).sendqueue = <<>>
        /\ New(s).out = <<>> /\ New(s).done = {}
  BY DEF NewEndpoint
<1> HIDE DEF New
<1>4. \A s \in Side : /\ ep[s].peer = NULL /\ Written(ep[s]) = {}
                      /\ Waiting(ep[s]) = {} /\ ep[s].done = {}
                      /\ Queue(ep[s]) = {} /\ net[s] = {}
  BY <1>2, <1>3 DEF Written, Waiting, ToSet, Queue, HasHandshake
<1>5. ClientFit(ep["client"]) /\ Holds(ep["client"])
  BY <1>1, <1>4 DEF ClientFit, ClientPeer, Holds
<1>6. ServerFit(ep["client"], ep["server"]) /\ Plain(ep["server"])
  BY <1>1, <1>4 DEF ServerFit, ServerPeer, Plain
<1> QED BY <1>1, <1>4, <1>5, <1>6 DEF NInv

(* What the invariant says of the client and of the server. *)
LEMMA SidesAre ==
  ASSUME IInv, NInv
  PROVE  /\ Good("client", ep["server"], ep["client"])
         /\ Good("server", ep["client"], ep["server"])
         /\ Idle(ep["client"]) /\ Idle(ep["server"]) /\ Quiet(ep["server"])
         /\ ep["client"] \in Endpoints /\ ep["server"] \in Endpoints
         /\ \A d \in ep["server"].done :
              /\ Pinned(ep["client"], d.key, d.hash) /\ d.hash \in Transcript
              /\ Kinds(d.hash) = Whole(d.key[3], ep["server"].h)
         /\ \A s \in Side : \A r \in net[s] :
              /\ r.ct \in ContentType
              /\ r.ct = "handshake" => Says(s, ep[s].h, ep[s].done, r.msg)
<1>1. /\ "client" \in Side /\ "server" \in Side
      /\ Other("client") = "server" /\ Other("server") = "client"
  BY DEF Side, Other
<1>2. /\ Good("client", ep["server"], ep["client"])
      /\ Good("server", ep["client"], ep["server"])
      /\ Idle(ep["client"]) /\ Idle(ep["server"]) /\ Quiet(ep["server"])
  BY <1>1 DEF IInv
<1>3. ep["client"] \in Endpoints /\ ep["server"] \in Endpoints
  BY <1>2 DEF Good
<1>4. ASSUME NEW d \in ep["server"].done
      PROVE  /\ Pinned(ep["client"], d.key, d.hash) /\ d.hash \in Transcript
             /\ Kinds(d.hash) = Whole(d.key[3], ep["server"].h)
  <2>1. ep["server"].done \subseteq [key : KeyBlock, hash : Transcript]
    BY <1>3, EndpointType
  <2>2. d.hash \in Transcript
    BY <2>1
  <2>3. Pinned(ep["client"], d.key, d.hash)
    BY DEF NInv, ServerFit
  <2>4. Kinds(d.hash) = Whole(d.key[3], ep["server"].h)
    BY <1>2 DEF Good
  <2> QED BY <2>2, <2>3, <2>4
<1>5. \A s \in Side : \A r \in net[s] :
        /\ r.ct \in ContentType
        /\ r.ct = "handshake" => Says(s, ep[s].h, ep[s].done, r.msg)
  BY DEF IInv, Datagrams
<1> QED BY <1>2, <1>3, <1>4, <1>5

(* A datagram of the server arrives. *)
LEMMA ClientDelivers ==
  ASSUME IInv, NInv, NEW record \in net["server"], NEW fate \in Fates,
         Deliver("client", record, fate)
  PROVE  NInv'
<1> DEFINE c == ep["client"]
           x == Decided(c, fate)
           y == HandleMessage(x, record)
<1>1. /\ "client" \in Side /\ "server" \in Side
      /\ Other("client") = "server" /\ Other("server") = "client"
  BY DEF Side, Other
<1>2. Step("client", y)
  BY DEF Deliver, Decided
<1>3. /\ Same(c, x) /\ Good("client", ep["server"], x) /\ x.ret = c.ret
      /\ x.crashed = c.crashed
  <2>1. fate \in {"crash", "stale", "reused"}
    BY FatesAssumption
  <2>2. Good("client", ep["server"], c)
    BY SidesAre
  <2> HIDE DEF c
  <2> QED BY <2>1, <2>2, FateIs
<1> HIDE DEF x
<1>4. /\ c \in Endpoints /\ c.ret = "ok" /\ Less(c, x)
      /\ ClientFit(c) /\ Holds(c)
  BY <1>3, SidesAre, SameIsLess DEF NInv, Idle
<1>5. /\ record.ct \in ContentType /\ Replied(record)
      /\ record.ct = "handshake" =>
           Says("server", ep["server"].h, ep["server"].done, record.msg)
  BY <1>1, SidesAre DEF NInv
<1>6. x \in Endpoints /\ ClientFit(x) /\ Holds(x) /\ Pins(c, x) /\ x.ret = "ok"
  BY <1>3, <1>4, LessFits DEF Less
<1>7. \A d \in ep["server"].done :
        /\ Pinned(x, d.key, d.hash) /\ d.hash \in Transcript
        /\ Kinds(d.hash) = Whole(d.key[3], ep["server"].h)
  <2> HIDE DEF c
  <2>1. ASSUME NEW key, NEW hash, Pinned(c, key, hash) PROVE Pinned(x, key, hash)
    BY <1>4, <1>6, <2>1, PinnedOn, RandomType
  <2> QED BY <2>1, SidesAre DEF c
<1>8. y.crashed \/ (ClientGets(x, y) /\ Settled(y))
  BY <1>3, <1>5, <1>6, <1>7, ClientMessageFits
<1>9. Good("client", ep["server"], y)
  <2>1. record.ct = "handshake" =>
          Says(Other("client"), ep["server"].h, ep["server"].done, record.msg)
    BY <1>1, <1>5
  <2>2. Result("client", ep["server"], x, y)
    BY <1>1, <1>3, <1>5, <1>6, <2>1, MessageResult
  <2> QED BY <2>2 DEF Result
<1> HIDE DEF y, c
<1>10. ClientMoved(c, y)
  <2>1. y \in Endpoints
    BY <1>9 DEF Good
  <2>2. ClientGets(x, y) => ClientGets(c, y)
    BY <1>4, <1>6, <2>1, GetsTwice
  <2> QED BY <1>8, <2>2 DEF ClientMoved
<1> QED BY <1>2, <1>9, <1>10, ClientSteps DEF c

(* A datagram of the client arrives. *)
LEMMA ServerDelivers ==
  ASSUME IInv, NInv, NEW record \in net["client"], NEW fate \in Fates,
         Deliver("server", record, fate)
  PROVE  NInv'
<1> DEFINE v == ep["server"]
           c == ep["client"]
           x == Decided(v, fate)
           y == HandleMessage(x, record)
<1>1. /\ "client" \in Side /\ "server" \in Side
      /\ Other("client") = "server" /\ Other("server") = "client"
  BY DEF Side, Other
<1>2. Step("server", y)
  BY DEF Deliver, Decided
<1>3. /\ Same(v, x) /\ Good("server", c, x) /\ x.ret = v.ret
      /\ x.crashed = v.crashed
  <2>1. fate \in {"crash", "stale", "reused"}
    BY FatesAssumption
  <2>2. Good("server", c, v)
    BY SidesAre
  <2> HIDE DEF c, v
  <2> QED BY <2>1, <2>2, FateIs
<1> HIDE DEF x
<1>4. /\ v \in Endpoints /\ v.ret = "ok" /\ Less(v, x) /\ Quiet(v)
      /\ ServerFit(c, v) /\ Plain(v)
  BY <1>3, SidesAre, SameIsLess DEF NInv, Idle
<1>5. /\ record.ct \in ContentType /\ Asked(c, record)
      /\ record.ct = "handshake" => Says("client", c.h, c.done, record.msg)
  BY <1>1, SidesAre DEF NInv
<1> HIDE DEF c, v
<1>6. ServerFit(c, x) /\ Plain(x) /\ Quiet(x) /\ x.ret = "ok"
  <2>1. ServerFit(c, x) /\ Plain(x)
    BY <1>4, LessServes
  <2>2. Quiet(x)
    BY <1>3, <1>4 DEF Quiet, Silent, Same, Live
  <2> QED BY <1>3, <1>4, <2>1, <2>2
<1>7. y.crashed \/ (ServerFit(c, y) /\ Plain(y) /\ Settled(y))
  BY <1>3, <1>5, <1>6, ServerMessageFits
<1>8. Good("server", c, y)
  <2>1. record.ct = "handshake" => Says(Other("server"), c.h, c.done, record.msg)
    BY <1>1, <1>5
  <2>2. Result("server", c, x, y)
    BY <1>1, <1>3, <1>5, <1>6, <2>1, MessageResult
  <2> QED BY <2>2 DEF Result
<1> HIDE DEF y
<1> QED BY <1>2, <1>7, <1>8, ServerSteps DEF c, ServerMoved

(* The timer finds a node of the client due. *)
LEMMA ClientResends ==
  ASSUME IInv, NInv, NEW node \in ToSet(ep["client"].sendqueue),
         NEW fate \in Fates, TimerResend("client", node, fate)
  PROVE  NInv'
<1> DEFINE c == ep["client"]
           x == Decided(c, fate)
           y == Retransmit(x, node)
<1>1. Step("client", y)
  BY DEF TimerResend, Decided
<1>2. /\ Same(c, x) /\ Good("client", ep["server"], x) /\ x.ret = c.ret
      /\ x.crashed = c.crashed
  <2>1. fate \in {"crash", "stale", "reused"}
    BY FatesAssumption
  <2>2. Good("client", ep["server"], c)
    BY SidesAre
  <2> HIDE DEF c
  <2> QED BY <2>1, <2>2, FateIs
<1> HIDE DEF x
<1>3. /\ c \in Endpoints /\ c.ret = "ok" /\ Less(c, x)
      /\ ClientFit(c) /\ Holds(c) /\ c.out = <<>>
  BY <1>2, SidesAre, SameIsLess DEF NInv, Idle
<1>4. x \in Endpoints /\ ClientFit(x) /\ Holds(x) /\ Pins(c, x)
      /\ x.out = <<>> /\ x.ret = "ok" /\ x.sendqueue = c.sendqueue
  BY <1>2, <1>3, LessFits DEF Less, Same
<1>5. node \in Waiting(x)
  BY <1>4 DEF Waiting
<1>6. ClientGets(x, y) /\ Settled(y)
  BY <1>4, <1>5, ClientRetransmits
<1>7. PICK i \in DOMAIN x.sendqueue : node = x.sendqueue[i]
  BY <1>5 DEF Waiting, ToSet
<1>8. Good("client", ep["server"], y)
  <2>1. Moves("client", ep["server"], x, y)
    BY <1>2, <1>4, <1>7, RetransmitMoves
  <2> QED BY <2>1 DEF Moves
<1> HIDE DEF y, c
<1>9. ClientMoved(c, y)
  <2>1. y \in Endpoints
    BY <1>8 DEF Good
  <2>2. ClientGets(c, y)
    BY <1>3, <1>4, <1>6, <2>1, GetsTwice
  <2> QED BY <1>6, <2>2 DEF ClientMoved
<1> QED BY <1>1, <1>8, <1>9, ClientSteps DEF c

(* The timer finds a node of the server due. *)
LEMMA ServerResends ==
  ASSUME IInv, NInv, NEW node \in ToSet(ep["server"].sendqueue),
         NEW fate \in Fates, TimerResend("server", node, fate)
  PROVE  NInv'
<1> DEFINE v == ep["server"]
           c == ep["client"]
           x == Decided(v, fate)
           y == Retransmit(x, node)
<1>1. Step("server", y)
  BY DEF TimerResend, Decided
<1>2. /\ Same(v, x) /\ Good("server", c, x) /\ x.ret = v.ret
      /\ x.crashed = v.crashed
  <2>1. fate \in {"crash", "stale", "reused"}
    BY FatesAssumption
  <2>2. Good("server", c, v)
    BY SidesAre
  <2> HIDE DEF c, v
  <2> QED BY <2>1, <2>2, FateIs
<1> HIDE DEF x
<1>3. /\ v \in Endpoints /\ v.ret = "ok" /\ Less(v, x)
      /\ ServerFit(c, v) /\ Plain(v) /\ v.out = <<>>
  BY <1>2, SidesAre, SameIsLess DEF NInv, Idle
<1> HIDE DEF c
<1>4. x \in Endpoints /\ ServerFit(c, x) /\ Plain(x)
      /\ x.out = <<>> /\ x.ret = "ok" /\ x.sendqueue = v.sendqueue
  BY <1>2, <1>3, LessServes DEF Less, Same
<1>5. node \in Waiting(x) /\ (x.peer # NULL => x.peer.sec[0] # NULL)
  BY <1>2, <1>4 DEF Waiting, Good, Sound
<1>6. ServerFit(c, y) /\ Plain(y) /\ Settled(y)
  BY <1>4, <1>5, ServerRetransmits
<1>7. PICK i \in DOMAIN x.sendqueue : node = x.sendqueue[i]
  BY <1>5 DEF Waiting, ToSet
<1>8. Good("server", c, y)
  <2>1. Moves("server", c, x, y)
    BY <1>2, <1>4, <1>7, RetransmitMoves
  <2> QED BY <2>1 DEF Moves
<1> HIDE DEF y, v
<1> QED BY <1>1, <1>6, <1>8, ServerSteps DEF c, ServerMoved

(* The timer gives a node up: there is less to send again. *)
LEMMA GivingUp ==
  ASSUME IInv, NInv, NEW s \in Side, NEW i \in DOMAIN ep[s].sendqueue,
         TimerGiveUp(s, i)
  PROVE  NInv'
<1> DEFINE x == ep[s]
           z == GivenUp(x, i)
<1>1. ep \in [Side -> Endpoints] /\ x \in Endpoints
  BY DEF IInv
<1>2. ep' = [ep EXCEPT ![s] = z] /\ net' = net
  BY <1>1 DEF TimerGiveUp, GivenUp
<1>3. Less(x, z) /\ z \in Endpoints
  <2>1. Less(x, z)
    BY <1>1, GivenUpIsLess
  <2> QED BY <2>1 DEF Less
<1> HIDE DEF z
<1>4. CASE s = "client"
  <2>1. ClientFit(z) /\ Holds(z) /\ Pins(ep["client"], z)
    BY <1>1, <1>3, <1>4, LessFits DEF NInv
  <2> QED BY <1>2, <1>3, <1>4, <2>1, ClientTo
<1>5. CASE s = "server"
  <2>1. ServerFit(ep["client"], z) /\ Plain(z)
    BY <1>1, <1>3, <1>5, LessServes DEF NInv
  <2> QED BY <1>2, <1>3, <1>5, <2>1, ServerTo
<1> QED BY <1>4, <1>5 DEF Side

(* dtls_connect. *)
LEMMA Connecting ==
  ASSUME IInv, NInv, CallConnect
  PROVE  NInv'
<1> DEFINE x == ep["client"]
           y == Connect(x)
<1>1. /\ Good("client", ep["server"], x) /\ x.ret = "ok" /\ x.peer = NULL
      /\ ClientFit(x) /\ Step("client", y)
  BY SidesAre DEF NInv, Idle, CallConnect
<1>2. ClientGets(x, y) /\ Settled(y)
  BY <1>1, ConnectFits
<1>3. Good("client", ep["server"], y)
  <2>1. Result("client", ep["server"], x, y)
    BY <1>1, ConnectResult
  <2> QED BY <2>1 DEF Result
<1> HIDE DEF y
<1> QED BY <1>1, <1>2, <1>3, ClientSteps DEF ClientMoved

(* A handler of either side that only takes away. *)
LEMMA LessSteps ==
  ASSUME IInv, NInv, NEW s \in Side, NEW y, Step(s, y),
         Good(s, ep[Other(s)], y), Less(ep[s], y), Settled(y)
  PROVE  NInv'
<1>1. ep["client"] \in Endpoints /\ ep["server"] \in Endpoints
  BY SidesAre
<1>2. CASE s = "client"
  <2>1. ClientGets(ep["client"], y)
    BY <1>1, <1>2, LessFits DEF NInv, ClientGets
  <2>2. Good("client", ep["server"], y) /\ Step("client", y)
    BY <1>2 DEF Other
  <2> QED BY <2>1, <2>2, ClientSteps DEF ClientMoved
<1>3. CASE s = "server"
  <2>1. ServerFit(ep["client"], y) /\ Plain(y)
    BY <1>1, <1>3, LessServes DEF NInv
  <2>2. Good("server", ep["client"], y) /\ Step("server", y)
    BY <1>3 DEF Other
  <2> QED BY <2>1, <2>2, ServerSteps DEF ServerMoved
<1> QED BY <1>2, <1>3 DEF Side

(* dtls_write and dtls_close. *)
LEMMA Calling ==
  ASSUME IInv, NInv, NEW s \in Side, CallWrite(s) \/ CallClose(s)
  PROVE  NInv'
<1> DEFINE x == ep[s]
<1>1. /\ Good(s, ep[Other(s)], x) /\ x \in Endpoints /\ x.ret = "ok"
  BY DEF IInv, Idle, Good
<1>2. x.peer # NULL /\ x.peer.sec[0] # NULL
  BY <1>1 DEF CallWrite, CallClose, Good, Sound
<1>3. CASE CallWrite(s)
  <2> DEFINE y == Write(x, s)
  <2>1. Step(s, y)
    BY <1>3 DEF CallWrite
  <2>2. Less(x, y) /\ Settled(y)
    BY <1>1, <1>2, WriteIsLess
  <2>3. Good(s, ep[Other(s)], y)
    <3>1. Result(s, ep[Other(s)], x, y)
      BY <1>1, <1>2, WriteResult
    <3> QED BY <3>1 DEF Result
  <2> HIDE DEF y
  <2> QED BY <2>1, <2>2, <2>3, LessSteps
<1>4. CASE CallClose(s)
  <2> DEFINE y == Close(x)
  <2>1. Step(s, y)
    BY <1>4 DEF CallClose
  <2>2. Less(x, y) /\ Settled(y)
    BY <1>1, <1>2, CloseIsLess
  <2>3. Good(s, ep[Other(s)], y)
    <3>1. Passes(s, ep[Other(s)], x, y)
      BY <1>1, <1>2, ClosePasses
    <3> QED BY <3>1 DEF Passes, Result
  <2> HIDE DEF y
  <2> QED BY <2>1, <2>2, <2>3, LessSteps
<1> QED BY <1>3, <1>4

(* What the applications may call is chosen once and for all.              *)
LEMMA SteadyStays ==
  ASSUME IInv, [Next]_vars
  PROVE  Steady' <=> Steady
<1>1. use' = use
  <2>1. CASE Next
    BY <2>1, NextStepped DEF Stepped
  <2>2. CASE UNCHANGED vars
    BY <2>2 DEF vars
  <2> QED BY <2>1, <2>2
<1> QED BY <1>1 DEF Steady

(* Without renegotiations every step keeps the invariant. *)
LEMMA NextNumber ==
  ASSUME IInv, NInv, Steady, [Next]_vars
  PROVE  NInv'
<1>1. ASSUME NEW s \in Side PROVE s = "client" \/ s = "server"
  BY DEF Side
<1>2. Other("client") = "server" /\ Other("server") = "client"
  BY DEF Other
<1>3. CASE \E s \in Side : \E record \in net[Other(s)], fate \in Fates :
             Deliver(s, record, fate)
  BY <1>1, <1>2, <1>3, ClientDelivers, ServerDelivers
<1>4. CASE \E s \in Side : \E node \in ToSet(ep[s].sendqueue), fate \in Fates :
             TimerResend(s, node, fate)
  BY <1>1, <1>4, ClientResends, ServerResends
<1>5. CASE \E s \in Side : \E i \in DOMAIN ep[s].sendqueue : TimerGiveUp(s, i)
  BY <1>5, GivingUp
<1>6. CASE CallConnect
  BY <1>6, Connecting
<1>7. ASSUME NEW s \in Side, CallRenegotiate(s) PROVE FALSE
  BY <1>7 DEF CallRenegotiate, Steady
<1>8. CASE \E s \in Side : CallWrite(s) \/ CallClose(s)
  BY <1>8, Calling
<1>9. CASE UNCHANGED vars
  BY <1>9 DEF vars, NInv
<1> QED BY <1>3, <1>4, <1>5, <1>6, <1>7, <1>8, <1>9 DEF Next

(* What waits to be sent again can be. *)
LEMMA NumberHolds ==
  ASSUME IInv, NInv
  PROVE  NodesHaveParams
<1> SUFFICES ASSUME NEW s \in Side, NEW node \in ToSet(ep[s].sendqueue),
                    Live(ep[s], node)
             PROVE  ParamsEpoch(Peer(s).sec, node.epoch) # NULL
  BY DEF NodesHaveParams
<1>1. EpochSlots(ep[s].peer.sec, node.epoch) # {}
  <2>1. CASE s = "client"
    BY <2>1 DEF NInv, Holds, Waiting
  <2>2. CASE s = "server"
    <3>1. node.epoch = 0 /\ ep[s].peer.sec[0].epoch = 0
      BY <2>2 DEF NInv, Plain, Waiting
    <3>2. ep[s].peer # NULL /\ Good(s, ep[Other(s)], ep[s])
      BY DEF IInv, Live
    <3>3. ep[s].peer.sec[0] # NULL
      BY <3>2 DEF Good, Sound
    <3> QED BY <3>1, <3>3 DEF EpochSlots, Slot
  <2> QED BY <2>1, <2>2 DEF Side
<1> DEFINE E == EpochSlots(ep[s].peer.sec, node.epoch)
<1>2. ParamsEpoch(Peer(s).sec, node.epoch) =
        CASE 0 \in E -> 0 [] E = {1} -> 1 [] OTHER -> NULL
  BY DEF ParamsEpoch, Peer
<1>3. 0 \in E \/ E = {1}
  BY <1>1 DEF EpochSlots, Slot
<1> HIDE DEF E
<1>4. NULL # 0 /\ NULL # 1
  BY NullAssumption
<1> QED BY <1>2, <1>3, <1>4

(* Where neither application calls dtls_renegotiate, what                  *)
(* dtls_check_retransmit finds due for a peer it can send under the        *)
(* parameters it was first sent with: they are still there, whatever was   *)
(* lost, repeated or reordered and whoever closed.  After a renegotiation  *)
(* they may not be.                                                        *)
THEOREM RetransmissionsHaveParams == Spec => []NodesHaveParams
<1> DEFINE Inv == IInv /\ (Steady => NInv)
<1>1. Init => Inv
  BY InitInv, InitNumber
<1>2. Inv /\ [Next]_vars => Inv'
  <2> SUFFICES ASSUME Inv, [Next]_vars PROVE Inv'
    OBVIOUS
  <2>1. Steady' <=> Steady
    BY SteadyStays
  <2>2. IInv'
    BY NextInv
  <2>3. Steady => NInv'
    BY NextNumber
  <2> QED BY <2>1, <2>2, <2>3
<1>3. Inv => NodesHaveParams
  BY NumberHolds DEF NodesHaveParams
<1> HIDE DEF Inv
<1> QED BY <1>1, <1>2, <1>3, PTL DEF Spec

-----------------------------------------------------------------------------
(* A closing client, when none renegotiates *)

(* A closing peer stays so or is freed.                                    *)
Leaves(x, y) == Closed(x) => y.peer = NULL \/ Closed(y)

(* What does less does not bring a closing peer back.                      *)
LEMMA LessLeaves ==
  ASSUME NEW x, NEW y, Less(x, y)
  PROVE  Leaves(x, y)
BY DEF Less, Leaves, Closed

(* A closing client expects no message in its turn: without a cipher suite *)
(* it has taken no ServerHello, and a ServerKeyExchange comes later.       *)
LEMMA ClosedClientRefuses ==
  ASSUME NEW x \in Endpoints, ClientFit(x), Closed(x), HasHandshake(x),
         NEW m \in Messages, m.ht \in ServerKinds, Orderly(m),
         m.seq = x.peer.hs.mseq_r
  PROVE  ~Expected(x, x.peer.role, x.peer.state, m)
<1>1. /\ x.peer # NULL /\ x.peer.state \in {"CLOSING", "CLOSED"}
      /\ x.peer.hs # NULL /\ m.ht # "hello_request"
  BY DEF Closed, HasHandshake, Orderly
<1>2. CASE m.ht = "server_key_exchange"
  <2>1. x.peer.hs \in Handshakes
    BY <1>1, EndpointType, PeerType
  <2>2. x.peer.hs.mseq_r \in Nat /\ x.peer.hs.cipher \in Cipher
    BY <2>1, HsType
  <2>3. m.seq >= 2
    BY <1>2 DEF Orderly
  <2>4. x.peer.hs.cipher # "null"
    <3>1. ClientHs(x.peer, IsError(x))
      BY <1>1 DEF ClientFit, ClientPeer
    <3>2. x.peer.hs.cipher = "null" => x.peer.hs.mseq_r <= 1
      BY <3>1 DEF ClientHs
    <3> QED BY <2>2, <2>3, <3>2
  <2>5. Ecdsa(x.peer.hs.cipher) \/ x.peer.hs.cipher = "psk"
    BY <2>2, <2>4 DEF Cipher, Ecdsa
  <2> QED BY <1>1, <1>2, <2>5 DEF Expected
<1>3. CASE m.ht # "server_key_exchange"
  BY <1>1, <1>3 DEF Expected, ServerKinds
<1> QED BY <1>2, <1>3

(* handle_handshake_msg on a closing client reports an error.              *)
LEMMA ClosedMsg ==
  ASSUME NEW o, NEW x, NEW role, NEW state, NEW m,
         Called("client", o, x, role, state, m), ClientFit(x), Closed(x),
         Orderly(m), HasHandshake(x), m.seq = x.peer.hs.mseq_r
  PROVE  LET z == HandleHandshakeMsg(x, role, state, m)
         IN z \in Endpoints /\ Closed(z) /\ IsError(z)
<1> DEFINE y == StopRetransmission(x)
           z == HandleHandshakeMsg(x, role, state, m)
<1>1. /\ x \in Endpoints /\ x.peer # NULL /\ x.ret = "ok"
      /\ role = x.peer.role /\ state = x.peer.state
      /\ m \in Messages /\ m.ht \in ServerKinds
  <2>1. "client" \in Side /\ Other("client") = "server"
    BY DEF Side, Other
  <2>2. Says("server", o.h, o.done, m)
    BY <2>1 DEF Called
  <2>3. m.ht \in ServerKinds /\ m \in Messages
    BY <2>2 DEF Says, Sends
  <2> QED BY <2>3 DEF Called, Good, Closed
<1>2. ~Expected(x, role, state, m)
  BY <1>1, ClosedClientRefuses
<1>3. z = Error(y, "unexpected_message") /\ "unexpected_message" \in Errors
  BY <1>1, <1>2 DEF HandleHandshakeMsg, Errors
<1>4. y.peer = x.peer /\ y \in Endpoints
  <2>1. Less(x, y) /\ y.peer = x.peer
    BY <1>1, StopIsLess DEF Called
  <2> QED BY <2>1 DEF Less
<1> HIDE DEF y, z
<1>5. /\ Less(y, z) /\ IsError(z) /\ z.peer = y.peer
  BY <1>3, <1>4, ErrorIsLess
<1> QED BY <1>4, <1>5 DEF Less, Closed, z

(* ... and so does the loop over its reorder queue.                        *)
LEMMA ClosedDrainAll ==
  ASSUME NEW o, NEW x, Good("client", o, x), Closed(x),
         IsError(x) \/ ClientFit(x)
  PROVE  Closed(DrainAll(x))
<1> DEFINE V == {z \in Endpoints : Closed(z) /\ (IsError(z) \/ ClientFit(z))}
<1>1. "client" \in Side /\ x \in Endpoints
  BY DEF Side, Good
<1>2. x \in V
  BY <1>1
<1>3. ASSUME NEW z \in V, Good("client", o, z), ~Over(z)
      PROVE  Drain(z) \in V
  <2>1. Closed(z) /\ ClientFit(z) /\ z.peer # NULL
    BY <1>3 DEF Over, Closed
  <2>2. PICK m, q : Takes("client", o, z, m, q)
    BY <1>3, DrainTakes
  <2> DEFINE w == WithQueue(z, q)
             y == HandleHandshakeMsg(w, z.peer.role, z.peer.state, m)
  <2>3. /\ m \in Queue(z) /\ q \subseteq Queue(z) /\ Mail("client", o, q)
        /\ HasHandshake(z) /\ m.seq = z.peer.hs.mseq_r
        /\ Called("client", o, w, z.peer.role, z.peer.state, m)
        /\ Drain(z) = y
    BY <2>2 DEF Takes
  <2>4. \A n \in Queue(z) : Orderly(n)
    BY <2>1 DEF ClientFit, ClientPeer
  <2>5. /\ w.peer # NULL /\ w.peer.hs # NULL /\ Alike(z.peer, w.peer)
        /\ w.peer.hs.mseq_r = z.peer.hs.mseq_r
    BY <1>1, <1>3, <2>3, QueueOnly
  <2>6. ClientFit(w)
    BY <1>3, <2>1, <2>3, <2>4, QueueFits
  <2> HIDE DEF w
  <2>7. Closed(w) /\ HasHandshake(w)
    BY <2>1, <2>5 DEF Closed, HasHandshake, Alike
  <2>8. y \in Endpoints /\ Closed(y) /\ IsError(y)
    BY <2>3, <2>4, <2>5, <2>6, <2>7, ClosedMsg
  <2> QED BY <2>3, <2>8
<1>4. DrainAll(x) \in V
  <2> HIDE DEF V
  <2> QED BY <1>1, <1>2, <1>3, DrainAllKeeps
<1> QED BY <1>4

(* handle_handshake on a closing client.                                   *)
LEMMA ClosedHandshake ==
  ASSUME NEW o, NEW x, Good("client", o, x), x.ret = "ok", ClientFit(x),
         Closed(x), NEW m, Says("server", o.h, o.done, m), Orderly(m)
  PROVE  Closed(HandleHandshake(x, x.peer.role, x.peer.state, m))
<1> DEFINE role == x.peer.role
           state == x.peer.state
           y == HandleHandshake(x, role, state, m)
           z == HandleHandshakeMsg(x, role, state, m)
<1>1. /\ x \in Endpoints /\ "client" \in Side /\ Other("client") = "server"
      /\ m \in Messages /\ m.ht \notin {"client_hello", "hello_request"}
      /\ x.peer # NULL
  BY DEF Good, Side, Other, Says, Sends, ServerKinds, Orderly, Closed
<1>2. HasHandshake(x) => x.peer.hs \in Handshakes
  BY <1>1, EndpointType, PeerType DEF HasHandshake
<1>3. CASE HasHandshake(x) /\ m.seq = x.peer.hs.mseq_r
  <2>1. y = DrainAll(z)
    <3>1. ~(m.seq > x.peer.hs.mseq_r)
      BY <1>1, <1>2, <1>3, HsType DEF Messages
    <3> QED BY <1>1, <1>3, <3>1 DEF HandleHandshake, HasHandshake
  <2>2. Called("client", o, x, role, state, m)
    BY <1>1, <1>3 DEF Called, HasHandshake
  <2> HIDE DEF y, z, role, state
  <2>3. Good("client", o, z)
    BY <1>1, <2>2, MsgOutcome DEF Outcome, z
  <2>4. Closed(z) /\ IsError(z)
    BY <1>3, <2>2, ClosedMsg DEF z
  <2> QED BY <2>1, <2>3, <2>4, ClosedDrainAll DEF y, role, state
<1>4. CASE HasHandshake(x) /\ m.seq > x.peer.hs.mseq_r
           /\ m.seq # x.peer.hs.mseq_r
  <2>1. y = Buffer(x, m)
    BY <1>1, <1>4 DEF HandleHandshake, HasHandshake
  <2> DEFINE q == x.peer.hs.reorder_queue
  <2>2. CASE q = NULL
    <3>1. y = Crash(x, "null_queue")
      BY <2>1, <2>2 DEF Buffer
    <3> HIDE DEF y
    <3> QED BY <1>1, <3>1, CrashSame DEF Same, Closed, y
  <2>3. CASE q # NULL /\ \E n \in q : n.seq = m.seq
    BY <2>1, <2>3 DEF Buffer
  <2>4. CASE q # NULL /\ ~\E n \in q : n.seq = m.seq
    <3> DEFINE R == q \cup {m}
    <3>1. y = WithQueue(x, R)
      BY <2>1, <2>4 DEF Buffer, WithQueue
    <3>2. q = Queue(x)
      BY <1>4, <2>4 DEF Queue, HasHandshake
    <3>3. Mail("client", o, q)
      BY <3>2, QueueIs
    <3> HIDE DEF q
    <3>4. Mail("client", o, R)
      <4>1. IsFiniteSet(R)
        BY <3>3, FS_AddElement DEF Mail
      <4> QED BY <1>1, <2>4, <3>3, <4>1 DEF Mail
    <3> HIDE DEF R, y
    <3> QED BY <1>4, <3>1, <3>4, QueueOnly DEF Closed, Alike, y
  <2> QED BY <2>2, <2>3, <2>4
<1>5. CASE ~HasHandshake(x)
           \/ ~(m.seq > x.peer.hs.mseq_r \/ m.seq = x.peer.hs.mseq_r)
  <2>1. y = x
    BY <1>1, <1>5 DEF HandleHandshake
  <2> QED BY <2>1
<1> QED BY <1>3, <1>4, <1>5

(* dtls_handle_message on a closing client.                                *)
LEMMA ClosedMessage ==
  ASSUME NEW o, NEW x, Good("client", o, x), x.ret = "ok", ClientFit(x),
         Closed(x), NEW record, record.ct \in ContentType, Replied(record),
         record.ct = "handshake" => Says("server", o.h, o.done, record.msg)
  PROVE  LET z == HandleMessage(x, record) IN z.peer = NULL \/ Closed(z)
<1> DEFINE z == HandleMessage(x, record)
           y == DecryptVerify(x, record)
<1>1. Arrives(x, record, y, z) /\ x.peer # NULL
  <2>1. x.peer # NULL
    BY DEF Closed
  <2> QED BY <2>1, MessageArrives
<1>2. Good("client", o, y) /\ y.ret = "ok"
  <2>1. Passes("client", o, x, y) /\ y.ret = x.ret
    BY <1>1, DecryptPasses
  <2> QED BY <2>1 DEF Passes, Result
<1> HIDE DEF z, y
<1>3. CASE Less(x, z)
  BY <1>3, LessLeaves DEF Leaves, z
<1>4. ASSUME Deciphers(x, record, y) PROVE Closed(y) /\ ClientFit(y)
  <2>1. Closed(y)
    BY <1>4 DEF Deciphers, Closed
  <2>2. ClientFit(y)
    BY <1>1, <1>4, ClientDeciphers
  <2> QED BY <2>1, <2>2
<1>5. CASE Deciphers(x, record, y) /\ Less(y, z)
  BY <1>4, <1>5, LessLeaves DEF Leaves, z
<1>6. CASE /\ Deciphers(x, record, y) /\ record.ct = "ccs"
           /\ \E w : w.peer = y.peer /\ w.peer.state = "WAIT_CHANGECIPHERSPEC"
  BY <1>4, <1>6 DEF Closed
<1>7. CASE /\ record.ct = "handshake" /\ z = HandleHandshakeRecord(y, record)
           /\ Deciphers(x, record, y)
  <2>1. "client" \in Side /\ Other("client") = "server"
    BY DEF Side, Other
  <2>2. Says(Other("client"), o.h, o.done, record.msg) /\ Orderly(record.msg)
    BY <1>7, <2>1 DEF Replied
  <2>3. Closed(y) /\ ClientFit(y) /\ y.peer # NULL
    BY <1>4, <1>7 DEF Closed
  <2>4. PICK w : Concerns(y, record, w, z)
    BY <1>2, <1>7, <2>1, <2>2, RecordConcerns
  <2>5. CASE z = y
    BY <2>3, <2>5 DEF z
  <2>6. CASE /\ Less(w, z)
             /\ w = HandleHandshake(y, y.peer.role, y.peer.state, record.msg)
    <3>1. Closed(w)
      BY <1>2, <2>1, <2>2, <2>3, <2>6, ClosedHandshake
    <3> QED BY <2>6, <3>1, LessLeaves DEF Leaves, z
  <2> QED BY <2>3, <2>4, <2>5, <2>6 DEF Concerns
<1> QED BY <1>1, <1>3, <1>5, <1>6, <1>7 DEF Arrives

(* A step of the client that leaves its closing peer so. *)
LEMMA StepLeaves ==
  ASSUME IInv, NEW s \in Side, NEW y \in Endpoints, Step(s, y),
         s = "client" => Leaves(ep["client"], y)
  PROVE  Leaves(ep["client"], ep'["client"])
<1>1. ep \in [Side -> Endpoints] /\ "client" \in Side
  BY DEF IInv, Side
<1>2. \/ ep' = [ep EXCEPT ![s] = Failed(ep[s], y)]
      \/ ep' = [ep EXCEPT ![s] = Reset(y)]
  BY StepIs
<1>3. CASE s # "client"
  BY <1>1, <1>2, <1>3 DEF Leaves
<1>4. CASE s = "client" /\ ep'["client"] = Failed(ep["client"], y)
  <2>1. Failed(ep["client"], y).peer = ep["client"].peer
    BY <1>1 DEF Failed, Endpoints
  <2> QED BY <1>4, <2>1 DEF Leaves, Closed
<1>5. CASE s = "client" /\ ep'["client"] = Reset(y)
  <2>1. Reset(y).peer = y.peer
    BY DEF Reset, Endpoints
  <2> QED BY <1>5, <2>1 DEF Leaves, Closed
<1> QED BY <1>1, <1>2, <1>3, <1>4, <1>5

(* The client keeps closing.                                               *)
LEMMA ClientCloses ==
  ASSUME IInv, NInv, Steady, [Next]_vars
  PROVE  Leaves(ep["client"], ep'["client"])
<1> DEFINE c == ep["client"]
           o == ep["server"]
<1>1. /\ "client" \in Side /\ "server" \in Side
      /\ Other("client") = "server" /\ Other("server") = "client"
      /\ \A s \in Side : s = "client" \/ s = "server"
  BY DEF Side, Other
<1>2. /\ Good("client", o, c) /\ c \in Endpoints /\ c.ret = "ok"
      /\ c.out = <<>> /\ ClientFit(c) /\ ep \in [Side -> Endpoints]
  BY SidesAre DEF NInv, Idle, IInv
<1>3. \A s \in Side : Good(s, ep[Other(s)], ep[s]) /\ Idle(ep[s])
  BY DEF IInv
<1>4. ASSUME NEW fate \in Fates
      PROVE  LET x == Decided(c, fate)
             IN /\ Less(c, x) /\ x \in Endpoints /\ Good("client", o, x)
                /\ x.ret = "ok" /\ Leaves(c, x) /\ (Closed(c) => Closed(x))
                /\ x.sendqueue = c.sendqueue /\ x.out = <<>>
  <2> DEFINE x == Decided(c, fate)
  <2>1. fate \in {"crash", "stale", "reused"}
    BY FatesAssumption
  <2> HIDE DEF c, o
  <2>2. /\ Same(c, x) /\ Good("client", o, x) /\ x.ret = c.ret
        /\ x.crashed = c.crashed
    <3>1. Good("client", o, c)
      BY <1>2
    <3> QED BY <2>1, <3>1, FateIs
  <2> HIDE DEF x
  <2>3. Less(c, x)
    BY <1>2, <2>2, SameIsLess
  <2>4. Leaves(c, x) /\ (Closed(c) => Closed(x))
    BY <2>2, <2>3, LessLeaves DEF Same, Closed
  <2> QED BY <1>2, <2>2, <2>3, <2>4 DEF x, Same, Less
<1>5. ASSUME NEW s \in Side, NEW record \in net[Other(s)], NEW fate \in Fates,
             Deliver(s, record, fate)
      PROVE  Leaves(c, ep'["client"])
  <2> DEFINE x == Decided(ep[s], fate)
             y == HandleMessage(x, record)
  <2>1. Step(s, y)
    BY <1>5 DEF Deliver, Decided
  <2>2. y \in Endpoints
    <3>1. fate \in {"crash", "stale", "reused"}
      BY FatesAssumption
    <3>2. Good(s, ep[Other(s)], x) /\ x.ret = "ok"
      BY <1>3, <3>1, FateIs DEF Idle
    <3>3. /\ record.ct \in ContentType
          /\ record.ct = "handshake" =>
               Says(Other(s), ep[Other(s)].h, ep[Other(s)].done, record.msg)
      BY <1>1, SidesAre
    <3> HIDE DEF x
    <3>4. Result(s, ep[Other(s)], x, y)
      BY <3>2, <3>3, MessageResult
    <3> QED BY <3>4 DEF Result, Good
  <2>3. ASSUME s = "client" PROVE Leaves(c, y)
    <3>1. /\ Good("client", o, x) /\ x.ret = "ok" /\ x \in Endpoints
          /\ Less(c, x) /\ (Closed(c) => Closed(x))
      BY <1>4, <2>3
    <3>2. ClientFit(x)
      BY <1>2, <3>1, LessFits
    <3>3. /\ record.ct \in ContentType /\ Replied(record)
          /\ record.ct = "handshake" => Says("server", o.h, o.done, record.msg)
      BY <1>1, <2>3, SidesAre DEF NInv
    <3> HIDE DEF x, c, o
    <3> QED BY <3>1, <3>2, <3>3, ClosedMessage DEF Leaves
  <2> HIDE DEF y
  <2> QED BY <2>1, <2>2, <2>3, StepLeaves
<1>6. ASSUME NEW s \in Side, NEW node \in ToSet(ep[s].sendqueue),
             NEW fate \in Fates, TimerResend(s, node, fate)
      PROVE  Leaves(c, ep'["client"])
  <2> DEFINE x == Decided(ep[s], fate)
             y == Retransmit(x, node)
  <2>1. Step(s, y)
    BY <1>6 DEF TimerResend, Decided
  <2>2. y \in Endpoints /\ y.peer = ep[s].peer
    <3>1. fate \in {"crash", "stale", "reused"}
      BY FatesAssumption
    <3>2. Good(s, ep[Other(s)], x) /\ Same(ep[s], x)
      BY <1>3, <3>1, FateIs
    <3>3. x \in Endpoints /\ x.out = <<>> /\ node \in Waiting(x)
      BY <1>3, <3>2 DEF Same, Good, Idle, Waiting
    <3> HIDE DEF x
    <3>4. Sent(x, y)
      BY <3>3, Retransmits
    <3> QED BY <3>2, <3>4 DEF Sent, Same
  <2> HIDE DEF y
  <2> QED BY <2>1, <2>2, StepLeaves DEF Leaves, Closed
<1>7. ASSUME NEW s \in Side, NEW i \in DOMAIN ep[s].sendqueue, TimerGiveUp(s, i)
      PROVE  Leaves(c, ep'["client"])
  <2>1. ep'["client"].peer = c.peer
    BY <1>2, <1>7 DEF TimerGiveUp, Endpoints
  <2> QED BY <2>1 DEF Leaves, Closed
<1>8. ASSUME CallConnect PROVE Leaves(c, ep'["client"])
  BY <1>8 DEF CallConnect, Leaves, Closed
<1>9. ASSUME NEW s \in Side, CallRenegotiate(s) PROVE FALSE
  BY <1>9 DEF CallRenegotiate, Steady
<1>10. ASSUME NEW s \in Side, CallWrite(s) \/ CallClose(s)
       PROVE  Leaves(c, ep'["client"])
  <2>1. /\ Good(s, ep[Other(s)], ep[s]) /\ ep[s] \in Endpoints
        /\ ep[s].ret = "ok" /\ ep[s].peer # NULL /\ ep[s].peer.sec[0] # NULL
    BY <1>3, <1>10 DEF CallWrite, CallClose, Good, Sound, Idle
  <2>2. PICK y : Step(s, y) /\ Less(ep[s], y)
    BY <1>10, <2>1, WriteIsLess, CloseIsLess DEF CallWrite, CallClose
  <2>3. y \in Endpoints /\ Leaves(ep[s], y)
    BY <2>2, LessLeaves DEF Less
  <2> QED BY <2>2, <2>3, StepLeaves
<1>11. CASE UNCHANGED vars
  BY <1>11 DEF vars, Leaves, Closed
<1> HIDE DEF c, o
<1> QED BY <1>5, <1>6, <1>7, <1>8, <1>9, <1>10, <1>11 DEF Next, c

(* Where neither application calls dtls_renegotiate, no message brings a   *)
(* closing peer of either side back, whatever cipher suites are offered:   *)
(* a ServerKeyExchange, which check_server_key_exchange would take in any  *)
(* state before a suite is chosen, never has the number such a client      *)
(* waits for.                                                              *)
THEOREM ClosingLasts == Spec /\ Steady => ClosingStays
<1> DEFINE Inv == IInv /\ Steady /\ NInv
<1>1. Init /\ Steady => Inv
  BY InitInv, InitNumber
<1>2. Inv /\ [Next]_vars => Inv'
  BY NextInv, NextNumber, SteadyStays
<1>3. ASSUME Inv, [Next]_vars, NEW s \in Side,
             InState(s, {"CLOSING", "CLOSED"}), Peer(s)' # NULL
      PROVE  Peer(s)'.state \in {"CLOSING", "CLOSED"}
  <2>1. CASE s = "server"
    <3>1. Mute(s, ep[Other(s)].h)
      BY <2>1 DEF Mute
    <3> QED BY <1>3, <3>1, ClosingStep
  <2>2. CASE s = "client"
    <3>1. Leaves(ep["client"], ep'["client"])
      BY <1>3, ClientCloses
    <3> QED BY <1>3, <2>2, <3>1 DEF Leaves, Closed, InState, Peer
  <2> QED BY <2>1, <2>2 DEF Side
<1>4. Inv /\ [Next]_vars =>
        [\A s \in Side :
           (InState(s, {"CLOSING", "CLOSED"}) /\ Peer(s)' # NULL
            /\ Peer(s)'.id = Peer(s).id)
             => Peer(s)'.state \in {"CLOSING", "CLOSED"}]_vars
  BY <1>3
<1> HIDE DEF Inv
<1> QED BY <1>1, <1>2, <1>4, PTL DEF Spec, ClosingStays
=============================================================================
