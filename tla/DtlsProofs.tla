----------------------------- MODULE DtlsProofs -----------------------------
(***************************************************************************)
(* The first of four modules about DtlsAsync: what it means that an        *)
(* endpoint is Good, and what the parts the handlers of Dtls are made of   *)
(* (assignments, sending, the hash, the keys) do to one.                   *)
(*                                                                         *)
(* Good says what is true of an endpoint x of side s between two parts of  *)
(* a handler, with o the endpoint of the other side: x is well formed, the *)
(* random of its handshake is not one of a completed session, the server   *)
(* has hashed what its state says, the client has completed only what the  *)
(* server has, and what is buffered, queued and written are messages of    *)
(* the side that sends them.  Handlers are composed of parts that keep it. *)
(***************************************************************************)
EXTENDS DtlsAsync, Induction

(* What side s may send of the handshake with callbacks h. *)
Sends(s, h) ==
  CASE s = "client" -> ClientKinds
    [] s # "client" /\ {"psk_hint", "get_ecdsa_key"} \cap h = {} ->
         ServerKinds \ {"server_key_exchange"}
    [] OTHER -> ServerKinds

(* A message of side s, which has completed the sessions done.             *)
SessionOf(m) == [key |-> m.verify[2], hash |-> m.verify[3]]
Says(s, h, done, m) ==
  /\ m \in Messages /\ m.ht \in Sends(s, h)
  /\ m.ht = "server_hello" => Len(m.suites) = 1
  /\ m.ht = "finished" => m.verify \in {"client", "server"} \X KeyBlock \X Transcript
  /\ m.ht = "finished" /\ s = "server" => SessionOf(m) \in done

(* The key the handshake parameters g lead to, and the random of side s in *)
(* a key and in handshake parameters.                                      *)
KeyOf(g) == <<g.crand, g.srand, g.cipher, g.kx>>
OwnIn(s, key) == IF s = "client" THEN key[1] ELSE key[2]
OwnRandom(s, g) == IF s = "client" THEN g.crand ELSE g.srand
(* The peer waits for a message of a handshake. *)
InHandshake(p) == p.state \notin {"INIT", "CONNECTED", "CLOSING", "CLOSED"}

(* The kinds of the messages a hash covers. *)
Kinds(hash) == [i \in DOMAIN hash |-> hash[i][1]]

(* The messages of the server's flight, after the ClientHello.             *)
ServerFlight(cipher, h) ==
  LET auth == {"get_ecdsa_key", "verify_ecdsa_key"} \subseteq h
      hello == Append(<<"client_hello">>, "server_hello")
      cert == Append(Append(hello, "certificate"), "server_key_exchange")
      all == CASE Ecdsa(cipher) /\ auth -> Append(cert, "certificate_request")
               [] Ecdsa(cipher) /\ ~auth -> cert
               [] ~Ecdsa(cipher) /\ "psk_hint" \in h ->
                    Append(hello, "server_key_exchange")
               [] OTHER -> hello
  IN Append(all, "server_hello_done")

(* The messages of the client's answer, and the whole handshake.           *)
ClientFlight(cipher, h) ==
  IF Ecdsa(cipher) /\ {"get_ecdsa_key", "verify_ecdsa_key"} \subseteq h
  THEN Append(Append(Append(ServerFlight(cipher, h), "certificate"),
                     "client_key_exchange"), "certificate_verify")
  ELSE Append(ServerFlight(cipher, h), "client_key_exchange")
Whole(cipher, h) == Append(ClientFlight(cipher, h), "finished")

(* What a server with callbacks h and handshake parameters g has hashed in *)
(* state st.                                                               *)
Covered(h, g, st) ==
  LET flight == ServerFlight(g.cipher, h)
      auth == Ecdsa(g.cipher) /\ {"get_ecdsa_key", "verify_ecdsa_key"} \subseteq h
  IN /\ st \in {"WAIT_CLIENTCERTIFICATE", "WAIT_CLIENTKEYEXCHANGE",
                "WAIT_CERTIFICATEVERIFY", "WAIT_CHANGECIPHERSPEC",
                "WAIT_FINISHED"} => g.cipher \in {"psk", "ecdsa"}
     /\ st = "WAIT_CLIENTCERTIFICATE" => auth /\ Kinds(g.hash) = flight
     /\ st = "WAIT_CLIENTKEYEXCHANGE" =>
          Kinds(g.hash) = IF auth THEN Append(flight, "certificate") ELSE flight
     /\ st = "WAIT_CERTIFICATEVERIFY" =>
          auth /\ Kinds(g.hash) = Append(Append(flight, "certificate"),
                                         "client_key_exchange")
     /\ st \in {"WAIT_CHANGECIPHERSPEC", "WAIT_FINISHED"} =>
          Kinds(g.hash) = ClientFlight(g.cipher, h)

(* The random of this side is one no completed session has.                *)
Fresh(s, x) ==
  /\ OwnRandom(s, x.peer.hs) <= x.rnd
  /\ \A d \in x.done : OwnIn(s, d.key) < OwnRandom(s, x.peer.hs)

(* PendingParams, with what the key is derived from. *)
Pending(s, p) ==
  /\ (s = "server" /\ p.state = "WAIT_FINISHED") =>
       /\ p.sec[1] # NULL /\ p.sec[1].epoch = p.sec[0].epoch + 1
       /\ p.sec[1].key = p.hs.master /\ p.hs.master = KeyOf(p.hs)
  /\ (s = "client" /\ p.state \in {"WAIT_CHANGECIPHERSPEC", "WAIT_FINISHED"}) =>
       p.sec[0].key = p.hs.master /\ p.hs.master = KeyOf(p.hs)

(* The peer object of side s is sound. *)
Sound(s, x) ==
  LET p == x.peer
  IN /\ p.role = s /\ p.id \in 1..x.peers
     /\ p.sec[0] # NULL
     /\ InHandshake(p) => p.hs # NULL
     /\ p.state = "CONNECTED" =>
          p.sec[0].key \in KeyBlock /\ (s = "client" => p.hs = NULL)
     /\ Pending(s, p)
     /\ (p.hs # NULL /\ (s = "client" \/ InHandshake(p))) => Fresh(s, x)
     /\ s = "server" => Covered(x.h, p.hs, p.state)

(* What is buffered are messages of the other side, one for each number.   *)
Buffered(s, o, x) ==
  (x.peer.hs # NULL /\ x.peer.hs.reorder_queue # NULL) =>
     /\ IsFiniteSet(x.peer.hs.reorder_queue)
     /\ \A m \in x.peer.hs.reorder_queue :
          /\ Says(Other(s), o.h, o.done, m)
          /\ \A n \in x.peer.hs.reorder_queue : m.seq = n.seq => m = n

(* What waits to be retransmitted and what is written are messages of side *)
(* s; its nodes refer to peers it has allocated.                           *)
Posted(s, done, x) ==
  /\ \A i \in DOMAIN x.sendqueue :
       LET n == x.sendqueue[i]
       IN /\ n.peer \in 1..x.peers
          /\ n.ct = "handshake" => Says(s, x.h, done, n.msg)
  /\ \A i \in DOMAIN x.out :
       LET r == x.out[i]
       IN r.ct = "handshake" => Says(s, x.h, done, r.msg)

(* All of it. *)
Good(s, o, x) ==
  /\ x \in Endpoints
  /\ \A d \in x.done : OwnIn(s, d.key) <= x.rnd
  /\ s = "client" => x.done \subseteq o.done
  /\ s = "server" => \A d \in x.done : Kinds(d.hash) = Whole(d.key[3], x.h)
  /\ Posted(s, x.done, x)
  /\ x.peer # NULL => Sound(s, x) /\ Buffered(s, o, x)

(* Protected, for what has been written. *)
Sealed(x) ==
  \A i \in DOMAIN x.out :
    LET r == x.out[i]
    IN /\ r.ct = "application_data" => r.key # NULL
       /\ (r.ct = "handshake" /\ r.msg.ht = "finished") =>
            r.key = r.msg.verify[2]

(* A Finished that waits to be retransmitted. *)
Waits(x, n) == n.ct = "handshake" /\ n.msg.ht = "finished" /\ Live(x, n)

(* ... is protected with the current parameters. *)
Guarded(x) ==
  /\ Sealed(x)
  /\ \A i \in DOMAIN x.sendqueue :
       LET n == x.sendqueue[i]
       IN Waits(x, n) => /\ n.epoch = x.peer.sec[0].epoch
                         /\ n.msg.verify[2] = x.peer.sec[0].key

(* ... or there is none, and the parameters may change. *)
Clear(x) ==
  Sealed(x) /\ \A i \in DOMAIN x.sendqueue : ~Waits(x, x.sendqueue[i])

-----------------------------------------------------------------------------
(* Types *)

(* The fields of an endpoint.                                              *)
LEMMA EndpointType ==
  ASSUME NEW x \in Endpoints
  PROVE  /\ x.h \in SUBSET Callback /\ x.sendqueue \in Seq(Nodes)
         /\ x.peers \in Nat /\ x.rnd \in Nat /\ x.crashed \in BOOLEAN
         /\ x.out \in Seq(Datagrams)
         /\ x.ev \in Seq({"CONNECT", "CONNECTED", "ALERT", "READ"})
         /\ x.ret \in {"ok"} \cup Errors /\ x.fate \in {"crash", "stale", "reused"}
         /\ x.done \subseteq [key : KeyBlock, hash : Transcript]
         /\ x.faults \subseteq {"freed_peer", "null_peer", "null_queue"}
         /\ x.peer = NULL \/ x.peer \in Peers
BY DEF Endpoints

(* The fields of a peer object; NULL is none.                              *)
LEMMA PeerType ==
  ASSUME NEW p \in Peers
  PROVE  /\ p # NULL /\ p.id \in Nat /\ p.role \in {"client", "server"}
         /\ p.state \in States
         /\ p.hs = NULL \/ p.hs \in Handshakes
         /\ p.sec \in [Slot -> {NULL} \cup Security]
         /\ p.sec[0] = NULL \/ p.sec[0] \in Security
         /\ p.sec[1] = NULL \/ p.sec[1] \in Security
<1>1. 0 \in Slot /\ 1 \in Slot
  BY DEF Slot
<1>2. /\ p.id \in Nat /\ p.role \in {"client", "server"}
      /\ p.state \in States
      /\ p.hs = NULL \/ p.hs \in Handshakes
      /\ p.sec \in [Slot -> {NULL} \cup Security]
  BY DEF Peers
<1> QED BY <1>1, <1>2, NullAssumption

(* The fields of handshake parameters.                                     *)
LEMMA HsType ==
  ASSUME NEW g \in Handshakes
  PROVE  /\ g # NULL /\ g.mseq_r \in Nat /\ g.mseq_s \in Nat
         /\ g.reorder_queue = NULL \/ g.reorder_queue \subseteq Messages
         /\ g.crand \in Nat /\ g.srand \in Nat /\ g.kx \in Nat
         /\ g.cipher \in Cipher /\ g.master \in {<<>>} \cup KeyBlock
         /\ g.auth \in BOOLEAN /\ g.hash \in Transcript
         /\ KeyOf(g) \in KeyBlock
<1>1. g # NULL
  BY NullAssumption
<1> QED BY <1>1 DEF Handshakes, KeyOf, KeyBlock

(* The fields of security parameters.                                      *)
LEMMA SecType ==
  ASSUME NEW c \in Security
  PROVE  /\ c # NULL /\ c.epoch \in Nat /\ c.cipher \in Cipher
         /\ c.key \in {NULL} \cup KeyBlock
BY NullAssumption DEF Security

-----------------------------------------------------------------------------
(* Assignments *)

(* Nothing but the peer differs. *)
Top(x, y) ==
  /\ y.h = x.h /\ y.sendqueue = x.sendqueue /\ y.peers = x.peers
  /\ y.rnd = x.rnd /\ y.crashed = x.crashed /\ y.out = x.out /\ y.ev = x.ev
  /\ y.ret = x.ret /\ y.fate = x.fate /\ y.done = x.done
  /\ y.faults = x.faults

(* Nothing but the handshake parameters differ. *)
Alike(p, q) ==
  /\ q.id = p.id /\ q.role = p.role /\ q.state = p.state /\ q.sec = p.sec

(* Assigning the peer leaves an endpoint.                                  *)
LEMMA PutPeer ==
  ASSUME NEW x \in Endpoints, NEW p \in {NULL} \cup Peers
  PROVE  /\ [x EXCEPT !.peer = p] \in Endpoints
         /\ [x EXCEPT !.peer = p].peer = p
         /\ Top(x, [x EXCEPT !.peer = p])
<1>1. [x EXCEPT !.peer = p] \in Endpoints
  BY DEF Endpoints
<1>2. [x EXCEPT !.peer = p].peer = p
  BY DEF Endpoints
<1>3. Top(x, [x EXCEPT !.peer = p])
  BY DEF Endpoints, Top
<1> QED BY <1>1, <1>2, <1>3

(* Assigning the handshake parameters leaves an endpoint.                  *)
LEMMA PutHs ==
  ASSUME NEW x \in Endpoints, x.peer # NULL, NEW g \in {NULL} \cup Handshakes
  PROVE  LET y == [x EXCEPT !.peer.hs = g]
         IN /\ y \in Endpoints /\ y.peer \in Peers /\ y.peer # NULL
            /\ y.peer.hs = g /\ Alike(x.peer, y.peer) /\ Top(x, y)
<1> DEFINE p == [x.peer EXCEPT !.hs = g]
           y == [x EXCEPT !.peer = p]
<1>1. x.peer \in Peers
  BY EndpointType
<1>2. p \in Peers /\ p.hs = g /\ Alike(x.peer, p)
  BY <1>1 DEF Peers, Alike
<1> HIDE DEF p
<1>3. y \in Endpoints /\ y.peer = p /\ Top(x, y)
  BY <1>2, PutPeer
<1>4. [x EXCEPT !.peer.hs = g] = y
  BY DEF p
<1>5. p # NULL
  BY <1>2, PeerType
<1> QED BY <1>2, <1>3, <1>4, <1>5

(* Assigning the state leaves an endpoint.                                 *)
LEMMA PutState ==
  ASSUME NEW x \in Endpoints, x.peer # NULL, NEW st \in States
  PROVE  LET y == SetState(x, st)
         IN /\ y \in Endpoints /\ y.peer \in Peers /\ y.peer # NULL
            /\ y.peer.state = st /\ y.peer.id = x.peer.id
            /\ y.peer.role = x.peer.role /\ y.peer.hs = x.peer.hs
            /\ y.peer.sec = x.peer.sec /\ Top(x, y)
<1> DEFINE p == [x.peer EXCEPT !.state = st]
           y == [x EXCEPT !.peer = p]
<1>1. x.peer \in Peers
  BY EndpointType
<1>2. /\ p \in Peers /\ p.state = st /\ p.id = x.peer.id
      /\ p.role = x.peer.role /\ p.hs = x.peer.hs /\ p.sec = x.peer.sec
  BY <1>1 DEF Peers
<1> HIDE DEF p
<1>3. y \in Endpoints /\ y.peer = p /\ Top(x, y)
  BY <1>2, PutPeer
<1>4. SetState(x, st) = y
  BY DEF p, SetState
<1>5. p # NULL
  BY <1>2, PeerType
<1> QED BY <1>2, <1>3, <1>4, <1>5

(* Assigning the security parameters leaves an endpoint.                   *)
LEMMA PutSec ==
  ASSUME NEW x \in Endpoints, x.peer # NULL,
         NEW sec \in [Slot -> {NULL} \cup Security]
  PROVE  LET y == [x EXCEPT !.peer.sec = sec]
         IN /\ y \in Endpoints /\ y.peer \in Peers /\ y.peer # NULL
            /\ y.peer.state = x.peer.state /\ y.peer.id = x.peer.id
            /\ y.peer.role = x.peer.role /\ y.peer.hs = x.peer.hs
            /\ y.peer.sec = sec /\ Top(x, y)
<1> DEFINE p == [x.peer EXCEPT !.sec = sec]
           y == [x EXCEPT !.peer = p]
<1>1. x.peer \in Peers
  BY EndpointType
<1>2. /\ p \in Peers /\ p.state = x.peer.state /\ p.id = x.peer.id
      /\ p.role = x.peer.role /\ p.hs = x.peer.hs /\ p.sec = sec
  BY <1>1 DEF Peers
<1> HIDE DEF p
<1>3. y \in Endpoints /\ y.peer = p /\ Top(x, y)
  BY <1>2, PutPeer
<1>4. [x EXCEPT !.peer.sec = sec] = y
  BY DEF p
<1>5. p # NULL
  BY <1>2, PeerType
<1> QED BY <1>2, <1>3, <1>4, <1>5

-----------------------------------------------------------------------------
(* Sending *)

(* Nothing but the peer and what is sent differs. *)
Rest(x, y) ==
  /\ y.h = x.h /\ y.peers = x.peers /\ y.rnd = x.rnd
  /\ y.crashed = x.crashed /\ y.ev = x.ev /\ y.ret = x.ret
  /\ y.fate = x.fate /\ y.done = x.done /\ y.faults = x.faults

(* Nothing but the hash and the number of the next message differs. *)
SameHs(f, g) ==
  /\ g.mseq_r = f.mseq_r /\ g.reorder_queue = f.reorder_queue
  /\ g.crand = f.crand /\ g.srand = f.srand /\ g.kx = f.kx
  /\ g.cipher = f.cipher /\ g.master = f.master /\ g.auth = f.auth

(* y is x after records were written; fin when a Finished may be among     *)
(* them.                                                                   *)
Wrote(s, done, fin, x, y) ==
  /\ y \in Endpoints /\ Rest(x, y)
  /\ x.peer = NULL => y.peer = NULL
  /\ x.peer # NULL =>
       /\ y.peer # NULL /\ Alike(x.peer, y.peer)
       /\ x.peer.hs = NULL => y.peer.hs = NULL
       /\ x.peer.hs # NULL => y.peer.hs # NULL /\ SameHs(x.peer.hs, y.peer.hs)
  /\ Posted(s, done, x) => Posted(s, done, y)
  /\ Guarded(x) => Guarded(y)
  /\ fin = "finished" \/ (Clear(x) => Clear(y))

(* dtls_send_multi finds parameters and an allocated peer. *)
CanSend(x) ==
  x.peer # NULL => x.peer.sec[0] # NULL /\ x.peer.id \in 1..x.peers

(* What side s may send with content m in the state it is in. *)
MaySend(s, done, fin, x, ct, m) ==
  /\ ct \in ContentType /\ m \in Contents
  /\ x.peer = NULL => ct = "handshake" /\ m.ht = "hello_verify_request"
  /\ ct = "handshake" =>
       /\ Says(s, x.h, done, m)
       /\ m.ht = "finished" => fin = "finished" /\ m.verify[2] = x.peer.sec[0].key
  /\ ct = "application_data" => x.peer.sec[0].key # NULL

(* Writing twice is writing.                                               *)
LEMMA WroteTwice ==
  ASSUME NEW s, NEW done, NEW fin, NEW x, NEW y, NEW z,
         Wrote(s, done, fin, x, y), Wrote(s, done, fin, y, z)
  PROVE  Wrote(s, done, fin, x, z)
<1>1. z \in Endpoints /\ Rest(x, z)
  BY DEF Wrote, Rest
<1>2. x.peer = NULL => z.peer = NULL
  BY DEF Wrote
<1>3. x.peer # NULL =>
        /\ z.peer # NULL /\ Alike(x.peer, z.peer)
        /\ x.peer.hs = NULL => z.peer.hs = NULL
        /\ x.peer.hs # NULL => z.peer.hs # NULL /\ SameHs(x.peer.hs, z.peer.hs)
  BY DEF Wrote, Alike, SameHs
<1>4. /\ Posted(s, done, x) => Posted(s, done, z)
      /\ Guarded(x) => Guarded(z)
      /\ fin = "finished" \/ (Clear(x) => Clear(z))
  BY DEF Wrote
<1> QED BY <1>1, <1>2, <1>3, <1>4 DEF Wrote

(* What could send before writing still can.                               *)
LEMMA CanSendOn ==
  ASSUME NEW s, NEW done, NEW fin, NEW x, NEW y, Wrote(s, done, fin, x, y), CanSend(x)
  PROVE  CanSend(y)
BY DEF Wrote, Rest, Alike, CanSend

(* An element of a sequence that was appended to is old or new.            *)
LEMMA AppendOld ==
  ASSUME NEW S, NEW q \in Seq(S), NEW e, NEW i \in DOMAIN Append(q, e)
  PROVE  \/ i \in DOMAIN q /\ Append(q, e)[i] = q[i]
         \/ Append(q, e)[i] = e
OBVIOUS

(* dtls_send_multi writes, and queues what is to be sent again.            *)
LEMMA SendMultiWrote ==
  ASSUME NEW s, NEW done, NEW fin, NEW x \in Endpoints, CanSend(x),
         NEW ct, NEW m, MaySend(s, done, fin, x, ct, m)
  PROVE  /\ Wrote(s, done, fin, x, SendMulti(x, ct, m))
         /\ SendMulti(x, ct, m).peer = x.peer
<1> DEFINE security == IF x.peer = NULL THEN NewSecurity ELSE x.peer.sec[0]
           record == [ct |-> ct, epoch |-> security.epoch, key |-> security.key,
                      msg |-> m]
           node == [peer |-> x.peer.id, epoch |-> security.epoch, ct |-> ct,
                    msg |-> m]
           z == [x EXCEPT !.out = Append(@, record)]
           y == SendMulti(x, ct, m)
<1>1. /\ security \in Security /\ security.epoch \in Nat
      /\ security.key \in {NULL} \cup KeyBlock
  <2>1. NewSecurity \in Security
    BY DEF NewSecurity, Security, Cipher
  <2>2. x.peer # NULL => x.peer.sec[0] \in Security
    BY EndpointType, PeerType DEF CanSend
  <2>3. security \in Security
    BY <2>1, <2>2
  <2> QED BY <2>3, SecType
<1> HIDE DEF security
<1>a. ct \in ContentType /\ m \in Contents
  BY DEF MaySend
<1>2. record \in Datagrams
  BY <1>1, <1>a DEF Datagrams
<1>3. (x.peer # NULL /\ ct \in {"ccs", "handshake"}) => node \in Nodes
  <2>1. x.peer # NULL => x.peer.id \in Nat
    BY EndpointType, PeerType
  <2> QED BY <1>1, <1>a, <2>1 DEF Nodes
<1>4. x.out \in Seq(Datagrams) /\ x.sendqueue \in Seq(Nodes)
  BY EndpointType
<1>5. /\ z \in Endpoints /\ z.out = Append(x.out, record)
      /\ z.peer = x.peer /\ z.sendqueue = x.sendqueue /\ Rest(x, z)
  <2> HIDE DEF record
  <2>1. Append(x.out, record) \in Seq(Datagrams)
    BY <1>2, <1>4
  <2>2. z \in Endpoints
    BY <2>1 DEF Endpoints
  <2>3. /\ z.out = Append(x.out, record)
        /\ z.peer = x.peer /\ z.sendqueue = x.sendqueue
    BY DEF Endpoints
  <2>4. Rest(x, z)
    BY DEF Endpoints, Rest
  <2> QED BY <2>2, <2>3, <2>4
<1>6. /\ y \in Endpoints /\ y.out = Append(x.out, record)
      /\ y.peer = x.peer /\ Rest(x, y)
      /\ \/ y.sendqueue = x.sendqueue
         \/ x.peer # NULL /\ y.sendqueue = Append(x.sendqueue, node)
  <2>1. CASE ~(ct = "ccs" \/ (ct = "handshake" /\ m.ht # "hello_verify_request"))
    <3>1. y = z
      BY <2>1 DEF SendMulti, security
    <3> QED BY <3>1, <1>5
  <2>2. CASE ct = "ccs" \/ (ct = "handshake" /\ m.ht # "hello_verify_request")
    <3> DEFINE w == [z EXCEPT !.sendqueue = Append(@, node)]
    <3>1. y = w
      BY <2>2 DEF SendMulti, security
    <3>2. x.peer # NULL
      BY <2>2 DEF MaySend
    <3> HIDE DEF z, node, record
    <3>3. Append(z.sendqueue, node) \in Seq(Nodes)
      BY <1>3, <1>4, <1>5, <2>2, <3>2
    <3>4. w \in Endpoints
      BY <1>5, <3>3 DEF Endpoints
    <3>5. /\ w.out = z.out /\ w.peer = z.peer
          /\ w.sendqueue = Append(z.sendqueue, node)
      BY <1>5 DEF Endpoints
    <3>6. Rest(z, w)
      BY <1>5 DEF Endpoints, Rest
    <3> QED BY <3>1, <3>2, <3>4, <3>5, <3>6, <1>5 DEF Rest
  <2> QED BY <2>1, <2>2
<1>7. y.h = x.h /\ y.peers = x.peers
  BY <1>6 DEF Rest
<1>b. \A i \in DOMAIN y.sendqueue :
        \/ i \in DOMAIN x.sendqueue /\ y.sendqueue[i] = x.sendqueue[i]
        \/ x.peer # NULL /\ y.sendqueue[i] = node
  <2> HIDE DEF y, node
  <2>1. CASE y.sendqueue = x.sendqueue
    BY <2>1
  <2>2. CASE x.peer # NULL /\ y.sendqueue = Append(x.sendqueue, node)
    <3>1. \A i \in DOMAIN Append(x.sendqueue, node) :
            \/ /\ i \in DOMAIN x.sendqueue
               /\ Append(x.sendqueue, node)[i] = x.sendqueue[i]
            \/ Append(x.sendqueue, node)[i] = node
      BY <1>4, AppendOld
    <3> QED BY <2>2, <3>1
  <2> QED BY <1>6, <2>1, <2>2
<1>f. \A i \in DOMAIN y.out :
        (i \in DOMAIN x.out /\ y.out[i] = x.out[i]) \/ y.out[i] = record
  <2> HIDE DEF y, record
  <2>1. \A i \in DOMAIN Append(x.out, record) :
          \/ i \in DOMAIN x.out /\ Append(x.out, record)[i] = x.out[i]
          \/ Append(x.out, record)[i] = record
    BY <1>4, AppendOld
  <2> QED BY <1>6, <2>1
<1>8. ASSUME Posted(s, done, x) PROVE Posted(s, done, y)
  <2>1. ASSUME NEW i \in DOMAIN y.sendqueue
        PROVE  /\ y.sendqueue[i].peer \in 1..y.peers
               /\ y.sendqueue[i].ct = "handshake" =>
                    Says(s, y.h, done, y.sendqueue[i].msg)
    <3>1. CASE i \in DOMAIN x.sendqueue /\ y.sendqueue[i] = x.sendqueue[i]
      BY <3>1, <1>7, <1>8 DEF Posted
    <3>2. CASE x.peer # NULL /\ y.sendqueue[i] = node
      BY <3>2, <1>7 DEF MaySend, CanSend
    <3> HIDE DEF y, node
    <3> QED BY <1>b, <3>1, <3>2
  <2>2. ASSUME NEW i \in DOMAIN y.out, y.out[i].ct = "handshake"
        PROVE  Says(s, y.h, done, y.out[i].msg)
    <3>1. CASE i \in DOMAIN x.out /\ y.out[i] = x.out[i]
      BY <3>1, <2>2, <1>7, <1>8 DEF Posted
    <3>2. CASE y.out[i] = record
      BY <3>2, <2>2, <1>7 DEF MaySend
    <3> HIDE DEF y, record
    <3> QED BY <1>f, <3>1, <3>2
  <2> QED BY <2>1, <2>2 DEF Posted
<1>9. ASSUME Sealed(x) PROVE Sealed(y)
  <2> SUFFICES ASSUME NEW i \in DOMAIN y.out
        PROVE  /\ y.out[i].ct = "application_data" => y.out[i].key # NULL
               /\ (y.out[i].ct = "handshake" /\ y.out[i].msg.ht = "finished") =>
                    y.out[i].key = y.out[i].msg.verify[2]
    BY DEF Sealed
  <2>1. CASE i \in DOMAIN x.out /\ y.out[i] = x.out[i]
    BY <2>1, <1>9 DEF Sealed
  <2>2. CASE y.out[i] = record
    <3>1. ct = "application_data" => security.key # NULL
      BY DEF MaySend, security
    <3>2. ct = "handshake" /\ m.ht = "finished" => security.key = m.verify[2]
      BY DEF MaySend, security
    <3> QED BY <2>2, <3>1, <3>2
  <2> HIDE DEF y, record
  <2> QED BY <1>f, <2>1, <2>2
<1>c. ASSUME NEW i \in DOMAIN y.sendqueue
      PROVE  \/ /\ i \in DOMAIN x.sendqueue /\ y.sendqueue[i] = x.sendqueue[i]
                /\ Waits(y, y.sendqueue[i]) <=> Waits(x, x.sendqueue[i])
             \/ /\ x.peer # NULL /\ y.sendqueue[i] = node
                /\ ct = "handshake" => MaySend(s, done, fin, x, ct, m)
  <2> HIDE DEF y, node
  <2> QED BY <1>b, <1>6 DEF Waits, Live
<1>d. ASSUME Guarded(x) PROVE Guarded(y)
  <2> SUFFICES ASSUME NEW i \in DOMAIN y.sendqueue, Waits(y, y.sendqueue[i])
        PROVE  /\ y.sendqueue[i].epoch = y.peer.sec[0].epoch
               /\ y.sendqueue[i].msg.verify[2] = y.peer.sec[0].key
    BY <1>d, <1>9 DEF Guarded
  <2>1. CASE /\ i \in DOMAIN x.sendqueue /\ y.sendqueue[i] = x.sendqueue[i]
             /\ Waits(y, y.sendqueue[i]) <=> Waits(x, x.sendqueue[i])
    <3> HIDE DEF y
    <3> QED BY <2>1, <1>6, <1>d DEF Guarded
  <2>2. CASE x.peer # NULL /\ y.sendqueue[i] = node
    <3>1. ct = "handshake" /\ m.ht = "finished"
      BY <2>2 DEF Waits
    <3>2. m.verify[2] = x.peer.sec[0].key
      BY <3>1 DEF MaySend
    <3>3. security = x.peer.sec[0]
      BY <2>2 DEF security
    <3>4. node.epoch = x.peer.sec[0].epoch /\ node.msg = m
      BY <3>3
    <3> HIDE DEF y, node
    <3> QED BY <2>2, <3>2, <3>4, <1>6
  <2> QED BY <2>1, <2>2, <1>c
<1>e. ASSUME fin # "finished", Clear(x) PROVE Clear(y)
  <2> SUFFICES ASSUME NEW i \in DOMAIN y.sendqueue, Waits(y, y.sendqueue[i])
               PROVE  FALSE
    BY <1>e, <1>9 DEF Clear
  <2>1. CASE /\ i \in DOMAIN x.sendqueue /\ y.sendqueue[i] = x.sendqueue[i]
             /\ Waits(y, y.sendqueue[i]) <=> Waits(x, x.sendqueue[i])
    <3> HIDE DEF y
    <3> QED BY <2>1, <1>e DEF Clear
  <2>2. CASE x.peer # NULL /\ y.sendqueue[i] = node
    <3>1. ct = "handshake" /\ m.ht = "finished"
      BY <2>2 DEF Waits
    <3> QED BY <3>1, <1>e DEF MaySend
  <2> QED BY <2>1, <2>2, <1>c
<1>10. x.peer # NULL =>
         /\ y.peer # NULL /\ Alike(x.peer, y.peer)
         /\ x.peer.hs = NULL => y.peer.hs = NULL
         /\ x.peer.hs # NULL => y.peer.hs # NULL /\ SameHs(x.peer.hs, y.peer.hs)
  <2> HIDE DEF y
  <2> QED BY <1>6 DEF Alike, SameHs
<1> HIDE DEF y
<1>11. Wrote(s, done, fin, x, y) /\ y.peer = x.peer
  BY <1>6, <1>8, <1>d, <1>e, <1>10 DEF Wrote
<1> QED BY <1>11 DEF y

(* What is sent does not depend on the handshake parameters. *)
LEMMA TopKeeps ==
  ASSUME NEW x, NEW y, NEW s, NEW done,
         x.peer # NULL, y.peer # NULL, Alike(x.peer, y.peer),
         y.h = x.h, y.peers = x.peers, y.sendqueue = x.sendqueue,
         y.out = x.out
  PROVE  /\ Posted(s, done, x) => Posted(s, done, y)
         /\ Guarded(x) => Guarded(y)
         /\ Clear(x) => Clear(y)
<1>1. \A n : Waits(y, n) <=> Waits(x, n)
  BY DEF Waits, Live, Alike
<1>2. Posted(s, done, x) => Posted(s, done, y)
  BY DEF Posted
<1>3. Sealed(x) => Sealed(y)
  BY DEF Sealed
<1>4. Guarded(x) => Guarded(y)
  BY <1>1, <1>3 DEF Guarded, Alike
<1>5. Clear(x) => Clear(y)
  BY <1>1, <1>3 DEF Clear
<1> QED BY <1>2, <1>4, <1>5

(* An assignment to the handshake parameters that the key and the reorder  *)
(* queue do not depend on.                                                 *)
LEMMA PutWrote ==
  ASSUME NEW s, NEW done, NEW fin, NEW x \in Endpoints,
         x.peer # NULL, x.peer.hs # NULL,
         NEW g \in Handshakes, SameHs(x.peer.hs, g)
  PROVE  /\ Wrote(s, done, fin, x, [x EXCEPT !.peer.hs = g])
         /\ [x EXCEPT !.peer.hs = g].peer.hs = g
<1> DEFINE y == [x EXCEPT !.peer.hs = g]
<1>1. /\ y \in Endpoints /\ y.peer \in Peers /\ y.peer # NULL
      /\ y.peer.hs = g /\ Alike(x.peer, y.peer) /\ Top(x, y)
  BY PutHs
<1>2. g # NULL
  BY HsType
<1> HIDE DEF y
<1>3. /\ Posted(s, done, x) => Posted(s, done, y)
      /\ Guarded(x) => Guarded(y)
      /\ Clear(x) => Clear(y)
  BY <1>1, TopKeeps DEF Top
<1>4. Rest(x, y)
  BY <1>1 DEF Rest, Top
<1>5. Wrote(s, done, fin, x, y)
  BY <1>1, <1>2, <1>3, <1>4 DEF Wrote
<1> QED BY <1>1, <1>5 DEF y

(* Adding a message to a hash adds its kind.                               *)
LEMMA AppendKinds ==
  ASSUME NEW hash \in Transcript, NEW m \in Messages
  PROVE  /\ Append(hash, HashOf(m)) \in Transcript
         /\ Kinds(Append(hash, HashOf(m))) = Append(Kinds(hash), m.ht)
<1> DEFINE e == HashOf(m)
           E == (ClientKinds \cup ServerKinds) \X Nat \X Nat
<1>1. e \in E /\ e[1] = m.ht
  BY DEF HashOf, Messages
<1>2. hash \in Seq(E)
  BY DEF Transcript
<1> HIDE DEF e, E
<1>3. Append(hash, e) \in Seq(E)
  BY <1>1, <1>2
<1>4. Kinds(Append(hash, e)) = Append(Kinds(hash), m.ht)
  <2>1. /\ DOMAIN Kinds(hash) = DOMAIN hash
        /\ DOMAIN hash = 1..Len(hash) /\ Len(hash) \in Nat
    BY <1>2 DEF Kinds
  <2>2. Kinds(hash) \in Seq({h[1] : h \in E}) /\ Len(Kinds(hash)) = Len(hash)
    BY <1>2 DEF Kinds
  <2> QED BY <1>1, <1>2, <2>1, <2>2 DEF Kinds
<1> QED BY <1>3, <1>4 DEF e, E, Transcript

(* update_hs_hash changes nothing but the hash.                            *)
LEMMA HashWrote ==
  ASSUME NEW s, NEW done, NEW fin, NEW x \in Endpoints,
         x.peer # NULL, x.peer.hs # NULL, NEW m \in Messages
  PROVE  /\ Wrote(s, done, fin, x, Hash(x, m))
         /\ Kinds(Hash(x, m).peer.hs.hash) = Append(Kinds(x.peer.hs.hash), m.ht)
<1> DEFINE f == x.peer.hs
           g == [f EXCEPT !.hash = Append(f.hash, HashOf(m))]
<1>1. f \in Handshakes /\ f.hash \in Transcript
  BY EndpointType, PeerType, HsType
<1>2. /\ Append(f.hash, HashOf(m)) \in Transcript
      /\ Kinds(Append(f.hash, HashOf(m))) = Append(Kinds(f.hash), m.ht)
  BY <1>1, AppendKinds
<1>3. g \in Handshakes /\ SameHs(f, g) /\ g.hash = Append(f.hash, HashOf(m))
  BY <1>1, <1>2 DEF Handshakes, SameHs
<1> DEFINE y == [x EXCEPT !.peer.hs = g]
<1>4. Hash(x, m) = y
  BY DEF Hash
<1>5. Wrote(s, done, fin, x, y) /\ y.peer.hs = g
  <2> HIDE DEF g
  <2> QED BY <1>3, PutWrote
<1> HIDE DEF g, y
<1> QED BY <1>2, <1>3, <1>4, <1>5

(* Counting a message changes nothing but the count.                       *)
LEMMA NumberWrote ==
  ASSUME NEW s, NEW done, NEW fin, NEW x \in Endpoints,
         x.peer # NULL, x.peer.hs # NULL
  PROVE  LET y == [x EXCEPT !.peer.hs.mseq_s = @ + 1]
         IN Wrote(s, done, fin, x, y) /\ y.peer.hs.hash = x.peer.hs.hash
<1> DEFINE f == x.peer.hs
           g == [f EXCEPT !.mseq_s = f.mseq_s + 1]
<1>1. f \in Handshakes
  BY EndpointType, PeerType
<1>2. g \in Handshakes /\ SameHs(f, g) /\ g.hash = f.hash
  BY <1>1 DEF Handshakes, SameHs
<1> DEFINE y == [x EXCEPT !.peer.hs = g]
<1>3. [x EXCEPT !.peer.hs.mseq_s = @ + 1] = y
  OBVIOUS
<1>4. Wrote(s, done, fin, x, y) /\ y.peer.hs = g
  <2> HIDE DEF g
  <2> QED BY <1>2, PutWrote
<1> HIDE DEF g, y
<1> QED BY <1>2, <1>3, <1>4

(* Only the number of a message differs. *)
LEMMA Renumbered ==
  ASSUME NEW s, NEW done, NEW fin, NEW x, NEW m \in Messages, NEW k \in Nat,
         MaySend(s, done, fin, x, "handshake", m)
  PROVE  LET n == [m EXCEPT !.seq = k]
         IN /\ MaySend(s, done, fin, x, "handshake", n)
            /\ n \in Messages /\ n.ht = m.ht
<1> DEFINE n == [m EXCEPT !.seq = k]
<1>1. /\ n \in Messages /\ n.ht = m.ht /\ n.suites = m.suites
      /\ n.verify = m.verify
  BY DEF Messages
<1> HIDE DEF n
<1>2. Says(s, x.h, done, n)
  BY <1>1 DEF MaySend, Says, SessionOf
<1>3. n \in Contents
  BY <1>1 DEF Contents
<1>4. MaySend(s, done, fin, x, "handshake", n)
  BY <1>1, <1>2, <1>3 DEF MaySend
<1> QED BY <1>1, <1>4 DEF n

(* dtls_send_handshake_msg_hash writes and hashes its message.             *)
LEMMA SendHandshakeHashWrote ==
  ASSUME NEW s, NEW done, NEW fin, NEW x \in Endpoints, CanSend(x),
         NEW m \in Messages, NEW hashed \in BOOLEAN,
         MaySend(s, done, fin, x, "handshake", m)
  PROVE  LET y == SendHandshakeHash(x, m, hashed)
         IN /\ Wrote(s, done, fin, x, y)
            /\ (HasHandshake(x) /\ hashed) =>
                 Kinds(y.peer.hs.hash) = Append(Kinds(x.peer.hs.hash), m.ht)
            /\ (HasHandshake(x) /\ ~hashed) =>
                 y.peer.hs.hash = x.peer.hs.hash
<1>1. CASE ~HasHandshake(x)
  BY <1>1, SendMultiWrote DEF SendHandshakeHash
<1>2. CASE HasHandshake(x)
  <2> DEFINE n == [m EXCEPT !.seq = x.peer.hs.mseq_s]
             y == [x EXCEPT !.peer.hs.mseq_s = @ + 1]
             z == IF hashed THEN Hash(y, n) ELSE y
             w == SendMulti(z, "handshake", n)
  <2>1. x.peer # NULL /\ x.peer.hs # NULL /\ x.peer.hs.mseq_s \in Nat
    BY <1>2, EndpointType, PeerType, HsType DEF HasHandshake
  <2>2. /\ MaySend(s, done, fin, x, "handshake", n)
        /\ n \in Messages /\ n.ht = m.ht
    BY <2>1, Renumbered
  <2>3. Wrote(s, done, fin, x, y) /\ y.peer.hs.hash = x.peer.hs.hash
    BY <2>1, NumberWrote
  <2>4. SendHandshakeHash(x, m, hashed) = w
    BY <1>2 DEF SendHandshakeHash
  <2> HIDE DEF n, y
  <2>5. y \in Endpoints /\ y.peer # NULL /\ y.peer.hs # NULL
    BY <2>1, <2>3 DEF Wrote
  <2>6. /\ Wrote(s, done, fin, y, z)
        /\ hashed => Kinds(z.peer.hs.hash) = Append(Kinds(y.peer.hs.hash), m.ht)
        /\ ~hashed => z.peer.hs.hash = y.peer.hs.hash
    <3>1. CASE hashed
      BY <3>1, <2>2, <2>5, HashWrote
    <3>2. CASE ~hashed
      BY <3>2, <2>5 DEF Wrote, Rest, Alike, SameHs
    <3> QED BY <3>1, <3>2
  <2> HIDE DEF z
  <2>7. Wrote(s, done, fin, x, z) /\ z \in Endpoints /\ CanSend(z)
    <3>1. Wrote(s, done, fin, x, z)
      BY <2>3, <2>6, WroteTwice
    <3> QED BY <3>1, CanSendOn DEF Wrote
  <2>8. MaySend(s, done, fin, z, "handshake", n)
    BY <2>1, <2>2, <2>7 DEF MaySend, Wrote, Rest, Alike
  <2>9. Wrote(s, done, fin, z, w) /\ w.peer = z.peer
    BY <2>7, <2>8, SendMultiWrote
  <2> HIDE DEF w
  <2>10. Wrote(s, done, fin, x, w)
    BY <2>7, <2>9, WroteTwice
  <2> QED BY <2>3, <2>4, <2>6, <2>9, <2>10
<1> QED BY <1>1, <1>2

-----------------------------------------------------------------------------
(* A part of a handler *)

(* A part of a handler that keeps the peer and its handshake parameters;   *)
(* fin when it may end with a Finished.                                    *)
Stays(s, done, fin, x, y) ==
  /\ y \in Endpoints
  /\ y.h = x.h /\ y.peers = x.peers /\ x.rnd <= y.rnd
  /\ y.crashed = x.crashed /\ y.ev = x.ev /\ y.fate = x.fate
  /\ y.done = x.done /\ y.faults = x.faults
  /\ y.peer # NULL /\ y.peer.id = x.peer.id /\ y.peer.role = x.peer.role
  /\ y.peer.hs # NULL /\ y.peer.hs.reorder_queue = x.peer.hs.reorder_queue
  /\ Posted(s, done, x) => Posted(s, done, y)
  /\ Clear(x) => Guarded(y) /\ (fin = "finished" \/ Clear(y))

(* With no Finished waiting, all that wait are protected.                  *)
LEMMA ClearGuarded ==
  ASSUME NEW x, Clear(x)
  PROVE  Guarded(x)
BY DEF Clear, Guarded

(* Two parts of a handler make one.                                        *)
LEMMA StaysTwice ==
  ASSUME NEW s, NEW done, NEW fin, NEW x \in Endpoints, NEW y, NEW z,
         Stays(s, done, "other", x, y), Stays(s, done, fin, y, z)
  PROVE  Stays(s, done, fin, x, z)
<1>1. x.rnd \in Nat /\ y.rnd \in Nat /\ z.rnd \in Nat
  BY EndpointType DEF Stays
<1>2. x.rnd <= z.rnd
  BY <1>1 DEF Stays
<1>3. Clear(x) => Guarded(z) /\ (fin = "finished" \/ Clear(z))
  BY DEF Stays
<1> QED BY <1>2, <1>3 DEF Stays

(* Writing is a part of a handler.                                         *)
LEMMA WroteStays ==
  ASSUME NEW s, NEW done, NEW fin, NEW x \in Endpoints, NEW y,
         x.peer # NULL, x.peer.hs # NULL, Wrote(s, done, fin, x, y)
  PROVE  Stays(s, done, fin, x, y)
<1>1. x.rnd \in Nat
  BY EndpointType
<1>2. Clear(x) => Guarded(y) /\ (fin = "finished" \/ Clear(y))
  BY ClearGuarded DEF Wrote
<1> QED BY <1>1, <1>2 DEF Wrote, Stays, Rest, Alike, SameHs

(* An assignment to a field of the handshake parameters. *)
LEMMA PutStays ==
  ASSUME NEW s, NEW done, NEW x \in Endpoints,
         x.peer # NULL, x.peer.hs # NULL,
         NEW g \in Handshakes, g.reorder_queue = x.peer.hs.reorder_queue
  PROVE  LET y == [x EXCEPT !.peer.hs = g]
         IN /\ Stays(s, done, "other", x, y) /\ Alike(x.peer, y.peer)
            /\ y.peer.hs = g /\ y.rnd = x.rnd /\ y.ret = x.ret
<1> DEFINE y == [x EXCEPT !.peer.hs = g]
<1>1. /\ y \in Endpoints /\ y.peer \in Peers /\ y.peer # NULL
      /\ y.peer.hs = g /\ Alike(x.peer, y.peer) /\ Top(x, y)
  BY PutHs
<1>2. g # NULL /\ x.rnd \in Nat
  BY HsType, EndpointType
<1> HIDE DEF y
<1>3. /\ Posted(s, done, x) => Posted(s, done, y)
      /\ Clear(x) => Clear(y)
  BY <1>1, TopKeeps DEF Top
<1>4. Clear(x) => Guarded(y) /\ Clear(y)
  BY <1>3, ClearGuarded
<1>5. Stays(s, done, "other", x, y)
  BY <1>1, <1>2, <1>3, <1>4 DEF Stays, Top, Alike
<1> QED BY <1>1, <1>5 DEF y, Top

(* Nothing but the state, the parameters, the randoms drawn and the result *)
(* differs.                                                                *)
Keeps(x, y) ==
  /\ y \in Endpoints /\ y.peer # NULL /\ y.peer.hs # NULL
  /\ y.peer.id = x.peer.id /\ y.peer.role = x.peer.role
  /\ y.peer.hs = x.peer.hs
  /\ y.h = x.h /\ y.peers = x.peers /\ x.rnd <= y.rnd
  /\ y.crashed = x.crashed /\ y.ev = x.ev /\ y.fate = x.fate
  /\ y.done = x.done /\ y.faults = x.faults
  /\ y.sendqueue = x.sendqueue /\ y.out = x.out

(* An assignment outside the peer is a part of a handler.                  *)
LEMMA KeepsStays ==
  ASSUME NEW s, NEW done, NEW x \in Endpoints, NEW y, x.peer # NULL, Keeps(x, y)
  PROVE  Stays(s, done, "other", x, y)
<1> USE DEF Keeps
<1>1. \A n : Waits(y, n) <=> Waits(x, n)
  BY DEF Waits, Live
<1>2. Posted(s, done, x) => Posted(s, done, y)
  BY DEF Posted
<1>3. Clear(x) => Clear(y)
  BY <1>1 DEF Clear, Sealed
<1>4. Clear(x) => Guarded(y) /\ Clear(y)
  BY <1>3, ClearGuarded
<1> QED BY <1>2, <1>4 DEF Stays

(* An assignment to the state is a part of a handler.                      *)
LEMMA StateStays ==
  ASSUME NEW s, NEW done, NEW x \in Endpoints,
         x.peer # NULL, x.peer.hs # NULL, NEW st \in States
  PROVE  LET y == SetState(x, st)
         IN /\ Stays(s, done, "other", x, y)
            /\ y.peer.state = st /\ y.peer.hs = x.peer.hs
            /\ y.peer.sec = x.peer.sec /\ y.rnd = x.rnd /\ y.ret = x.ret
<1> DEFINE y == SetState(x, st)
<1>1. /\ y \in Endpoints /\ y.peer \in Peers /\ y.peer # NULL
      /\ y.peer.state = st /\ y.peer.id = x.peer.id
      /\ y.peer.role = x.peer.role /\ y.peer.hs = x.peer.hs
      /\ y.peer.sec = x.peer.sec /\ Top(x, y)
  BY PutState
<1>2. x.rnd \in Nat
  BY EndpointType
<1> HIDE DEF y
<1>a. Keeps(x, y)
  BY <1>1, <1>2 DEF Keeps, Top
<1>3. Stays(s, done, "other", x, y)
  BY <1>a, KeepsStays
<1> QED BY <1>1, <1>3 DEF y, Top

(* An assignment to the security parameters is a part of a handler.        *)
LEMMA SecStays ==
  ASSUME NEW s, NEW done, NEW x \in Endpoints,
         x.peer # NULL, x.peer.hs # NULL,
         NEW sec \in [Slot -> {NULL} \cup Security]
  PROVE  LET y == [x EXCEPT !.peer.sec = sec]
         IN /\ Stays(s, done, "other", x, y)
            /\ y.peer.state = x.peer.state /\ y.peer.hs = x.peer.hs
            /\ y.peer.sec = sec /\ y.rnd = x.rnd /\ y.ret = x.ret
<1> DEFINE y == [x EXCEPT !.peer.sec = sec]
<1>1. /\ y \in Endpoints /\ y.peer \in Peers /\ y.peer # NULL
      /\ y.peer.state = x.peer.state /\ y.peer.id = x.peer.id
      /\ y.peer.role = x.peer.role /\ y.peer.hs = x.peer.hs
      /\ y.peer.sec = sec /\ Top(x, y)
  BY PutSec
<1>2. x.rnd \in Nat
  BY EndpointType
<1> HIDE DEF y
<1>a. Keeps(x, y)
  BY <1>1, <1>2 DEF Keeps, Top
<1>3. Stays(s, done, "other", x, y)
  BY <1>a, KeepsStays
<1> QED BY <1>1, <1>3 DEF y, Top

(* Drawing a random value is a part of a handler.                          *)
LEMMA DrawStays ==
  ASSUME NEW s, NEW done, NEW x \in Endpoints,
         x.peer # NULL, x.peer.hs # NULL
  PROVE  /\ Stays(s, done, "other", x, Draw(x))
         /\ Draw(x).peer = x.peer /\ Draw(x).rnd = x.rnd + 1
         /\ Draw(x).ret = x.ret
<1> DEFINE y == Draw(x)
<1>1. x.rnd \in Nat
  BY EndpointType
<1>2. y \in Endpoints
  BY <1>1 DEF Draw, Endpoints
<1>3. /\ y.peer = x.peer /\ y.rnd = x.rnd + 1 /\ y.ret = x.ret
      /\ y.h = x.h /\ y.peers = x.peers
      /\ y.crashed = x.crashed /\ y.ev = x.ev /\ y.fate = x.fate
      /\ y.done = x.done /\ y.faults = x.faults
      /\ y.sendqueue = x.sendqueue /\ y.out = x.out
  BY DEF Draw, Endpoints
<1> HIDE DEF y
<1>a. Keeps(x, y)
  BY <1>1, <1>2, <1>3 DEF Keeps
<1>4. Stays(s, done, "other", x, y)
  BY <1>a, KeepsStays
<1> QED BY <1>3, <1>4 DEF y

(* Returning an error is a part of a handler.                              *)
LEMMA ErrorStays ==
  ASSUME NEW s, NEW done, NEW x \in Endpoints,
         x.peer # NULL, x.peer.hs # NULL, NEW desc \in Errors
  PROVE  /\ Stays(s, done, "other", x, Error(x, desc))
         /\ Error(x, desc).peer = x.peer /\ Error(x, desc).rnd = x.rnd
         /\ Error(x, desc).ret = desc
<1> DEFINE y == Error(x, desc)
<1>1. x.rnd \in Nat
  BY EndpointType
<1>2. y \in Endpoints
  BY DEF Error, Endpoints
<1>3. /\ y.peer = x.peer /\ y.rnd = x.rnd /\ y.ret = desc
      /\ y.h = x.h /\ y.peers = x.peers
      /\ y.crashed = x.crashed /\ y.ev = x.ev /\ y.fate = x.fate
      /\ y.done = x.done /\ y.faults = x.faults
      /\ y.sendqueue = x.sendqueue /\ y.out = x.out
  BY DEF Error, Endpoints
<1> HIDE DEF y
<1>a. Keeps(x, y)
  BY <1>1, <1>2, <1>3 DEF Keeps
<1>4. Stays(s, done, "other", x, y)
  BY <1>a, KeepsStays
<1> QED BY <1>3, <1>4 DEF y

(* ... that leaves the peer sound leaves the endpoint good.                *)
LEMMA GoodAfter ==
  ASSUME NEW s, NEW o, NEW fin, NEW x, NEW y,
         Good(s, o, x), x.peer # NULL, x.peer.hs # NULL,
         Stays(s, x.done, fin, x, y), Sound(s, y)
  PROVE  Good(s, o, y)
<1>1. \A d \in y.done : OwnIn(s, d.key) <= y.rnd
  <2> SUFFICES ASSUME NEW d \in y.done PROVE OwnIn(s, d.key) <= y.rnd
    OBVIOUS
  <2>1. d \in x.done /\ OwnIn(s, d.key) <= x.rnd /\ x.rnd <= y.rnd
    BY DEF Good, Stays
  <2>2. x.rnd \in Nat /\ y.rnd \in Nat
    BY EndpointType DEF Good, Stays
  <2>3. d.key \in KeyBlock
    BY <2>1, EndpointType DEF Good
  <2>4. OwnIn(s, d.key) \in Nat
    BY <2>3 DEF OwnIn, KeyBlock
  <2> QED BY <2>1, <2>2, <2>4
<1>2. Posted(s, y.done, y)
  BY DEF Good, Stays
<1>3. Buffered(s, o, y)
  BY DEF Good, Stays, Buffered
<1>4. /\ s = "client" => y.done \subseteq o.done
      /\ s = "server" => \A d \in y.done : Kinds(d.hash) = Whole(d.key[3], y.h)
  BY DEF Good, Stays
<1> QED BY <1>1, <1>2, <1>3, <1>4 DEF Good, Stays

(* There are handshake parameters and something to send with. *)
Ready(x) ==
  /\ x \in Endpoints /\ x.peer # NULL /\ x.peer.hs # NULL
  /\ x.peer.sec[0] # NULL /\ x.peer.id \in 1..x.peers

(* A Ready endpoint has the types of its parts. *)
LEMMA ReadyType ==
  ASSUME NEW x, Ready(x)
  PROVE  /\ x.peer \in Peers /\ x.peer.hs \in Handshakes
         /\ x.peer.sec \in [Slot -> {NULL} \cup Security]
         /\ x.peer.sec[0] \in Security /\ x.rnd \in Nat /\ x.peers \in Nat
         /\ CanSend(x) /\ HasHandshake(x)
BY EndpointType, PeerType DEF Ready, CanSend, HasHandshake

(* Writing leaves an endpoint Ready. *)
LEMMA WroteReady ==
  ASSUME NEW s, NEW done, NEW fin, NEW x, NEW y,
         Ready(x), Wrote(s, done, fin, x, y)
  PROVE  /\ Ready(y) /\ Stays(s, done, fin, x, y)
         /\ Alike(x.peer, y.peer) /\ SameHs(x.peer.hs, y.peer.hs)
         /\ y.rnd = x.rnd /\ y.ret = x.ret /\ y.h = x.h
<1>1. Stays(s, done, fin, x, y)
  BY WroteStays DEF Ready
<1> QED BY <1>1 DEF Ready, Wrote, Rest, Alike

(* A part of a handler leaves an endpoint Ready that keeps the parameters  *)
(* it sends with.                                                          *)
LEMMA StaysReady ==
  ASSUME NEW s, NEW done, NEW fin, NEW x, NEW y,
         Ready(x), Stays(s, done, fin, x, y), y.peer.sec[0] # NULL
  PROVE  Ready(y)
BY DEF Ready, Stays

(* A message that says nothing but its kind may be sent at any time. *)
LEMMA SimpleSend ==
  ASSUME NEW s, NEW done, NEW x, x.peer # NULL, NEW m \in Messages,
         m.ht \in Sends(s, x.h) \ {"server_hello", "finished"}
  PROVE  MaySend(s, done, "other", x, "handshake", m)
<1>1. Says(s, x.h, done, m)
  BY DEF Says
<1>2. m \in Contents /\ "handshake" \in ContentType
  BY DEF Contents, ContentType
<1> QED BY <1>1, <1>2 DEF MaySend

(* A message that may be sent is written and hashed. *)
LEMMA SendWrote ==
  ASSUME NEW s, NEW done, NEW fin, NEW x, Ready(x), NEW m \in Messages,
         MaySend(s, done, fin, x, "handshake", m)
  PROVE  LET y == SendHandshake(x, m)
         IN /\ Wrote(s, done, fin, x, y)
            /\ Kinds(y.peer.hs.hash) = Append(Kinds(x.peer.hs.hash), m.ht)
<1>1. x \in Endpoints /\ CanSend(x) /\ HasHandshake(x)
  BY ReadyType DEF Ready
<1> QED BY <1>1, SendHandshakeHashWrote DEF SendHandshake

(* A ChangeCipherSpec may be sent at any time. *)
LEMMA CcsWrote ==
  ASSUME NEW s, NEW done, NEW x \in Endpoints, CanSend(x), x.peer # NULL
  PROVE  Wrote(s, done, "other", x, SendCcs(x)) /\ SendCcs(x).peer = x.peer
<1>1. [ccs |-> 1] \in Contents /\ "ccs" \in ContentType
  BY DEF Contents, ContentType
<1>2. MaySend(s, done, "other", x, "ccs", [ccs |-> 1])
  BY <1>1 DEF MaySend
<1> QED BY <1>2, SendMultiWrote DEF SendCcs

(* ... and so may an alert. *)
LEMMA AlertWrote ==
  ASSUME NEW s, NEW done, NEW x \in Endpoints, CanSend(x), x.peer # NULL,
         NEW desc \in Errors
  PROVE  /\ Wrote(s, done, "other", x, SendAlert(x, desc))
         /\ SendAlert(x, desc).peer = x.peer
<1> DEFINE a == [level |-> Level(desc), desc |-> desc]
<1>1. a \in Contents /\ "alert" \in ContentType
  BY DEF Contents, ContentType, Level
<1>2. MaySend(s, done, "other", x, "alert", a)
  BY <1>1 DEF MaySend
<1> HIDE DEF a
<1>3. /\ Wrote(s, done, "other", x, SendMulti(x, "alert", a))
      /\ SendMulti(x, "alert", a).peer = x.peer
  BY <1>2, SendMultiWrote
<1> QED BY <1>3 DEF SendAlert, a

(* The plain messages. *)
LEMMA MessageType ==
  ASSUME NEW ht \in ClientKinds \cup ServerKinds
  PROVE  /\ Message(ht) \in Messages /\ Message(ht).ht = ht
         /\ \A r \in Nat : /\ [Message(ht) EXCEPT !.rnd = r] \in Messages
                           /\ [Message(ht) EXCEPT !.rnd = r].ht = ht
         /\ \A v \in Proof : LET m == [Message(ht) EXCEPT !.verify = v]
                             IN m \in Messages /\ m.ht = ht /\ m.verify = v
<1>1. <<>> \in Seq(Cipher) /\ <<>> \in Proof
  BY DEF Proof
<1> QED BY <1>1 DEF Message, Messages

(* dtls_send_client_hello draws a new client random, or keeps it.          *)
LEMMA ClientHelloSent ==
  ASSUME NEW done, NEW x, Ready(x), NEW cookie \in Nat
  PROVE  LET y == SendClientHello(x, cookie)
         IN /\ Ready(y) /\ Stays("client", done, "other", x, y)
            /\ Alike(x.peer, y.peer) /\ y.ret = x.ret
            /\ y.peer.hs.srand = x.peer.hs.srand
            /\ y.peer.hs.kx = x.peer.hs.kx
            /\ y.peer.hs.cipher = x.peer.hs.cipher
            /\ y.peer.hs.master = x.peer.hs.master
            /\ cookie = 0 => y.peer.hs.crand = x.rnd + 1 /\ y.rnd = x.rnd + 1
            /\ cookie # 0 => y.peer.hs.crand = x.peer.hs.crand /\ y.rnd = x.rnd
<1> DEFINE f == x.peer.hs
           g == IF cookie = 0 THEN [f EXCEPT !.crand = x.rnd + 1]
                              ELSE [f EXCEPT !.hash = <<>>]
           d == IF cookie = 0 THEN Draw(x) ELSE x
           y == [d EXCEPT !.peer.hs = g]
           Offer(c) == When(KnownCipher(x, c, "client"), c)
           m == [Message("client_hello") EXCEPT
                             !.rnd = y.peer.hs.crand, !.cookie = cookie,
                             !.suites = Offer("ecdsa") \o Offer("psk")]
           z == SendHandshakeHash(y, m, cookie # 0)
<1>1. f \in Handshakes /\ x.rnd \in Nat /\ x \in Endpoints
  BY ReadyType DEF Ready
<1>2. /\ g \in Handshakes /\ g.reorder_queue = f.reorder_queue
      /\ g.srand = f.srand /\ g.kx = f.kx /\ g.cipher = f.cipher
      /\ g.master = f.master
      /\ g.crand = IF cookie = 0 THEN x.rnd + 1 ELSE f.crand
  <2>1. <<>> \in Transcript
    BY DEF Transcript
  <2>2. CASE cookie = 0
    <3>1. g = [f EXCEPT !.crand = x.rnd + 1]
      BY <2>2
    <3> HIDE DEF g
    <3>2. x.rnd + 1 \in Nat
      BY <1>1
    <3>3. g \in Handshakes
      BY <1>1, <3>1, <3>2 DEF Handshakes
    <3>4. /\ g.reorder_queue = f.reorder_queue
          /\ g.srand = f.srand /\ g.kx = f.kx /\ g.cipher = f.cipher
          /\ g.master = f.master /\ g.crand = x.rnd + 1
      BY <1>1, <3>1 DEF Handshakes
    <3> QED BY <2>2, <3>3, <3>4
  <2>3. CASE cookie # 0
    <3>1. g = [f EXCEPT !.hash = <<>>]
      BY <2>3
    <3> HIDE DEF g
    <3> QED BY <1>1, <2>1, <2>3, <3>1 DEF Handshakes
  <2> QED BY <2>2, <2>3
<1>3. /\ Stays("client", done, "other", x, d) /\ d.peer = x.peer
      /\ d.ret = x.ret /\ d \in Endpoints
      /\ d.rnd = IF cookie = 0 THEN x.rnd + 1 ELSE x.rnd
  <2>1. CASE cookie = 0
    BY <2>1, DrawStays DEF Ready, Stays
  <2>2. CASE cookie # 0
    <3>1. Keeps(x, x)
      BY <1>1 DEF Ready, Keeps
    <3>2. Stays("client", done, "other", x, x)
      BY <1>1, <3>1, KeepsStays DEF Ready
    <3> QED BY <2>2, <3>2, <1>1
  <2> QED BY <2>1, <2>2
<1> HIDE DEF g, d
<1>4. /\ Stays("client", done, "other", d, y) /\ Alike(d.peer, y.peer)
      /\ y.peer.hs = g /\ y.rnd = d.rnd /\ y.ret = d.ret
  <2>1. /\ d \in Endpoints /\ d.peer # NULL /\ d.peer.hs # NULL
        /\ g \in Handshakes /\ g.reorder_queue = d.peer.hs.reorder_queue
    BY <1>2, <1>3 DEF Ready
  <2> QED BY <2>1, PutStays
<1> HIDE DEF y
<1>5. Stays("client", done, "other", x, y)
  BY <1>1, <1>3, <1>4, StaysTwice
<1>6. Ready(y)
  BY <1>3, <1>4, <1>5, StaysReady DEF Ready, Alike
<1>7. m \in Messages /\ m.ht = "client_hello"
  <2>1. Offer("ecdsa") \o Offer("psk") \in Seq(Cipher)
    <3>1. Offer("ecdsa") \in Seq(Cipher) /\ Offer("psk") \in Seq(Cipher)
      <4>1. \A c \in Cipher : <<c>> \in Seq(Cipher) /\ <<>> \in Seq(Cipher)
        OBVIOUS
      <4> QED BY <4>1 DEF When, Cipher
    <3> HIDE DEF Offer
    <3> QED BY <3>1
  <2>2. y.peer.hs.crand \in Nat
    BY <1>2, <1>4, HsType
  <2>3. Message("client_hello") \in Messages /\ Message("client_hello").ht = "client_hello"
    BY MessageType DEF ClientKinds
  <2> HIDE DEF Offer
  <2> QED BY <2>1, <2>2, <2>3 DEF Messages
<1> HIDE DEF m
<1>8. MaySend("client", done, "other", y, "handshake", m)
  <2>1. "client_hello" \in Sends("client", y.h)
    BY DEF Sends, ClientKinds
  <2> QED BY <1>6, <1>7, <2>1, SimpleSend DEF Ready
<1>9. Wrote("client", done, "other", y, z)
  <2>1. y \in Endpoints /\ CanSend(y)
    BY <1>6, ReadyType DEF Ready
  <2>2. (cookie # 0) \in BOOLEAN
    OBVIOUS
  <2> QED BY <1>7, <1>8, <2>1, <2>2, SendHandshakeHashWrote
<1>10. SendClientHello(x, cookie) = z
  <2>1. (IF cookie = 0 THEN [Draw(x) EXCEPT !.peer.hs.crand = x.rnd + 1]
                       ELSE [x EXCEPT !.peer.hs.hash = <<>>]) = y
    <3>1. CASE cookie = 0
      <4>1. g = [f EXCEPT !.crand = x.rnd + 1] /\ d = Draw(x)
        BY <3>1 DEF g, d
      <4>2. y = [Draw(x) EXCEPT !.peer.hs = [x.peer.hs EXCEPT !.crand = x.rnd + 1]]
        BY <4>1 DEF y
      <4>3. Draw(x).peer = x.peer
        BY <3>1, <1>3, <4>1
      <4> QED BY <3>1, <4>2, <4>3
    <3>2. CASE cookie # 0
      BY <3>2 DEF y, g, d
    <3> QED BY <3>1, <3>2
  <2> QED BY <2>1 DEF SendClientHello, m
<1> HIDE DEF z
<1>11. /\ Ready(z) /\ Stays("client", done, "other", y, z)
       /\ Alike(y.peer, z.peer) /\ SameHs(y.peer.hs, z.peer.hs)
       /\ z.rnd = y.rnd /\ z.ret = y.ret
  BY <1>6, <1>9, WroteReady
<1>12. Stays("client", done, "other", x, z)
  BY <1>1, <1>5, <1>11, StaysTwice
<1>13. Alike(x.peer, z.peer) /\ z.ret = x.ret
  BY <1>3, <1>4, <1>11 DEF Alike
<1>14. /\ z.peer.hs.srand = x.peer.hs.srand
       /\ z.peer.hs.kx = x.peer.hs.kx
       /\ z.peer.hs.cipher = x.peer.hs.cipher
       /\ z.peer.hs.master = x.peer.hs.master
       /\ cookie = 0 => z.peer.hs.crand = x.rnd + 1 /\ z.rnd = x.rnd + 1
       /\ cookie # 0 => z.peer.hs.crand = x.peer.hs.crand /\ z.rnd = x.rnd
  BY <1>2, <1>3, <1>4, <1>11 DEF SameHs
<1> QED BY <1>10, <1>11, <1>12, <1>13, <1>14

(* dtls_send_client_key_exchange may draw a value, for kx only.            *)
LEMMA KeyExchangeSent ==
  ASSUME NEW done, NEW x, Ready(x)
  PROVE  LET y == SendClientKeyExchange(x)
         IN /\ Ready(y) /\ Stays("client", done, "other", x, y)
            /\ Alike(x.peer, y.peer) /\ y.ret = x.ret
            /\ y.peer.hs.crand = x.peer.hs.crand
<1> DEFINE f == x.peer.hs
           y == IF Ecdsa(f.cipher)
                THEN [Draw(x) EXCEPT !.peer.hs.kx = x.rnd + 1] ELSE x
           m == [Message("client_key_exchange") EXCEPT !.rnd = y.peer.hs.kx]
           z == SendHandshake(y, m)
<1>1. f \in Handshakes /\ x.rnd \in Nat /\ x \in Endpoints
  BY ReadyType DEF Ready
<1>2. /\ Ready(y) /\ Stays("client", done, "other", x, y)
      /\ Alike(x.peer, y.peer) /\ y.ret = x.ret
      /\ y.peer.hs.crand = x.peer.hs.crand
  <2>1. CASE Ecdsa(f.cipher)
    <3> DEFINE d == Draw(x)
               g == [f EXCEPT !.kx = x.rnd + 1]
               w == [d EXCEPT !.peer.hs = g]
    <3>1. /\ Stays("client", done, "other", x, d) /\ d.peer = x.peer
          /\ d.ret = x.ret /\ d \in Endpoints
      BY DrawStays DEF Ready, Stays
    <3>2. x.rnd + 1 \in Nat
      BY <1>1
    <3>3. g \in Handshakes
      BY <1>1, <3>2 DEF Handshakes
    <3>4. g.reorder_queue = f.reorder_queue /\ g.crand = f.crand
      BY <1>1, <3>2 DEF Handshakes
    <3>5. y = w
      BY <2>1, <3>1
    <3> HIDE DEF d, g, y
    <3>6. /\ Stays("client", done, "other", d, w) /\ Alike(d.peer, w.peer)
          /\ w.peer.hs = g /\ w.ret = d.ret
      <4>1. d.peer # NULL /\ d.peer.hs # NULL /\ g.reorder_queue = d.peer.hs.reorder_queue
        BY <3>1, <3>4 DEF Ready
      <4> QED BY <3>1, <3>3, <4>1, PutStays
    <3> HIDE DEF w
    <3>7. Stays("client", done, "other", x, w)
      BY <1>1, <3>1, <3>6, StaysTwice
    <3>8. Ready(w)
      BY <3>1, <3>6, <3>7, StaysReady DEF Ready, Alike
    <3> QED BY <3>1, <3>4, <3>5, <3>6, <3>7, <3>8
  <2>2. CASE ~Ecdsa(f.cipher)
    <3>1. Keeps(x, x)
      BY <1>1 DEF Ready, Keeps
    <3>2. Stays("client", done, "other", x, x)
      BY <1>1, <3>1, KeepsStays DEF Ready
    <3>3. y = x
      BY <2>2
    <3> QED BY <3>2, <3>3 DEF Alike
  <2> QED BY <2>1, <2>2
<1>3. SendClientKeyExchange(x) = z
  BY DEF SendClientKeyExchange
<1> HIDE DEF y
<1>4. m \in Messages /\ m.ht = "client_key_exchange"
  <2>1. y.peer.hs.kx \in Nat
    BY <1>2, ReadyType, HsType
  <2> QED BY <2>1, MessageType DEF ClientKinds
<1> HIDE DEF m
<1>5. MaySend("client", done, "other", y, "handshake", m)
  <2>1. "client_key_exchange" \in Sends("client", y.h)
    BY DEF Sends, ClientKinds
  <2> QED BY <1>2, <1>4, <2>1, SimpleSend DEF Ready
<1>6. Wrote("client", done, "other", y, z)
  BY <1>2, <1>4, <1>5, SendWrote
<1> HIDE DEF z
<1>7. /\ Ready(z) /\ Stays("client", done, "other", y, z)
      /\ Alike(y.peer, z.peer) /\ SameHs(y.peer.hs, z.peer.hs)
      /\ z.rnd = y.rnd /\ z.ret = y.ret
  BY <1>2, <1>6, WroteReady
<1>8. Stays("client", done, "other", x, z)
  BY <1>1, <1>2, <1>7, StaysTwice
<1> QED BY <1>2, <1>3, <1>7, <1>8 DEF Alike, SameHs

(* calculate_key_block derives the pending parameters.                     *)
LEMMA KeyBlockStays ==
  ASSUME NEW s, NEW done, NEW x, Ready(x)
  PROVE  LET y == CalculateKeyBlock(x)
         IN /\ Ready(y) /\ Stays(s, done, "other", x, y)
            /\ y.peer.state = x.peer.state /\ y.rnd = x.rnd /\ y.ret = x.ret
            /\ y.peer.sec[0] = x.peer.sec[0]
            /\ y.peer.sec[1] # NULL
            /\ y.peer.sec[1].epoch = x.peer.sec[0].epoch + 1
            /\ y.peer.sec[1].key = y.peer.hs.master
            /\ y.peer.hs.master = KeyOf(y.peer.hs)
            /\ y.peer.hs.crand = x.peer.hs.crand
            /\ y.peer.hs.srand = x.peer.hs.srand
            /\ y.peer.hs.cipher = x.peer.hs.cipher
            /\ y.peer.hs.hash = x.peer.hs.hash
            /\ y.peer.hs.mseq_r = x.peer.hs.mseq_r
<1> DEFINE f == x.peer.hs
           key == KeyOf(f)
           old == x.peer.sec
           next == [NewSecurity EXCEPT !.epoch = old[0].epoch + 1]
           c == [next EXCEPT !.cipher = f.cipher, !.key = key]
           sec == [old EXCEPT ![1] = c]
           g == [f EXCEPT !.master = key]
           z == [x EXCEPT !.peer.sec = sec]
           y == [z EXCEPT !.peer.hs = g]
<1>1. /\ f \in Handshakes /\ x.rnd \in Nat /\ x \in Endpoints
      /\ old \in [Slot -> {NULL} \cup Security] /\ old[0] \in Security
      /\ f.cipher \in Cipher /\ key \in KeyBlock
  <2>1. /\ f \in Handshakes /\ x.rnd \in Nat /\ x \in Endpoints
        /\ old \in [Slot -> {NULL} \cup Security] /\ old[0] \in Security
    BY ReadyType DEF Ready
  <2> QED BY <2>1, HsType
<1>2. c \in Security /\ c.epoch = old[0].epoch + 1 /\ c.key = key
  <2>1. old[0].epoch \in Nat
    BY <1>1, SecType
  <2>2. NewSecurity \in Security
    BY DEF NewSecurity, Security, Cipher
  <2>3. old[0].epoch + 1 \in Nat
    BY <2>1
  <2> DEFINE d == [next EXCEPT !.cipher = f.cipher]
  <2>4. next \in Security /\ next.epoch = old[0].epoch + 1
    <3> HIDE DEF old
    <3> QED BY <2>2, <2>3 DEF Security
  <2>5. d \in Security /\ d.epoch = next.epoch
    <3> HIDE DEF next, f
    <3> QED BY <1>1, <2>4 DEF Security
  <2>6. c = [d EXCEPT !.key = key]
    OBVIOUS
  <2> HIDE DEF key, next, d, c
  <2> QED BY <1>1, <2>4, <2>5, <2>6 DEF Security
<1>3. /\ sec \in [Slot -> {NULL} \cup Security]
      /\ sec[0] = old[0] /\ sec[1] = c
  <2> HIDE DEF c, old
  <2> QED BY <1>1, <1>2 DEF Slot
<1>4. /\ g \in Handshakes /\ g.reorder_queue = f.reorder_queue
      /\ g.crand = f.crand /\ g.srand = f.srand /\ g.kx = f.kx
      /\ g.cipher = f.cipher /\ g.master = key /\ g.hash = f.hash
      /\ g.mseq_r = f.mseq_r
  <2> HIDE DEF key, f
  <2> QED BY <1>1 DEF Handshakes
<1>5. CalculateKeyBlock(x) = y
  <2>1. [ParamsNext(old) EXCEPT ![1].cipher = f.cipher, ![1].key = key] = sec
    <3>1. 1 \in DOMAIN old
      BY <1>1 DEF Slot
    <3> HIDE DEF key
    <3> QED BY <3>1 DEF ParamsNext
  <2>2. CalculateKeyBlock(x) = [x EXCEPT !.peer.sec = sec, !.peer.hs.master = key]
    <3> HIDE DEF sec
    <3> QED BY <2>1 DEF CalculateKeyBlock, KeyOf
  <2>3. z.peer = [x.peer EXCEPT !.sec = sec]
    <3> HIDE DEF sec
    <3> QED BY <1>1 DEF Endpoints
  <2>4. z.peer.hs = f
    <3> HIDE DEF sec
    <3> QED BY <1>1, <2>3, ReadyType DEF Peers
  <2> HIDE DEF sec, key
  <2> QED BY <2>2, <2>4
<1> HIDE DEF c, sec, g, key
<1>6. /\ Stays(s, done, "other", x, z)
      /\ z.peer.state = x.peer.state /\ z.peer.hs = x.peer.hs
      /\ z.peer.sec = sec /\ z.rnd = x.rnd /\ z.ret = x.ret
  BY <1>1, <1>3, SecStays DEF Ready
<1> HIDE DEF z
<1>7. /\ Stays(s, done, "other", z, y) /\ Alike(z.peer, y.peer)
      /\ y.peer.hs = g /\ y.rnd = z.rnd /\ y.ret = z.ret
  <2>1. /\ z \in Endpoints /\ z.peer # NULL /\ z.peer.hs # NULL
        /\ g.reorder_queue = z.peer.hs.reorder_queue
    BY <1>4, <1>6 DEF Stays
  <2> QED BY <1>4, <2>1, PutStays
<1> HIDE DEF y
<1>8. Stays(s, done, "other", x, y)
  BY <1>1, <1>6, <1>7, StaysTwice
<1>9. /\ y.peer.sec[0] = x.peer.sec[0] /\ y.peer.sec[1] = c
      /\ y.peer.state = x.peer.state
  BY <1>3, <1>6, <1>7 DEF Alike
<1>10. Ready(y)
  BY <1>8, <1>9, StaysReady DEF Ready
<1>11. c # NULL
  BY <1>2, SecType
<1>12. y.peer.hs.master = KeyOf(y.peer.hs)
  BY <1>4, <1>7 DEF KeyOf, key
<1> HIDE DEF f, old
<1> QED BY <1>2, <1>4, <1>5, <1>6, <1>7, <1>8, <1>9, <1>10, <1>11, <1>12 DEF f, old

(* dtls_security_params_switch installs the pending parameters.            *)
LEMMA SwitchStays ==
  ASSUME NEW s, NEW done, NEW x, Ready(x), x.peer.sec[1] # NULL
  PROVE  LET y == Switch(x)
         IN /\ Ready(y) /\ Stays(s, done, "other", x, y)
            /\ y.peer.state = x.peer.state /\ y.rnd = x.rnd /\ y.ret = x.ret
            /\ y.peer.sec[0] = x.peer.sec[1] /\ y.peer.hs = x.peer.hs
<1> DEFINE old == x.peer.sec
           sec == [i \in Slot |-> old[1 - i]]
           y == [x EXCEPT !.peer.sec = sec]
<1>1. old \in [Slot -> {NULL} \cup Security] /\ x \in Endpoints
  BY ReadyType DEF Ready
<1>2. sec \in [Slot -> {NULL} \cup Security] /\ sec[0] = old[1]
  <2> HIDE DEF old
  <2> QED BY <1>1 DEF Slot
<1>3. Switch(x) = y
  BY DEF Switch, ParamsSwitch
<1> HIDE DEF sec
<1>4. /\ Stays(s, done, "other", x, y)
      /\ y.peer.state = x.peer.state /\ y.peer.hs = x.peer.hs
      /\ y.peer.sec = sec /\ y.rnd = x.rnd /\ y.ret = x.ret
  BY <1>1, <1>2, SecStays DEF Ready
<1> HIDE DEF y
<1>5. Ready(y)
  BY <1>2, <1>4, StaysReady
<1> QED BY <1>2, <1>3, <1>4, <1>5

(* dtls_send_finished, under the key it authenticates.                     *)
LEMMA FinishedSent ==
  ASSUME NEW s \in Side, NEW done, NEW x, Ready(x),
         NEW label \in {"client", "server"},
         x.peer.hs.master \in KeyBlock, x.peer.sec[0].key = x.peer.hs.master,
         s = "server" =>
           [key |-> x.peer.hs.master, hash |-> x.peer.hs.hash] \in done
  PROVE  Wrote(s, done, "finished", x, SendFinished(x, label))
<1> DEFINE v == Verify(x, label)
           m == [Message("finished") EXCEPT !.verify = v]
<1>1. v \in {"client", "server"} \X KeyBlock \X Transcript
  BY ReadyType, HsType DEF Verify
<1>2. v \in Proof
  BY <1>1 DEF Proof
<1>3. m \in Messages /\ m.ht = "finished" /\ m.verify = v
  <2> HIDE DEF v
  <2> QED BY <1>2, MessageType DEF ClientKinds
<1>4. v[2] = x.peer.hs.master /\ v[3] = x.peer.hs.hash
  BY DEF Verify
<1> HIDE DEF v, m
<1>5. Says(s, x.h, done, m)
  <2>1. m.ht \in Sends(s, x.h)
    BY <1>3 DEF Sends, ClientKinds, ServerKinds
  <2>2. s = "server" => SessionOf(m) \in done
    BY <1>3, <1>4 DEF SessionOf
  <2> QED BY <1>1, <1>3, <2>1, <2>2 DEF Says
<1>6. m \in Contents /\ "handshake" \in ContentType
  BY <1>3 DEF Contents, ContentType
<1>7. MaySend(s, done, "finished", x, "handshake", m)
  BY <1>3, <1>4, <1>5, <1>6 DEF MaySend, Ready
<1>8. Wrote(s, done, "finished", x, SendHandshake(x, m))
  BY <1>3, <1>7, SendWrote
<1> QED BY <1>8 DEF SendFinished, m, v

(* One more message of a server's flight. *)
LEMMA ServerSends ==
  ASSUME NEW done, NEW x, Ready(x), NEW m \in Messages,
         m.ht \in Sends("server", x.h) \ {"server_hello", "finished"}
  PROVE  LET y == SendHandshake(x, m)
         IN /\ Ready(y) /\ Stays("server", done, "other", x, y)
            /\ Wrote("server", done, "other", x, y) /\ y.h = x.h
            /\ Kinds(y.peer.hs.hash) = Append(Kinds(x.peer.hs.hash), m.ht)
<1> DEFINE y == SendHandshake(x, m)
<1>1. MaySend("server", done, "other", x, "handshake", m)
  BY SimpleSend DEF Ready
<1>2. /\ Wrote("server", done, "other", x, y)
      /\ Kinds(y.peer.hs.hash) = Append(Kinds(x.peer.hs.hash), m.ht)
  BY <1>1, SendWrote
<1> HIDE DEF y
<1>3. /\ Ready(y) /\ Stays("server", done, "other", x, y) /\ y.h = x.h
  BY <1>2, WroteReady
<1> QED BY <1>2, <1>3 DEF y

(* dtls_send_server_hello_msgs draws a server random and sends the flight. *)
LEMMA ServerHelloSent ==
  ASSUME NEW done, NEW x, Ready(x),
         Ecdsa(x.peer.hs.cipher) => "get_ecdsa_key" \in x.h
  PROVE  LET y == SendServerHelloMsgs(x)
         IN /\ Ready(y) /\ Stays("server", done, "other", x, y)
            /\ Alike(x.peer, y.peer) /\ y.ret = x.ret
            /\ y.peer.hs.srand = x.rnd + 1 /\ y.rnd = x.rnd + 1
            /\ y.peer.hs.cipher = x.peer.hs.cipher
            /\ (x.peer.hs.cipher \in {"psk", "ecdsa"}
                /\ Kinds(x.peer.hs.hash) = <<"client_hello">>) =>
                  Kinds(y.peer.hs.hash) = ServerFlight(x.peer.hs.cipher, x.h)
<1> DEFINE f == x.peer.hs
           cipher == f.cipher
           g == [f EXCEPT !.srand = x.rnd + 1]
           d == Draw(x)
           w == [d EXCEPT !.peer.hs = g]
           y == [Draw(x) EXCEPT !.peer.hs.srand = x.rnd + 1]
<1>1. f \in Handshakes /\ x.rnd \in Nat /\ x \in Endpoints /\ x.rnd + 1 \in Nat
  BY ReadyType DEF Ready
<1>2. g \in Handshakes
  BY <1>1 DEF Handshakes
<1>3. /\ g.reorder_queue = f.reorder_queue /\ g.srand = x.rnd + 1
      /\ g.cipher = f.cipher /\ g.hash = f.hash /\ g.crand = f.crand
  BY <1>1 DEF Handshakes
<1>4. /\ Stays("server", done, "other", x, d) /\ d.peer = x.peer
      /\ d.ret = x.ret /\ d \in Endpoints /\ d.rnd = x.rnd + 1 /\ d.h = x.h
  BY DrawStays DEF Ready, Stays
<1>5. y = w
  BY <1>4
<1> HIDE DEF g, d, y
<1>6. /\ Stays("server", done, "other", d, y) /\ Alike(d.peer, y.peer)
      /\ y.peer.hs = g /\ y.rnd = d.rnd /\ y.ret = d.ret
  <2>1. /\ d.peer # NULL /\ d.peer.hs # NULL
        /\ g.reorder_queue = d.peer.hs.reorder_queue
    BY <1>3, <1>4 DEF Ready
  <2> QED BY <1>2, <1>4, <1>5, <2>1, PutStays
<1> HIDE DEF w
<1>7. Stays("server", done, "other", x, y) /\ y.h = x.h
  BY <1>1, <1>4, <1>6, StaysTwice DEF Stays
<1>8. Ready(y)
  BY <1>4, <1>6, <1>7, StaysReady DEF Ready, Alike
<1> DEFINE hello == SendHandshake(y, [Message("server_hello") EXCEPT
                      !.rnd = y.peer.hs.srand, !.suites = <<cipher>>])
<1>9. /\ Ready(hello) /\ Wrote("server", done, "other", y, hello)
      /\ hello.h = x.h
      /\ Kinds(hello.peer.hs.hash) = Append(Kinds(f.hash), "server_hello")
  <2> DEFINE m == [Message("server_hello") EXCEPT
                      !.rnd = y.peer.hs.srand, !.suites = <<cipher>>]
  <2>1. /\ m \in Messages /\ m.ht = "server_hello" /\ Len(m.suites) = 1
    <3>1. y.peer.hs.srand \in Nat
      BY <1>1, <1>3, <1>6
    <3>2. /\ Message("server_hello") \in Messages
          /\ Message("server_hello").ht = "server_hello"
      BY MessageType DEF ServerKinds
    <3>3. <<cipher>> \in Seq(Cipher) /\ Len(<<cipher>>) = 1
      BY <1>1, HsType
    <3> HIDE DEF f
    <3> QED BY <3>1, <3>2, <3>3 DEF Messages
  <2> HIDE DEF m
  <2>2. Says("server", y.h, done, m)
    BY <2>1 DEF Says, Sends, ServerKinds
  <2>3. m \in Contents /\ "handshake" \in ContentType
    BY <2>1 DEF Contents, ContentType
  <2>4. MaySend("server", done, "other", y, "handshake", m)
    BY <1>8, <2>1, <2>2, <2>3 DEF MaySend, Ready
  <2>5. /\ Wrote("server", done, "other", y, SendHandshake(y, m))
        /\ Kinds(SendHandshake(y, m).peer.hs.hash)
             = Append(Kinds(y.peer.hs.hash), "server_hello")
    BY <1>8, <2>1, <2>4, SendWrote
  <2>6. hello = SendHandshake(y, m)
    BY DEF m
  <2> HIDE DEF hello
  <2>7. Ready(hello) /\ hello.h = y.h
    BY <1>8, <2>5, <2>6, WroteReady
  <2> QED BY <1>3, <1>6, <1>7, <2>5, <2>6, <2>7
<1> HIDE DEF hello
<1> DEFINE v == IF Ecdsa(cipher) THEN <<y.peer.hs.crand, y.peer.hs.srand>>
                                 ELSE <<>>
           ske == [Message("server_key_exchange") EXCEPT !.verify =
                     IF Ecdsa(cipher)
                     THEN <<y.peer.hs.crand, y.peer.hs.srand>> ELSE <<>>]
           cert == SendCertificate(hello)
           ecdsa == SendHandshake(cert, ske)
           creq == SendHandshake(ecdsa, Message("certificate_request"))
           hint == SendHandshake(hello, ske)
<1>10. ske \in Messages /\ ske.ht = "server_key_exchange"
  <2>1. v \in Proof
    <3>1. y.peer.hs.crand \in Nat /\ y.peer.hs.srand \in Nat
      BY <1>2, <1>6, HsType
    <3> QED BY <3>1 DEF Proof
  <2>2. ske = [Message("server_key_exchange") EXCEPT !.verify = v]
    OBVIOUS
  <2> HIDE DEF v, ske
  <2> QED BY <2>1, <2>2, MessageType DEF ServerKinds
<1> HIDE DEF ske, v
<1>11. (Ecdsa(cipher) \/ "psk_hint" \in x.h) =>
         "server_key_exchange" \in Sends("server", x.h)
  BY DEF Sends, ServerKinds
<1>12. /\ Message("certificate") \in Messages
       /\ Message("certificate").ht = "certificate"
       /\ Message("certificate_request") \in Messages
       /\ Message("certificate_request").ht = "certificate_request"
       /\ Message("server_hello_done") \in Messages
       /\ Message("server_hello_done").ht = "server_hello_done"
  BY MessageType DEF ServerKinds, ClientKinds
<1>13. /\ "certificate" \in Sends("server", x.h)
       /\ "certificate_request" \in Sends("server", x.h)
       /\ "server_hello_done" \in Sends("server", x.h)
  BY DEF Sends, ServerKinds
<1>14. /\ Ready(cert) /\ Wrote("server", done, "other", hello, cert)
       /\ cert.h = x.h
       /\ Kinds(cert.peer.hs.hash)
            = Append(Kinds(hello.peer.hs.hash), "certificate")
  BY <1>9, <1>12, <1>13, ServerSends DEF SendCertificate
<1> HIDE DEF cert
<1>15. ASSUME Ecdsa(cipher)
       PROVE  /\ Ready(ecdsa) /\ Wrote("server", done, "other", cert, ecdsa)
              /\ ecdsa.h = x.h
              /\ Kinds(ecdsa.peer.hs.hash)
                   = Append(Kinds(cert.peer.hs.hash), "server_key_exchange")
  BY <1>10, <1>11, <1>14, <1>15, ServerSends
<1> HIDE DEF ecdsa
<1>16. ASSUME Ecdsa(cipher)
       PROVE  /\ Ready(creq) /\ Wrote("server", done, "other", ecdsa, creq)
              /\ creq.h = x.h
              /\ Kinds(creq.peer.hs.hash)
                   = Append(Kinds(ecdsa.peer.hs.hash), "certificate_request")
  BY <1>12, <1>13, <1>15, <1>16, ServerSends
<1>17. ASSUME "psk_hint" \in x.h
       PROVE  /\ Ready(hint) /\ Wrote("server", done, "other", hello, hint)
              /\ hint.h = x.h
              /\ Kinds(hint.peer.hs.hash)
                   = Append(Kinds(hello.peer.hs.hash), "server_key_exchange")
  BY <1>9, <1>10, <1>11, <1>17, ServerSends
<1> DEFINE key == CASE Ecdsa(cipher) /\ ClientAuth(x) ->
                         SendHandshake(ecdsa, Message("certificate_request"))
                    [] Ecdsa(cipher) /\ ~ClientAuth(x) -> ecdsa
                    [] cipher = "psk" /\ "psk_hint" \in x.h ->
                         SendHandshake(hello, ske)
                    [] OTHER -> hello
           z == SendHandshake(key, Message("server_hello_done"))
<1> HIDE DEF creq, hint
<1>a. Wrote("server", done, "other", hello, ecdsa) \/ ~Ecdsa(cipher)
  BY <1>14, <1>15, WroteTwice
<1>b. Wrote("server", done, "other", hello, creq) \/ ~Ecdsa(cipher)
  BY <1>a, <1>16, WroteTwice
<1>18. /\ Ready(key) /\ key.h = x.h
       /\ key = hello \/ Wrote("server", done, "other", hello, key)
       /\ (cipher \in {"psk", "ecdsa"} /\ Kinds(f.hash) = <<"client_hello">>) =>
             Append(Kinds(key.peer.hs.hash), "server_hello_done")
               = ServerFlight(cipher, x.h)
  <2> HIDE DEF f
  <2>1. CASE Ecdsa(cipher) /\ ClientAuth(x)
    <3>1. key = creq
      BY <2>1 DEF creq, Ecdsa
    <3> HIDE DEF key
    <3>2. Kinds(f.hash) = <<"client_hello">> =>
            Append(Kinds(key.peer.hs.hash), "server_hello_done")
               = ServerFlight(cipher, x.h)
      BY <2>1, <3>1, <1>9, <1>14, <1>15, <1>16 DEF ServerFlight, ClientAuth
    <3> QED BY <2>1, <3>1, <3>2, <1>16, <1>b
  <2>2. CASE Ecdsa(cipher) /\ ~ClientAuth(x)
    <3>1. key = ecdsa
      BY <2>2 DEF Ecdsa
    <3> HIDE DEF key
    <3>2. Kinds(f.hash) = <<"client_hello">> =>
            Append(Kinds(key.peer.hs.hash), "server_hello_done")
               = ServerFlight(cipher, x.h)
      BY <2>2, <3>1, <1>9, <1>14, <1>15 DEF ServerFlight, ClientAuth
    <3> QED BY <2>2, <3>1, <3>2, <1>15, <1>a
  <2>3. CASE ~Ecdsa(cipher) /\ cipher = "psk" /\ "psk_hint" \in x.h
    <3>1. key = hint
      BY <2>3 DEF hint, Ecdsa
    <3> HIDE DEF key
    <3>2. Kinds(f.hash) = <<"client_hello">> =>
            Append(Kinds(key.peer.hs.hash), "server_hello_done")
               = ServerFlight(cipher, x.h)
      BY <2>3, <3>1, <1>9, <1>17 DEF ServerFlight, ClientAuth
    <3> QED BY <2>3, <3>1, <3>2, <1>17
  <2>4. CASE ~Ecdsa(cipher) /\ ~(cipher = "psk" /\ "psk_hint" \in x.h)
    <3>1. key = hello
      BY <2>4
    <3> HIDE DEF key
    <3>2. (cipher \in {"psk", "ecdsa"} /\ Kinds(f.hash) = <<"client_hello">>) =>
            Append(Kinds(key.peer.hs.hash), "server_hello_done")
               = ServerFlight(cipher, x.h)
      BY <2>4, <3>1, <1>9 DEF ServerFlight, ClientAuth, Ecdsa
    <3> QED BY <2>4, <3>1, <3>2, <1>9
  <2> QED BY <2>1, <2>2, <2>3, <2>4
<1> HIDE DEF key
<1>19. /\ Ready(z) /\ Wrote("server", done, "other", key, z)
       /\ Kinds(z.peer.hs.hash)
            = Append(Kinds(key.peer.hs.hash), "server_hello_done")
  BY <1>12, <1>13, <1>18, ServerSends
<1> HIDE DEF z
<1>20. Wrote("server", done, "other", y, z)
  BY <1>9, <1>18, <1>19, WroteTwice
<1>21. /\ Stays("server", done, "other", y, z)
       /\ Alike(y.peer, z.peer) /\ SameHs(y.peer.hs, z.peer.hs)
       /\ z.rnd = y.rnd /\ z.ret = y.ret
  BY <1>8, <1>20, WroteReady
<1>22. Stays("server", done, "other", x, z)
  BY <1>1, <1>7, <1>21, StaysTwice
<1>23. Alike(x.peer, z.peer) /\ z.ret = x.ret
  BY <1>4, <1>6, <1>21 DEF Alike
<1>24. /\ z.peer.hs.srand = x.rnd + 1 /\ z.rnd = x.rnd + 1
       /\ z.peer.hs.cipher = x.peer.hs.cipher
  BY <1>3, <1>4, <1>6, <1>21 DEF SameHs
<1>25. SendServerHelloMsgs(x) = z
  BY DEF SendServerHelloMsgs, z, key, ecdsa, cert, ske, hello, y
<1> QED BY <1>18, <1>19, <1>22, <1>23, <1>24, <1>25

=============================================================================
