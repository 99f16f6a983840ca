------------------------- MODULE DtlsHandlerProofs -------------------------
(***************************************************************************)
(* The second of four modules about DtlsAsync: each handler of a           *)
(* handshake message, dtls_stop_retransmission and handle_handshake_msg    *)
(* keep the contract Handled, later Outcome: the endpoint is Good again,   *)
(* a session is completed as SessionAgreement allows or none is, every     *)
(* Finished that waits is protected with the current parameters, and a     *)
(* closing peer stays closing.                                             *)
(***************************************************************************)
EXTENDS DtlsProofs, FiniteSetTheorems, SequenceTheorems

-----------------------------------------------------------------------------
(* The handlers *)

(* No session is completed, and the side is active under a key only if it  *)
(* was before.                                                             *)
Kept(x, y) ==
  /\ y.done = x.done
  /\ (y.peer # NULL /\ y.peer.state = "CONNECTED") =>
       /\ x.peer # NULL /\ x.peer.state = "CONNECTED"
       /\ y.peer.sec[0].key = x.peer.sec[0].key

(* A session is completed, as SessionAgreement demands. *)
Completes(s, o, x, y) ==
  \E d \in [key : KeyBlock, hash : Transcript] :
    /\ y.done = x.done \cup {d}
    /\ \A e \in x.done : e.key # d.key
    /\ s = "client" => d \in o.done
    /\ y.peer # NULL /\ y.peer.state = "CONNECTED" /\ y.peer.hs = NULL
    /\ y.peer.sec[0].key = d.key
    /\ y.ret = "ok"

(* The reorder queue is the one of before, or that of new handshake        *)
(* parameters.                                                             *)
SameQueue(x, y) ==
  y.peer.hs.reorder_queue = IF HasHandshake(x) THEN x.peer.hs.reorder_queue
                                               ELSE {}

(* The contract of the handlers of handshake messages.                     *)
Handled(s, o, x, y) ==
  /\ Good(s, o, y)
  /\ y.h = x.h /\ y.crashed = x.crashed /\ y.faults = x.faults
  /\ y.fate = x.fate /\ y.ev = x.ev
  /\ x.peer # NULL => y.peer # NULL
  /\ HasHandshake(y) => SameQueue(x, y)
  /\ Clear(x) => Guarded(y)
  /\ Kept(x, y) \/ Completes(s, o, x, y)

(* ... and what it may rely on. *)
Turn(s, o, x, m) ==
  /\ Good(s, o, x) /\ x.peer # NULL /\ x.peer.hs # NULL /\ x.ret = "ok"
  /\ Says(Other(s), o.h, o.done, m)
  /\ Expected(x, x.peer.role, x.peer.state, m)

(* A handler has an endpoint that is Ready and a message of the other side.*)
LEMMA TurnReady ==
  ASSUME NEW s, NEW o, NEW x, NEW m, Turn(s, o, x, m)
  PROVE  /\ Ready(x) /\ x \in Endpoints /\ x.rnd \in Nat /\ m \in Messages
         /\ x.peer.role = s
         /\ m.ht \in Sends(Other(s), o.h) /\ m.rnd \in Nat /\ m.cookie \in Nat
         /\ m.suites \in Seq(Cipher) /\ m.verify \in Proof
<1>1. Ready(x) /\ x.peer.role = s
  BY DEF Turn, Good, Sound, Ready
<1>2. m \in Messages /\ m.ht \in Sends(Other(s), o.h)
  BY DEF Turn, Says
<1>3. /\ m.rnd \in Nat /\ m.cookie \in Nat
      /\ m.suites \in Seq(Cipher) /\ m.verify \in Proof
  BY <1>2 DEF Messages
<1> QED BY <1>1, <1>2, <1>3, ReadyType DEF Ready

(* A random that stays is still fresh. *)
LEMMA FreshKept ==
  ASSUME NEW s, NEW x, NEW y, Fresh(s, x), x.rnd \in Nat, y.rnd \in Nat,
         x.rnd <= y.rnd, y.done = x.done, OwnRandom(s, x.peer.hs) \in Nat,
         OwnRandom(s, y.peer.hs) = OwnRandom(s, x.peer.hs)
  PROVE  Fresh(s, y)
BY DEF Fresh

(* A random just drawn is fresh. *)
LEMMA FreshDrawn ==
  ASSUME NEW s, NEW o, NEW x, NEW y, Good(s, o, x), x.rnd \in Nat,
         y.done = x.done, y.rnd = x.rnd + 1,
         OwnRandom(s, y.peer.hs) = x.rnd + 1
  PROVE  Fresh(s, y)
<1> SUFFICES ASSUME NEW d \in x.done
             PROVE  OwnIn(s, d.key) < OwnRandom(s, y.peer.hs)
  BY DEF Fresh
<1>1. OwnIn(s, d.key) <= x.rnd
  BY DEF Good
<1>2. d.key \in KeyBlock
  BY EndpointType DEF Good
<1>3. OwnIn(s, d.key) \in Nat
  BY <1>2 DEF OwnIn, KeyBlock
<1> QED BY <1>1, <1>3

(* The part of a handler that keeps the peer fulfils the contract when the *)
(* peer is sound after it and no session begins.                           *)
LEMMA HandledBy ==
  ASSUME NEW s, NEW o, NEW fin, NEW x, NEW y,
         Good(s, o, x), x.peer # NULL, x.peer.hs # NULL,
         Stays(s, x.done, fin, x, y), Sound(s, y),
         \/ y.peer.state # "CONNECTED"
         \/ y.peer.state = x.peer.state /\ y.peer.sec = x.peer.sec
  PROVE  Handled(s, o, x, y) /\ Kept(x, y)
<1>1. Good(s, o, y)
  BY GoodAfter
<1>2. Kept(x, y)
  BY DEF Kept, Stays
<1>3. SameQueue(x, y)
  BY DEF SameQueue, Stays, HasHandshake
<1> QED BY <1>1, <1>2, <1>3 DEF Handled, Stays

(* When only the result differs. *)
LEMMA ErrorHandled ==
  ASSUME NEW s, NEW o, NEW x, NEW m, Turn(s, o, x, m), NEW desc \in Errors
  PROVE  Handled(s, o, x, Error(x, desc))
<1>1. Ready(x) /\ x \in Endpoints
  BY TurnReady
<1>2. /\ Stays(s, x.done, "other", x, Error(x, desc))
      /\ Error(x, desc).peer = x.peer /\ Error(x, desc).rnd = x.rnd
  BY <1>1, ErrorStays DEF Ready
<1> DEFINE y == Error(x, desc)
<1> HIDE DEF y
<1>3. Sound(s, y)
  <2>1. Sound(s, x)
    BY DEF Turn, Good
  <2>2. y.peer = x.peer /\ y.rnd = x.rnd /\ y.done = x.done /\ y.h = x.h
        /\ y.peers = x.peers
    BY <1>2 DEF y, Stays
  <2> QED BY <2>1, <2>2 DEF Sound, Fresh
<1> QED BY <1>1, <1>2, <1>3, HandledBy DEF y, Turn

(* What a sound client needs when its state is not CONNECTED. *)
LEMMA ClientSound ==
  ASSUME NEW o, NEW x, NEW y, Good("client", o, x), x.peer # NULL,
         x.peer.hs # NULL, NEW fin, Stays("client", x.done, fin, x, y),
         y.peer.sec[0] # NULL, Pending("client", y.peer),
         y.peer.state # "CONNECTED",
         \/ y.peer.hs.crand = x.peer.hs.crand
         \/ y.peer.hs.crand = x.rnd + 1 /\ y.rnd = x.rnd + 1
  PROVE  Sound("client", y)
<1>1. /\ x \in Endpoints /\ x.rnd \in Nat /\ y.rnd \in Nat /\ x.rnd <= y.rnd
      /\ y.done = x.done /\ x.peer.hs \in Handshakes
  BY EndpointType, PeerType DEF Good, Stays
<1>2. Fresh("client", y)
  <2>1. CASE y.peer.hs.crand = x.peer.hs.crand
    <3>1. Fresh("client", x)
      BY DEF Good, Sound
    <3>2. x.peer.hs.crand \in Nat
      BY <1>1, HsType
    <3> QED BY <1>1, <2>1, <3>1, <3>2, FreshKept DEF OwnRandom
  <2>2. CASE y.peer.hs.crand = x.rnd + 1 /\ y.rnd = x.rnd + 1
    BY <1>1, <2>2, FreshDrawn DEF OwnRandom
  <2> QED BY <2>1, <2>2
<1>3. /\ y.peer.role = "client" /\ y.peer.id \in 1..y.peers
      /\ y.peer.hs # NULL
  BY DEF Good, Sound, Stays
<1>4. "client" # "server"
  OBVIOUS
<1> QED BY <1>2, <1>3, <1>4 DEF Sound

(* check_server_hello_verify_request *)
LEMMA HelloVerifyRequestHandled ==
  ASSUME NEW o, NEW x, NEW m, Turn("client", o, x, m),
         m.ht = "hello_verify_request"
  PROVE  Handled("client", o, x, HelloVerifyRequest(x, m))
<1> DEFINE y == HelloVerifyRequest(x, m)
<1>1. Ready(x) /\ x.rnd \in Nat /\ m.cookie \in Nat
  BY TurnReady
<1>2. /\ Ready(y) /\ Stays("client", x.done, "other", x, y)
      /\ Alike(x.peer, y.peer)
      /\ \/ y.peer.hs.crand = x.peer.hs.crand
         \/ y.peer.hs.crand = x.rnd + 1 /\ y.rnd = x.rnd + 1
  BY <1>1, ClientHelloSent DEF HelloVerifyRequest
<1> HIDE DEF y
<1>3. y.peer.state = "CLIENTHELLO"
  BY <1>2 DEF Turn, Expected, Alike
<1>4. Pending("client", y.peer)
  BY <1>3 DEF Pending
<1>5. Sound("client", y)
  BY <1>2, <1>3, <1>4, ClientSound DEF Turn, Ready
<1> QED BY <1>2, <1>3, <1>5, HandledBy DEF y, Turn

(* update_hs_hash in a handler. *)
LEMMA HashStays ==
  ASSUME NEW s, NEW done, NEW x, Ready(x), NEW m \in Messages
  PROVE  LET y == Hash(x, m)
         IN /\ Ready(y) /\ Stays(s, done, "other", x, y)
            /\ Alike(x.peer, y.peer) /\ SameHs(x.peer.hs, y.peer.hs)
            /\ y.rnd = x.rnd /\ y.ret = x.ret /\ y.h = x.h
            /\ Kinds(y.peer.hs.hash) = Append(Kinds(x.peer.hs.hash), m.ht)
<1> DEFINE y == Hash(x, m)
<1>1. /\ Wrote(s, done, "other", x, y)
      /\ Kinds(y.peer.hs.hash) = Append(Kinds(x.peer.hs.hash), m.ht)
  BY HashWrote DEF Ready
<1> HIDE DEF y
<1>2. /\ Ready(y) /\ Stays(s, done, "other", x, y)
      /\ Alike(x.peer, y.peer) /\ SameHs(x.peer.hs, y.peer.hs)
      /\ y.rnd = x.rnd /\ y.ret = x.ret /\ y.h = x.h
  BY <1>1, WroteReady
<1> QED BY <1>1, <1>2 DEF y

(* Good, with handshake parameters. *)
Serving(s, o, x) == Good(s, o, x) /\ x.peer # NULL /\ x.peer.hs # NULL

(* A part of a handler may end with a change of state. *)
LEMMA StateMoves ==
  ASSUME NEW s, NEW done, NEW fin, NEW x, NEW y, Stays(s, done, fin, x, y),
         NEW st \in States
  PROVE  LET z == SetState(y, st)
         IN /\ Stays(s, done, fin, x, z)
            /\ z.peer.state = st /\ z.peer.hs = y.peer.hs
            /\ z.peer.sec = y.peer.sec /\ z.rnd = y.rnd /\ z.ret = y.ret
            /\ z.h = y.h
<1> DEFINE z == SetState(y, st)
<1>1. y \in Endpoints /\ y.peer # NULL /\ y.peer.hs # NULL
  BY DEF Stays
<1>a. /\ z.peer.state = st /\ z.peer.hs = y.peer.hs /\ z.peer.sec = y.peer.sec
      /\ Top(y, z) /\ z \in Endpoints /\ z.peer # NULL
      /\ z.peer.id = y.peer.id /\ z.peer.role = y.peer.role
  BY <1>1, PutState
<1> HIDE DEF z
<1>2. z.rnd = y.rnd /\ z.ret = y.ret /\ z.h = y.h
  BY <1>a DEF Top
<1>3. Stays(s, done, fin, x, z)
  <2>1. \A n : Waits(z, n) <=> Waits(y, n)
    BY <1>1, <1>a DEF Waits, Live
  <2>2. /\ Posted(s, done, y) => Posted(s, done, z)
        /\ Sealed(y) => Sealed(z)
    BY <1>a DEF Posted, Sealed, Top
  <2>3. /\ Guarded(y) => Guarded(z)
        /\ Clear(y) => Clear(z)
    BY <1>a, <2>1, <2>2 DEF Guarded, Clear, Top
  <2> QED BY <1>1, <1>a, <2>2, <2>3 DEF Stays, Top
<1> QED BY <1>a, <1>2, <1>3 DEF z

(* A part of a client's handler, followed by a change of state: what       *)
(* remains to be shown is that the parameters are the pending ones.        *)
LEMMA ClientMoves ==
  ASSUME NEW o, NEW x, Serving("client", o, x), NEW y, NEW fin,
         Stays("client", x.done, fin, x, y), y.peer.sec[0] # NULL,
         \/ y.peer.hs.crand = x.peer.hs.crand
         \/ y.peer.hs.crand = x.rnd + 1 /\ y.rnd = x.rnd + 1,
         NEW st \in States \ {"CONNECTED"},
         st \in {"WAIT_CHANGECIPHERSPEC", "WAIT_FINISHED"} =>
           /\ y.peer.sec[0].key = y.peer.hs.master
           /\ y.peer.hs.master = KeyOf(y.peer.hs)
  PROVE  Handled("client", o, x, SetState(y, st))
<1> DEFINE z == SetState(y, st)
<1>1. st \in States
  OBVIOUS
<1>2. /\ Stays("client", x.done, fin, x, z)
      /\ z.peer.state = st /\ z.peer.hs = y.peer.hs /\ z.peer.sec = y.peer.sec
      /\ z.rnd = y.rnd
  BY <1>1, StateMoves
<1> HIDE DEF z
<1>3. Pending("client", z.peer)
  BY <1>2 DEF Pending
<1>4. Sound("client", z)
  BY <1>2, <1>3, ClientSound DEF Serving
<1> QED BY <1>2, <1>4, HandledBy DEF z, Serving

(* The same for a server. *)
LEMMA ServerMoves ==
  ASSUME NEW o, NEW x, Serving("server", o, x), NEW y, NEW fin,
         Stays("server", x.done, fin, x, y), y.peer.sec[0] # NULL,
         \/ InHandshake(x.peer) /\ y.peer.hs.srand = x.peer.hs.srand
         \/ y.peer.hs.srand = x.rnd + 1 /\ y.rnd = x.rnd + 1,
         NEW st \in States \ {"CONNECTED"},
         st = "WAIT_FINISHED" =>
           /\ y.peer.sec[1] # NULL
           /\ y.peer.sec[1].epoch = y.peer.sec[0].epoch + 1
           /\ y.peer.sec[1].key = y.peer.hs.master
           /\ y.peer.hs.master = KeyOf(y.peer.hs),
         Covered(x.h, y.peer.hs, st)
  PROVE  /\ Handled("server", o, x, SetState(y, st))
         /\ Kept(x, SetState(y, st))
<1> DEFINE z == SetState(y, st)
<1>1. st \in States
  OBVIOUS
<1>2. /\ Stays("server", x.done, fin, x, z)
      /\ z.peer.state = st /\ z.peer.hs = y.peer.hs /\ z.peer.sec = y.peer.sec
      /\ z.rnd = y.rnd
  BY <1>1, StateMoves
<1> HIDE DEF z
<1>3. Pending("server", z.peer)
  BY <1>2 DEF Pending
<1>4. /\ x \in Endpoints /\ x.rnd \in Nat /\ z.rnd \in Nat /\ x.rnd <= z.rnd
      /\ z.done = x.done /\ x.peer.hs \in Handshakes
  BY <1>2, EndpointType, PeerType DEF Good, Stays, Serving
<1>5. Fresh("server", z)
  <2>1. CASE InHandshake(x.peer) /\ y.peer.hs.srand = x.peer.hs.srand
    <3>1. Fresh("server", x)
      BY <2>1 DEF Good, Sound, Serving
    <3>2. x.peer.hs.srand \in Nat
      BY <1>4, HsType
    <3> QED BY <1>2, <1>4, <2>1, <3>1, <3>2, FreshKept DEF OwnRandom
  <2>2. CASE y.peer.hs.srand = x.rnd + 1 /\ y.rnd = x.rnd + 1
    BY <1>2, <1>4, <2>2, FreshDrawn DEF OwnRandom, Serving
  <2> QED BY <2>1, <2>2
<1>6. /\ z.peer.role = "server" /\ z.peer.id \in 1..z.peers
      /\ z.peer.hs # NULL
  BY <1>2 DEF Good, Sound, Stays, Serving
<1>7. Covered(z.h, z.peer.hs, z.peer.state)
  BY <1>2 DEF Stays
<1>8. Sound("server", z)
  BY <1>2, <1>3, <1>5, <1>6, <1>7 DEF Sound
<1> QED BY <1>2, <1>8, HandledBy DEF z, Serving

(* A client that refuses a message keeps its state. *)
LEMMA ClientRefuses ==
  ASSUME NEW o, NEW m, NEW x, Turn("client", o, x, m), NEW y,
         Stays("client", x.done, "other", x, y), Ready(y),
         y.peer.hs.crand = x.peer.hs.crand, y.peer.state = x.peer.state,
         x.peer.state \notin {"CONNECTED", "WAIT_CHANGECIPHERSPEC",
                              "WAIT_FINISHED"},
         NEW desc \in Errors
  PROVE  Handled("client", o, x, Error(y, desc))
<1> DEFINE z == Error(y, desc)
<1>1. /\ Stays("client", x.done, "other", y, z)
      /\ z.peer = y.peer /\ z.rnd = y.rnd
  BY ErrorStays DEF Ready
<1> HIDE DEF z
<1>2. x \in Endpoints
  BY TurnReady
<1>3. Stays("client", x.done, "other", x, z)
  BY <1>1, <1>2, StaysTwice
<1>4. Pending("client", z.peer)
  BY <1>1 DEF Pending
<1>5. z.peer.sec[0] # NULL /\ z.peer.state # "CONNECTED"
  BY <1>1 DEF Ready
<1>6. Sound("client", z)
  BY <1>1, <1>3, <1>4, <1>5, ClientSound DEF Turn
<1> QED BY <1>3, <1>5, <1>6, HandledBy DEF z, Turn

(* The server's hello. *)
LEMMA ServerHelloHandled ==
  ASSUME NEW o, NEW x, NEW m, Turn("client", o, x, m), m.ht = "server_hello"
  PROVE  Handled("client", o, x, ServerHello(x, m))
<1> DEFINE h == Hash(x, m)
           f == h.peer.hs
           e == [f EXCEPT !.srand = m.rnd]
           g == [e EXCEPT !.cipher = m.suites[1]]
           y == [h EXCEPT !.peer.hs = g]
           w == [Hash(x, m) EXCEPT !.peer.hs.srand = m.rnd,
                                   !.peer.hs.cipher = m.suites[1]]
<1>1. /\ Ready(x) /\ x \in Endpoints /\ m \in Messages /\ m.rnd \in Nat
      /\ m.suites \in Seq(Cipher)
  BY TurnReady
<1>2. m.suites[1] \in Cipher
  <2>1. Len(m.suites) = 1
    BY DEF Turn, Says
  <2> QED BY <1>1, <2>1
<1>3. x.peer.state = "CLIENTHELLO"
  BY DEF Turn, Expected
<1>4. /\ Ready(h) /\ Stays("client", x.done, "other", x, h)
      /\ Alike(x.peer, h.peer) /\ SameHs(x.peer.hs, f)
  BY <1>1, HashStays
<1> HIDE DEF h
<1>5. f \in Handshakes
  BY <1>4, ReadyType
<1>6. e \in Handshakes /\ e.reorder_queue = f.reorder_queue /\ e.crand = f.crand
  BY <1>1, <1>5 DEF Handshakes
<1>7. g \in Handshakes /\ g.reorder_queue = f.reorder_queue /\ g.crand = f.crand
  <2> HIDE DEF e
  <2> QED BY <1>2, <1>6 DEF Handshakes
<1>8. w = y
  BY DEF h
<1> HIDE DEF e, g
<1>9. /\ Stays("client", x.done, "other", h, y) /\ Alike(h.peer, y.peer)
      /\ y.peer.hs = g
  BY <1>4, <1>7, PutStays DEF Ready
<1> HIDE DEF y, w
<1>10. /\ Stays("client", x.done, "other", x, y) /\ Ready(y)
       /\ y.peer.hs.crand = x.peer.hs.crand /\ y.peer.state = x.peer.state
  <2>1. Stays("client", x.done, "other", x, y)
    BY <1>1, <1>4, <1>9, StaysTwice
  <2>2. Ready(y)
    BY <1>4, <1>9, StaysReady DEF Ready, Alike
  <2> QED BY <1>4, <1>7, <1>9, <2>1, <2>2 DEF Alike, SameHs
<1>11. CASE ~KnownCipher(x, m.suites[1], "client")
  <2>1. ServerHello(x, m) = Error(y, "insufficient_security")
    BY <1>8, <1>11 DEF ServerHello, w
  <2>2. "insufficient_security" \in Errors
    BY DEF Errors
  <2>3. x.peer.state \notin {"CONNECTED", "WAIT_CHANGECIPHERSPEC",
                             "WAIT_FINISHED"}
    BY <1>3
  <2> QED BY <1>10, <2>1, <2>2, <2>3, ClientRefuses
<1>12. CASE KnownCipher(x, m.suites[1], "client")
  <2> DEFINE st == IF Ecdsa(m.suites[1]) THEN "WAIT_SERVERCERTIFICATE"
                                         ELSE "WAIT_SERVERHELLODONE"
  <2>1. ServerHello(x, m) = SetState(y, st)
    BY <1>8, <1>12 DEF ServerHello, w
  <2>2. /\ st \in States \ {"CONNECTED"}
        /\ st \notin {"WAIT_CHANGECIPHERSPEC", "WAIT_FINISHED"}
    BY DEF States
  <2> HIDE DEF st
  <2> QED BY <1>10, <2>1, <2>2, ClientMoves DEF Ready, Turn, Serving
<1> QED BY <1>11, <1>12

(* The server's certificate. *)
LEMMA ClientCertificateHandled ==
  ASSUME NEW o, NEW x, NEW m, Turn("client", o, x, m), m.ht = "certificate"
  PROVE  Handled("client", o, x, Certificate(x, m))
<1> DEFINE y == Hash(x, m)
<1>1. Ready(x) /\ m \in Messages /\ x.peer.role = "client"
  BY TurnReady
<1>2. /\ Ready(y) /\ Stays("client", x.done, "other", x, y)
      /\ SameHs(x.peer.hs, y.peer.hs)
  BY <1>1, HashStays
<1>3. Certificate(x, m) = SetState(y, "WAIT_SERVERKEYEXCHANGE")
  BY <1>1 DEF Certificate
<1> HIDE DEF y
<1>4. "WAIT_SERVERKEYEXCHANGE" \in States \ {"CONNECTED"}
  BY DEF States
<1> QED BY <1>2, <1>3, <1>4, ClientMoves DEF Ready, SameHs, Turn, Serving

(* The ServerKeyExchange, whose signature may be refused.                  *)
LEMMA ServerKeyExchangeHandled ==
  ASSUME NEW o, NEW x, NEW m, Turn("client", o, x, m),
         m.ht = "server_key_exchange"
  PROVE  Handled("client", o, x, ServerKeyExchange(x, m))
<1> DEFINE cipher == x.peer.hs.cipher
           y == IF cipher = "null" THEN x ELSE Hash(x, m)
<1>1. /\ Ready(x) /\ x \in Endpoints /\ x.rnd \in Nat /\ m \in Messages
  BY TurnReady
<1>2. /\ Ready(y) /\ Stays("client", x.done, "other", x, y)
      /\ y.peer.hs.crand = x.peer.hs.crand /\ y.peer.state = x.peer.state
  <2>1. CASE cipher = "null"
    <3>1. Keeps(x, x)
      BY <1>1 DEF Ready, Keeps
    <3> QED BY <1>1, <2>1, <3>1, KeepsStays DEF Ready
  <2>2. CASE cipher # "null"
    <3>1. LET z == Hash(x, m)
          IN /\ Ready(z) /\ Stays("client", x.done, "other", x, z)
             /\ Alike(x.peer, z.peer) /\ SameHs(x.peer.hs, z.peer.hs)
      BY <1>1, HashStays
    <3> QED BY <2>2, <3>1 DEF Alike, SameHs
  <2> QED BY <2>1, <2>2
<1>3. CASE Ecdsa(cipher) /\ m.verify # <<x.peer.hs.crand, x.peer.hs.srand>>
  <2>1. ServerKeyExchange(x, m) = Error(y, "handshake_failure")
    BY <1>3 DEF ServerKeyExchange
  <2>2. "handshake_failure" \in Errors
    BY DEF Errors
  <2>3. x.peer.state = "WAIT_SERVERKEYEXCHANGE"
    BY <1>3 DEF Turn, Expected
  <2> HIDE DEF y
  <2> QED BY <1>2, <2>1, <2>2, <2>3, ClientRefuses
<1>4. CASE ~(Ecdsa(cipher) /\ m.verify # <<x.peer.hs.crand, x.peer.hs.srand>>)
  <2>1. ServerKeyExchange(x, m) = SetState(y, "WAIT_SERVERHELLODONE")
    BY <1>4 DEF ServerKeyExchange
  <2>2. "WAIT_SERVERHELLODONE" \in States \ {"CONNECTED"}
    BY DEF States
  <2> HIDE DEF y
  <2> QED BY <1>2, <2>1, <2>2, ClientMoves DEF Ready, Turn, Serving
<1> QED BY <1>3, <1>4

(* The CertificateRequest moves no state.                                  *)
LEMMA CertificateRequestHandled ==
  ASSUME NEW o, NEW x, NEW m, Turn("client", o, x, m),
         m.ht = "certificate_request"
  PROVE  Handled("client", o, x, CertificateRequest(x, m))
<1> DEFINE h == Hash(x, m)
           g == [h.peer.hs EXCEPT !.auth = TRUE]
           y == [h EXCEPT !.peer.hs = g]
<1>1. Ready(x) /\ x \in Endpoints /\ m \in Messages
  BY TurnReady
<1>2. /\ Ready(h) /\ Stays("client", x.done, "other", x, h)
      /\ Alike(x.peer, h.peer) /\ SameHs(x.peer.hs, h.peer.hs)
  BY <1>1, HashStays
<1>3. CertificateRequest(x, m) = y
  BY DEF CertificateRequest
<1> HIDE DEF h
<1>4. /\ g \in Handshakes /\ g.reorder_queue = h.peer.hs.reorder_queue
      /\ g.crand = h.peer.hs.crand
  <2>1. h.peer.hs \in Handshakes
    BY <1>2, ReadyType
  <2> QED BY <2>1 DEF Handshakes
<1> HIDE DEF g
<1>5. /\ Stays("client", x.done, "other", h, y) /\ Alike(h.peer, y.peer)
      /\ y.peer.hs = g
  BY <1>2, <1>4, PutStays DEF Ready
<1> HIDE DEF y
<1>6. Stays("client", x.done, "other", x, y)
  BY <1>1, <1>2, <1>5, StaysTwice
<1>7. y.peer.state = "WAIT_SERVERHELLODONE"
  BY <1>2, <1>5 DEF Turn, Expected, Alike
<1>8. Pending("client", y.peer)
  BY <1>7 DEF Pending
<1>9. y.peer.sec[0] # NULL /\ y.peer.hs.crand = x.peer.hs.crand
  BY <1>1, <1>2, <1>4, <1>5 DEF Ready, Alike, SameHs
<1>10. Sound("client", y)
  BY <1>6, <1>7, <1>8, <1>9, ClientSound DEF Turn
<1> QED BY <1>3, <1>6, <1>7, <1>10, HandledBy DEF Turn

(* One more message of the client. *)
LEMMA ClientSends ==
  ASSUME NEW done, NEW x, Ready(x), NEW m \in Messages,
         m.ht \in ClientKinds \ {"finished"}
  PROVE  LET y == SendHandshake(x, m)
         IN /\ Ready(y) /\ Stays("client", done, "other", x, y)
            /\ SameHs(x.peer.hs, y.peer.hs) /\ Alike(x.peer, y.peer)
<1> DEFINE y == SendHandshake(x, m)
<1>1. m.ht \in Sends("client", x.h) \ {"server_hello", "finished"}
  BY DEF Sends, ClientKinds
<1>2. MaySend("client", done, "other", x, "handshake", m)
  BY <1>1, SimpleSend DEF Ready
<1>3. Wrote("client", done, "other", x, y)
  BY <1>2, SendWrote
<1> HIDE DEF y
<1>4. /\ Ready(y) /\ Stays("client", done, "other", x, y)
      /\ SameHs(x.peer.hs, y.peer.hs) /\ Alike(x.peer, y.peer)
  BY <1>3, WroteReady
<1> QED BY <1>4 DEF y

(* check_server_hellodone: the client's flight, under the new parameters   *)
(* from the ChangeCipherSpec on.                                           *)
LEMMA ServerHelloDoneHandled ==
  ASSUME NEW o, NEW x, NEW m, Turn("client", o, x, m),
         m.ht = "server_hello_done"
  PROVE  Handled("client", o, x, ServerHelloDone(x, m))
<1> DEFINE y == Hash(x, m)
           auth == y.peer.hs.auth
           cert == SendCertificate(y)
           a == IF auth THEN SendCertificate(y) ELSE y
           kx == SendClientKeyExchange(a)
           b == IF auth THEN SendCertificateVerify(kx) ELSE kx
           block == CalculateKeyBlock(b)
           ccs == SendCcs(block)
           new == Switch(ccs)
           z == SendFinished(new, "client")
<1>1. Ready(x) /\ x \in Endpoints /\ m \in Messages
  BY TurnReady
<1>2. /\ Ready(y) /\ Stays("client", x.done, "other", x, y)
      /\ Alike(x.peer, y.peer) /\ SameHs(x.peer.hs, y.peer.hs)
  BY <1>1, HashStays
<1>3. x.peer.state = "WAIT_SERVERHELLODONE"
  BY DEF Turn, Expected
<1>4. CASE auth /\ "get_ecdsa_key" \notin x.h
  <2>1. ServerHelloDone(x, m) = Error(y, "internal_error")
    BY <1>4 DEF ServerHelloDone
  <2>2. "internal_error" \in Errors
    BY DEF Errors
  <2>3. y.peer.hs.crand = x.peer.hs.crand /\ y.peer.state = x.peer.state
    BY <1>2 DEF Alike, SameHs
  <2> HIDE DEF y
  <2> QED BY <1>2, <1>3, <2>1, <2>2, <2>3, ClientRefuses
<1>a. /\ Ready(a) /\ Stays("client", x.done, "other", y, a)
      /\ SameHs(y.peer.hs, a.peer.hs) /\ Alike(y.peer, a.peer)
  <2> HIDE DEF y
  <2>1. CASE auth
    <3>1. /\ Message("certificate") \in Messages
          /\ Message("certificate").ht = "certificate"
      BY MessageType DEF ClientKinds
    <3>2. "certificate" \in ClientKinds \ {"finished"}
      BY DEF ClientKinds
    <3>3. /\ Ready(cert) /\ Stays("client", x.done, "other", y, cert)
          /\ SameHs(y.peer.hs, cert.peer.hs) /\ Alike(y.peer, cert.peer)
      BY <1>2, <3>1, <3>2, ClientSends DEF SendCertificate
    <3> HIDE DEF auth
    <3> QED BY <2>1, <3>3
  <2>2. CASE ~auth
    <3>1. Keeps(y, y)
      BY <1>2, ReadyType DEF Ready, Keeps
    <3>2. Stays("client", x.done, "other", y, y)
      BY <1>2, <3>1, KeepsStays DEF Ready
    <3> QED BY <1>2, <2>2, <3>2 DEF SameHs, Alike
  <2> QED BY <2>1, <2>2
<1>5. CASE ~(auth /\ "get_ecdsa_key" \notin x.h) /\ y.peer.hs.cipher = "null"
  <2>1. ServerHelloDone(x, m) = Error(a, "internal_error")
    BY <1>5 DEF ServerHelloDone
  <2>2. "internal_error" \in Errors
    BY DEF Errors
  <2> HIDE DEF y, a
  <2>3. a.peer.hs.crand = x.peer.hs.crand /\ a.peer.state = x.peer.state
    BY <1>2, <1>a DEF Alike, SameHs
  <2>4. Stays("client", x.done, "other", x, a)
    BY <1>1, <1>2, <1>a, StaysTwice
  <2> QED BY <1>a, <1>3, <2>1, <2>2, <2>3, <2>4, ClientRefuses
<1>6. CASE ~(auth /\ "get_ecdsa_key" \notin x.h) /\ y.peer.hs.cipher # "null"
  <2>1. ServerHelloDone(x, m) = SetState(z, "WAIT_CHANGECIPHERSPEC")
    BY <1>6 DEF ServerHelloDone
  <2> HIDE DEF y
  <2>2. /\ Ready(a) /\ Stays("client", x.done, "other", y, a)
        /\ SameHs(y.peer.hs, a.peer.hs)
    BY <1>a
  <2> HIDE DEF a
  <2>3. /\ Ready(kx) /\ Stays("client", x.done, "other", a, kx)
        /\ kx.peer.hs.crand = a.peer.hs.crand
    BY <2>2, KeyExchangeSent
  <2> HIDE DEF kx
  <2>4. /\ Ready(b) /\ Stays("client", x.done, "other", kx, b)
        /\ b.peer.hs.crand = kx.peer.hs.crand
    <3>1. CASE auth
      <4> DEFINE v == <<kx.peer.hs.hash>>
                 n == [Message("certificate_verify") EXCEPT !.verify = v]
      <4>1. v \in Proof
        <5>1. kx.peer.hs.hash \in Transcript
          BY <2>3, ReadyType, HsType
        <5> QED BY <5>1 DEF Proof
      <4> HIDE DEF v
      <4>2. n \in Messages /\ n.ht = "certificate_verify"
        BY <4>1, MessageType DEF ClientKinds
      <4> HIDE DEF n
      <4>3. "certificate_verify" \in ClientKinds \ {"finished"}
        BY DEF ClientKinds
      <4>4. b = SendHandshake(kx, n)
        BY <3>1 DEF SendCertificateVerify, n, v
      <4> HIDE DEF b
      <4> QED BY <2>3, <4>2, <4>3, <4>4, ClientSends DEF SameHs
    <3>2. CASE ~auth
      <4>1. Keeps(kx, kx)
        BY <2>3, ReadyType DEF Ready, Keeps
      <4>2. Stays("client", x.done, "other", kx, kx)
        BY <2>3, <4>1, KeepsStays DEF Ready
      <4> QED BY <2>3, <3>2, <4>2
    <3> QED BY <3>1, <3>2
  <2> HIDE DEF b
  <2>5. /\ Ready(block) /\ Stays("client", x.done, "other", b, block)
        /\ block.peer.sec[1] # NULL
        /\ block.peer.sec[1].key = block.peer.hs.master
        /\ block.peer.hs.master = KeyOf(block.peer.hs)
        /\ block.peer.hs.crand = b.peer.hs.crand
    BY <2>4, KeyBlockStays
  <2> HIDE DEF block
  <2>6. /\ Ready(ccs) /\ Stays("client", x.done, "other", block, ccs)
        /\ ccs.peer = block.peer
    <3>1. Wrote("client", x.done, "other", block, ccs) /\ ccs.peer = block.peer
      BY <2>5, CcsWrote, ReadyType DEF Ready
    <3> HIDE DEF ccs
    <3> QED BY <2>5, <3>1, WroteReady
  <2> HIDE DEF ccs
  <2>7. /\ Ready(new) /\ Stays("client", x.done, "other", ccs, new)
        /\ new.peer.sec[0] = ccs.peer.sec[1] /\ new.peer.hs = ccs.peer.hs
    BY <2>5, <2>6, SwitchStays
  <2> HIDE DEF new
  <2>8. /\ new.peer.hs.master = KeyOf(new.peer.hs)
        /\ new.peer.sec[0].key = new.peer.hs.master
        /\ new.peer.hs.master \in KeyBlock
    BY <2>5, <2>6, <2>7, ReadyType, HsType
  <2>9. Wrote("client", x.done, "finished", new, z)
    BY <2>7, <2>8, FinishedSent DEF Side
  <2> HIDE DEF z
  <2>10. /\ Ready(z) /\ Stays("client", x.done, "finished", new, z)
         /\ Alike(new.peer, z.peer) /\ SameHs(new.peer.hs, z.peer.hs)
    BY <2>7, <2>9, WroteReady
  <2>11. Stays("client", x.done, "finished", x, z)
    <3>0. /\ y \in Endpoints /\ a \in Endpoints /\ kx \in Endpoints
          /\ b \in Endpoints /\ block \in Endpoints /\ ccs \in Endpoints
      BY <1>2, <2>2, <2>3, <2>4, <2>5, <2>6 DEF Ready
    <3>1. Stays("client", x.done, "finished", ccs, z)
      BY <3>0, <2>7, <2>10, StaysTwice
    <3>2. Stays("client", x.done, "finished", block, z)
      BY <3>0, <3>1, <2>6, StaysTwice
    <3>3. Stays("client", x.done, "finished", b, z)
      BY <3>0, <3>2, <2>5, StaysTwice
    <3>4. Stays("client", x.done, "finished", kx, z)
      BY <3>0, <3>3, <2>4, StaysTwice
    <3>5. Stays("client", x.done, "finished", a, z)
      BY <3>0, <3>4, <2>3, StaysTwice
    <3>6. Stays("client", x.done, "finished", y, z)
      BY <3>0, <3>5, <2>2, StaysTwice
    <3> QED BY <1>1, <1>2, <3>6, StaysTwice
  <2>12. z.peer.hs.crand = x.peer.hs.crand
    BY <1>2, <2>2, <2>3, <2>4, <2>5, <2>6, <2>7, <2>10 DEF SameHs
  <2>13. /\ z.peer.sec[0].key = z.peer.hs.master
         /\ z.peer.hs.master = KeyOf(z.peer.hs)
    BY <2>8, <2>10 DEF Alike, SameHs, KeyOf
  <2>14. "WAIT_CHANGECIPHERSPEC" \in States \ {"CONNECTED"}
    BY DEF States
  <2>15. z.peer.sec[0] # NULL
    BY <2>10 DEF Ready
  <2> QED BY <2>1, <2>11, <2>12, <2>13, <2>14, <2>15, ClientMoves DEF Turn, Serving
<1> QED BY <1>4, <1>5, <1>6

(* The client's certificate. *)
LEMMA ServerCertificateHandled ==
  ASSUME NEW o, NEW x, NEW m, Turn("server", o, x, m), m.ht = "certificate"
  PROVE  Handled("server", o, x, Certificate(x, m))
<1> DEFINE y == Hash(x, m)
           st == "WAIT_CLIENTKEYEXCHANGE"
<1>1. Ready(x) /\ m \in Messages /\ x.peer.role = "server"
  BY TurnReady
<1>2. /\ Ready(y) /\ Stays("server", x.done, "other", x, y)
      /\ SameHs(x.peer.hs, y.peer.hs)
      /\ Kinds(y.peer.hs.hash) = Append(Kinds(x.peer.hs.hash), "certificate")
  BY <1>1, HashStays
<1>3. Certificate(x, m) = SetState(y, st)
  BY <1>1 DEF Certificate
<1>4. x.peer.state = "WAIT_CLIENTCERTIFICATE"
  BY <1>1 DEF Turn, Expected
<1>5. Covered(x.h, x.peer.hs, "WAIT_CLIENTCERTIFICATE")
  BY <1>4 DEF Turn, Good, Sound
<1> HIDE DEF y
<1>6. Covered(x.h, y.peer.hs, st)
  BY <1>2, <1>5 DEF Covered, SameHs
<1>7. st \in States \ {"CONNECTED"} /\ st # "WAIT_FINISHED"
  BY DEF States
<1>8. InHandshake(x.peer) /\ y.peer.hs.srand = x.peer.hs.srand
  BY <1>2, <1>4 DEF InHandshake, SameHs
<1>9. y.peer.sec[0] # NULL /\ Serving("server", o, x)
  BY <1>2 DEF Ready, Turn, Serving
<1> HIDE DEF st
<1> QED BY <1>2, <1>3, <1>6, <1>7, <1>8, <1>9, ServerMoves

(* The client's identity or public point. *)
LEMMA ClientKeyExchangeHandled ==
  ASSUME NEW o, NEW x, NEW m, Turn("server", o, x, m),
         m.ht = "client_key_exchange"
  PROVE  Handled("server", o, x, ClientKeyExchange(x, m))
<1> DEFINE f == x.peer.hs
           g == [f EXCEPT !.kx = m.rnd]
           z == [x EXCEPT !.peer.hs = g]
           y == Hash(z, m)
           st == IF Ecdsa(x.peer.hs.cipher) /\ ClientAuth(x)
                 THEN "WAIT_CERTIFICATEVERIFY" ELSE "WAIT_CHANGECIPHERSPEC"
<1>1. Ready(x) /\ m \in Messages /\ m.rnd \in Nat /\ x \in Endpoints
  BY TurnReady
<1>2. ClientKeyExchange(x, m) = SetState(y, st)
  BY DEF ClientKeyExchange
<1>3. f \in Handshakes
  BY <1>1, ReadyType
<1>4. /\ g \in Handshakes /\ g.reorder_queue = f.reorder_queue
      /\ g.srand = f.srand /\ g.cipher = f.cipher /\ g.hash = f.hash
  BY <1>1, <1>3 DEF Handshakes
<1> HIDE DEF g
<1>5. /\ Stays("server", x.done, "other", x, z) /\ Alike(x.peer, z.peer)
      /\ z.peer.hs = g
  BY <1>1, <1>4, PutStays DEF Ready
<1> HIDE DEF z
<1>6. Ready(z)
  BY <1>1, <1>5, StaysReady DEF Ready, Alike
<1>7. /\ Ready(y) /\ Stays("server", x.done, "other", z, y)
      /\ SameHs(z.peer.hs, y.peer.hs)
      /\ Kinds(y.peer.hs.hash) = Append(Kinds(z.peer.hs.hash), "client_key_exchange")
  BY <1>1, <1>6, HashStays
<1> HIDE DEF y
<1>8. Stays("server", x.done, "other", x, y)
  BY <1>1, <1>5, <1>7, StaysTwice
<1>9. x.peer.state = "WAIT_CLIENTKEYEXCHANGE"
  BY DEF Turn, Expected
<1>10. Covered(x.h, x.peer.hs, "WAIT_CLIENTKEYEXCHANGE")
  BY <1>9 DEF Turn, Good, Sound
<1>11. /\ y.peer.hs.cipher = x.peer.hs.cipher
       /\ y.peer.hs.srand = x.peer.hs.srand
       /\ Kinds(y.peer.hs.hash)
            = Append(Kinds(x.peer.hs.hash), "client_key_exchange")
  BY <1>4, <1>5, <1>7 DEF SameHs
<1>12. Covered(x.h, y.peer.hs, st)
  <2> HIDE DEF f
  <2>1. CASE Ecdsa(x.peer.hs.cipher) /\ ClientAuth(x)
    BY <1>10, <1>11, <2>1 DEF Covered, ClientAuth
  <2>2. CASE ~(Ecdsa(x.peer.hs.cipher) /\ ClientAuth(x))
    BY <1>10, <1>11, <2>2 DEF Covered, ClientAuth, ClientFlight
  <2> QED BY <2>1, <2>2
<1>13. st \in States \ {"CONNECTED"} /\ st # "WAIT_FINISHED"
  BY DEF States
<1>14. y.peer.sec[0] # NULL /\ Serving("server", o, x) /\ InHandshake(x.peer)
  BY <1>7, <1>9 DEF Ready, Turn, Serving, InHandshake
<1> HIDE DEF st
<1> QED BY <1>2, <1>8, <1>11, <1>12, <1>13, <1>14, ServerMoves

(* The client's signature. *)
LEMMA CertificateVerifyHandled ==
  ASSUME NEW o, NEW x, NEW m, Turn("server", o, x, m),
         m.ht = "certificate_verify"
  PROVE  Handled("server", o, x, CertificateVerify(x, m))
<1> DEFINE y == Hash(x, m)
           st == "WAIT_CHANGECIPHERSPEC"
<1>1. Ready(x) /\ m \in Messages
  BY TurnReady
<1>2. CASE m.verify # <<x.peer.hs.hash>>
  <2>1. "handshake_failure" \in Errors
    BY DEF Errors
  <2> QED BY <1>2, <2>1, ErrorHandled DEF CertificateVerify
<1>3. CASE m.verify = <<x.peer.hs.hash>>
  <2>1. CertificateVerify(x, m) = SetState(y, st)
    BY <1>3 DEF CertificateVerify
  <2>2. /\ Ready(y) /\ Stays("server", x.done, "other", x, y)
        /\ SameHs(x.peer.hs, y.peer.hs)
        /\ Kinds(y.peer.hs.hash)
             = Append(Kinds(x.peer.hs.hash), "certificate_verify")
    BY <1>1, HashStays
  <2>3. x.peer.state = "WAIT_CERTIFICATEVERIFY"
    BY DEF Turn, Expected
  <2>4. Covered(x.h, x.peer.hs, "WAIT_CERTIFICATEVERIFY")
    BY <2>3 DEF Turn, Good, Sound
  <2> HIDE DEF y
  <2>5. Covered(x.h, y.peer.hs, st)
    BY <2>2, <2>4 DEF Covered, ClientFlight, SameHs
  <2>6. st \in States \ {"CONNECTED"} /\ st # "WAIT_FINISHED"
    BY DEF States
  <2>7. InHandshake(x.peer) /\ y.peer.hs.srand = x.peer.hs.srand
    BY <2>2, <2>3 DEF InHandshake, SameHs
  <2>8. y.peer.sec[0] # NULL /\ Serving("server", o, x)
    BY <2>2 DEF Ready, Turn, Serving
  <2> HIDE DEF st
  <2> QED BY <2>1, <2>2, <2>5, <2>6, <2>7, <2>8, ServerMoves
<1> QED BY <1>2, <1>3

-----------------------------------------------------------------------------
(* The ClientHello *)

(* New handshake parameters. *)
LEMMA NewHsType ==
  ASSUME NEW a \in Nat, NEW b \in Nat, NEW q \in {NULL, {}}
  PROVE  LET g == NewHandshake(a, b, q)
         IN /\ g \in Handshakes /\ g.reorder_queue = q /\ g.hash = <<>>
            /\ g.mseq_r = a
<1>1. "null" \in Cipher /\ <<>> \in Transcript /\ FALSE \in BOOLEAN
  BY DEF Cipher, Transcript
<1>2. q \in {NULL} \cup SUBSET Messages
  OBVIOUS
<1> QED BY <1>1, <1>2 DEF NewHandshake, Handshakes

(* dtls_new_peer and dtls_add_peer. *)
WithPeer(x, s) ==
  [x EXCEPT !.peers = @ + 1, !.peer = NewPeer(x.peers + 1, s)]

(* No node waits for the new peer. *)
LEMMA PeerCreated ==
  ASSUME NEW s \in Side, NEW o, NEW x, Good(s, o, x), x.peer = NULL
  PROVE  LET y == WithPeer(x, s)
             p == y.peer
         IN /\ Good(s, o, y)
            /\ y.h = x.h /\ y.rnd = x.rnd /\ y.crashed = x.crashed
            /\ y.ev = x.ev /\ y.ret = x.ret /\ y.fate = x.fate
            /\ y.done = x.done /\ y.faults = x.faults
            /\ p \in Peers /\ p # NULL /\ p.hs = NULL /\ p.state = "INIT"
            /\ p.id = x.peers + 1 /\ y.peers = x.peers + 1
            /\ p.role = s /\ p.sec[0] # NULL
            /\ y.sendqueue = x.sendqueue /\ y.out = x.out
            /\ Sealed(x) => Clear(y)
            /\ \A i \in DOMAIN y.sendqueue : ~Live(y, y.sendqueue[i])
<1> DEFINE p == NewPeer(x.peers + 1, s)
           z == [x EXCEPT !.peers = @ + 1]
           y == [x EXCEPT !.peers = @ + 1, !.peer = p]
<1>1. x \in Endpoints /\ x.peers \in Nat /\ x.sendqueue \in Seq(Nodes)
  BY EndpointType DEF Good
<1>2. /\ p \in Peers /\ p.hs = NULL /\ p.state = "INIT"
      /\ p.id = x.peers + 1 /\ p.role = s /\ p.sec[0] # NULL
  <2>1. NewSecurity \in Security
    BY DEF NewSecurity, Security, Cipher
  <2>2. NewSecurityParams \in [Slot -> {NULL} \cup Security]
    BY <2>1 DEF NewSecurityParams, Slot
  <2>3. NewSecurityParams[0] # NULL
    BY <2>1, SecType DEF NewSecurityParams, Slot
  <2>4. p \in Peers
    BY <1>1, <2>2 DEF NewPeer, Peers, States, Side
  <2> QED BY <2>3, <2>4 DEF NewPeer
<1>3. y = [z EXCEPT !.peer = p]
  BY DEF z
<1> HIDE DEF p, y
<1>4. z \in Endpoints /\ z.peers = x.peers + 1
  <2> DEFINE n == x.peers + 1
  <2>1. n \in Nat /\ z = [x EXCEPT !.peers = n]
    BY <1>1
  <2> HIDE DEF n, z
  <2>2. z \in Endpoints /\ z.peers = n
    BY <1>1, <2>1 DEF Endpoints
  <2> QED BY <2>2 DEF n
<1>5. /\ z.h = x.h /\ z.rnd = x.rnd /\ z.done = x.done
      /\ z.crashed = x.crashed /\ z.ev = x.ev /\ z.ret = x.ret
      /\ z.fate = x.fate /\ z.faults = x.faults
      /\ z.sendqueue = x.sendqueue /\ z.out = x.out
  BY <1>1 DEF Endpoints
<1> HIDE DEF z
<1>6. y \in Endpoints /\ y.peer = p /\ Top(z, y)
  BY <1>2, <1>3, <1>4, PutPeer
<1>7. /\ y.h = x.h /\ y.rnd = x.rnd /\ y.done = x.done /\ y.peers = x.peers + 1
      /\ y.sendqueue = x.sendqueue /\ y.out = x.out
  BY <1>4, <1>5, <1>6 DEF Top
<1>8. \A i \in DOMAIN x.sendqueue : x.sendqueue[i].peer \in 1..x.peers
  BY DEF Good, Posted
<1>9. \A i \in DOMAIN y.sendqueue : ~Live(y, y.sendqueue[i])
  BY <1>1, <1>2, <1>6, <1>7, <1>8 DEF Live
<1>10. Sealed(x) => Clear(y)
  BY <1>7, <1>9 DEF Sealed, Clear, Waits
<1>11. Posted(s, y.done, y)
  <2>1. Posted(s, x.done, x)
    BY DEF Good
  <2>2. ASSUME NEW i \in DOMAIN y.sendqueue PROVE y.sendqueue[i].peer \in 1..y.peers
    BY <1>1, <1>7, <1>8
  <2> QED BY <1>7, <2>1, <2>2 DEF Posted
<1>12. Sound(s, y)
  <2>1. p.id \in 1..y.peers
    BY <1>1, <1>2, <1>7
  <2>2. Pending(s, p) /\ Covered(y.h, p.hs, "INIT") /\ ~InHandshake(p)
    BY <1>2 DEF Pending, Covered, InHandshake
  <2> QED BY <1>2, <1>6, <2>1, <2>2 DEF Sound
<1>13. Buffered(s, o, y)
  BY <1>2, <1>6 DEF Buffered
<1>14. Good(s, o, y)
  BY <1>6, <1>7, <1>11, <1>12, <1>13 DEF Good
<1>15. /\ y.crashed = x.crashed /\ y.ev = x.ev /\ y.ret = x.ret
       /\ y.fate = x.fate /\ y.faults = x.faults
  BY <1>5, <1>6 DEF Top
<1>16. WithPeer(x, s) = y /\ p # NULL
  BY <1>2, PeerType DEF WithPeer, y, p
<1> QED BY <1>2, <1>6, <1>7, <1>9, <1>10, <1>14, <1>15, <1>16

(* A server out of a handshake may get any handshake parameters. *)
LEMMA HsCreated ==
  ASSUME NEW o, NEW x, Good("server", o, x), x.peer # NULL,
         ~InHandshake(x.peer), NEW g \in Handshakes,
         \/ g.reorder_queue \in {NULL, {}}
         \/ x.peer.hs # NULL /\ g.reorder_queue = x.peer.hs.reorder_queue
  PROVE  LET y == [x EXCEPT !.peer.hs = g]
         IN /\ Good("server", o, y) /\ Serving("server", o, y) /\ Ready(y)
            /\ Top(x, y) /\ Alike(x.peer, y.peer) /\ y.peer.hs = g
            /\ Clear(x) => Clear(y)
            /\ Guarded(x) => Guarded(y)
<1> DEFINE y == [x EXCEPT !.peer.hs = g]
<1>1. /\ y \in Endpoints /\ y.peer # NULL
      /\ y.peer.hs = g /\ Alike(x.peer, y.peer) /\ Top(x, y)
  BY PutHs DEF Good
<1> HIDE DEF y
<1>2. g # NULL
  BY HsType
<1>3. /\ Posted("server", x.done, x) => Posted("server", x.done, y)
      /\ Clear(x) => Clear(y)
      /\ Guarded(x) => Guarded(y)
  BY <1>1, TopKeeps DEF Top
<1>4. Sound("server", y)
  <2>1. y.peer.state = x.peer.state /\ ~InHandshake(y.peer)
    BY <1>1 DEF Alike, InHandshake
  <2>2. Pending("server", y.peer) /\ Covered(y.h, y.peer.hs, y.peer.state)
    BY <2>1 DEF Pending, Covered, InHandshake
  <2> QED BY <1>1, <2>1, <2>2 DEF Sound, Good, Top, Alike
<1>5. Buffered("server", o, y)
  <2>1. CASE g.reorder_queue = {}
    BY <1>1, <2>1, FS_EmptySet DEF Buffered
  <2>2. CASE g.reorder_queue # {}
    BY <1>1, <2>2 DEF Buffered, Good
  <2> QED BY <2>1, <2>2
<1>6. Good("server", o, y)
  BY <1>1, <1>3, <1>4, <1>5 DEF Good, Top
<1>7. Serving("server", o, y) /\ Ready(y)
  BY <1>1, <1>2, <1>4, <1>6 DEF Serving, Ready, Good, Sound
<1> QED BY <1>1, <1>3, <1>6, <1>7 DEF y

(* dtls_update_parameters accepts a cipher suite this side knows, or fails.*)
LEMMA ParametersUpdated ==
  ASSUME NEW done, NEW x, Ready(x), NEW m \in Messages
  PROVE  LET y == UpdateParameters(x, m)
         IN /\ Ready(y) /\ Stays("server", done, "other", x, y)
            /\ Alike(x.peer, y.peer) /\ y.rnd = x.rnd
            /\ y.peer.hs.hash = x.peer.hs.hash
            /\ \/ IsError(y)
               \/ /\ y.peer.hs.cipher \in {"psk", "ecdsa"}
                  /\ Ecdsa(y.peer.hs.cipher) => "get_ecdsa_key" \in x.h
<1> DEFINE known == {i \in DOMAIN m.suites : KnownCipher(x, m.suites[i], "server")}
           cipher == IF known # {} THEN m.suites[Min(known)] ELSE "null"
           f == x.peer.hs
           e == [f EXCEPT !.crand = m.rnd]
           g == [e EXCEPT !.cipher = cipher]
           y == [x EXCEPT !.peer.hs = g]
           desc == IF x.peer.state = "CONNECTED" THEN "no_renegotiation"
                                                 ELSE "handshake_failure"
           z == IF known # {} THEN y ELSE Error(y, desc)
<1>1. f \in Handshakes /\ x \in Endpoints /\ m.rnd \in Nat /\ m.suites \in Seq(Cipher)
  BY ReadyType DEF Messages, Ready
<1>2. /\ cipher \in Cipher
      /\ known # {} => cipher \in {"psk", "ecdsa"}
                       /\ (Ecdsa(cipher) => "get_ecdsa_key" \in x.h)
  <2>1. CASE known = {}
    BY <2>1 DEF Cipher
  <2>2. CASE known # {}
    <3>1. known \in SUBSET Nat
      BY <1>1
    <3>2. Min(known) \in known
      <4> HIDE DEF known
      <4> QED BY <2>2, <3>1, MinNat
    <3>3. /\ m.suites[Min(known)] \in Cipher
          /\ KnownCipher(x, m.suites[Min(known)], "server")
      <4> DEFINE k == Min(known)
      <4> HIDE DEF k
      <4>1. k \in known
        BY <3>2 DEF k
      <4>2. k \in DOMAIN m.suites /\ KnownCipher(x, m.suites[k], "server")
        BY <4>1
      <4> HIDE DEF known
      <4>3. m.suites[k] \in Cipher
        BY <1>1, <4>2
      <4> QED BY <4>2, <4>3 DEF k
    <3>4. cipher = m.suites[Min(known)]
      BY <2>2
    <3> HIDE DEF known, cipher
    <3>5. KnownCipher(x, cipher, "server")
      BY <3>3, <3>4
    <3>6. \/ cipher = "psk"
          \/ Ecdsa(cipher) /\ "get_ecdsa_key" \in x.h
      BY <3>5 DEF KnownCipher
    <3> QED BY <3>3, <3>4, <3>6 DEF Ecdsa
  <2> QED BY <2>1, <2>2
<1>3. UpdateParameters(x, m) = z
  <2>1. CASE known # {}
    BY <2>1 DEF UpdateParameters
  <2>2. CASE known = {}
    <3>1. cipher = "null"
      BY <2>2
    <3> HIDE DEF cipher
    <3>2. z = Error([x EXCEPT !.peer.hs = [[x.peer.hs EXCEPT !.crand = m.rnd]
                                           EXCEPT !.cipher = "null"]], desc)
      BY <2>2, <3>1
    <3> HIDE DEF z, y, g, e
    <3> QED BY <2>2, <3>2 DEF UpdateParameters
  <2> QED BY <2>1, <2>2
<1> HIDE DEF known, cipher
<1>4. e \in Handshakes /\ e.reorder_queue = f.reorder_queue /\ e.hash = f.hash
  BY <1>1 DEF Handshakes
<1>5. /\ g \in Handshakes /\ g.reorder_queue = f.reorder_queue
      /\ g.hash = f.hash /\ g.cipher = cipher
  <2> HIDE DEF e
  <2> QED BY <1>2, <1>4 DEF Handshakes
<1> HIDE DEF e, g
<1>6. /\ Stays("server", done, "other", x, y) /\ Alike(x.peer, y.peer)
      /\ y.peer.hs = g /\ y.rnd = x.rnd
  BY <1>1, <1>5, PutStays DEF Ready
<1> HIDE DEF y
<1>7. Ready(y)
  BY <1>6, StaysReady DEF Ready, Alike
<1>8. CASE known # {}
  <2>1. z = y
    BY <1>8
  <2> HIDE DEF z
  <2> QED BY <1>2, <1>3, <1>5, <1>6, <1>7, <1>8, <2>1
<1>9. CASE known = {}
  <2>1. z = Error(y, desc) /\ desc \in Errors /\ desc # "ok"
    BY <1>9 DEF Errors
  <2> HIDE DEF desc, z
  <2>2. /\ Stays("server", done, "other", y, z)
        /\ z.peer = y.peer /\ z.rnd = y.rnd /\ z.ret = desc
    BY <1>7, <2>1, ErrorStays DEF Ready
  <2>3. Stays("server", done, "other", x, z)
    BY <1>1, <1>6, <2>2, StaysTwice
  <2>4. Ready(z)
    BY <1>7, <2>2, StaysReady DEF Ready
  <2> QED BY <1>3, <1>5, <1>6, <2>1, <2>2, <2>3, <2>4 DEF IsError
<1> QED BY <1>8, <1>9

(* Writing alone fulfils the contract, if what the hash covers still fits  *)
(* the state.                                                              *)
LEMMA WroteHandled ==
  ASSUME NEW s \in Side, NEW o, NEW x, NEW y, Good(s, o, x),
         Wrote(s, x.done, "other", x, y),
         (x.peer # NULL /\ s = "server") =>
           Covered(x.h, y.peer.hs, x.peer.state)
  PROVE  Handled(s, o, x, y) /\ Kept(x, y)
<1>1. /\ y \in Endpoints /\ Rest(x, y)
      /\ x.peer = NULL => y.peer = NULL
      /\ x.peer # NULL =>
           /\ y.peer # NULL /\ Alike(x.peer, y.peer)
           /\ x.peer.hs = NULL => y.peer.hs = NULL
           /\ x.peer.hs # NULL => y.peer.hs # NULL /\ SameHs(x.peer.hs, y.peer.hs)
      /\ Posted(s, x.done, y)
      /\ Clear(x) => Guarded(y)
  BY ClearGuarded DEF Wrote, Good
<1>2. ASSUME y.peer # NULL PROVE Sound(s, y)
  <2>1. x.peer # NULL /\ Sound(s, x)
    BY <1>1, <1>2 DEF Good
  <2>2. InHandshake(y.peer) <=> InHandshake(x.peer)
    BY <1>1, <2>1 DEF Alike, InHandshake
  <2>3. Pending(s, y.peer)
    <3>1. Pending(s, x.peer)
      BY <2>1 DEF Sound
    <3>2. x.peer.hs = NULL => x.peer.state \notin {"WAIT_CHANGECIPHERSPEC", "WAIT_FINISHED"}
      BY <2>1 DEF Sound, InHandshake
    <3> QED BY <1>1, <2>1, <3>1, <3>2 DEF Alike, SameHs, Pending, KeyOf
  <2>4. ASSUME y.peer.hs # NULL, s = "client" \/ InHandshake(y.peer)
        PROVE  Fresh(s, y)
    <3>1. Fresh(s, x) /\ x.peer.hs # NULL
      BY <1>1, <2>1, <2>2, <2>4 DEF Sound
    <3> QED BY <1>1, <2>1, <3>1 DEF Fresh, OwnRandom, SameHs, Rest
  <2>5. Covered(y.h, y.peer.hs, y.peer.state) \/ s # "server"
    BY <1>1, <2>1 DEF Alike, Rest
  <2>6. /\ y.peer.role = s /\ y.peer.id \in 1..y.peers /\ y.peer.sec[0] # NULL
        /\ InHandshake(y.peer) => y.peer.hs # NULL
        /\ y.peer.state = "CONNECTED" =>
             /\ y.peer.sec[0].key \in KeyBlock
             /\ s = "client" => y.peer.hs = NULL
    BY <1>1, <2>1, <2>2 DEF Sound, Alike, Rest
  <2> QED BY <2>3, <2>4, <2>5, <2>6 DEF Sound
<1>3. ASSUME y.peer # NULL PROVE Buffered(s, o, y)
  <2>1. x.peer # NULL /\ Buffered(s, o, x)
    BY <1>1, <1>3 DEF Good
  <2> QED BY <1>1, <2>1 DEF Buffered, SameHs
<1>4. Good(s, o, y)
  BY <1>1, <1>2, <1>3 DEF Good, Rest
<1>5. Kept(x, y)
  BY <1>1 DEF Kept, Alike, Rest
<1>6. HasHandshake(y) => SameQueue(x, y)
  BY <1>1 DEF HasHandshake, SameQueue, SameHs
<1> QED BY <1>1, <1>4, <1>5, <1>6 DEF Handled, Rest

(* What is missing for a handshake has been created. *)
Creates(x, w) ==
  /\ w.h = x.h /\ w.crashed = x.crashed /\ w.faults = x.faults
  /\ w.fate = x.fate /\ w.ev = x.ev /\ w.done = x.done
  /\ Clear(x) => Clear(w)
  /\ w.peer # NULL /\ w.peer.hs # NULL /\ SameQueue(x, w)
  /\ w.peer.state = "CONNECTED" =>
       /\ x.peer # NULL /\ x.peer.state = "CONNECTED"
       /\ w.peer.sec[0].key = x.peer.sec[0].key

(* ... and then a handler has run. *)
LEMMA CreatesHandled ==
  ASSUME NEW s, NEW o, NEW x, NEW w, NEW y, Creates(x, w), Handled(s, o, w, y)
  PROVE  Handled(s, o, x, y) /\ (Kept(w, y) => Kept(x, y))
<1>1. HasHandshake(y) => SameQueue(x, y)
  BY DEF Creates, Handled, SameQueue, HasHandshake
<1>a. Kept(w, y) => Kept(x, y)
  BY DEF Creates, Kept
<1>2. Kept(x, y) \/ Completes(s, o, x, y)
  <2>1. CASE Kept(w, y)
    BY <1>a, <2>1
  <2>2. CASE Completes(s, o, w, y)
    BY <2>2 DEF Creates, Completes
  <2> QED BY <2>1, <2>2 DEF Handled
<1>3. Clear(x) => Guarded(y)
  BY DEF Creates, Handled
<1> QED BY <1>a, <1>1, <1>2, <1>3 DEF Creates, Handled

(* The peer and the handshake parameters a ClientHello creates, and the    *)
(* hash it starts again.                                                   *)
WithHello(x, k) ==
  LET peer == IF x.peer # NULL THEN x
              ELSE [x EXCEPT !.peers = @ + 1,
                             !.peer = NewPeer(x.peers + 1, "server")]
      hs == IF HasHandshake(peer) THEN peer
            ELSE [peer EXCEPT !.peer.hs = NewHandshake(k, 1, {})]
  IN [hs EXCEPT !.peer.hs.hash = <<>>]

(* What WithHello leaves is a server at work. *)
LEMMA HelloCreates ==
  ASSUME NEW o, NEW x, NEW k \in Nat, Good("server", o, x),
         x.peer # NULL => x.peer.state = "CONNECTED"
  PROVE  LET w == WithHello(x, k)
         IN /\ Creates(x, w) /\ Serving("server", o, w) /\ Ready(w)
            /\ w.peer.hs.hash = <<>> /\ w.peer.state \in {"INIT", "CONNECTED"}
<1> DEFINE peer == IF x.peer # NULL THEN x
                   ELSE [x EXCEPT !.peers = @ + 1,
                                  !.peer = NewPeer(x.peers + 1, "server")]
           new == NewHandshake(k, 1, {})
           hs == IF HasHandshake(peer) THEN peer
                 ELSE [peer EXCEPT !.peer.hs = NewHandshake(k, 1, {})]
           g == [hs.peer.hs EXCEPT !.hash = <<>>]
           v == [hs EXCEPT !.peer.hs = g]
           w == [hs EXCEPT !.peer.hs.hash = <<>>]
<1>0. x \in Endpoints
  BY DEF Good
<1>1. /\ Good("server", o, peer) /\ peer.peer # NULL /\ ~InHandshake(peer.peer)
      /\ peer.h = x.h /\ peer.crashed = x.crashed /\ peer.faults = x.faults
      /\ peer.fate = x.fate /\ peer.ev = x.ev /\ peer.done = x.done
      /\ Clear(x) => Clear(peer)
      /\ peer.peer.state \in {"INIT", "CONNECTED"}
      /\ peer.peer.state = "CONNECTED" => peer = x /\ x.peer # NULL
      /\ x.peer = NULL => peer.peer.hs = NULL
      /\ x.peer # NULL => peer = x
  <2>1. CASE x.peer # NULL
    BY <2>1 DEF InHandshake
  <2>2. CASE x.peer = NULL
    <3> DEFINE y == WithPeer(x, "server")
    <3>1. peer = y
      BY <2>2 DEF WithPeer
    <3>2. "server" \in Side
      BY DEF Side
    <3> HIDE DEF peer, y
    <3>3. /\ Good("server", o, y)
          /\ y.h = x.h /\ y.crashed = x.crashed /\ y.ev = x.ev
          /\ y.fate = x.fate /\ y.done = x.done /\ y.faults = x.faults
          /\ y.peer # NULL /\ y.peer.hs = NULL /\ y.peer.state = "INIT"
          /\ Sealed(x) => Clear(y)
          /\ \A i \in DOMAIN y.sendqueue : ~Live(y, y.sendqueue[i])
      BY <2>2, <3>2, PeerCreated DEF y
    <3>6. Clear(x) => Clear(y)
      BY <3>3 DEF Clear
    <3> QED BY <2>2, <3>1, <3>3, <3>6 DEF InHandshake
  <2> QED BY <2>1, <2>2
<1> HIDE DEF peer
<1>2. /\ Good("server", o, hs) /\ hs.peer # NULL /\ hs.peer.hs # NULL
      /\ Top(peer, hs) /\ Alike(peer.peer, hs.peer)
      /\ Clear(peer) => Clear(hs)
      /\ HasHandshake(peer) => hs = peer
      /\ ~HasHandshake(peer) => hs.peer.hs = new
  <2>1. CASE HasHandshake(peer)
    BY <1>1, <2>1 DEF HasHandshake, Top, Alike
  <2>2. CASE ~HasHandshake(peer)
    <3> DEFINE y == [peer EXCEPT !.peer.hs = new]
    <3>1. new \in Handshakes /\ new.reorder_queue = {}
      BY NewHsType
    <3>2. hs = y
      BY <2>2
    <3> HIDE DEF new, hs
    <3>3. /\ Good("server", o, y) /\ Ready(y)
          /\ Top(peer, y) /\ Alike(peer.peer, y.peer) /\ y.peer.hs = new
          /\ Clear(peer) => Clear(y)
      BY <1>1, <3>1, HsCreated
    <3> QED BY <2>2, <3>2, <3>3 DEF Ready
  <2> QED BY <2>1, <2>2
<1>3. new.mseq_r = k /\ new.reorder_queue = {}
  BY NewHsType
<1> HIDE DEF hs, new
<1>4. hs.peer.hs \in Handshakes
  BY <1>2, EndpointType, PeerType DEF Good
<1>5. /\ g \in Handshakes /\ g.hash = <<>> /\ g.mseq_r = hs.peer.hs.mseq_r
      /\ g.reorder_queue = hs.peer.hs.reorder_queue
  <2>1. <<>> \in Transcript
    BY DEF Transcript
  <2> QED BY <1>4, <2>1 DEF Handshakes
<1>6. w = v
  OBVIOUS
<1> HIDE DEF g
<1>7. ~InHandshake(hs.peer)
  BY <1>1, <1>2 DEF InHandshake, Alike
<1>8. /\ Serving("server", o, v) /\ Ready(v) /\ Top(hs, v)
      /\ Alike(hs.peer, v.peer) /\ v.peer.hs = g
      /\ Clear(hs) => Clear(v)
  BY <1>2, <1>5, <1>7, HsCreated
<1> HIDE DEF v, w
<1>9. SameQueue(x, v)
  <2>1. CASE HasHandshake(x)
    <3>1. hs = x
      BY <1>1, <1>2, <2>1 DEF HasHandshake
    <3> QED BY <1>5, <1>8, <2>1, <3>1 DEF SameQueue
  <2>2. CASE ~HasHandshake(x)
    <3>1. ~HasHandshake(peer)
      BY <1>1, <2>2 DEF HasHandshake
    <3> QED BY <1>2, <1>3, <1>5, <1>8, <2>2, <3>1 DEF SameQueue
  <2> QED BY <2>1, <2>2
<1>10. v.peer.state = "CONNECTED" =>
         /\ x.peer # NULL /\ x.peer.state = "CONNECTED"
         /\ v.peer.sec[0].key = x.peer.sec[0].key
  BY <1>1, <1>2, <1>8 DEF Alike
<1>11. Creates(x, v)
  BY <1>1, <1>2, <1>8, <1>9, <1>10 DEF Creates, Top, Serving
<1>12. v.peer.state \in {"INIT", "CONNECTED"}
  BY <1>1, <1>2, <1>8 DEF Alike
<1>13. WithHello(x, k) = v
  BY <1>6 DEF WithHello, w, hs, peer
<1> QED BY <1>5, <1>8, <1>11, <1>12, <1>13

(* One message hashed. *)
LEMMA FirstKind ==
  Kinds(<<>>) = <<>> /\ \A e : Append(<<>>, e) = <<e>>
BY DEF Kinds

(* dtls_verify_peer and the server's answer to a ClientHello that shows    *)
(* the cookie.                                                             *)
LEMMA ClientHelloHandled ==
  ASSUME NEW o, NEW x, NEW m \in Messages, Good("server", o, x),
         x.peer # NULL => x.peer.state = "CONNECTED",
         m.ht = "client_hello"
  PROVE  /\ Handled("server", o, x, ClientHello(x, m))
         /\ Kept(x, ClientHello(x, m))
<1> DEFINE peer == IF x.peer # NULL THEN x
                   ELSE [x EXCEPT !.peers = @ + 1,
                                  !.peer = NewPeer(x.peers + 1, "server")]
           hs == IF HasHandshake(peer) THEN peer
                 ELSE [peer EXCEPT !.peer.hs = NewHandshake(m.seq, 1, {})]
           w == [hs EXCEPT !.peer.hs.hash = <<>>]
           y == UpdateParameters(w, m)
           h == Hash(y, m)
           z == SendServerHelloMsgs(h)
           st == IF Ecdsa(y.peer.hs.cipher) /\ ClientAuth(x)
                 THEN "WAIT_CLIENTCERTIFICATE" ELSE "WAIT_CLIENTKEYEXCHANGE"
           end == CASE m.cookie # Cookie(m) -> VerifyPeer(x, m)
                    [] m.cookie = Cookie(m) /\ IsError(y) -> y
                    [] OTHER -> SetState(z, st)
<1>0. ClientHello(x, m) = end
  BY DEF ClientHello
<1>1. m.seq \in Nat /\ m.rnd \in Nat
  BY DEF Messages
<1>a. w = WithHello(x, m.seq)
  BY DEF WithHello
<1> HIDE DEF peer, hs, w, y
<1>2. /\ Creates(x, w) /\ Serving("server", o, w) /\ Ready(w)
      /\ w.peer.hs.hash = <<>> /\ w.peer.state \in {"INIT", "CONNECTED"}
  BY <1>1, <1>a, HelloCreates
<1>3. w.h = x.h /\ w.done = x.done /\ w \in Endpoints /\ w.rnd \in Nat
  BY <1>2, ReadyType DEF Creates, Ready
<1> USE DEF y
<1>4. /\ Ready(y) /\ Stays("server", w.done, "other", w, y)
      /\ Alike(w.peer, y.peer) /\ y.rnd = w.rnd
      /\ y.peer.hs.hash = w.peer.hs.hash
      /\ \/ IsError(y)
         \/ /\ y.peer.hs.cipher \in {"psk", "ecdsa"}
            /\ Ecdsa(y.peer.hs.cipher) => "get_ecdsa_key" \in w.h
  BY <1>2, ParametersUpdated
<1> HIDE DEF y
<1>5. CASE m.cookie # Cookie(m)
  <2> DEFINE n == [Message("hello_verify_request") EXCEPT !.cookie = Cookie(m)]
             v == SendHandshakeHash(x, n, FALSE)
  <2>1. end = v
    BY <1>5 DEF VerifyPeer
  <2>2. n \in Messages /\ n.ht = "hello_verify_request"
    <3>1. /\ Message("hello_verify_request") \in Messages
          /\ Message("hello_verify_request").ht = "hello_verify_request"
      BY MessageType DEF ServerKinds
    <3>2. Cookie(m) \in Nat
      BY <1>1 DEF Cookie
    <3> QED BY <3>1, <3>2 DEF Messages
  <2> HIDE DEF n, end
  <2>3. MaySend("server", x.done, "other", x, "handshake", n)
    <3>1. Says("server", x.h, x.done, n)
      BY <2>2 DEF Says, Sends, ServerKinds
    <3>2. n \in Contents /\ "handshake" \in ContentType
      BY <2>2 DEF Contents, ContentType
    <3> QED BY <2>2, <3>1, <3>2 DEF MaySend
  <2>4. CanSend(x) /\ x \in Endpoints
    BY DEF Good, Sound, CanSend
  <2>5. Wrote("server", x.done, "other", x, v)
    <3>1. FALSE \in BOOLEAN
      OBVIOUS
    <3> QED BY <2>2, <2>3, <2>4, <3>1, SendHandshakeHashWrote
  <2> HIDE DEF v
  <2>6. "server" \in Side
    BY DEF Side
  <2>7. x.peer # NULL => Covered(x.h, v.peer.hs, x.peer.state)
    BY DEF Covered
  <2> QED BY <1>0, <2>1, <2>5, <2>6, <2>7, WroteHandled
<1>6. CASE m.cookie = Cookie(m) /\ IsError(y)
  <2>1. end = y
    BY <1>6
  <2> HIDE DEF end
  <2>2. Sound("server", y)
    <3>1. y.peer.state \in {"INIT", "CONNECTED"}
      BY <1>2, <1>4 DEF Alike
    <3>2. /\ Pending("server", y.peer) /\ ~InHandshake(y.peer)
          /\ Covered(y.h, y.peer.hs, y.peer.state)
      BY <3>1 DEF Pending, InHandshake, Covered
    <3>3. Sound("server", w)
      BY <1>2 DEF Serving, Good
    <3> QED BY <1>2, <1>4, <3>2, <3>3 DEF Sound, Alike, Stays
  <2>3. Handled("server", o, w, y) /\ Kept(w, y)
    BY <1>2, <1>4, <2>2, HandledBy DEF Serving, Alike
  <2>4. Handled("server", o, x, y) /\ Kept(x, y)
    BY <1>2, <2>3, CreatesHandled
  <2> QED BY <1>0, <1>6, <2>1, <2>4
<1>7. CASE m.cookie = Cookie(m) /\ ~IsError(y)
  <2>1. end = SetState(z, st)
    BY <1>7
  <2> HIDE DEF end
  <2>2. /\ Ready(h) /\ Stays("server", w.done, "other", y, h)
        /\ Alike(y.peer, h.peer) /\ SameHs(y.peer.hs, h.peer.hs)
        /\ h.rnd = y.rnd /\ h.h = y.h
        /\ Kinds(h.peer.hs.hash) = Append(Kinds(y.peer.hs.hash), m.ht)
    BY <1>4, HashStays
  <2> HIDE DEF h
  <2>3. y.h = x.h
    BY <1>3, <1>4 DEF Stays
  <2>4. Kinds(h.peer.hs.hash) = <<"client_hello">>
    BY <1>2, <1>4, <2>2, FirstKind
  <2>5. /\ h.peer.hs.cipher = y.peer.hs.cipher
        /\ h.peer.hs.cipher \in {"psk", "ecdsa"}
        /\ Ecdsa(h.peer.hs.cipher) => "get_ecdsa_key" \in h.h
    BY <1>3, <1>4, <1>7, <2>2, <2>3 DEF SameHs
  <2>6. /\ Ready(z) /\ Stays("server", w.done, "other", h, z)
        /\ Alike(h.peer, z.peer)
        /\ z.peer.hs.srand = h.rnd + 1 /\ z.rnd = h.rnd + 1
        /\ z.peer.hs.cipher = h.peer.hs.cipher
        /\ Kinds(z.peer.hs.hash) = ServerFlight(h.peer.hs.cipher, h.h)
    BY <2>2, <2>4, <2>5, ServerHelloSent
  <2> HIDE DEF z
  <2>7. Stays("server", w.done, "other", w, z)
    <3>1. y \in Endpoints
      BY <1>4 DEF Ready
    <3>2. Stays("server", w.done, "other", y, z)
      BY <3>1, <2>2, <2>6, StaysTwice
    <3> QED BY <1>3, <1>4, <3>2, StaysTwice
  <2>8. Covered(w.h, z.peer.hs, st)
    <3>1. /\ z.peer.hs.cipher = y.peer.hs.cipher
          /\ z.peer.hs.cipher \in {"psk", "ecdsa"}
          /\ Kinds(z.peer.hs.hash) = ServerFlight(z.peer.hs.cipher, w.h)
      BY <1>3, <2>2, <2>3, <2>5, <2>6
    <3>2. CASE Ecdsa(y.peer.hs.cipher) /\ ClientAuth(x)
      BY <3>1, <3>2, <1>3 DEF Covered, ClientAuth
    <3>3. CASE ~(Ecdsa(y.peer.hs.cipher) /\ ClientAuth(x))
      BY <3>1, <3>3, <1>3 DEF Covered, ClientAuth
    <3> QED BY <3>2, <3>3
  <2>9. st \in States \ {"CONNECTED"} /\ st # "WAIT_FINISHED"
    BY DEF States
  <2> HIDE DEF st
  <2>10. z.peer.sec[0] # NULL
    BY <2>6 DEF Ready
  <2>11. z.peer.hs.srand = w.rnd + 1 /\ z.rnd = w.rnd + 1
    BY <1>4, <2>2, <2>6
  <2>12. Handled("server", o, w, SetState(z, st)) /\ Kept(w, SetState(z, st))
    BY <1>2, <2>7, <2>8, <2>9, <2>10, <2>11, ServerMoves
  <2>13. Handled("server", o, x, SetState(z, st)) /\ Kept(x, SetState(z, st))
    BY <1>2, <2>12, CreatesHandled
  <2> QED BY <1>0, <2>1, <2>13
<1> QED BY <1>5, <1>6, <1>7

-----------------------------------------------------------------------------
(* Finished *)

(* What was said stays said when more sessions are completed. *)
LEMMA SaysMore ==
  ASSUME NEW s, NEW h, NEW D, NEW E, D \subseteq E, NEW m, Says(s, h, D, m)
  PROVE  Says(s, h, E, m)
BY DEF Says

(* ... and posted. *)
LEMMA PostedMore ==
  ASSUME NEW s, NEW D, NEW E, D \subseteq E, NEW x, Posted(s, D, x)
  PROVE  Posted(s, E, x)
BY SaysMore DEF Posted

(* The end of check_finished: session d is completed.                      *)
Ended(z, d) ==
  [z EXCEPT !.peer.hs = NULL, !.peer.state = "CONNECTED",
            !.done = @ \cup {d}]

(* The session d is completed after the part of the handler that leads to  *)
(* z: its key is under way, and new.                                       *)
LEMMA CompletedBy ==
  ASSUME NEW s \in Side, NEW o, NEW x, Serving(s, o, x), Fresh(s, x),
         NEW d \in [key : KeyBlock, hash : Transcript], NEW z, Ready(z),
         Stays(s, x.done \cup {d}, "finished", x, z),
         z.peer.sec[0].key = d.key, z.ret = "ok",
         OwnIn(s, d.key) = OwnRandom(s, x.peer.hs),
         s = "client" => d \in o.done,
         s = "server" => Kinds(d.hash) = Whole(d.key[3], x.h)
  PROVE  Handled(s, o, x, Ended(z, d))
<1> DEFINE p == [z.peer EXCEPT !.hs = NULL]
           q == [p EXCEPT !.state = "CONNECTED"]
           v == [z EXCEPT !.peer = q]
           y == [v EXCEPT !.done = @ \cup {d}]
           end == Ended(z, d)
<1>1. z \in Endpoints /\ z.peer \in Peers
  BY ReadyType DEF Ready
<1>2. end = y
  BY <1>1 DEF Endpoints, Peers, Ended
<1>3. /\ p \in Peers /\ p.hs = NULL /\ p.id = z.peer.id
      /\ p.role = z.peer.role /\ p.sec = z.peer.sec
  BY <1>1 DEF Peers
<1>4. /\ q \in Peers /\ q.hs = NULL /\ q.id = z.peer.id
      /\ q.role = z.peer.role /\ q.sec = z.peer.sec /\ q.state = "CONNECTED"
  <2>1. "CONNECTED" \in States
    BY DEF States
  <2> HIDE DEF p
  <2> QED BY <1>3, <2>1 DEF Peers
<1> HIDE DEF p, q, end
<1>5. v \in Endpoints /\ v.peer = q /\ Top(z, v)
  BY <1>1, <1>4, PutPeer
<1>6. /\ z.h = x.h /\ z.peers = x.peers /\ x.rnd <= z.rnd
      /\ z.crashed = x.crashed /\ z.ev = x.ev /\ z.fate = x.fate
      /\ z.done = x.done /\ z.faults = x.faults
      /\ z.peer.id = x.peer.id /\ z.peer.role = x.peer.role
      /\ Posted(s, x.done \cup {d}, x) => Posted(s, x.done \cup {d}, z)
      /\ Clear(x) => Guarded(z)
  BY DEF Stays
<1> HIDE DEF v
<1>7. /\ y \in Endpoints /\ y.peer = q /\ y.done = x.done \cup {d}
      /\ y.h = x.h /\ y.peers = x.peers /\ y.rnd = z.rnd
      /\ y.crashed = x.crashed /\ y.ev = x.ev /\ y.fate = x.fate
      /\ y.faults = x.faults
      /\ y.sendqueue = z.sendqueue /\ y.out = z.out /\ y.ret = "ok"
  <2>1. v.done \subseteq [key : KeyBlock, hash : Transcript]
    BY <1>5, EndpointType
  <2>2. y \in Endpoints
    BY <1>5, <2>1 DEF Endpoints
  <2>3. /\ y.peer = v.peer /\ y.done = v.done \cup {d}
        /\ y.h = v.h /\ y.peers = v.peers /\ y.rnd = v.rnd
        /\ y.crashed = v.crashed /\ y.ev = v.ev /\ y.fate = v.fate
        /\ y.faults = v.faults
        /\ y.sendqueue = v.sendqueue /\ y.out = v.out /\ y.ret = v.ret
    BY <1>5 DEF Endpoints
  <2> HIDE DEF y
  <2> QED BY <1>5, <1>6, <2>2, <2>3 DEF Top
<1> HIDE DEF y
<1>8. q # NULL
  BY <1>4, PeerType
<1>9. Good(s, o, x) /\ x \in Endpoints /\ x.rnd \in Nat /\ z.rnd \in Nat
      /\ x.peer.hs \in Handshakes /\ x.peer # NULL
  BY <1>1, EndpointType, PeerType DEF Serving, Good
<1>10. \A e \in x.done : OwnIn(s, e.key) \in Nat
  <2> SUFFICES ASSUME NEW e \in x.done PROVE OwnIn(s, e.key) \in Nat
    OBVIOUS
  <2>1. e.key \in KeyBlock
    BY <1>9, EndpointType
  <2> QED BY <2>1 DEF OwnIn, KeyBlock
<1>11. OwnRandom(s, x.peer.hs) \in Nat
  BY <1>9, HsType DEF OwnRandom
<1>12. \A e \in y.done : OwnIn(s, e.key) <= y.rnd
  <2> SUFFICES ASSUME NEW e \in y.done PROVE OwnIn(s, e.key) <= y.rnd
    OBVIOUS
  <2>1. CASE e \in x.done
    <3>1. OwnIn(s, e.key) <= x.rnd
      BY <1>9, <2>1 DEF Good
    <3> QED BY <1>6, <1>7, <1>9, <1>10, <2>1, <3>1
  <2>2. CASE e = d
    BY <1>6, <1>7, <1>9, <1>11, <2>2 DEF Fresh
  <2> QED BY <1>7, <2>1, <2>2
<1>13. Posted(s, y.done, y)
  <2>1. Posted(s, x.done \cup {d}, x)
    BY <1>9, PostedMore DEF Good
  <2>2. Posted(s, x.done \cup {d}, z)
    BY <1>6, <2>1
  <2>3. Posted(s, x.done \cup {d}, y)
    BY <1>6, <1>7, <2>2 DEF Posted
  <2> QED BY <1>7, <2>3
<1>14. Sound(s, y)
  <2>1. Sound(s, x)
    BY <1>9 DEF Good
  <2>2. ~InHandshake(q) /\ Pending(s, q) /\ Covered(y.h, q.hs, q.state)
    BY <1>4 DEF InHandshake, Pending, Covered
  <2>3. q.role = s /\ q.id \in 1..y.peers
    BY <1>4, <1>6, <1>7, <2>1 DEF Sound
  <2>4. q.sec[0] # NULL /\ q.sec[0].key \in KeyBlock
    BY <1>4 DEF Ready
  <2> QED BY <1>4, <1>7, <2>2, <2>3, <2>4 DEF Sound
<1>15. Buffered(s, o, y)
  BY <1>4, <1>7 DEF Buffered
<1>16. /\ s = "client" => y.done \subseteq o.done
       /\ s = "server" => \A e \in y.done : Kinds(e.hash) = Whole(e.key[3], y.h)
  BY <1>7, <1>9 DEF Good
<1>17. Good(s, o, y)
  BY <1>7, <1>12, <1>13, <1>14, <1>15, <1>16 DEF Good
<1>18. Clear(x) => Guarded(y)
  <2>1. \A n : Waits(y, n) <=> Waits(z, n)
    BY <1>4, <1>7, <1>8 DEF Waits, Live, Ready
  <2>2. Guarded(z) => Guarded(y)
    BY <1>4, <1>7, <2>1 DEF Guarded, Sealed
  <2> QED BY <1>6, <2>2
<1>19. Completes(s, o, x, y)
  <2>1. \A e \in x.done : e.key # d.key
    <3> SUFFICES ASSUME NEW e \in x.done, e.key = d.key PROVE FALSE
      OBVIOUS
    <3>1. OwnIn(s, e.key) < OwnRandom(s, x.peer.hs)
      BY DEF Fresh
    <3> QED BY <1>10, <1>11, <3>1
  <2> QED BY <1>4, <1>7, <1>8, <2>1 DEF Completes
<1>20. HasHandshake(y) => SameQueue(x, y)
  BY <1>4, <1>7 DEF HasHandshake
<1>21. Handled(s, o, x, y)
  BY <1>7, <1>8, <1>17, <1>18, <1>19, <1>20 DEF Handled
<1> QED BY <1>2, <1>21 DEF end

(* check_finished on the client: the handshake ends.                       *)
LEMMA ClientFinishedHandled ==
  ASSUME NEW o, NEW x, NEW m, Turn("client", o, x, m), m.ht = "finished"
  PROVE  Handled("client", o, x, Finished(x, m))
<1> DEFINE d == [key |-> x.peer.hs.master, hash |-> x.peer.hs.hash]
<1>1. Ready(x) /\ x.peer.role = "client" /\ x.peer.state = "WAIT_FINISHED"
      /\ x \in Endpoints
  BY TurnReady DEF Turn, Expected
<1>2. CASE m.verify # Verify(x, "server")
  <2>1. "handshake_failure" \in Errors
    BY DEF Errors
  <2>2. Finished(x, m) = Error(x, "handshake_failure")
    BY <1>1, <1>2 DEF Finished
  <2> QED BY <2>1, <2>2, ErrorHandled
<1>3. CASE m.verify = Verify(x, "server")
  <2>1. Finished(x, m) = Ended(x, d)
    BY <1>1, <1>3 DEF Finished, Ended
  <2>2. Fresh("client", x) /\ Pending("client", x.peer)
    BY DEF Turn, Good, Sound
  <2>3. /\ x.peer.sec[0].key = x.peer.hs.master
        /\ x.peer.hs.master = KeyOf(x.peer.hs)
    BY <1>1, <2>2 DEF Pending
  <2>4. x.peer.hs.master \in KeyBlock /\ x.peer.hs.hash \in Transcript
    BY <1>1, <2>3, ReadyType, HsType
  <2>5. d \in [key : KeyBlock, hash : Transcript]
    BY <2>4
  <2>6. d \in o.done
    <3>1. SessionOf(m) \in o.done
      BY DEF Turn, Says, Other
    <3>2. SessionOf(m) = d
      BY <1>3 DEF SessionOf, Verify
    <3> QED BY <3>1, <3>2
  <2>7. OwnIn("client", d.key) = OwnRandom("client", x.peer.hs)
    BY <2>3 DEF OwnIn, OwnRandom, KeyOf
  <2>8. Stays("client", x.done \cup {d}, "finished", x, x)
    <3>1. Keeps(x, x)
      BY <1>1, ReadyType DEF Keeps, Ready
    <3>2. Stays("client", x.done \cup {d}, "other", x, x)
      BY <1>1, <3>1, KeepsStays DEF Ready
    <3> QED BY <3>2 DEF Stays
  <2>9. x.peer.sec[0].key = d.key
    BY <2>3
  <2> HIDE DEF d
  <2>10. "client" \in Side /\ "client" # "server"
    BY DEF Side
  <2> QED BY <1>1, <2>1, <2>2, <2>5, <2>6, <2>7, <2>8, <2>9, <2>10,
             CompletedBy DEF Turn, Serving
<1> QED BY <1>2, <1>3

(* ... and on the server, which then switches and sends its own Finished.  *)
LEMMA ServerFinishedHandled ==
  ASSUME NEW o, NEW x, NEW m, Turn("server", o, x, m), m.ht = "finished"
  PROVE  Handled("server", o, x, Finished(x, m))
<1> DEFINE y == Hash(x, m)
           ccs == SendCcs(y)
           new == Switch(ccs)
           z == SendFinished(new, "server")
           d == [key |-> y.peer.hs.master, hash |-> y.peer.hs.hash]
           D == x.done \cup {d}
<1>1. Ready(x) /\ x.peer.role = "server" /\ x.peer.state = "WAIT_FINISHED"
      /\ x \in Endpoints /\ m \in Messages
  BY TurnReady DEF Turn, Expected
<1>2. CASE m.verify # Verify(x, "client")
  <2>1. "handshake_failure" \in Errors
    BY DEF Errors
  <2>2. Finished(x, m) = Error(x, "handshake_failure")
    BY <1>1, <1>2 DEF Finished
  <2> QED BY <2>1, <2>2, ErrorHandled
<1>3. CASE m.verify = Verify(x, "client")
  <2>1. Finished(x, m) = Ended(z, d)
    BY <1>1, <1>3 DEF Finished, Ended
  <2>2. /\ Fresh("server", x) /\ Pending("server", x.peer)
        /\ Covered(x.h, x.peer.hs, "WAIT_FINISHED")
    <3>1. Sound("server", x)
      BY DEF Turn, Good
    <3>2. InHandshake(x.peer)
      BY <1>1 DEF InHandshake
    <3> QED BY <1>1, <3>1, <3>2 DEF Sound, Ready
  <2>3. /\ x.peer.sec[1] # NULL /\ x.peer.sec[1].key = x.peer.hs.master
        /\ x.peer.hs.master = KeyOf(x.peer.hs)
    BY <1>1, <2>2 DEF Pending
  <2>4. /\ Ready(y) /\ Stays("server", D, "other", x, y)
        /\ Alike(x.peer, y.peer) /\ SameHs(x.peer.hs, y.peer.hs)
        /\ Kinds(y.peer.hs.hash) = Append(Kinds(x.peer.hs.hash), "finished")
        /\ y.ret = x.ret
    BY <1>1, HashStays
  <2> HIDE DEF y
  <2>5. /\ y.peer.hs.master = x.peer.hs.master
        /\ y.peer.hs.master \in KeyBlock /\ y.peer.hs.hash \in Transcript
        /\ KeyOf(y.peer.hs) = KeyOf(x.peer.hs)
    BY <2>3, <2>4, ReadyType, HsType DEF SameHs, KeyOf
  <2>6. d \in [key : KeyBlock, hash : Transcript] /\ d.key = y.peer.hs.master
    BY <2>5
  <2>7. OwnIn("server", d.key) = OwnRandom("server", x.peer.hs)
    BY <2>3, <2>5 DEF OwnIn, OwnRandom, KeyOf
  <2>8. Kinds(d.hash) = Whole(d.key[3], x.h)
    <3>1. d.key[3] = x.peer.hs.cipher
      BY <2>3, <2>5 DEF KeyOf
    <3>2. Kinds(x.peer.hs.hash) = ClientFlight(x.peer.hs.cipher, x.h)
      BY <2>2 DEF Covered
    <3>3. d.hash = y.peer.hs.hash
      OBVIOUS
    <3> HIDE DEF d
    <3> QED BY <2>4, <3>1, <3>2, <3>3 DEF Whole
  <2>9. d \in D /\ d = [key |-> y.peer.hs.master, hash |-> y.peer.hs.hash]
    OBVIOUS
  <2> HIDE DEF d, D
  <2>10. /\ Ready(ccs) /\ Stays("server", D, "other", y, ccs)
         /\ ccs.peer = y.peer /\ ccs.ret = y.ret
    <3>1. Wrote("server", D, "other", y, ccs) /\ ccs.peer = y.peer
      BY <2>4, CcsWrote, ReadyType DEF Ready
    <3> HIDE DEF ccs
    <3> QED BY <2>4, <3>1, WroteReady
  <2> HIDE DEF ccs
  <2>11. ccs.peer.sec[1] # NULL /\ ccs.peer.sec[1].key = x.peer.hs.master
    BY <2>3, <2>4, <2>10 DEF Alike
  <2>12. /\ Ready(new) /\ Stays("server", D, "other", ccs, new)
         /\ new.peer.sec[0] = ccs.peer.sec[1] /\ new.peer.hs = ccs.peer.hs
         /\ new.ret = ccs.ret
    BY <2>10, <2>11, SwitchStays
  <2> HIDE DEF new
  <2>13. /\ new.peer.hs.master \in KeyBlock
         /\ new.peer.sec[0].key = new.peer.hs.master
         /\ new.peer.hs = y.peer.hs
    BY <2>5, <2>10, <2>11, <2>12
  <2>14. [key |-> new.peer.hs.master, hash |-> new.peer.hs.hash] \in D
    BY <2>9, <2>13
  <2>15. "server" \in Side /\ "server" # "client"
    BY DEF Side
  <2>16. Wrote("server", D, "finished", new, z)
    BY <2>12, <2>13, <2>14, <2>15, FinishedSent
  <2> HIDE DEF z
  <2>17. /\ Ready(z) /\ Stays("server", D, "finished", new, z)
         /\ Alike(new.peer, z.peer) /\ z.ret = new.ret
    BY <2>12, <2>16, WroteReady
  <2>18. Stays("server", D, "finished", x, z)
    <3>0. y \in Endpoints /\ ccs \in Endpoints
      BY <2>4, <2>10 DEF Ready
    <3>1. Stays("server", D, "finished", ccs, z)
      BY <3>0, <2>12, <2>17, StaysTwice
    <3>2. Stays("server", D, "finished", y, z)
      BY <3>0, <3>1, <2>10, StaysTwice
    <3> QED BY <1>1, <2>4, <3>2, StaysTwice
  <2>19. z.peer.sec[0].key = d.key
    BY <2>6, <2>13, <2>17 DEF Alike
  <2>20. Serving("server", o, x) /\ x.ret = "ok"
    BY DEF Turn, Serving
  <2>21. z.ret = "ok"
    BY <2>4, <2>10, <2>12, <2>17, <2>20
  <2> QED BY <2>1, <2>2, <2>6, <2>7, <2>8, <2>15, <2>17, <2>18, <2>19, <2>20,
             <2>21, CompletedBy DEF D
<1> QED BY <1>2, <1>3

-----------------------------------------------------------------------------
(* The client's ClientHello *)

(* A client starts a handshake with handshake parameters g. *)
Starts(x, g) ==
  SetState(SendClientHello([x EXCEPT !.peer.hs = g], 0), "CLIENTHELLO")

(* Starting a handshake leaves a client sound. *)
LEMMA ClientStarts ==
  ASSUME NEW o, NEW x, Good("client", o, x), x.peer # NULL, x.peer.hs = NULL,
         NEW g \in Handshakes, g.reorder_queue \in {NULL, {}}
  PROVE  LET y == Starts(x, g)
         IN /\ Good("client", o, y)
            /\ y.h = x.h /\ y.peers = x.peers /\ y.crashed = x.crashed
            /\ y.faults = x.faults /\ y.fate = x.fate /\ y.ev = x.ev
            /\ y.done = x.done /\ y.ret = x.ret /\ y.rnd = x.rnd + 1
            /\ y.peer # NULL /\ y.peer.hs # NULL
            /\ y.peer.state = "CLIENTHELLO" /\ y.peer.id = x.peer.id
            /\ y.peer.hs.reorder_queue = g.reorder_queue
            /\ Clear(x) => Clear(y)
<1> DEFINE w == [x EXCEPT !.peer.hs = g]
           v == SendClientHello(w, 0)
           y == SetState(v, "CLIENTHELLO")
<1>1. x \in Endpoints /\ x.rnd \in Nat
  BY EndpointType DEF Good
<1>2. /\ w \in Endpoints /\ w.peer # NULL /\ w.peer.hs = g
      /\ Alike(x.peer, w.peer) /\ Top(x, w) /\ g # NULL
  BY <1>1, PutHs, HsType
<1> HIDE DEF w
<1>3. /\ Posted("client", x.done, w)
      /\ Clear(x) => Clear(w)
  BY <1>2, TopKeeps DEF Top, Good
<1>4. Ready(w)
  BY <1>2 DEF Ready, Good, Sound, Alike, Top
<1>5. /\ Ready(v) /\ Stays("client", x.done, "other", w, v)
      /\ v.ret = w.ret /\ v.peer.hs.crand = w.rnd + 1 /\ v.rnd = w.rnd + 1
  <2>1. 0 \in Nat
    OBVIOUS
  <2> QED BY <1>4, <2>1, ClientHelloSent
<1> HIDE DEF v
<1>6. /\ Stays("client", x.done, "other", w, y)
      /\ y.peer.state = "CLIENTHELLO" /\ y.peer.hs = v.peer.hs
      /\ y.peer.sec = v.peer.sec /\ y.rnd = v.rnd /\ y.ret = v.ret
  <2>1. "CLIENTHELLO" \in States
    BY DEF States
  <2> QED BY <1>5, <2>1, StateMoves
<1>7. Starts(x, g) = y
  BY DEF Starts, y, v, w
<1> HIDE DEF y
<1>8. Fresh("client", y)
  BY <1>1, <1>2, <1>5, <1>6, FreshDrawn DEF OwnRandom, Stays, Top
<1>9. Sound("client", y)
  <2>1. /\ y.peer.role = "client" /\ y.peer.id \in 1..y.peers
        /\ y.peer.sec[0] # NULL /\ y.peer.hs # NULL
    <3>1. y.peer.role = "client"
      BY <1>2, <1>6 DEF Stays, Alike, Good, Sound
    <3> QED BY <1>2, <1>4, <1>5, <1>6, <3>1 DEF Stays, Ready
  <2>2. Pending("client", y.peer)
    BY <1>6 DEF Pending
  <2>3. "client" # "server" /\ y.peer.state # "CONNECTED"
    BY <1>6
  <2> QED BY <1>8, <2>1, <2>2, <2>3 DEF Sound
<1>10. /\ y \in Endpoints /\ y.h = x.h /\ y.peers = x.peers
       /\ y.crashed = x.crashed
       /\ y.faults = x.faults /\ y.fate = x.fate /\ y.ev = x.ev
       /\ y.done = x.done /\ y.ret = x.ret /\ y.rnd = x.rnd + 1
       /\ y.peer # NULL /\ y.peer.hs # NULL
       /\ y.peer.id = x.peer.id
       /\ y.peer.hs.reorder_queue = g.reorder_queue
  BY <1>2, <1>5, <1>6 DEF Stays, Top, Alike
<1>11. Clear(x) => Clear(y)
  BY <1>3, <1>6 DEF Stays
<1>12. Posted("client", y.done, y)
  BY <1>3, <1>6, <1>10 DEF Stays
<1>13. Buffered("client", o, y)
  BY <1>10, FS_EmptySet DEF Buffered
<1>14. \A d \in y.done : OwnIn("client", d.key) <= y.rnd
  <2> SUFFICES ASSUME NEW d \in x.done PROVE OwnIn("client", d.key) <= x.rnd + 1
    BY <1>10
  <2>1. OwnIn("client", d.key) <= x.rnd
    BY DEF Good
  <2>2. d.key \in KeyBlock
    BY <1>1, EndpointType
  <2>3. OwnIn("client", d.key) \in Nat
    BY <2>2 DEF OwnIn, KeyBlock
  <2> QED BY <1>1, <2>1, <2>3
<1>15. Good("client", o, y)
  BY <1>9, <1>10, <1>12, <1>13, <1>14 DEF Good
<1> QED BY <1>6, <1>7, <1>10, <1>11, <1>15

(* HelloRequest, on a client that is connected. *)
LEMMA HelloRequestHandled ==
  ASSUME NEW o, NEW x, NEW m, Good("client", o, x), x.peer # NULL,
         x.peer.state = "CONNECTED"
  PROVE  Handled("client", o, x, HelloRequest(x, m))
<1> DEFINE g == NewHandshake(0, 0, {})
           y == Starts(x, g)
<1>1. x.peer.hs = NULL
  BY DEF Good, Sound
<1>2. HelloRequest(x, m) = y
  BY <1>1 DEF HelloRequest, Starts
<1>3. g \in Handshakes /\ g.reorder_queue = {}
  BY NewHsType
<1> HIDE DEF g
<1>4. /\ Good("client", o, y)
      /\ y.h = x.h /\ y.crashed = x.crashed
      /\ y.faults = x.faults /\ y.fate = x.fate /\ y.ev = x.ev
      /\ y.done = x.done
      /\ y.peer # NULL /\ y.peer.hs # NULL
      /\ y.peer.state = "CLIENTHELLO"
      /\ y.peer.hs.reorder_queue = {}
      /\ Clear(x) => Clear(y)
  BY <1>1, <1>3, ClientStarts
<1> HIDE DEF y
<1>5. Clear(x) => Guarded(y)
  BY <1>4, ClearGuarded
<1>6. SameQueue(x, y)
  BY <1>1, <1>4 DEF SameQueue, HasHandshake
<1>7. Kept(x, y)
  BY <1>4 DEF Kept
<1> QED BY <1>2, <1>4, <1>5, <1>6, <1>7 DEF Handled

-----------------------------------------------------------------------------
(* dtls_stop_retransmission *)

(* No node waits for the peer. *)
Silent(x) == \A i \in DOMAIN x.sendqueue : ~Live(x, x.sendqueue[i])

(* Dangling keeps nodes of the send queue, and none of the peer's.         *)
LEMMA DanglingIs ==
  ASSUME NEW x \in Endpoints
  PROVE  Dangling(x) \in
           Seq({n \in Nodes : ~Live(x, n) /\ \E j \in DOMAIN x.sendqueue :
                                               n = x.sendqueue[j]})
<1> DEFINE q == x.sendqueue
           n == Len(q)
           K == {e \in Nodes : ~Live(x, e) /\ \E j \in DOMAIN q : e = q[j]}
           V == Seq(K)
           step == [a \in V \X Nat |->
                      IF a[2] \in 1..n
                      THEN a[1] \o When(~Live(x, q[a[2]]), q[a[2]])
                      ELSE a[1]]
<1>1. q \in Seq(Nodes)
  BY EndpointType
<1>2. /\ n \in Nat /\ <<>> \in V /\ DOMAIN q = 1..n
      /\ \A i \in 1..n : q[i] \in Nodes
  <2> HIDE DEF q, K
  <2> QED BY <1>1
<1>3. ASSUME NEW a \in V, NEW i \in 1..n
      PROVE  a \o When(~Live(x, q[i]), q[i]) \in V
  <2>1. CASE Live(x, q[i])
    <3>1. When(~Live(x, q[i]), q[i]) = <<>>
      BY <2>1 DEF When
    <3> HIDE DEF K, q, n
    <3> QED BY <3>1, ConcatEmptySeq
  <2>2. CASE ~Live(x, q[i])
    <3>1. When(~Live(x, q[i]), q[i]) = <<q[i]>>
      BY <2>2 DEF When
    <3>2. q[i] \in K
      BY <1>2, <2>2
    <3> HIDE DEF K, q, n
    <3>3. <<q[i]>> \in V
      BY <3>2
    <3> QED BY <3>1, <3>3, ConcatProperties
  <2> QED BY <2>1, <2>2
<1>4. step \in [V \X Nat -> V]
  <2> HIDE DEF V, n, q
  <2> QED BY <1>3
<1>5. PICK g \in [0..n -> V] : Unfolds(g, <<>>, step, n)
  <2> HIDE DEF step, V, n
  <2> QED BY <1>2, <1>4, RecursionTo
<1> DEFINE More(a, i) == a \o When(~Live(x, q[i]), q[i])
<1>6. ASSUME NEW i \in 1..n PROVE g[i] = More(g[i - 1], i)
  <2>1. i - 1 \in 0..n /\ i \in Nat
    BY <1>2
  <2>2. g[i] = step[<<g[i - 1], i>>] /\ <<g[i - 1], i>> \in V \X Nat
    <3> HIDE DEF step, V, n
    <3> QED BY <1>5, <2>1 DEF Unfolds
  <2> HIDE DEF V, n, q
  <2> QED BY <2>2
<1>7. g = [i \in 0..n |-> IF i = 0 THEN <<>> ELSE More(g[i - 1], i)]
  <2> HIDE DEF More, step, V, n
  <2> QED BY <1>2, <1>5, <1>6 DEF Unfolds
<1> DEFINE kept == CHOOSE kept :
              kept = [i \in 0..n |-> IF i = 0 THEN <<>> ELSE More(kept[i - 1], i)]
<1>8. Dangling(x) = kept[n]
  BY Zenon DEF Dangling
<1>9. kept = [i \in 0..n |-> IF i = 0 THEN <<>> ELSE More(kept[i - 1], i)]
  <2> HIDE DEF More, n
  <2> QED BY <1>7, Zenon
<1> HIDE DEF kept
<1>10. kept[0] = <<>> /\ \A i \in 1..n : kept[i] = More(kept[i - 1], i)
  <2> HIDE DEF More, n
  <2> QED BY <1>2, <1>9
<1> DEFINE S == {i \in Nat : i <= n => kept[i] \in V}
<1> HIDE DEF V, n, q
<1>11. 0 \in S
  BY <1>2, <1>10
<1>12. ASSUME NEW i \in Nat, i \in S PROVE i + 1 \in S
  <2> SUFFICES ASSUME i + 1 <= n PROVE kept[i + 1] \in V
    OBVIOUS
  <2>1. kept[i] \in V /\ i + 1 \in 1..n /\ (i + 1) - 1 = i
    BY <1>2, <1>12
  <2>2. kept[i + 1] = More(kept[i], i + 1)
    <3> HIDE DEF More
    <3> QED BY <1>10, <2>1
  <2> QED BY <1>3, <2>1, <2>2
<1>13. n \in S
  <2> HIDE DEF S
  <2> QED BY <1>2, <1>11, <1>12, SetInduction
<1>14. kept[n] \in V
  BY <1>2, <1>13
<1> QED BY <1>8, <1>14 DEF V, K, q

(* What dtls_stop_retransmission leaves alone, and what it achieves if it  *)
(* returns.                                                                *)
Stopped(s, x, y) ==
  /\ y \in Endpoints
  /\ y.h = x.h /\ y.peer = x.peer /\ y.peers = x.peers /\ y.rnd = x.rnd
  /\ y.out = x.out /\ y.ev = x.ev /\ y.ret = x.ret /\ y.fate = x.fate
  /\ y.done = x.done
  /\ Posted(s, x.done, x) => Posted(s, x.done, y)
  /\ y.crashed \/ (Silent(y) /\ ~x.crashed)

(* dtls_stop_retransmission leaves no node of the peer, if it returns.     *)
LEMMA StopStopped ==
  ASSUME NEW s, NEW x \in Endpoints
  PROVE  Stopped(s, x, StopRetransmission(x))
<1> DEFINE y == StopRetransmission(x)
           F == {"freed_peer", "null_peer", "null_queue"}
           K == {e \in Nodes : ~Live(x, e) /\ \E j \in DOMAIN x.sendqueue :
                                                e = x.sendqueue[j]}
           f == x.faults \cup {"freed_peer"}
<1>1. x.faults \subseteq F /\ x.sendqueue \in Seq(Nodes) /\ x.crashed \in BOOLEAN
  BY EndpointType
<1>2. Dangling(x) \in Seq(K)
  BY DanglingIs
<1>3. <<>> \in Seq(K) /\ Seq(K) \subseteq Seq(Nodes)
  <2>1. K \subseteq Nodes
    OBVIOUS
  <2> HIDE DEF K
  <2> QED BY <2>1
<1>4. f \subseteq F
  BY <1>1
<1> HIDE DEF f, F
<1> DEFINE Cut(z) == /\ z \in Endpoints
                     /\ z.h = x.h /\ z.peer = x.peer /\ z.peers = x.peers
                     /\ z.rnd = x.rnd /\ z.out = x.out /\ z.ev = x.ev
                     /\ z.ret = x.ret /\ z.fate = x.fate /\ z.done = x.done
                     /\ z.crashed = x.crashed
<1>5. ASSUME NEW q \in Seq(K), Cut(y), y.sendqueue = q
      PROVE  Stopped(s, x, y)
  <2> HIDE DEF y
  <2>1. ASSUME NEW i \in DOMAIN q
        PROVE  ~Live(x, q[i]) /\ \E j \in DOMAIN x.sendqueue : q[i] = x.sendqueue[j]
    <3>1. q[i] \in K
      <4> HIDE DEF K
      <4> QED OBVIOUS
    <3> QED BY <3>1
  <2> HIDE DEF K
  <2>2. Silent(y)
    BY <1>5, <2>1 DEF Silent, Live
  <2>3. Posted(s, x.done, x) => Posted(s, x.done, y)
    BY <1>5, <2>1 DEF Posted
  <2>4. y.crashed \/ (Silent(y) /\ ~x.crashed)
    BY <1>1, <1>5, <2>2
  <2> QED BY <1>5, <2>3, <2>4 DEF Stopped
<1>6. CASE Dangling(x) = <<>>
  <2> DEFINE q == Dangling(x)
             z == [x EXCEPT !.sendqueue = q]
  <2>1. y = [x EXCEPT !.sendqueue = <<>>]
    BY <1>6 DEF StopRetransmission
  <2>2. y = z
    BY <1>6, <2>1
  <2> HIDE DEF q, y
  <2>3. q \in Seq(Nodes) /\ q \in Seq(K)
    BY <1>2, <1>3 DEF q
  <2>4. Cut(z) /\ z.sendqueue = q
    <3> HIDE DEF K
    <3> QED BY <2>3 DEF Endpoints
  <2> HIDE DEF z, K
  <2> QED BY <1>5, <2>2, <2>3, <2>4 DEF y
<1>7. CASE Dangling(x) # <<>> /\ x.fate = "stale"
  <2>1. y = [[x EXCEPT !.sendqueue = <<>>] EXCEPT !.faults = f]
    BY <1>7 DEF StopRetransmission, f
  <2>2. <<>> \in Seq(Nodes)
    BY <1>3
  <2>3. Cut(y) /\ y.sendqueue = <<>>
    BY <1>4, <2>1, <2>2 DEF Endpoints, F
  <2> HIDE DEF y, K
  <2> QED BY <1>3, <1>5, <2>3 DEF y
<1>8. CASE Dangling(x) # <<>> /\ x.fate = "reused"
  <2> DEFINE q == Dangling(x)
  <2> HIDE DEF q
  <2>1. y = [[x EXCEPT !.sendqueue = q] EXCEPT !.faults = f]
    BY <1>8 DEF StopRetransmission, f, q
  <2>2. q \in Seq(Nodes) /\ q \in Seq(K)
    BY <1>2, <1>3 DEF q
  <2>3. Cut(y) /\ y.sendqueue = q
    <3> HIDE DEF K
    <3> QED BY <1>4, <2>1, <2>2 DEF Endpoints, F
  <2> HIDE DEF y, K
  <2> QED BY <1>5, <2>2, <2>3 DEF y
<1>9. CASE Dangling(x) # <<>> /\ x.fate \notin {"stale", "reused"}
  <2>1. y = [x EXCEPT !.crashed = TRUE, !.faults = f]
    BY <1>9 DEF StopRetransmission, Crash, f
  <2>2. y \in Endpoints
    BY <1>4, <2>1 DEF Endpoints, F
  <2>3. /\ y.h = x.h /\ y.peer = x.peer /\ y.peers = x.peers /\ y.rnd = x.rnd
        /\ y.out = x.out /\ y.ev = x.ev /\ y.ret = x.ret /\ y.fate = x.fate
        /\ y.done = x.done /\ y.crashed = TRUE /\ y.sendqueue = x.sendqueue
    BY <2>1 DEF Endpoints
  <2> HIDE DEF y
  <2>4. Posted(s, x.done, x) => Posted(s, x.done, y)
    BY <2>3 DEF Posted
  <2> QED BY <2>2, <2>3, <2>4 DEF y, Stopped
<1> QED BY <1>6, <1>7, <1>8, <1>9

(* The peer's nodes gone, no Finished waits.                               *)
LEMMA SilentClear ==
  ASSUME NEW x, Silent(x), Sealed(x)
  PROVE  Clear(x)
BY DEF Silent, Clear, Waits

-----------------------------------------------------------------------------
(* handle_handshake_msg *)

(* Only the result, the events, the fate of freed memory and the faults    *)
(* differ.                                                                 *)
Same(x, y) ==
  /\ y \in Endpoints
  /\ y.h = x.h /\ y.peer = x.peer /\ y.sendqueue = x.sendqueue
  /\ y.peers = x.peers /\ y.rnd = x.rnd /\ y.out = x.out /\ y.done = x.done

(* What the properties are about does not depend on these.                 *)
LEMMA SameKeeps ==
  ASSUME NEW s, NEW o, NEW x, NEW y, Same(x, y)
  PROVE  /\ Good(s, o, x) => Good(s, o, y)
         /\ Guarded(x) => Guarded(y)
         /\ Clear(x) => Clear(y)
         /\ Kept(x, y)
         /\ HasHandshake(y) => SameQueue(x, y)
<1> USE DEF Same
<1>1. \A n : Waits(y, n) <=> Waits(x, n)
  BY DEF Waits, Live
<1>2. Sealed(x) => Sealed(y)
  BY DEF Sealed
<1>3. ASSUME Good(s, o, x) PROVE Good(s, o, y)
  <2>1. Posted(s, y.done, y)
    BY <1>3 DEF Good, Posted
  <2>2. x.peer # NULL => Sound(s, y)
    <3>1. x.peer # NULL => Sound(s, x)
      BY <1>3 DEF Good
    <3>2. Fresh(s, x) => Fresh(s, y)
      BY DEF Fresh
    <3> QED BY <3>1, <3>2 DEF Sound
  <2>3. x.peer # NULL => Buffered(s, o, y)
    <3>1. x.peer # NULL => Buffered(s, o, x)
      BY <1>3 DEF Good
    <3> QED BY <3>1 DEF Buffered
  <2> QED BY <1>3, <2>1, <2>2, <2>3 DEF Good
<1>4. Guarded(x) => Guarded(y)
  BY <1>1, <1>2 DEF Guarded
<1>5. Clear(x) => Clear(y)
  BY <1>1, <1>2 DEF Clear
<1>6. Kept(x, y) /\ (HasHandshake(y) => SameQueue(x, y))
  BY DEF Kept, SameQueue, HasHandshake
<1> QED BY <1>3, <1>4, <1>5, <1>6

(* An error code alone is returned. *)
LEMMA ErrorSame ==
  ASSUME NEW x \in Endpoints, NEW desc \in Errors
  PROVE  /\ Same(x, Error(x, desc)) /\ Error(x, desc).ret = desc
         /\ Error(x, desc).crashed = x.crashed /\ Error(x, desc).ev = x.ev
         /\ Error(x, desc).fate = x.fate /\ Error(x, desc).faults = x.faults
<1> DEFINE y == Error(x, desc)
<1>1. y \in Endpoints
  BY DEF Error, Endpoints
<1>2. /\ y.h = x.h /\ y.peer = x.peer /\ y.sendqueue = x.sendqueue
      /\ y.peers = x.peers /\ y.rnd = x.rnd /\ y.out = x.out /\ y.done = x.done
      /\ y.ret = desc /\ y.crashed = x.crashed /\ y.ev = x.ev
      /\ y.fate = x.fate /\ y.faults = x.faults
  BY DEF Error, Endpoints
<1> HIDE DEF y
<1>3. Same(x, y)
  BY <1>1, <1>2 DEF Same
<1> QED BY <1>2, <1>3 DEF y

(* The reorder queue of handshake parameters g may be that of side s.      *)
Queued(s, o, g) ==
  g.reorder_queue # NULL =>
     /\ IsFiniteSet(g.reorder_queue)
     /\ \A m \in g.reorder_queue :
          /\ Says(Other(s), o.h, o.done, m)
          /\ \A n \in g.reorder_queue : m.seq = n.seq => m = n

(* An assignment to the reorder queue or to a message number.              *)
LEMMA HsChanged ==
  ASSUME NEW s, NEW o, NEW x, Good(s, o, x), x.peer # NULL, x.peer.hs # NULL,
         NEW g \in Handshakes, Queued(s, o, g),
         g.crand = x.peer.hs.crand, g.srand = x.peer.hs.srand,
         g.kx = x.peer.hs.kx, g.cipher = x.peer.hs.cipher,
         g.master = x.peer.hs.master, g.hash = x.peer.hs.hash
  PROVE  LET y == [x EXCEPT !.peer.hs = g]
         IN /\ Good(s, o, y) /\ Top(x, y) /\ Alike(x.peer, y.peer)
            /\ y.peer # NULL /\ y.peer.hs = g /\ g # NULL
            /\ Guarded(x) => Guarded(y)
            /\ Kept(x, y)
<1> DEFINE y == [x EXCEPT !.peer.hs = g]
<1>1. x \in Endpoints /\ Sound(s, x)
  BY DEF Good
<1>2. /\ y \in Endpoints /\ y.peer # NULL /\ y.peer.hs = g /\ g # NULL
      /\ Alike(x.peer, y.peer) /\ Top(x, y)
  BY <1>1, PutHs, HsType
<1> HIDE DEF y
<1>3. /\ y.h = x.h /\ y.peers = x.peers /\ y.rnd = x.rnd /\ y.done = x.done
      /\ y.out = x.out /\ y.sendqueue = x.sendqueue
      /\ y.peer.id = x.peer.id /\ y.peer.role = x.peer.role
      /\ y.peer.sec = x.peer.sec /\ y.peer.state = x.peer.state
  BY <1>2 DEF Top, Alike
<1>4. Sound(s, y)
  <2>1. InHandshake(y.peer) <=> InHandshake(x.peer)
    BY <1>3 DEF InHandshake
  <2>2. Pending(s, y.peer)
    BY <1>1, <1>2, <1>3 DEF Sound, Pending, KeyOf
  <2>3. Fresh(s, x) => Fresh(s, y)
    BY <1>2, <1>3 DEF Fresh, OwnRandom
  <2>4. s = "server" => Covered(y.h, y.peer.hs, y.peer.state)
    BY <1>1, <1>2, <1>3 DEF Sound, Covered
  <2>5. /\ y.peer.role = s /\ y.peer.id \in 1..y.peers /\ y.peer.sec[0] # NULL
        /\ y.peer.state = "CONNECTED" =>
             /\ y.peer.sec[0].key \in KeyBlock
             /\ s = "client" => y.peer.hs = NULL
    BY <1>1, <1>3 DEF Sound
  <2>6. s = "client" \/ InHandshake(y.peer) => Fresh(s, y)
    BY <1>1, <2>1, <2>3 DEF Sound
  <2> QED BY <1>2, <2>2, <2>4, <2>5, <2>6 DEF Sound
<1>5. Posted(s, y.done, y) /\ (Guarded(x) => Guarded(y))
  BY <1>2, <1>3, TopKeeps DEF Good
<1>6. Buffered(s, o, y)
  BY <1>2 DEF Buffered, Queued
<1>7. Good(s, o, y)
  BY <1>2, <1>3, <1>4, <1>5, <1>6 DEF Good
<1>8. Kept(x, y)
  BY <1>2, <1>3 DEF Kept
<1> QED BY <1>2, <1>5, <1>7, <1>8 DEF y

(* mseq_r++ after a handler. *)
LEMMA AdvanceHandled ==
  ASSUME NEW s, NEW o, NEW x, NEW y, Handled(s, o, x, y)
  PROVE  /\ Handled(s, o, x, Advance(y)) /\ Advance(y).ret = y.ret
         /\ Kept(x, y) => Kept(x, Advance(y))
<1> DEFINE f == y.peer.hs
           g == [f EXCEPT !.mseq_r = f.mseq_r + 1]
           z == [y EXCEPT !.peer.hs = g]
<1>1. CASE ~(HasHandshake(y) /\ ~IsError(y))
  <2>1. Advance(y) = y
    BY <1>1 DEF Advance
  <2> QED BY <2>1
<1>2. CASE HasHandshake(y) /\ ~IsError(y)
  <2>1. Advance(y) = z
    BY <1>2 DEF Advance
  <2>2. /\ Good(s, o, y) /\ y.peer # NULL /\ y.peer.hs # NULL
        /\ f \in Handshakes /\ f.mseq_r \in Nat
    BY <1>2, EndpointType, PeerType, HsType DEF Handled, Good, HasHandshake
  <2>3. /\ g \in Handshakes /\ g.reorder_queue = f.reorder_queue
        /\ g.crand = f.crand /\ g.srand = f.srand /\ g.kx = f.kx
        /\ g.cipher = f.cipher /\ g.master = f.master /\ g.hash = f.hash
    BY <2>2 DEF Handshakes
  <2>4. Queued(s, o, g)
    BY <2>2, <2>3 DEF Queued, Good, Buffered
  <2> HIDE DEF g
  <2>5. /\ Good(s, o, z) /\ Top(y, z) /\ Alike(y.peer, z.peer)
        /\ z.peer # NULL /\ z.peer.hs = g
        /\ Guarded(y) => Guarded(z)
        /\ Kept(y, z)
    BY <2>2, <2>3, <2>4, HsChanged
  <2> HIDE DEF z
  <2>6. HasHandshake(z) => SameQueue(x, z)
    BY <1>2, <2>3, <2>5 DEF Handled, SameQueue
  <2>7. Kept(x, y)
    BY <1>2 DEF Handled, Completes, HasHandshake
  <2>8. Kept(x, z)
    BY <2>5, <2>7 DEF Kept
  <2>9. Handled(s, o, x, z)
    BY <2>5, <2>6, <2>8 DEF Handled, Top
  <2> QED BY <2>1, <2>5, <2>8, <2>9 DEF Top
<1> QED BY <1>1, <1>2

(* The switch of handle_handshake_msg.                                     *)
LEMMA DispatchHandled ==
  ASSUME NEW s \in Side, NEW o, NEW x, NEW m, Good(s, o, x), x.ret = "ok",
         Says(Other(s), o.h, o.done, m), m.ht # "finished",
         x.peer = NULL => m.ht = "client_hello",
         x.peer # NULL => Expected(x, x.peer.role, x.peer.state, m),
         m.ht = "hello_request" => x.peer.state = "CONNECTED",
         HasHandshake(x) \/ m.ht \in {"client_hello", "hello_request"}
  PROVE  /\ Handled(s, o, x, Dispatch(x, m))
         /\ x.peer = NULL => Kept(x, Dispatch(x, m))
<1>1. m \in Messages /\ m.ht \in Sends(Other(s), o.h)
  BY DEF Says
<1>2. CASE s = "client"
  <2>1. m.ht \in ServerKinds
    BY <1>1, <1>2 DEF Sends, Other
  <2>2. x.peer # NULL
    BY <2>1 DEF ServerKinds
  <2>3. CASE m.ht = "hello_request"
    <3>1. Dispatch(x, m) = HelloRequest(x, m)
      BY <2>3 DEF Dispatch
    <3> QED BY <1>2, <2>2, <2>3, <3>1, HelloRequestHandled
  <2>4. CASE m.ht # "hello_request"
    <3>1. HasHandshake(x)
      BY <2>1, <2>4 DEF ServerKinds
    <3>2. Turn("client", o, x, m)
      BY <1>2, <2>2, <3>1 DEF Turn, HasHandshake
    <3>3. CASE m.ht = "hello_verify_request"
      BY <1>2, <2>2, <3>2, <3>3, HelloVerifyRequestHandled DEF Dispatch
    <3>4. CASE m.ht = "server_hello"
      BY <1>2, <2>2, <3>2, <3>4, ServerHelloHandled DEF Dispatch
    <3>5. CASE m.ht = "certificate"
      BY <1>2, <2>2, <3>2, <3>5, ClientCertificateHandled DEF Dispatch
    <3>6. CASE m.ht = "server_key_exchange"
      BY <1>2, <2>2, <3>2, <3>6, ServerKeyExchangeHandled DEF Dispatch
    <3>7. CASE m.ht = "certificate_request"
      BY <1>2, <2>2, <3>2, <3>7, CertificateRequestHandled DEF Dispatch
    <3>8. CASE m.ht = "server_hello_done"
      BY <1>2, <2>2, <3>2, <3>8, ServerHelloDoneHandled DEF Dispatch
    <3> QED BY <2>1, <2>4, <3>3, <3>4, <3>5, <3>6, <3>7, <3>8 DEF ServerKinds
  <2> QED BY <2>3, <2>4
<1>3. CASE s = "server"
  <2>1. m.ht \in ClientKinds
    BY <1>1, <1>3 DEF Sends, Other
  <2>2. CASE m.ht = "client_hello"
    <3>1. x.peer # NULL => x.peer.state = "CONNECTED"
      BY <2>2 DEF Expected
    <3>2. Dispatch(x, m) = ClientHello(x, m)
      BY <2>2 DEF Dispatch
    <3> QED BY <1>1, <1>3, <2>2, <3>1, <3>2, ClientHelloHandled
  <2>3. CASE m.ht # "client_hello"
    <3>1. x.peer # NULL /\ HasHandshake(x)
      BY <2>1, <2>3 DEF ClientKinds
    <3>2. Turn("server", o, x, m)
      BY <1>3, <3>1 DEF Turn, HasHandshake
    <3>3. CASE m.ht = "certificate"
      BY <1>3, <3>1, <3>2, <3>3, ServerCertificateHandled DEF Dispatch
    <3>4. CASE m.ht = "client_key_exchange"
      BY <1>3, <3>1, <3>2, <3>4, ClientKeyExchangeHandled DEF Dispatch
    <3>5. CASE m.ht = "certificate_verify"
      BY <1>3, <3>1, <3>2, <3>5, CertificateVerifyHandled DEF Dispatch
    <3> QED BY <2>1, <2>3, <3>3, <3>4, <3>5 DEF ClientKinds
  <2> QED BY <2>2, <2>3
<1> QED BY <1>2, <1>3 DEF Side

(* The peer object is closing. *)
Closed(x) == x.peer # NULL /\ x.peer.state \in {"CLOSING", "CLOSED"}

(* The other side of s, with callbacks h, sends no ServerKeyExchange.      *)
Mute(s, h) == s = "server" \/ {"psk_hint", "get_ecdsa_key"} \cap h = {}

(* The contract of handle_handshake_msg and of what calls it. *)
Outcome(s, o, x, y) ==
  /\ Good(s, o, y) /\ y.h = x.h /\ y.fate = x.fate /\ y.ev = x.ev
  /\ x.peer # NULL => y.peer # NULL
  /\ x.crashed => y.crashed
  /\ Guarded(x) => y.crashed \/ Guarded(y)
  /\ Kept(x, y) \/ Completes(s, o, x, y)
  /\ Mute(s, o.h) /\ Closed(x) => Closed(y)

(* dtls_stop_retransmission keeps an endpoint good. *)
LEMMA StopGood ==
  ASSUME NEW s, NEW o, NEW x, NEW y, Good(s, o, x), Stopped(s, x, y)
  PROVE  Good(s, o, y) /\ Kept(x, y)
<1> USE DEF Stopped
<1>1. Posted(s, y.done, y)
  BY DEF Good
<1>2. x.peer # NULL => Sound(s, y)
  <2>1. x.peer # NULL => Sound(s, x)
    BY DEF Good
  <2>2. Fresh(s, x) => Fresh(s, y)
    BY DEF Fresh
  <2> QED BY <2>1, <2>2 DEF Sound
<1>3. x.peer # NULL => Buffered(s, o, y)
  <2>1. x.peer # NULL => Buffered(s, o, x)
    BY DEF Good
  <2> QED BY <2>1 DEF Buffered
<1>4. Kept(x, y)
  BY DEF Kept
<1> QED BY <1>1, <1>2, <1>3, <1>4 DEF Good

(* A closing peer refuses every message, unless the other side may send a  *)
(* ServerKeyExchange: it is taken in any state while there is no cipher.   *)
LEMMA ClosedRefuses ==
  ASSUME NEW s \in Side, NEW o, NEW x, NEW m, Closed(x), Mute(s, o.h),
         Says(Other(s), o.h, o.done, m),
         Expected(x, x.peer.role, x.peer.state, m)
  PROVE  m.ht = "hello_request"
<1>1. m.ht \in Sends(Other(s), o.h)
  BY DEF Says
<1>2. m.ht \in ClientKinds \cup (ServerKinds \ {"server_key_exchange"})
  BY <1>1 DEF Sends, Other, Mute, Side
<1>3. x.peer.state \in {"CLOSING", "CLOSED"} /\ x.peer # NULL
  BY DEF Closed
<1> QED BY <1>2, <1>3 DEF Expected, ClientKinds, ServerKinds

(* What handle_handshake_msg is called with. *)
Called(s, o, x, role, state, m) ==
  /\ Good(s, o, x) /\ x.ret = "ok"
  /\ Says(Other(s), o.h, o.done, m)
  /\ HasHandshake(x) \/ m.ht \in {"client_hello", "hello_request"}
  /\ x.peer = NULL => m.ht = "client_hello"
  /\ x.peer # NULL => role = x.peer.role /\ state = x.peer.state

(* handle_handshake_msg *)
LEMMA MsgOutcome ==
  ASSUME NEW s \in Side, NEW o, NEW x, NEW role, NEW state, NEW m,
         Called(s, o, x, role, state, m)
  PROVE  LET z == HandleHandshakeMsg(x, role, state, m)
         IN /\ Outcome(s, o, x, z)
            /\ HasHandshake(z) => SameQueue(x, z)
            /\ x.peer = NULL => Kept(x, z)
<1> DEFINE y == IF x.peer = NULL THEN x ELSE StopRetransmission(x)
           z == HandleHandshakeMsg(x, role, state, m)
<1>1. /\ Good(s, o, x) /\ x.ret = "ok" /\ x \in Endpoints
      /\ Says(Other(s), o.h, o.done, m)
      /\ HasHandshake(x) \/ m.ht \in {"client_hello", "hello_request"}
      /\ x.peer = NULL => m.ht = "client_hello"
      /\ x.peer # NULL => role = x.peer.role /\ state = x.peer.state
  BY DEF Called, Good
<1>2. /\ Good(s, o, y) /\ Kept(x, y) /\ y \in Endpoints
      /\ y.h = x.h /\ y.fate = x.fate /\ y.ev = x.ev /\ y.ret = "ok"
      /\ y.peer = x.peer /\ y.done = x.done
      /\ x.crashed => y.crashed
      /\ Guarded(x) => y.crashed \/ Clear(y)
  <2>1. CASE x.peer = NULL
    <3>1. y = x /\ Kept(x, x)
      BY <2>1 DEF Kept
    <3>2. Guarded(x) => Clear(x)
      BY <2>1, SilentClear DEF Guarded, Silent, Live
    <3> HIDE DEF y
    <3> QED BY <1>1, <3>1, <3>2
  <2>2. CASE x.peer # NULL
    <3>1. y = StopRetransmission(x)
      BY <2>2
    <3>2. Stopped(s, x, y)
      BY <1>1, <3>1, StopStopped
    <3> HIDE DEF y
    <3>3. Good(s, o, y) /\ Kept(x, y)
      BY <1>1, <3>2, StopGood
    <3>4. Guarded(x) => y.crashed \/ Clear(y)
      <4>1. Sealed(x) => Sealed(y)
        BY <3>2 DEF Stopped, Sealed
      <4> QED BY <3>2, <4>1, SilentClear DEF Stopped, Guarded
    <3> QED BY <1>1, <3>2, <3>3, <3>4 DEF Stopped
  <2> QED BY <2>1, <2>2
<1>3. z = IF ~Expected(x, role, state, m) THEN Error(y, "unexpected_message")
          ELSE CASE m.ht = "hello_request" /\ state # "CONNECTED" -> y
                 [] m.ht = "finished" -> Finished(y, m)
                 [] OTHER -> Advance(Dispatch(y, m))
  BY DEF HandleHandshakeMsg
<1> HIDE DEF y, z
<1>4. ASSUME Handled(s, o, y, z), Mute(s, o.h) /\ Closed(x) => Closed(z),
             x.peer = NULL => Kept(y, z)
      PROVE  /\ Outcome(s, o, x, z)
             /\ HasHandshake(z) => SameQueue(x, z)
             /\ x.peer = NULL => Kept(x, z)
  <2>1. HasHandshake(z) => SameQueue(x, z)
    BY <1>2, <1>4 DEF Handled, SameQueue, HasHandshake
  <2>2. Kept(y, z) => Kept(x, z)
    BY <1>2 DEF Kept
  <2>3. Completes(s, o, y, z) => Completes(s, o, x, z)
    BY <1>2 DEF Completes
  <2>4. Guarded(x) => z.crashed \/ Guarded(z)
    BY <1>2, <1>4, ClearGuarded DEF Handled
  <2>5. Outcome(s, o, x, z)
    BY <1>2, <1>4, <2>2, <2>3, <2>4 DEF Handled, Outcome
  <2> QED BY <1>4, <2>1, <2>2, <2>5
<1>5. ASSUME Same(y, z), z.fate = y.fate, z.ev = y.ev, z.crashed = y.crashed,
             z.faults = y.faults
      PROVE  /\ Handled(s, o, y, z) /\ Kept(y, z)
             /\ Closed(x) => Closed(z)
  <2>1. /\ Good(s, o, z) /\ Kept(y, z)
        /\ Clear(y) => Clear(z)
        /\ HasHandshake(z) => SameQueue(y, z)
    BY <1>2, <1>5, SameKeeps
  <2>2. z.h = y.h /\ z.peer = y.peer
    BY <1>5 DEF Same
  <2>3. Handled(s, o, y, z)
    BY <1>5, <2>1, <2>2, ClearGuarded DEF Handled
  <2> QED BY <1>2, <2>1, <2>2, <2>3 DEF Closed
<1>6. CASE ~Expected(x, role, state, m)
  <2>1. z = Error(y, "unexpected_message") /\ "unexpected_message" \in Errors
    BY <1>3, <1>6 DEF Errors
  <2>2. /\ Same(y, z) /\ z.fate = y.fate /\ z.ev = y.ev
        /\ z.crashed = y.crashed /\ z.faults = y.faults
    BY <1>2, <2>1, ErrorSame
  <2> QED BY <1>4, <1>5, <2>2 DEF z
<1>7. CASE Expected(x, role, state, m) /\ m.ht = "hello_request"
           /\ state # "CONNECTED"
  <2>1. z = y
    BY <1>3, <1>7
  <2>2. Same(y, z)
    BY <1>2, <2>1 DEF Same
  <2> QED BY <1>4, <1>5, <2>1, <2>2 DEF z
<1>8. CASE Expected(x, role, state, m) /\ m.ht = "finished"
  <2>1. z = Finished(y, m)
    BY <1>3, <1>8
  <2>2. HasHandshake(x) /\ x.peer # NULL
    BY <1>1, <1>8 DEF HasHandshake
  <2>3. x.peer.state = "WAIT_FINISHED"
    BY <1>1, <1>8, <2>2 DEF Expected
  <2>4. Turn(s, o, y, m)
    BY <1>1, <1>2, <1>8, <2>2, <2>3 DEF Turn, Expected, HasHandshake
  <2>5. Handled(s, o, y, z)
    BY <1>8, <2>1, <2>4, ClientFinishedHandled, ServerFinishedHandled DEF Side
  <2> QED BY <1>4, <2>2, <2>3, <2>5 DEF z, Closed
<1>9. CASE Expected(x, role, state, m) /\ m.ht # "finished"
           /\ ~(m.ht = "hello_request" /\ state # "CONNECTED")
  <2>1. z = Advance(Dispatch(y, m))
    BY <1>3, <1>9
  <2>2. y.peer # NULL => Expected(y, y.peer.role, y.peer.state, m)
    BY <1>1, <1>2, <1>9 DEF Expected
  <2>3. m.ht = "hello_request" => y.peer.state = "CONNECTED"
    BY <1>1, <1>2, <1>9
  <2>4. HasHandshake(y) \/ m.ht \in {"client_hello", "hello_request"}
    BY <1>1, <1>2 DEF HasHandshake
  <2>5. /\ Handled(s, o, y, Dispatch(y, m))
        /\ y.peer = NULL => Kept(y, Dispatch(y, m))
    BY <1>1, <1>2, <1>9, <2>2, <2>3, <2>4, DispatchHandled
  <2>6. Handled(s, o, y, z) /\ (x.peer = NULL => Kept(y, z))
    BY <1>2, <2>1, <2>5, AdvanceHandled
  <2>7. ~(Mute(s, o.h) /\ Closed(x))
    BY <1>1, <1>9, ClosedRefuses DEF Closed
  <2> QED BY <1>4, <2>6, <2>7 DEF z
<1> QED BY <1>6, <1>7, <1>8, <1>9 DEF z
=============================================================================
