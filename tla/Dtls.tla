-------------------------------- MODULE Dtls --------------------------------
(***************************************************************************)
(* The handlers of dtls.c for one association, as operators from endpoint  *)
(* to endpoint.  An endpoint is the dtls_context_t of one side:            *)
(*                                                                         *)
(*   h          the callbacks the application registered (ctx->h)          *)
(*   peer       the peer object of the remote side in ctx->peers, or NULL  *)
(*   sendqueue  the nodes of ctx->sendqueue (timers: module SendQueue)     *)
(*   peers, rnd how many peers were allocated and random values drawn      *)
(*   crashed    the process has ended                                      *)
(*                                                                         *)
(* and, for the duration of one handler, out (the records handed to the    *)
(* write callback), ev (the event and read callbacks), ret ("ok" or the    *)
(* alert an error code stands for) and fate (what reading freed memory     *)
(* does).  done and faults are history: the handshakes this side completed *)
(* and the invalid memory accesses and failed assertions it met.           *)
(*                                                                         *)
(* Cryptography is by construction: a record protected with a key opens    *)
(* under that key only, the key is the tuple of everything it is derived   *)
(* from, a hash is the sequence of what was hashed.  Record sequence       *)
(* numbers are left at 0 (there is no replay window; RecordLayer is about  *)
(* them), messages are well-formed and unfragmented, and the callbacks,    *)
(* allocations and writes succeed.                                         *)
(***************************************************************************)
EXTENDS DtlsPeer, SequencesExt

-----------------------------------------------------------------------------
(* What these are made of *)

(* The handshake messages each side sends. *)
ClientKinds == {"client_hello", "certificate", "client_key_exchange",
                "certificate_verify", "finished"}
ServerKinds == {"hello_request", "hello_verify_request", "server_hello",
                "certificate", "server_key_exchange", "certificate_request",
                "server_hello_done", "finished"}
Callback == {"get_psk_info", "psk_hint", "get_ecdsa_key", "verify_ecdsa_key"}
Cipher == {"null", "psk", "ecdsa"}

(* state.h *)
States ==
  {"INIT", "WAIT_CLIENTCERTIFICATE", "WAIT_CLIENTKEYEXCHANGE",
   "WAIT_CERTIFICATEVERIFY", "WAIT_CHANGECIPHERSPEC", "WAIT_FINISHED",
   "CLIENTHELLO", "WAIT_SERVERCERTIFICATE", "WAIT_SERVERKEYEXCHANGE",
   "WAIT_SERVERHELLODONE", "CONNECTED", "CLOSING", "CLOSED"}

(* A key, the hash of a handshake, and what signatures and Finished hold.  *)
KeyBlock == Nat \X Nat \X Cipher \X Nat
Transcript == Seq((ClientKinds \cup ServerKinds) \X Nat \X Nat)
Proof ==
  {<<>>} \cup (Nat \X Nat) \cup [{1} -> Transcript]
         \cup ({"client", "server"} \X ({<<>>} \cup KeyBlock) \X Transcript)

Messages ==
  [ht : ClientKinds \cup ServerKinds, seq : Nat, rnd : Nat, cookie : Nat,
   suites : Seq(Cipher), verify : Proof]
Errors ==
  {"close_notify", "unexpected_message", "handshake_failure", "decrypt_error",
   "insufficient_security", "internal_error", "no_renegotiation",
   "no_peer", "busy"}
ContentType == {"ccs", "alert", "handshake", "application_data"}
Contents ==
  Messages \cup [level : {"warning", "fatal"}, desc : Errors]
           \cup [ccs : {1}] \cup [data : {"client", "server"}]
Datagrams ==
  [ct : ContentType, epoch : Nat, key : {NULL} \cup KeyBlock, msg : Contents]
Nodes ==
  [peer : Nat, epoch : Nat, ct : {"ccs", "handshake"}, msg : Contents]

Security == [epoch : Nat, rseq : {0}, cipher : Cipher, key : {NULL} \cup KeyBlock]
Handshakes ==
  [mseq_r : Nat, mseq_s : Nat, reorder_queue : {NULL} \cup SUBSET Messages,
   crand : Nat, srand : Nat, kx : Nat, cipher : Cipher,
   master : {<<>>} \cup KeyBlock, auth : BOOLEAN, hash : Transcript]
Peers ==
  [id : Nat, role : {"client", "server"}, state : States,
   hs : {NULL} \cup Handshakes, sec : [Slot -> {NULL} \cup Security]]
Endpoints ==
  [h : SUBSET Callback, peer : {NULL} \cup Peers, sendqueue : Seq(Nodes),
   peers : Nat, rnd : Nat, crashed : BOOLEAN, out : Seq(Datagrams),
   ev : Seq({"CONNECT", "CONNECTED", "ALERT", "READ"}),
   ret : {"ok"} \cup Errors, fate : {"crash", "stale", "reused"},
   done : SUBSET [key : KeyBlock, hash : Transcript],
   faults : SUBSET {"freed_peer", "null_peer", "null_queue"}]

ASSUME NullAssumption ==
  NULL \notin Nat \cup KeyBlock \cup Security \cup Handshakes \cup Peers

-----------------------------------------------------------------------------

(* The sequence of one element, or of none. *)
When(cond, e) == IF cond THEN <<e>> ELSE <<>>

Message(ht) == [ht |-> ht, seq |-> 0, rnd |-> 0, cookie |-> 0,
                suites |-> <<>>, verify |-> <<>>]

(* What update_hs_hash adds for a message; the other fields are determined *)
(* by these and by the randoms.                                            *)
HashOf(m) == <<m.ht, m.seq, m.rnd>>

(* dtls_handshake_new, and LIST_STRUCT_INIT where the caller has it.       *)
NewHandshake(mseq_r, mseq_s, reorder_queue) ==
  [mseq_r |-> mseq_r, mseq_s |-> mseq_s, reorder_queue |-> reorder_queue,
   crand |-> 0, srand |-> 0, kx |-> 0, cipher |-> "null",
   master |-> <<>>, auth |-> FALSE, hash |-> <<>>]

(* Mutant: the role stays what memset made it.                             *)
NewPeerClient(id, role) ==
  [id |-> id, role |-> "client", state |-> "INIT", hs |-> NULL,
   sec |-> NewSecurityParams]

(* dtls_new_peer *)
NewPeer(id, role) ==
  [id |-> id, role |-> role, state |-> "INIT", hs |-> NULL,
   sec |-> NewSecurityParams]

NewEndpoint(h) ==
  [h |-> h, peer |-> NULL, sendqueue |-> <<>>, peers |-> 0, rnd |-> 0,
   crashed |-> FALSE, out |-> <<>>, ev |-> <<>>, ret |-> "ok",
   fate |-> "crash", done |-> {}, faults |-> {}]

HasHandshake(x) == x.peer # NULL /\ x.peer.hs # NULL
Error(x, desc) == [x EXCEPT !.ret = desc]
IsError(x) == x.ret # "ok"
Crash(x, fault) == [x EXCEPT !.crashed = TRUE, !.faults = @ \cup {fault}]
Event(x, e) == [x EXCEPT !.ev = Append(@, e)]
SetState(x, state) == [x EXCEPT !.peer.state = state]

(* Mutant: the hash is initialised again for every message.                *)
HashLast(x, m) == [x EXCEPT !.peer.hs.hash = <<HashOf(m)>>]

(* update_hs_hash *)
Hash(x, m) == [x EXCEPT !.peer.hs.hash = Append(@, HashOf(m))]

(* Mutant: the generator returns the same value every time.                *)
DrawStuck(x) == x

(* dtls_prng *)
Draw(x) == [x EXCEPT !.rnd = @ + 1]

(* The cipher predicates.  The three ECDSA suites behave alike here.       *)
Ecdsa(cipher) == cipher = "ecdsa"
ClientAuth(x) == {"get_ecdsa_key", "verify_ecdsa_key"} \subseteq x.h
KnownCipher(x, cipher, role) ==
  \/ cipher = "psk" /\ "get_psk_info" \in x.h
  \/ /\ Ecdsa(cipher)
     /\ IF role = "client" THEN "verify_ecdsa_key" \in x.h
                           ELSE "get_ecdsa_key" \in x.h

-----------------------------------------------------------------------------
(* Sending *)

(* dtls_send_multi: handshake messages other than HelloVerifyRequest, and  *)
(* ChangeCipherSpec, are copied to the send queue before they are written. *)
SendMulti(x, ct, m) ==
  LET security == IF x.peer = NULL THEN NewSecurity ELSE x.peer.sec[0]
      record == [ct |-> ct, epoch |-> security.epoch, key |-> security.key,
                 msg |-> m]
      y == [x EXCEPT !.out = Append(@, record)]
  IN IF ct = "ccs" \/ (ct = "handshake" /\ m.ht # "hello_verify_request")
     THEN [y EXCEPT !.sendqueue = Append(@,
            [peer |-> x.peer.id, epoch |-> security.epoch, ct |-> ct,
             msg |-> m])]
     ELSE y

(* dtls_send_handshake_msg_hash *)
SendHandshakeHash(x, m, hashed) ==
  IF ~HasHandshake(x) THEN SendMulti(x, "handshake", m)
  ELSE LET n == [m EXCEPT !.seq = x.peer.hs.mseq_s]
           y == [x EXCEPT !.peer.hs.mseq_s = @ + 1]
       IN SendMulti(IF hashed THEN Hash(y, n) ELSE y, "handshake", n)

SendHandshake(x, m) == SendHandshakeHash(x, m, TRUE)

Level(desc) == IF desc = "no_renegotiation" THEN "warning" ELSE "fatal"

SendAlert(x, desc) ==
  SendMulti(x, "alert", [level |-> Level(desc), desc |-> desc])

SendCcs(x) == SendMulti(x, "ccs", [ccs |-> 1])

(* dtls_send_finished: the PRF over the label, the master secret and the   *)
(* hash of the handshake so far.                                           *)
Verify(x, label) == <<label, x.peer.hs.master, x.peer.hs.hash>>
SendFinished(x, label) ==
  SendHandshake(x, [Message("finished") EXCEPT !.verify = Verify(x, label)])

(* dtls_send_client_hello: a new client random unless it answers a cookie, *)
(* in which case the hash starts again with this message.                  *)
SendClientHello(x, cookie) ==
  LET y == IF cookie = 0
           THEN [Draw(x) EXCEPT !.peer.hs.crand = x.rnd + 1]
           ELSE [x EXCEPT !.peer.hs.hash = <<>>]
      Offer(c) == When(KnownCipher(x, c, "client"), c)
  IN SendHandshakeHash(y, [Message("client_hello") EXCEPT
                             !.rnd = y.peer.hs.crand, !.cookie = cookie,
                             !.suites = Offer("ecdsa") \o Offer("psk")],
                       cookie # 0)

(* dtls_send_client_key_exchange: the identity, or a fresh public point.   *)
SendClientKeyExchange(x) ==
  LET y == IF Ecdsa(x.peer.hs.cipher)
           THEN [Draw(x) EXCEPT !.peer.hs.kx = x.rnd + 1] ELSE x
  IN SendHandshake(y, [Message("client_key_exchange") EXCEPT
                         !.rnd = y.peer.hs.kx])

SendCertificate(x) == SendHandshake(x, Message("certificate"))

(* add_ecdsa_signature_elem, over what is signed.                          *)
SendCertificateVerify(x) ==
  SendHandshake(x, [Message("certificate_verify") EXCEPT
                      !.verify = <<x.peer.hs.hash>>])

(* dtls_send_server_hello_msgs: ServerHello with a new server random, the  *)
(* messages of the cipher suite, ServerHelloDone.                          *)
SendServerHelloMsgs(x) ==
  LET cipher == x.peer.hs.cipher
      y == [Draw(x) EXCEPT !.peer.hs.srand = x.rnd + 1]
      hello == SendHandshake(y, [Message("server_hello") EXCEPT
                 !.rnd = y.peer.hs.srand, !.suites = <<cipher>>])
      ske == [Message("server_key_exchange") EXCEPT !.verify =
                IF Ecdsa(cipher)
                THEN <<y.peer.hs.crand, y.peer.hs.srand>> ELSE <<>>]
      ecdsa == SendHandshake(SendCertificate(hello), ske)
      key == CASE Ecdsa(cipher) /\ ClientAuth(x) ->
                    SendHandshake(ecdsa, Message("certificate_request"))
               [] Ecdsa(cipher) /\ ~ClientAuth(x) -> ecdsa
               [] cipher = "psk" /\ "psk_hint" \in x.h ->
                    SendHandshake(hello, ske)
               [] OTHER -> hello
  IN SendHandshake(key, Message("server_hello_done"))

(* calculate_key_block *)
CalculateKeyBlock(x) ==
  LET hs == x.peer.hs
      key == <<hs.crand, hs.srand, hs.cipher, hs.kx>>
  IN [x EXCEPT !.peer.sec = [ParamsNext(@) EXCEPT ![1].cipher = hs.cipher,
                                                  ![1].key = key],
               !.peer.hs.master = key]

(* Mutant: the current parameters stay.                                    *)
SwitchForgotten(x) == x

(* dtls_security_params_switch *)
Switch(x) == [x EXCEPT !.peer.sec = ParamsSwitch(@)]

-----------------------------------------------------------------------------
(* The send queue *)

(* node->peer is still allocated *)
Live(x, node) == x.peer # NULL /\ node.peer = x.peer.id

(* The nodes whose peer has been freed. *)
Dangling(x) ==
  LET kept[i \in 0..Len(x.sendqueue)] ==
        IF i = 0 THEN <<>>
        ELSE kept[i - 1] \o When(~Live(x, x.sendqueue[i]), x.sendqueue[i])
  IN kept[Len(x.sendqueue)]

(* Mutants: no node matches; the loop ends with the first one.             *)
StopNone(x) == x
StopFirst(x) ==
  [x EXCEPT !.sendqueue = IF @ = <<>> THEN @ ELSE Tail(@)]

(* dtls_stop_retransmission compares the session in each node's peer       *)
(* object.  In a freed object it reads the old session ("stale"), another  *)
(* one ("reused"), or the process ends ("crash").                          *)
StopRetransmission(x) ==
  IF Dangling(x) = <<>> THEN [x EXCEPT !.sendqueue = <<>>]
  ELSE CASE x.fate = "stale"  -> [x EXCEPT !.sendqueue = <<>>,
                                           !.faults = @ \cup {"freed_peer"}]
         [] x.fate = "reused" -> [x EXCEPT !.sendqueue = Dangling(x),
                                           !.faults = @ \cup {"freed_peer"}]
         [] OTHER             -> Crash(x, "freed_peer")

(* Mutant: the parameters of epoch 0 are not found.                        *)
RetransmitProtectedOnly(x, node) ==
  [x EXCEPT !.out = IF node.epoch = 0 \/ ~Live(x, node) THEN <<>>
                    ELSE <<[ct |-> node.ct, epoch |-> node.epoch,
                            key |-> x.peer.sec[0].key, msg |-> node.msg]>>]

(* dtls_retransmit of one node whose count is not exhausted: the record is *)
(* protected with the parameters of the node's epoch, or not at all when   *)
(* they are gone.                                                          *)
Retransmit(x, node) ==
  LET slot == IF Live(x, node) THEN ParamsEpoch(x.peer.sec, node.epoch)
              ELSE NULL
      security == IF slot = NULL THEN NewSecurity ELSE x.peer.sec[slot]
      y == [x EXCEPT !.out = <<[ct |-> node.ct, epoch |-> security.epoch,
                                key |-> security.key, msg |-> node.msg]>>]
      fault == [y EXCEPT !.faults = @ \cup {"freed_peer"}]
  IN IF Live(x, node) THEN y
     ELSE CASE x.fate = "stale"  -> fault
            [] x.fate = "reused" -> [fault EXCEPT !.out = <<>>]
            [] OTHER             -> Crash(x, "freed_peer")

-----------------------------------------------------------------------------
(* handle_handshake_msg, one operator for each message it accepts.  m has  *)
(* the expected sequence number.                                           *)

(* check_server_hello_verify_request *)
HelloVerifyRequest(x, m) == SendClientHello(x, m.cookie)

ServerHello(x, m) ==
  LET y == [Hash(x, m) EXCEPT !.peer.hs.srand = m.rnd,
                              !.peer.hs.cipher = m.suites[1]]
  IN IF ~KnownCipher(x, m.suites[1], "client")
     THEN Error(y, "insufficient_security")
     ELSE SetState(y, IF Ecdsa(m.suites[1]) THEN "WAIT_SERVERCERTIFICATE"
                                            ELSE "WAIT_SERVERHELLODONE")

Certificate(x, m) ==
  SetState(Hash(x, m), IF x.peer.role = "client"
                       THEN "WAIT_SERVERKEYEXCHANGE"
                       ELSE "WAIT_CLIENTKEYEXCHANGE")

(* The signature covers both randoms and the server's public point.        *)
ServerKeyExchange(x, m) ==
  LET hs == x.peer.hs
      y == IF hs.cipher = "null" THEN x ELSE Hash(x, m)
  IN IF Ecdsa(hs.cipher) /\ m.verify # <<hs.crand, hs.srand>>
     THEN Error(y, "handshake_failure")
     ELSE SetState(y, "WAIT_SERVERHELLODONE")

CertificateRequest(x, m) == [Hash(x, m) EXCEPT !.peer.hs.auth = TRUE]

(* check_server_hellodone: the client's whole flight.  Without a cipher    *)
(* suite there is no key exchange to send.                                 *)
ServerHelloDone(x, m) ==
  LET y == Hash(x, m)
      auth == y.peer.hs.auth
      cert == IF auth THEN SendCertificate(y) ELSE y
      kx == SendClientKeyExchange(cert)
      block == CalculateKeyBlock(IF auth THEN SendCertificateVerify(kx)
                                         ELSE kx)
  IN IF auth /\ "get_ecdsa_key" \notin x.h
     THEN Error(y, "internal_error")
     ELSE IF y.peer.hs.cipher = "null" THEN Error(cert, "internal_error")
     ELSE SetState(SendFinished(Switch(SendCcs(block)), "client"),
                   "WAIT_CHANGECIPHERSPEC")

ClientKeyExchange(x, m) ==
  SetState(Hash([x EXCEPT !.peer.hs.kx = m.rnd], m),
           IF Ecdsa(x.peer.hs.cipher) /\ ClientAuth(x)
           THEN "WAIT_CERTIFICATEVERIFY" ELSE "WAIT_CHANGECIPHERSPEC")

CertificateVerify(x, m) ==
  IF m.verify # <<x.peer.hs.hash>> THEN Error(x, "handshake_failure")
  ELSE SetState(Hash(x, m), "WAIT_CHANGECIPHERSPEC")

(* check_finished against the other side's label, then on the server its   *)
(* own ChangeCipherSpec and Finished; the handshake parameters go.         *)
Finished(x, m) ==
  LET server == x.peer.role = "server"
      label == IF server THEN "client" ELSE "server"
      y == IF server THEN Hash(x, m) ELSE x
      z == IF server THEN SendFinished(Switch(SendCcs(y)), "server") ELSE y
  IN IF m.verify # Verify(x, label) THEN Error(x, "handshake_failure")
     ELSE [z EXCEPT !.peer.hs = NULL, !.peer.state = "CONNECTED",
                    !.done = @ \cup {[key |-> y.peer.hs.master,
                                      hash |-> y.peer.hs.hash]}]

(* dtls_create_cookie: an HMAC over the address and this very hello.       *)
Cookie(m) == m.rnd

(* dtls_verify_peer: the answer to a hello without it leaves no state.     *)
VerifyPeer(x, m) ==
  SendHandshakeHash(x, [Message("hello_verify_request") EXCEPT
                          !.cookie = Cookie(m)], FALSE)

(* dtls_update_parameters: the first cipher suite known to this side.      *)
UpdateParameters(x, m) ==
  LET known == {i \in DOMAIN m.suites : KnownCipher(x, m.suites[i], "server")}
      y == [x EXCEPT !.peer.hs.crand = m.rnd]
  IN IF known # {} THEN [y EXCEPT !.peer.hs.cipher = m.suites[Min(known)]]
     ELSE Error([y EXCEPT !.peer.hs.cipher = "null"],
                IF x.peer.state = "CONNECTED" THEN "no_renegotiation"
                                              ELSE "handshake_failure")

(* ClientHello: one with a valid cookie creates what is missing and is     *)
(* answered by the server's flight.                                        *)
ClientHello(x, m) ==
  LET peer == IF x.peer # NULL THEN x
              ELSE [x EXCEPT !.peers = @ + 1,
                             !.peer = NewPeer(x.peers + 1, "server")]
      hs == IF HasHandshake(peer) THEN peer
            ELSE [peer EXCEPT !.peer.hs = NewHandshake(m.seq, 1, {})]
      y == UpdateParameters([hs EXCEPT !.peer.hs.hash = <<>>], m)
  IN CASE m.cookie # Cookie(m) -> VerifyPeer(x, m)
       [] m.cookie = Cookie(m) /\ IsError(y) -> y
       [] OTHER ->
            SetState(SendServerHelloMsgs(Hash(y, m)),
                     IF Ecdsa(y.peer.hs.cipher) /\ ClientAuth(x)
                     THEN "WAIT_CLIENTCERTIFICATE"
                     ELSE "WAIT_CLIENTKEYEXCHANGE")

(* HelloRequest, taken in CONNECTED only. *)
HelloRequest(x, m) ==
  LET y == IF x.peer.hs # NULL THEN x
           ELSE [x EXCEPT !.peer.hs = NewHandshake(0, 0, {})]
  IN SetState(SendClientHello(y, 0), "CLIENTHELLO")

(* The message is allowed in this state.                                   *)
Expected(x, role, state, m) ==
  CASE m.ht \in {"hello_verify_request", "server_hello"} ->
         state = "CLIENTHELLO"
    [] m.ht = "certificate" ->
         state = IF role = "client" THEN "WAIT_SERVERCERTIFICATE"
                                    ELSE "WAIT_CLIENTCERTIFICATE"
    [] m.ht = "server_key_exchange" ->
         LET cipher == x.peer.hs.cipher
         IN /\ Ecdsa(cipher) => state = "WAIT_SERVERKEYEXCHANGE"
            /\ cipher = "psk" => state = "WAIT_SERVERHELLODONE"
    [] m.ht \in {"server_hello_done", "certificate_request"} ->
         state = "WAIT_SERVERHELLODONE"
    [] m.ht = "finished" -> state = "WAIT_FINISHED"
    [] m.ht = "client_key_exchange" -> state = "WAIT_CLIENTKEYEXCHANGE"
    [] m.ht = "certificate_verify" -> state = "WAIT_CERTIFICATEVERIFY"
    [] m.ht = "client_hello" ->
         state = IF x.peer = NULL THEN "WAIT_CLIENTHELLO" ELSE "CONNECTED"
    [] OTHER -> TRUE

(* if (peer && peer->handshake_params && err >= 0) mseq_r++ *)
Advance(x) ==
  IF HasHandshake(x) /\ ~IsError(x)
  THEN [x EXCEPT !.peer.hs.mseq_r = @ + 1] ELSE x

(* The switch over the type of the message. *)
Dispatch(x, m) ==
  CASE m.ht = "hello_verify_request" -> HelloVerifyRequest(x, m)
    [] m.ht = "server_hello"         -> ServerHello(x, m)
    [] m.ht = "certificate"          -> Certificate(x, m)
    [] m.ht = "server_key_exchange"  -> ServerKeyExchange(x, m)
    [] m.ht = "certificate_request"  -> CertificateRequest(x, m)
    [] m.ht = "server_hello_done"    -> ServerHelloDone(x, m)
    [] m.ht = "client_key_exchange"  -> ClientKeyExchange(x, m)
    [] m.ht = "certificate_verify"   -> CertificateVerify(x, m)
    [] m.ht = "client_hello"         -> ClientHello(x, m)
    [] m.ht = "hello_request"        -> HelloRequest(x, m)

HandleHandshakeMsg(x, role, state, m) ==
  LET y == IF x.peer = NULL THEN x ELSE StopRetransmission(x)
  IN IF ~Expected(x, role, state, m) THEN Error(y, "unexpected_message")
     ELSE CASE m.ht = "hello_request" /\ state # "CONNECTED" -> y
            [] m.ht = "finished" -> Finished(y, m)
            [] OTHER -> Advance(Dispatch(y, m))

-----------------------------------------------------------------------------
(* handle_handshake: in sequence, ahead of it (buffered) or behind it.     *)

(* netq_insert_node asserts that the queue exists; one message per number. *)
Buffer(x, m) ==
  LET queue == x.peer.hs.reorder_queue
  IN CASE queue = NULL -> Crash(x, "null_queue")
       [] queue # NULL /\ (\E n \in queue : n.seq = m.seq) -> x
       [] OTHER -> [x EXCEPT !.peer.hs.reorder_queue = @ \cup {m}]

(* The buffered messages that are next now.                                *)
NextBuffered(x) ==
  IF HasHandshake(x) /\ x.peer.hs.reorder_queue # NULL
  THEN {m \in x.peer.hs.reorder_queue : m.seq = x.peer.hs.mseq_r}
  ELSE {}

(* One turn of the loop that searches the buffer for the next message.     *)
Drain(x) ==
  IF IsError(x) \/ x.crashed \/ NextBuffered(x) = {} THEN x
  ELSE LET m == CHOOSE m \in NextBuffered(x) : TRUE
       IN HandleHandshakeMsg([x EXCEPT !.peer.hs.reorder_queue = @ \ {m}],
                             x.peer.role, x.peer.state, m)

(* Mutant: only one message is taken from the buffer.                      *)
DrainOnce(x) == Drain(x)

(* The loop: it takes at most one turn for each buffered message.          *)
DrainAll(x) ==
  LET buffered == IF HasHandshake(x) /\ x.peer.hs.reorder_queue # NULL
                  THEN Cardinality(x.peer.hs.reorder_queue) ELSE 0
      after[i \in 0..buffered] == IF i = 0 THEN x ELSE Drain(after[i - 1])
  IN after[buffered]

HandleHandshake(x, role, state, m) ==
  CASE ~HasHandshake(x) /\ (m.ht = "client_hello"
                            \/ (x.peer # NULL /\ m.ht = "hello_request")) ->
         HandleHandshakeMsg(x, role, state, m)
    [] x.peer = NULL /\ m.ht # "client_hello" ->
         Error(x, "handshake_failure")
    [] HasHandshake(x) /\ m.seq = x.peer.hs.mseq_r ->
         DrainAll(HandleHandshakeMsg(x, role, state, m))
    [] HasHandshake(x) /\ m.seq > x.peer.hs.mseq_r -> Buffer(x, m)
    [] OTHER -> x

-----------------------------------------------------------------------------
(* handle_ccs, handle_alert and dtls_handle_message *)

(* Mutant: the state is not checked.                                       *)
HandleCcsAnyState(x) ==
  CASE x.peer = NULL -> x
    [] x.peer # NULL /\ x.peer.role = "server" /\ x.peer.hs # NULL ->
         SetState(CalculateKeyBlock(x), "WAIT_FINISHED")
    [] OTHER -> SetState(x, "WAIT_FINISHED")

(* handle_ccs reads peer->handshake_params before it checks peer: on a     *)
(* platform where that does not trap, the check then returns.              *)
HandleCcs(x) ==
  CASE x.peer = NULL ->
         IF x.fate = "crash" THEN Crash(x, "null_peer")
         ELSE [x EXCEPT !.faults = @ \cup {"null_peer"}]
    [] x.peer # NULL /\ x.peer.state # "WAIT_CHANGECIPHERSPEC" -> x
    [] OTHER ->
         SetState(IF x.peer.role = "server" THEN CalculateKeyBlock(x) ELSE x,
                  "WAIT_FINISHED")

(* dtls_close *)
Close(x) ==
  IF x.peer = NULL THEN Error(x, "no_peer")
  ELSE SetState(SendAlert(x, "close_notify"), "CLOSING")

(* dtls_destroy_peer with unlink: nothing removes the peer's nodes from    *)
(* the send queue.                                                         *)
DestroyPeer(x) ==
  LET y == IF x.peer.state \in {"CLOSED", "CLOSING"} THEN x ELSE Close(x)
  IN [y EXCEPT !.peer = NULL]

(* handle_alert.  The event callback is assumed not to call back into the  *)
(* library.                                                                *)
HandleAlert(x, m) ==
  LET y == Event(x, "ALERT")
      z == CASE m.desc # "close_notify" -> y
             [] m.desc = "close_notify" /\ x.peer.state # "CLOSING" ->
                  SendAlert(SetState(y, "CLOSING"), "close_notify")
             [] OTHER -> SetState(y, "CLOSED")
  IN CASE x.peer = NULL -> x
       [] x.peer # NULL /\ (m.level = "fatal" \/ m.desc = "close_notify") ->
            [StopRetransmission(z) EXCEPT !.peer = NULL]
       [] OTHER -> z

(* dtls_alert_send_from_err finds the peer by its session when the handler *)
(* was called without one.                                                 *)
AlertSendFromErr(x) ==
  IF x.peer = NULL THEN x ELSE SendAlert(SetState(x, "CLOSING"), x.ret)

(* decrypt_verify *)
Opens(x, record) ==
  LET slot == ParamsEpoch(x.peer.sec, record.epoch)
  IN slot # NULL /\ (\/ x.peer.sec[slot].cipher = "null"
                     \/ x.peer.sec[slot].key = record.key)

DecryptVerify(x, record) ==
  LET slot == ParamsEpoch(x.peer.sec, record.epoch)
  IN IF x.peer.sec[slot].cipher = "null" THEN x
     ELSE [x EXCEPT !.peer.sec = ParamsFreeOther(@)]

Handshaking(peer) == peer.state \notin {"CONNECTED", "CLOSING", "CLOSED"}

(* A record that does not open ends a handshake and is dropped otherwise.  *)
DecryptFailed(x) ==
  LET y == AlertSendFromErr(Error(x, "decrypt_error"))
  IN IF Handshaking(x.peer) THEN DestroyPeer(SetState(y, "CLOSED"))
     ELSE Error(x, "decrypt_error")

ExpectedEpoch(peer) ==
  IF peer.role = "server" /\ peer.state = "WAIT_FINISHED"
  THEN peer.sec[0].epoch + 1 ELSE peer.sec[0].epoch

HandleHandshakeRecord(x, record) ==
  LET known == x.peer # NULL
      y == IF known
           THEN HandleHandshake(x, x.peer.role, x.peer.state, record.msg)
           ELSE HandleHandshake(x, "server", "WAIT_CLIENTHELLO", record.msg)
  IN IF known /\ record.epoch # ExpectedEpoch(x.peer) THEN x
     ELSE CASE IsError(y) -> AlertSendFromErr(y)
            [] known /\ ~IsError(y) /\ y.peer.state = "CONNECTED" ->
                 Event(StopRetransmission(y), "CONNECTED")
            [] OTHER -> y

(* dtls_handle_message for a datagram of one record, which is what         *)
(* dtls_send_multi writes.  Without a peer the record is not decrypted: a  *)
(* protected one then starts with its epoch, read as a HelloRequest.       *)
HandleMessage(x, record) ==
  LET y == IF x.peer = NULL THEN x ELSE DecryptVerify(x, record)
      stopped == IF x.peer = NULL THEN y ELSE StopRetransmission(y)
  IN IF x.peer # NULL /\ ~Opens(x, record) THEN DecryptFailed(x)
     ELSE CASE record.ct = "ccs"   -> HandleCcs(stopped)
            [] record.ct = "alert" -> HandleAlert(stopped, record.msg)
            [] record.ct = "application_data" ->
                 IF x.peer = NULL THEN Error(x, "no_peer")
                 ELSE Event(stopped, "READ")
            [] record.ct = "handshake" ->
                 IF x.peer = NULL /\ record.key # NULL
                 THEN Error(x, "handshake_failure")
                 ELSE HandleHandshakeRecord(y, record)

-----------------------------------------------------------------------------
(* What the application calls *)

(* dtls_renegotiate: the reorder queue of the new handshake parameters is  *)
(* left as memset made it.                                                 *)
Renegotiate(x) ==
  LET y == [x EXCEPT !.peer.hs = NewHandshake(0, 0, NULL)]
  IN CASE x.peer = NULL -> Error(x, "no_peer")
       [] x.peer # NULL /\ x.peer.state # "CONNECTED" -> Error(x, "busy")
       [] x.peer # NULL /\ x.peer.state = "CONNECTED"
             /\ x.peer.role = "client" ->
            SetState(SendClientHello(y, 0), "CLIENTHELLO")
       [] OTHER -> SendHandshakeHash(y, Message("hello_request"), FALSE)

(* dtls_connect, dtls_connect_peer *)
Connect(x) ==
  LET y == [x EXCEPT !.peers = @ + 1,
                     !.peer = [NewPeer(x.peers + 1, "client") EXCEPT
                                 !.hs = NewHandshake(0, 0, {})]]
      z == IF x.peer # NULL THEN Renegotiate(x)
           ELSE SetState(SendClientHello(y, 0), "CLIENTHELLO")
  IN IF IsError(z) THEN z ELSE Event(z, "CONNECT")

(* Mutant: writes whatever the state of the peer.                          *)
WriteEarly(x, data) ==
  IF x.peer = NULL THEN Connect(x)
  ELSE SendMulti(x, "application_data", [data |-> data])

(* dtls_write *)
Write(x, data) ==
  CASE x.peer = NULL -> Connect(x)
    [] x.peer # NULL /\ x.peer.state = "CONNECTED" ->
         SendMulti(x, "application_data", [data |-> data])
    [] OTHER -> x
=============================================================================
