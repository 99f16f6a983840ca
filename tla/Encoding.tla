------------------------------ MODULE Encoding ------------------------------
(***************************************************************************)
(* What one side writes and the other reads, over all builds and sets of   *)
(* callbacks, and over signatures with and without leading zeros.          *)
(***************************************************************************)
EXTENDS Exchange

CONSTANTS
  CookieLengths,    \* of cookies in a ClientHello
  IdentityLengths,  \* of identities and hints
  TopWords,         \* most significant words of the numbers of a signature
  MiddleWords       \* one of the words below

Sides2 == [psk : BOOLEAN, own : BOOLEAN, verify : BOOLEAN, ma : BOOLEAN]
Some(n, from) == [i \in 1..n |-> (from + 5 * i) % 256]
Coordinates == [x |-> Some(32, 3), y |-> Some(32, 100)]
NumberWith(top, middle) ==
  [i \in 1..8 |-> IF i = 8 THEN top ELSE IF i = 4 THEN middle ELSE <<7, 0, 0, i>>]
Numbers == {NumberWith(w, v) : w \in TopWords, v \in MiddleWords}

EncodingCalled == \/ Called("hello", Sides2)
                  \/ Called("identity", IdentityLengths)
                  \/ Called("signature", Numbers)
EncodingGiven == \/ Given("hello", Sides2 \X CookieLengths)
                 \/ Given("identity", {0, 1, 2})
                 \/ Given("signature", Numbers)

Sent(type, body) == dtls_set_handshake_header(type, 1, body)
ClientHello(ctx, random, cookie) == Sent(1, dtls_send_client_hello(ctx, random, cookie))

(* The suites the client offers, in its order. *)
Offered(ctx) == SelectSeq(<<Ma128, Ma256, Ecdhe, Psk>>,
                          LAMBDA code : known_cipher(ctx, code, TRUE))

(* A number that starts with a set bit among its first nine and has no     *)
(* zero word.                                                              *)
Regular(number) ==
  /\ number[8][1] # 0 \/ number[8][2] >= 128
  /\ \A i \in 1..8 : number[i] # <<0, 0, 0, 0>>

-----------------------------------------------------------------------------

(* Two sides with any callbacks negotiate the client's first suite that    *)
(* the server knows, or none if there is none, and agree on it and on both *)
(* randoms; without a list of suites the current one is kept.  The cookie  *)
(* of a ClientHello is the same with and without the cookie in it, though  *)
(* its length changes all that follows, and another address or random has  *)
(* another one (dtls_update_parameters, check_server_hello,                *)
(* dtls_create_cookie).                                                    *)
HellosAgree ==
  [][Returns("hello") =>
       LET random == Some(32, 1)
           cookie == Some(b[2], 9)
           server == b[1]
           hello == ClientHello(a, random, cookie)
           first == ClientHello(a, random, <<>>)
           bare == Sent(1, SubSeq(dtls_send_client_hello(a, random, cookie), 1, 36 + b[2]))
           u == dtls_update_parameters(server, NullCipher, hello)
           known == SelectSeq(Offered(a), LAMBDA code : known_cipher(server, code, FALSE))
           chosen == IF known = <<>> THEN NullCipher ELSE known[1]
       IN /\ IF known = <<>> THEN u.ret = -1
             ELSE u = [ret |-> 0, cipher |-> chosen, random |-> random]
          /\ chosen # NullCipher =>
               check_server_hello(a, Sent(2, dtls_send_server_hello(server, chosen, Some(32, 2))))
                 = [ret |-> 0, cipher |-> chosen, random |-> Some(32, 2)]
          /\ dtls_update_parameters(server, NullCipher, bare).ret = -1
          /\ dtls_update_parameters(server, Psk, bare).cipher = Psk
          /\ dtls_get_cookie(hello) = [ret |-> b[2], cookie |-> cookie]
          /\ check_server_hello_verify_request(Sent(3, HelloVerifyRequest(cookie))).cookie = cookie
          /\ dtls_create_cookie(1, 2, hello) = dtls_create_cookie(1, 2, first)
          /\ dtls_create_cookie(1, 3, hello) # dtls_create_cookie(1, 2, first)
          /\ dtls_create_cookie(1, 2, ClientHello(a, Some(32, 2), cookie))
               # dtls_create_cookie(1, 2, first)]_call

(* Keys, hints and identities read back as they were written.  An identity *)
(* or a hint that is a byte shorter or longer than it is announced, or too *)
(* long for its buffer, is refused, and so is a key exchange that is too   *)
(* short for its key.  Bytes behind an ephemeral key are ignored and the   *)
(* length of a message with a certificate is not looked at: nothing is     *)
(* claimed of these (check_client_keyexchange, check_server_certificate).  *)
KeysReadBack ==
  [][Returns("identity") =>
       LET id == Some(a, 60)
           xy == Coordinates
           cut(data) == SubSeq(data, 1, Len(data) - 1)
           kx == Sent(16, dtls_send_client_key_exchange(Psk, id, xy.x, xy.y))
           ecdh == Sent(16, dtls_send_client_key_exchange(Ecdhe, id, xy.x, xy.y))
           ske == Sent(12, dtls_send_server_key_exchange_psk(id))
           certificate == Sent(11, dtls_send_certificate_ecdsa(xy.x, xy.y))
           request == Sent(13, dtls_send_server_certificate_request)
       IN /\ a > DTLS_PSK_MAX_CLIENT_IDENTITY_LEN =>
               check_client_keyexchange(Psk, kx).ret = -1 /\ check_server_key_exchange_psk(ske).ret = -1
          /\ a <= DTLS_PSK_MAX_CLIENT_IDENTITY_LEN =>
               /\ check_client_keyexchange(Psk, kx).identity = id
               /\ check_server_key_exchange_psk(ske).identity = id
          /\ \A wrong \in {cut(kx), kx \o <<0>>} : check_client_keyexchange(Psk, wrong).ret = -1
          /\ \A wrong \in {cut(ske), ske \o <<0>>} : check_server_key_exchange_psk(wrong).ret = -1
          /\ check_client_keyexchange(Ecdhe, ecdh) = [ret |-> 0, x |-> xy.x, y |-> xy.y]
          /\ check_client_keyexchange(Ecdhe, cut(ecdh)).ret = -1
          /\ check_server_certificate(certificate) = [ret |-> 0, x |-> xy.x, y |-> xy.y]
          /\ check_certificate_request(request).ret = 0]_call

(* The signature of a ServerKeyExchange or CertificateVerify reads back if *)
(* and only if both its numbers are regular: with leading or inner zeros   *)
(* that the writer leaves out the reader, who takes the 32 bytes before    *)
(* the end of an integer, refuses the message or reads another number.     *)
(* The integers are never negative, as ASN.1 reads them.                   *)
SignaturesReadBack ==
  [][Returns("signature") =>
       LET xy == Coordinates
           ske == Sent(12, dtls_send_server_key_exchange_ecdh(xy.x, xy.y, a, b))
           kx == check_server_key_exchange_ecdsa(ske)
           cv == check_client_certificate_verify(Sent(15, dtls_send_certificate_verify_ecdh(a, b)))
           Read(m) == IF m.ret # 0 THEN FALSE
                      ELSE dtls_ec_key_to_uint32(m.r) = a /\ dtls_ec_key_to_uint32(m.s) = b
       IN /\ Read(kx) = (Regular(a) /\ Regular(b))
          /\ Read(cv) = (Regular(a) /\ Regular(b))
          /\ kx.ret = 0 => /\ kx.x = xy.x /\ kx.y = xy.y
                           /\ kx.key_params = KeyParams(xy.x, xy.y)
          /\ dtls_ec_key_from_uint32_asn1(a)[1] < 128
          /\ dtls_ec_key_to_uint32(dtls_ec_key_from_uint32(a)) = a]_call
=============================================================================
