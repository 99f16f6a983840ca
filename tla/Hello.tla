-------------------------------- MODULE Hello --------------------------------
(***************************************************************************)
(* The bytes of the hello messages of dtls.c: what a side writes and how   *)
(* the other one reads it, negotiates a cipher suite and makes the cookie. *)
(* A side is described by its build and its callbacks; messages are well   *)
(* formed but for lengths the readers check.                               *)
(***************************************************************************)
EXTENDS Words, Calls

(* numeric.h *)
At16(s, i) == 256 * s[i] + s[i + 1]
At24(s, i) == 65536 * s[i] + At16(s, i + 1)
After(s, i) == SubSeq(s, i, Len(s))
Sized8(s) == <<Len(s)>> \o s
Sized16(s) == Word(2, Len(s)) \o s
Sized24(s) == Word(3, Len(s)) \o s

Version12 == <<254, 253>>
DTLS_HS_LENGTH == 12
DTLS_CH_LENGTH == 34
DTLS_HV_LENGTH == 3
DTLS_COOKIE_LENGTH_MAX == 32
DTLS_RANDOM_LENGTH == 32

(* A fragment that is the whole message. *)
dtls_set_handshake_header(type, mseq, body) ==
  <<type>> \o Word(3, Len(body)) \o Word(2, mseq) \o Word(3, 0) \o Sized24(body)

-----------------------------------------------------------------------------
(* Cipher suites; a side has a build with or without MA and the callbacks  *)
(* get_psk_info ("psk"), get_ecdsa_key ("own"), verify_ecdsa_key ("verify")*)

NullCipher == 0
Psk == 49320
Ecdhe == 49326
Ma128 == 62
Ma256 == 63

is_ecdsa_cipher(ctx, code) == code = Ecdhe \/ (ctx.ma /\ code \in {Ma128, Ma256})
is_ecdsa_supported(ctx, is_client) == IF is_client THEN ctx.verify ELSE ctx.own
is_ma_supported(ctx, is_client) == ctx.ma /\ is_ecdsa_supported(ctx, is_client)
known_cipher(ctx, code, is_client) ==
  \/ ctx.psk /\ code = Psk
  \/ is_ecdsa_supported(ctx, is_client) /\ is_ecdsa_cipher(ctx, code)

-----------------------------------------------------------------------------
(* Writing *)

Extension(type, data) == Word(2, type) \o Sized16(data)

(* Client random and cookie are given. *)
dtls_send_client_hello(ctx, random, cookie) ==
  LET ciphers == (IF is_ma_supported(ctx, TRUE) THEN Word(2, Ma128) \o Word(2, Ma256) ELSE <<>>)
                 \o (IF is_ecdsa_supported(ctx, TRUE) THEN Word(2, Ecdhe) ELSE <<>>)
                 \o (IF ctx.psk THEN Word(2, Psk) ELSE <<>>)
      extensions == Extension(19, <<1, 2>>) \o Extension(20, <<1, 2>>)
                    \o Extension(10, Sized16(Word(2, 23))) \o Extension(11, <<1, 0>>)
                    \o Extension(13, Sized16(<<4, 3>>))
  IN Version12 \o random \o <<0>> \o Sized8(cookie) \o Sized16(ciphers) \o <<1, 0>>
     \o (IF is_ecdsa_supported(ctx, TRUE) \/ is_ma_supported(ctx, TRUE)
         THEN Sized16(extensions) ELSE <<>>)

dtls_send_server_hello(ctx, cipher, random) ==
  LET extensions == Extension(19, <<2>>) \o Extension(20, <<2>>) \o Extension(11, <<1, 0>>)
  IN Version12 \o random \o <<0>> \o Word(2, cipher) \o <<0>>
     \o (IF is_ecdsa_cipher(ctx, cipher) THEN Sized16(extensions) ELSE <<>>)

HelloVerifyRequest(cookie) == Version12 \o Sized8(cookie)

-----------------------------------------------------------------------------
(* Reading; "ret" 0, or -1 for any alert *)

Refused == [ret |-> -1]

verify_ext_eliptic_curves(data) ==
  /\ Len(data) >= 2 /\ At16(data, 1) + 2 = Len(data)
  /\ \E i \in 1..(Len(data) \div 2) - 1 : At16(data, 2 * i + 1) = 23
verify_ext_cert_type(data) ==
  data # <<>> /\ data[1] + 1 = Len(data) /\ \E i \in 2..Len(data) : data[i] = 2
verify_ext_ec_point_formats(data) ==
  data # <<>> /\ data[1] + 1 = Len(data) /\ \E i \in 2..Len(data) : data[i] = 0

(* The list of extensions, and whether it ends where the message does. *)
Extensions(d) ==
  LET f[i \in 0..Len(d) \div 4] ==
        IF i = 0 THEN [rest |-> d, list |-> <<>>]
        ELSE LET p == f[i - 1]
                 n == At16(p.rest, 3)
             IN IF Len(p.rest) < 4 \/ Len(p.rest) < 4 + n THEN p
                ELSE [rest |-> After(p.rest, 5 + n),
                      list |-> Append(p.list, [type |-> At16(p.rest, 1),
                                               data |-> SubSeq(p.rest, 5, 4 + n)])]
      end == f[Len(d) \div 4]
  IN [ok |-> end.rest = <<>>, list |-> end.list]

(* The types an ECDSA suite needs: the server wants to know the curves and *)
(* formats, too.                                                           *)
Needed(client_hello) == IF client_hello THEN {10, 11, 19, 20} ELSE {19, 20}
Verified(e, client_hello) ==
  CASE e.type = 10 -> verify_ext_eliptic_curves(e.data)
    [] e.type \in {19, 20} -> IF client_hello THEN verify_ext_cert_type(e.data) ELSE e.data[1] = 2
    [] e.type = 11 -> verify_ext_ec_point_formats(e.data)
    [] OTHER -> TRUE

dtls_check_tls_extension(ctx, cipher, data, client_hello) ==
  LET found == Extensions(After(data, 3))
      types == {found.list[i].type : i \in DOMAIN found.list}
      ok == IF Len(data) < 2 THEN ~is_ecdsa_cipher(ctx, cipher)
            ELSE /\ Len(data) - 2 >= At16(data, 1)
                 /\ found.ok
                 /\ \A i \in DOMAIN found.list : Verified(found.list[i], client_hello)
                 /\ is_ecdsa_cipher(ctx, cipher) => Needed(client_hello) \subseteq types
  IN IF ok THEN 0 ELSE -1

(* A field with a length of one byte, and what follows it.                 *)
Short(d) == Len(d) < d[1] + 1
SKIP_VAR_FIELD(d) == After(d, d[1] + 2)

(* Mutant: the last suite of the list that is known.                       *)
ChosenCipher_last(ctx, list) ==
  LET known == {i \in DOMAIN list : known_cipher(ctx, list[i], FALSE)}
  IN IF known = {} THEN NullCipher
     ELSE list[CHOOSE i \in known : \A j \in known : i >= j]
(* The first one. *)
ChosenCipher(ctx, list) ==
  LET known == {i \in DOMAIN list : known_cipher(ctx, list[i], FALSE)}
  IN IF known = {} THEN NullCipher
     ELSE list[CHOOSE i \in known : \A j \in known : i <= j]

(* The cipher of the current parameters stands in for a missing list.      *)
dtls_update_parameters(ctx, current, data) ==
  LET body == After(data, DTLS_HS_LENGTH + 3)
      client == SubSeq(body, 1, DTLS_RANDOM_LENGTH)
      id == After(body, DTLS_RANDOM_LENGTH + 1)
      d == SKIP_VAR_FIELD(id)
      e == SKIP_VAR_FIELD(d)                        \* from the cipher suites on
      n == IF Len(e) < 2 THEN Len(e) ELSE At16(e, 1)
      cipher == ChosenCipher(ctx, [i \in 1..n \div 2 |-> At16(e, 2 * i + 1)])
      c == After(e, n + 3)                           \* compression methods
  IN IF Short(id) \/ Short(d) THEN Refused
     ELSE IF Len(e) < n + 2
     THEN IF current = NullCipher THEN Refused
          ELSE [ret |-> 0, cipher |-> current, random |-> client]
     ELSE IF cipher = NullCipher THEN Refused
     ELSE IF c = <<>> THEN [ret |-> 0, cipher |-> cipher, random |-> client]
     ELSE IF Short(c) \/ 0 \notin {c[i] : i \in 2..c[1] + 1} THEN Refused
     ELSE [ret |-> dtls_check_tls_extension(ctx, cipher, SKIP_VAR_FIELD(c), TRUE),
           cipher |-> cipher, random |-> client]

check_server_hello(ctx, data) ==
  LET body == After(data, DTLS_HS_LENGTH + 1)
      id == After(body, DTLS_RANDOM_LENGTH + 3)
      d == SKIP_VAR_FIELD(id)
      cipher == At16(d, 1)
  IN IF Len(data) < 2 * DTLS_HS_LENGTH \/ SubSeq(body, 1, 2) # Version12 THEN Refused
     ELSE IF Short(id) THEN Refused
     ELSE IF ~known_cipher(ctx, cipher, TRUE) \/ d[3] # 0 THEN Refused
     ELSE [ret |-> dtls_check_tls_extension(ctx, cipher, After(d, 4), FALSE),
           cipher |-> cipher, random |-> SubSeq(body, 3, DTLS_RANDOM_LENGTH + 2)]

check_server_hello_verify_request(data) ==
  LET length == data[DTLS_HS_LENGTH + 3]
  IN IF Len(data) < DTLS_HS_LENGTH + DTLS_HV_LENGTH \/ length > DTLS_COOKIE_LENGTH_MAX THEN Refused
     ELSE [ret |-> 0, cookie |-> SubSeq(data, DTLS_HS_LENGTH + 4, DTLS_HS_LENGTH + 3 + length)]

dtls_get_cookie(msg) ==
  LET id == After(msg, DTLS_HS_LENGTH + DTLS_CH_LENGTH + 1)
      d == SKIP_VAR_FIELD(id)
  IN IF Len(msg) < DTLS_HS_LENGTH + DTLS_CH_LENGTH + 1 THEN Refused
     ELSE IF SubSeq(msg, DTLS_HS_LENGTH + 1, DTLS_HS_LENGTH + 2) # Version12 THEN Refused
     ELSE IF Short(id) \/ Short(d) THEN Refused
     ELSE [ret |-> d[1], cookie |-> SubSeq(d, 2, d[1] + 1)]

(* Mutant: what follows the cookie is taken with the cookie.               *)
dtls_create_cookie_all(secret, session, msg) ==
  LET e == DTLS_CH_LENGTH + msg[DTLS_HS_LENGTH + DTLS_CH_LENGTH + 1] + 1
  IN [ret |-> 0, of |-> <<secret, session>> \o After(msg, DTLS_HS_LENGTH + 1)]

(* The cookie stands for what the HMAC is taken over: the secret, the      *)
(* address and all of the body but the cookie.                             *)
dtls_create_cookie(secret, session, msg) ==
  LET e == DTLS_CH_LENGTH + msg[DTLS_HS_LENGTH + DTLS_CH_LENGTH + 1] + 1
      f == e + msg[DTLS_HS_LENGTH + e + 1] + 1
      fragment == At24(msg, 10)
  IN IF e + DTLS_HS_LENGTH > Len(msg) \/ f + DTLS_HS_LENGTH > Len(msg) THEN Refused
     ELSE [ret |-> 0,
           of |-> <<secret, session>> \o SubSeq(msg, DTLS_HS_LENGTH + 1, DTLS_HS_LENGTH + e)
                  \o SubSeq(msg, DTLS_HS_LENGTH + f + 1, DTLS_HS_LENGTH + fragment)]
=============================================================================
