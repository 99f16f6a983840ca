------------------------------ MODULE Exchange ------------------------------
(***************************************************************************)
(* The bytes of the messages of dtls.c that carry keys, identities and     *)
(* signatures, with the numbers of an ECDSA signature as ASN.1 integers    *)
(* (crypto.c), written by one side and read by the other.                  *)
(***************************************************************************)
EXTENDS Hello

DTLS_EC_KEY_SIZE == 32
DTLS_PSK_MAX_CLIENT_IDENTITY_LEN == 32
DTLS_CKXEC_LENGTH == 2 + 2 * DTLS_EC_KEY_SIZE
DTLS_CV_LENGTH == 10 + 2 * DTLS_EC_KEY_SIZE
DTLS_SKEXEC_LENGTH == 5 + 2 * DTLS_EC_KEY_SIZE + 74

(* Only its length is of interest. *)
cert_asn1_header == [i \in 1..27 |-> i]

-----------------------------------------------------------------------------
(* Numbers are eight words of four bytes, the least significant one first *)

dtls_ec_key_to_uint32(key) == [i \in 1..8 |-> SubSeq(key, 33 - 4 * i, 36 - 4 * i)]
dtls_ec_key_from_uint32(key) ==
  LET f[i \in 0..8] == IF i = 0 THEN <<>> ELSE key[i] \o f[i - 1] IN f[8]

(* Mutant: no byte before a set sign bit.                                  *)
FirstWord_unsigned(w) == IF w[1] = 0 /\ w[2] < 128 THEN SubSeq(w, 2, 4) ELSE w
(* A zero byte before a set sign bit; three bytes for every number below   *)
(* 2^23, so that the code's shorter forms are never reached.               *)
FirstWord(w) == IF w[1] >= 128 THEN <<0>> \o w
                ELSE IF w[1] = 0 /\ w[2] < 128 THEN SubSeq(w, 2, 4)
                ELSE w

(* Words that are zero are left out, wherever they are.                    *)
dtls_ec_key_from_uint32_asn1(key) ==
  LET f[i \in 0..8] == \* the i most significant words
        IF i = 0 THEN <<>>
        ELSE LET p == f[i - 1]
                 w == key[9 - i]
             IN IF w = <<0, 0, 0, 0>> THEN p
                ELSE IF p = <<>> THEN FirstWord(w) ELSE p \o w
  IN f[8]

dtls_add_ecdsa_signature_elem(point_r, point_s) ==
  LET r == dtls_ec_key_from_uint32_asn1(point_r)
      s == dtls_ec_key_from_uint32_asn1(point_s)
  IN <<4, 3>> \o Sized16(<<48>> \o Sized8(<<2>> \o Sized8(r) \o <<2>> \o Sized8(s)))

(* The signature from a place in a message on, of which data_length bytes  *)
(* are thought to be left.  The numbers are the 32 bytes that end where    *)
(* the integer does, also before the start of a shorter one.               *)
dtls_check_ecdsa_signature_elem(msg, at, data_length) ==
  LET r_end == at + 7 + msg[at + 7]
      s_end == r_end + 2 + msg[r_end + 2]
      Number(end) == SubSeq(msg, end + 1 - DTLS_EC_KEY_SIZE, end)
      ok == /\ msg[at] = 4 /\ msg[at + 1] = 3
            /\ data_length - 2 >= At16(msg, at + 2)
            /\ msg[at + 4] = 48 /\ data_length - 5 >= msg[at + 5]
            /\ msg[at + 6] = 2 /\ msg[r_end + 1] = 2
  IN IF ok THEN [ret |-> s_end + 1 - at, r |-> Number(r_end), s |-> Number(s_end)]
     ELSE Refused

-----------------------------------------------------------------------------
(* Writing *)

dtls_send_certificate_ecdsa(x, y) == Sized24(cert_asn1_header \o x \o y)

KeyParams(x, y) == <<3>> \o Word(2, 23) \o Sized8(<<4>> \o x \o y)
dtls_send_server_key_exchange_ecdh(x, y, point_r, point_s) ==
  KeyParams(x, y) \o dtls_add_ecdsa_signature_elem(point_r, point_s)
dtls_send_server_key_exchange_psk(hint) == Sized16(hint)
dtls_send_server_certificate_request ==
  Sized8(<<64>>) \o Sized16(<<4, 3>>) \o Sized16(<<>>)

dtls_send_client_key_exchange(cipher, identity, x, y) ==
  IF cipher = Psk THEN Sized16(identity) ELSE Sized8(<<4>> \o x \o y)
dtls_send_certificate_verify_ecdh(point_r, point_s) ==
  dtls_add_ecdsa_signature_elem(point_r, point_s)

-----------------------------------------------------------------------------
(* Reading, behind the header of the message *)

check_server_certificate(data) ==
  LET body == After(data, DTLS_HS_LENGTH + 1)
  IN IF At24(body, 1) # 27 + 2 * DTLS_EC_KEY_SIZE \/ SubSeq(body, 4, 30) # cert_asn1_header
     THEN Refused
     ELSE [ret |-> 0, x |-> SubSeq(body, 31, 62), y |-> SubSeq(body, 63, 94)]

(* The parameters are those the signature is checked for. *)
check_server_key_exchange_ecdsa(data) ==
  LET body == After(data, DTLS_HS_LENGTH + 1)
      sig == dtls_check_ecdsa_signature_elem(data, DTLS_HS_LENGTH + 70, Len(data) - 69)
      ok == /\ body[1] = 3 /\ At16(body, 2) = 23
            /\ body[4] = 1 + 2 * DTLS_EC_KEY_SIZE /\ body[5] = 4
  IN IF Len(data) < DTLS_HS_LENGTH + DTLS_SKEXEC_LENGTH THEN Refused
     ELSE IF ~ok THEN Refused
     ELSE IF sig.ret < 0 THEN Refused
     ELSE [ret |-> 0, x |-> SubSeq(body, 6, 37), y |-> SubSeq(body, 38, 69),
           key_params |-> SubSeq(body, 1, 69), r |-> sig.r, s |-> sig.s]

check_server_key_exchange_psk(data) ==
  LET len == At16(data, DTLS_HS_LENGTH + 1)
  IN IF Len(data) < DTLS_HS_LENGTH + 2 THEN Refused
     ELSE IF len # Len(data) - DTLS_HS_LENGTH - 2 \/ len > DTLS_PSK_MAX_CLIENT_IDENTITY_LEN
     THEN Refused
     ELSE [ret |-> 0, identity |-> After(data, DTLS_HS_LENGTH + 3)]

check_certificate_request(data) ==
  LET body == After(data, DTLS_HS_LENGTH + 1)
      types == SubSeq(body, 2, 1 + body[1])
      n == At16(body, 2 + body[1])
      algs == SubSeq(body, 4 + body[1], 3 + body[1] + n)
      ok == /\ body[1] + 1 <= Len(data) /\ \E i \in DOMAIN types : types[i] = 64
            /\ n + 1 <= Len(data)
            /\ \E i \in 1..n \div 2 : algs[2 * i - 1] = 4 /\ algs[2 * i] = 3
  IN IF Len(data) < DTLS_HS_LENGTH + 5 THEN Refused
     ELSE IF ok THEN [ret |-> 0] ELSE Refused

(* Mutant: an identity that is shorter than it is announced is taken.      *)
check_client_keyexchange_any(cipher, data) ==
  LET body == After(data, DTLS_HS_LENGTH + 1)
      id_length == At16(body, 1)
  IN IF cipher = Psk
     THEN IF Len(data) < DTLS_HS_LENGTH + 2 THEN Refused
          ELSE IF id_length + 2 < Len(body) \/ id_length > DTLS_PSK_MAX_CLIENT_IDENTITY_LEN
          THEN Refused
          ELSE [ret |-> 0, identity |-> After(body, 3)]
     ELSE IF Len(data) < DTLS_HS_LENGTH + DTLS_CKXEC_LENGTH THEN Refused
     ELSE IF body[1] # 1 + 2 * DTLS_EC_KEY_SIZE \/ body[2] # 4 THEN Refused
     ELSE [ret |-> 0, x |-> SubSeq(body, 3, 34), y |-> SubSeq(body, 35, 66)]

(* The identity, or the ephemeral key. *)
check_client_keyexchange(cipher, data) ==
  LET body == After(data, DTLS_HS_LENGTH + 1)
      id_length == At16(body, 1)
  IN IF cipher = Psk
     THEN IF Len(data) < DTLS_HS_LENGTH + 2 THEN Refused
          ELSE IF id_length + 2 # Len(body) \/ id_length > DTLS_PSK_MAX_CLIENT_IDENTITY_LEN
          THEN Refused
          ELSE [ret |-> 0, identity |-> After(body, 3)]
     ELSE IF Len(data) < DTLS_HS_LENGTH + DTLS_CKXEC_LENGTH THEN Refused
     ELSE IF body[1] # 1 + 2 * DTLS_EC_KEY_SIZE \/ body[2] # 4 THEN Refused
     ELSE [ret |-> 0, x |-> SubSeq(body, 3, 34), y |-> SubSeq(body, 35, 66)]

check_client_certificate_verify(data) ==
  LET sig == dtls_check_ecdsa_signature_elem(data, DTLS_HS_LENGTH + 1, Len(data))
  IN IF Len(data) < DTLS_HS_LENGTH + DTLS_CV_LENGTH THEN Refused
     ELSE IF sig.ret < 0 THEN Refused
     ELSE [ret |-> 0, r |-> sig.r, s |-> sig.s]
=============================================================================
