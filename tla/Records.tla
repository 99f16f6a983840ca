------------------------------- MODULE Records -------------------------------
(***************************************************************************)
(* The bytes of a record in dtls.c: header, explicit part of the nonce,    *)
(* content and tag, and which part of the key block protects which way.    *)
(***************************************************************************)
EXTENDS Ccm

DTLS_VERSION == <<254, 253>>
DTLS_RH_LENGTH == 13
Failed == [ret |-> -1, buf |-> <<>>]

(* crypto.h: the key block holds the client's and the server's key and     *)
(* then their halves of the nonce.                                         *)
Sides == [client |-> 0, server |-> 1]
Other(role) == IF role = "client" THEN "server" ELSE "client"
dtls_kb_write_key(block, role) == SubSeq(block, 16 * Sides[role] + 1, 16 * Sides[role] + 16)
dtls_kb_iv(block, role) == SubSeq(block, 4 * Sides[role] + 33, 4 * Sides[role] + 36)

(* The length follows when it is known. *)
dtls_set_record_header(type, security) ==
  <<type>> \o DTLS_VERSION \o Word(2, security.epoch) \o Word(6, security.rseq)

(* 0 for what is not a whole record. *)
is_record(msg) ==
  LET rlen == DTLS_RH_LENGTH + 256 * msg[12] + msg[13]
  IN IF Len(msg) >= DTLS_RH_LENGTH /\ SubSeq(msg, 2, 3) = DTLS_VERSION /\ rlen <= Len(msg)
     THEN rlen ELSE 0

(* epoch and sequence number, type and version, and the length. *)
AdditionalData(packet, length) == SubSeq(packet, 4, 11) \o SubSeq(packet, 1, 3) \o Word(2, length)
Nonce(iv, explicit) == iv \o explicit \o ZeroBytes(16 - Len(iv \o explicit))

(* Mutant: the additional data counts the explicit nonce, too.             *)
dtls_prepare_record_longer(role, security, type, data, rlen) ==
  LET header == dtls_set_record_header(type, security)
      explicit == SubSeq(header, 4, 11)
      sealed == dtls_encrypt(data, Nonce(dtls_kb_iv(security.key_block, role), explicit),
                             dtls_kb_write_key(security.key_block, role),
                             AdditionalData(header, 8 + Len(data)))
      fragment == IF security.protected THEN explicit \o sealed.buf ELSE data
      least == DTLS_RH_LENGTH + Len(data) + (IF security.protected THEN 8 ELSE 0)
  IN IF rlen < least \/ sealed.ret < 0 THEN Failed
     ELSE [ret |-> 0, buf |-> header \o Word(2, Len(fragment)) \o fragment]

(* The room for a record is checked without the eight bytes of its tag.    *)
dtls_prepare_record(role, security, type, data, rlen) ==
  LET header == dtls_set_record_header(type, security)
      explicit == SubSeq(header, 4, 11)
      sealed == dtls_encrypt(data, Nonce(dtls_kb_iv(security.key_block, role), explicit),
                             dtls_kb_write_key(security.key_block, role),
                             AdditionalData(header, Len(data)))
      fragment == IF security.protected THEN explicit \o sealed.buf ELSE data
      least == DTLS_RH_LENGTH + Len(data) + (IF security.protected THEN 8 ELSE 0)
  IN IF rlen < least \/ sealed.ret < 0 THEN Failed
     ELSE [ret |-> 0, buf |-> header \o Word(2, Len(fragment)) \o fragment]

(* The role is that of the reader. *)
decrypt_verify(role, security, packet) ==
  LET fragment == SubSeq(packet, DTLS_RH_LENGTH + 1, Len(packet))
      explicit == SubSeq(fragment, 1, 8)
      sealed == SubSeq(fragment, 9, Len(fragment))
      opened == dtls_decrypt(sealed,
                             Nonce(dtls_kb_iv(security.key_block, Other(role)), explicit),
                             dtls_kb_write_key(security.key_block, Other(role)),
                             AdditionalData(packet, Len(sealed) - 8))
  IN IF ~security.protected THEN [ret |-> Len(fragment), buf |-> fragment]
     ELSE IF Len(fragment) < 16 \/ opened.ret < 0 THEN Failed
     ELSE [ret |-> opened.ret, buf |-> opened.msg]
=============================================================================
