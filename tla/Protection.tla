----------------------------- MODULE Protection -----------------------------
(***************************************************************************)
(* What protects records: the block cipher, the authenticated encryption   *)
(* and the records around it, the hashes, and the pseudo-random function,  *)
(* each against the standard it implements.                                *)
(***************************************************************************)
EXTENDS Records, Sha2, Keys, Calls

CONSTANTS
  KeyLengths,     \* of keys for the block cipher
  TextLengths,    \* of messages
  DataLengths,    \* of additional data
  HashLengths,    \* of hashed messages
  SecretLengths,  \* of keys for the HMAC
  OutputLengths   \* of what the pseudo-random function is to write

(* Some bytes that all differ. *)
Bytes(n, from) == Kept([i \in 1..n |-> (from + 7 * i) % 256])
Changed(s, i) == [s EXCEPT ![i] = (@ + 1) % 256]

Roles == {"client", "server"}
Security(protected) ==
  [protected |-> protected, epoch |-> 1, rseq |-> 258, key_block |-> Bytes(40, 3)]

ProtectionCalled ==
  \/ Called("aes", KeyLengths)
  \/ Called("ccm", TextLengths)
  \/ Called("record", Roles \X TextLengths)
  \/ Called("sha", {SHA256, SHA384, SHA512})
  \/ Called("prf", SecretLengths \X OutputLengths)
ProtectionGiven ==
  \/ Given("aes", {0, 1, 127, 255})
  \/ Given("ccm", DataLengths)
  \/ Given("record", {0, 1, 4, 11, 14, 21, 22, 29, 30})
  \/ Given("sha", HashLengths)
  \/ Given("prf", {0, 1, 2})

-----------------------------------------------------------------------------

(* The tables and unrolled rounds of rijndael.c against the cipher of FIPS *)
(* 197, for every size of key; the inverse has its own key schedule.       *)
BlockCipherIsAes ==
  LET key == Bytes(a, b)
      text == Bytes(16, a + b)
  IN \A ctx \in {rijndael_set_key(key)} :
       /\ ctx.ret = IF a \in {16, 24, 32} THEN 0 ELSE -1
       /\ ctx.ret = 0 =>
            /\ \A w \in {KeyExpansion(key)} : rijndael_encrypt(ctx, text) = Cipher(w, text)
            /\ rijndael_decrypt(ctx, rijndael_encrypt(ctx, text)) = text

EncryptionIsRfc3610 ==
  LET key == Bytes(16, 1)
      nounce == Bytes(16, 9)
      text == Bytes(a, 40)
      data == Bytes(b, 77)
      e == dtls_encrypt(text, nounce, key, data)
      ret(buf, aad) == dtls_decrypt(buf, nounce, key, aad).ret
  IN /\ e.buf = Rfc3610(rijndaelKeySetupEnc(key), 8, 3, nounce, text, data)
     /\ dtls_decrypt(e.buf, nounce, key, data) = [ret |-> a, msg |-> text]
     /\ ret(SubSeq(e.buf, 1, a + 7), data) = -1
     /\ ret(Changed(e.buf, a + 8), data) = -1
     /\ a > 0 => ret(Changed(e.buf, a), data) = -1
     /\ b > 0 => ret(e.buf, Changed(data, b)) = -1

(* The encryption in place, block by block with two chained states, is     *)
(* that of RFC 3610 at every length of message and additional data around  *)
(* a block; it opens again, and not with a byte changed or cut off.  Its   *)
(* block cipher is that of FIPS 197 in both directions (ccm.c, rijndael.c).*)
CcmIsRfc3610 ==
  [][/\ Returns("aes") => BlockCipherIsAes
     /\ Returns("ccm") => EncryptionIsRfc3610]_call

(* A record one side prepares is whole and opens at the other side, whose  *)
(* keys are in the other half of the same key block; a reader that takes   *)
(* it for its own, or one byte changed anywhere but in the length, and it  *)
(* does not open.  A buffer too short for the record without a tag is      *)
(* refused (dtls_prepare_record, decrypt_verify).                          *)
RecordsOpen ==
  [][Returns("record") =>
       LET security == Security(b # 0)
           data == Bytes(a[2], 40)
           record == dtls_prepare_record(a[1], security, 23, data, 100)
           ret(role, packet) == decrypt_verify(role, security, packet).ret
           tag == IF b # 0 THEN 8 ELSE 0
           room == Len(record.buf) - tag - 1
       IN /\ record.ret = 0
          /\ dtls_prepare_record(a[1], security, 23, data, room).ret = -1
          /\ is_record(record.buf \o <<1>>) = Len(record.buf)
          /\ is_record(SubSeq(record.buf, 1, Len(record.buf) - 1)) = 0
          /\ decrypt_verify(Other(a[1]), security, record.buf) = [ret |-> a[2], buf |-> data]
          /\ b # 0 => ret(a[1], record.buf) = -1
          /\ b \in DOMAIN record.buf => ret(Other(a[1]), Changed(record.buf, b)) = -1]_call

(* A message that reaches the hash in pieces of any size is cut into the   *)
(* blocks of the padded message, also where the padding or the length do   *)
(* not fit, and each block goes through the schedule in sixteen words as   *)
(* through the one of FIPS 180.                                            *)
HashInPieces ==
  [][Returns("sha") =>
       LET m == Bytes(b, 11)
           padded == Parsed(a, PaddedMessage(a, m))
           Given2(k) == ShaUpdate(a, ShaUpdate(a, ShaInit(a), SubSeq(m, 1, k)),
                                  SubSeq(m, k + 1, b))
           h == InitialHash(a)
       IN /\ \A k \in HashLengths \cap 0..b : ShaLast(a, Given2(k)).done = padded
          /\ b % 16 = 0 => \A w \in {Expanded(a, padded[1])} :
                             Transform(a, h, padded[1]) = Compressed(a, h, w)
          /\ b = 0 => Len(ShaData(a, m)) = 2 * a.digest * a.word]_call

(* Keys and verify data are those of RFC 5246 for every length of secret   *)
(* and output around a block of the hash; without a context for the HMAC   *)
(* nothing is returned.  The pre-master secret of a shared key has two     *)
(* parts of the length of the key, and nothing is written when the buffer  *)
(* is a byte too short (dtls_prf, dtls_psk_pre_master_secret).             *)
KeysExpand ==
  [][Returns("prf") =>
       LET key == Bytes(a[1], 2)
           prf(free) == dtls_prf(key, Bytes(3, 5), Bytes(2, 6), Bytes(1, 7), a[2], free)
           length == 4 + 2 * a[1]
           pre == dtls_psk_pre_master_secret(key, length + b)
       IN /\ prf(2) = [ret |-> a[2],
                       buf |-> Prf(key, Bytes(3, 5) \o Bytes(2, 6) \o Bytes(1, 7), a[2])]
          /\ prf(0).ret = 0
          /\ pre.ret = length /\ Len(pre.result) = length
          /\ SubSeq(pre.result, 5 + a[1], length) = key
          /\ dtls_psk_pre_master_secret(key, length - 1).ret = -1]_call

=============================================================================
