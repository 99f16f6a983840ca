--------------------------------- MODULE Ccm ---------------------------------
(***************************************************************************)
(* ccm.c: AES in counter mode with CBC-MAC, which protects every record.   *)
(* Additional data is shorter than 65280 bytes, and counters fit into      *)
(* their place in the block.                                               *)
(***************************************************************************)
EXTENDS Rijndael

CCM_FLAGS(la, M, L) == (IF la > 0 THEN 64 ELSE 0) + 8 * ((M - 2) \div 2) + (L - 1)
SET_COUNTER(A, L, cnt) == SubSeq(A, 1, 16 - L) \o Word(L, cnt)

block0(M, L, la, lm, nonce) ==
  <<CCM_FLAGS(la, M, L)>> \o SubSeq(nonce, 1, 15 - L) \o Word(L, lm)

(* Bytes from the place after n on, at most 16 of them. *)
Piece(s, n) == SubSeq(s, n + 1, IF n + 16 < Len(s) THEN n + 16 ELSE Len(s))
Padded16(s) == s \o ZeroBytes(16 - Len(s))

(* One more block of the CBC-MAC, with zeros behind a short one. *)
mac(ek, msg, X) == rijndaelEncrypt(ek, XorBytes(X, Padded16(msg)))
Blocks(s) == (Len(s) + 15) \div 16
MacOf(ek, X, s) ==
  LET f[i \in 0..Blocks(s)] ==
        IF i = 0 THEN <<X>>
        ELSE LET p == f[i - 1] IN Append(p, mac(ek, Piece(s, 16 * (i - 1)), p[i]))
  IN f[Blocks(s)][Blocks(s) + 1]

(* The data begins with its length. *)
add_auth_data(ek, aad, B0) ==
  MacOf(ek, rijndaelEncrypt(ek, B0), IF aad = <<>> THEN <<>> ELSE Word(2, Len(aad)) \o aad)

Template(L, nonce) == <<L - 1>> \o SubSeq(nonce, 1, 16 - L) \o ZeroBytes(L - 1)

(* Mutant: the blocks of the message are counted from 0, as the MAC is.    *)
ccm_crypt_from_0(ek, L, counter, msg, A) ==
  LET cnt == IF counter = 0 THEN 0 ELSE counter - 1
  IN XorBytes(msg, SubSeq(rijndaelEncrypt(ek, SET_COUNTER(A, L, cnt)), 1, Len(msg)))

(* "encrypt": both directions. *)
ccm_crypt(ek, L, counter, msg, A) ==
  XorBytes(msg, SubSeq(rijndaelEncrypt(ek, SET_COUNTER(A, L, counter)), 1, Len(msg)))

(* The loop over the blocks of a message, with counters from 1. *)
Crypted(ek, L, msg, A) ==
  LET f[i \in 0..Blocks(msg)] ==
        IF i = 0 THEN <<>>
        ELSE LET p == f[i - 1] IN p \o ccm_crypt(ek, L, i, Piece(msg, 16 * (i - 1)), A)
  IN f[Blocks(msg)]

(* T from the MAC over the plain text and S_0. *)
Tag(ek, M, L, nonce, msg, aad) ==
  LET B0 == block0(M, L, Len(aad), Len(msg), nonce)
      X == MacOf(ek, add_auth_data(ek, aad, B0), msg)
  IN XorBytes(SubSeq(X, 1, M),
         SubSeq(rijndaelEncrypt(ek, SET_COUNTER(Template(L, nonce), L, 0)), 1, M))

dtls_ccm_encrypt_message(ek, M, L, nonce, msg, aad) ==
  Crypted(ek, L, msg, Template(L, nonce)) \o Tag(ek, M, L, nonce, msg, aad)

(* ret -1 for a message that is too short or whose tag differs. *)
dtls_ccm_decrypt_message(ek, M, L, nonce, msg, aad) ==
  LET plain == Crypted(ek, L, SubSeq(msg, 1, Len(msg) - M), Template(L, nonce))
  IN IF Len(msg) < M THEN [ret |-> -1, msg |-> <<>>]
     ELSE LET tag == SubSeq(msg, Len(plain) + 1, Len(msg))
          IN [ret |-> IF tag = Tag(ek, M, L, nonce, plain, aad) THEN Len(plain) ELSE -1,
              msg |-> plain]

(* crypto.c: a tag of eight bytes and a counter of three. *)
DTLS_CCM_NONCE_SIZE == 12
CounterSize == 15 - DTLS_CCM_NONCE_SIZE
dtls_encrypt(src, nounce, key, aad) ==
  LET ks == rijndaelKeySetupEnc(key)
  IN IF ks.Nr = 0 THEN [ret |-> -1, buf |-> <<>>]
     ELSE LET buf == dtls_ccm_encrypt_message(ks, 8, CounterSize, nounce, src, aad)
          IN [ret |-> Len(buf), buf |-> buf]
dtls_decrypt(src, nounce, key, aad) ==
  LET ks == rijndaelKeySetupEnc(key)
  IN IF ks.Nr = 0 THEN [ret |-> -1, msg |-> <<>>]
     ELSE dtls_ccm_decrypt_message(ks, 8, CounterSize, nounce, src, aad)

-----------------------------------------------------------------------------
(* Reference: RFC 3610 lists the blocks B_0, B_1, ... of the CBC-MAC, with *)
(* zeros behind additional data and message, and the key stream S_0, S_1,  *)
(* ... of the counter mode                                                 *)

PaddedTo16(s) == s \o ZeroBytes((16 - (Len(s) % 16)) % 16)
Rfc3610(ek, M, L, nonce, m, aad) ==
  LET n == SubSeq(nonce, 1, 15 - L)
      flags == (IF aad = <<>> THEN 0 ELSE 64) + 8 * ((M - 2) \div 2) + L - 1
      input == <<flags>> \o n \o Word(L, Len(m))
               \o (IF aad = <<>> THEN <<>> ELSE PaddedTo16(Word(2, Len(aad)) \o aad))
               \o PaddedTo16(m)
      T[i \in 0..Blocks(input)] ==
        IF i = 0 THEN <<ZeroBytes(16)>>
        ELSE LET p == T[i - 1]
                 next == XorBytes(p[i], SubSeq(input, 16 * i - 15, 16 * i))
             IN Append(p, rijndaelEncrypt(ek, next))
      mac16 == T[Blocks(input)][Blocks(input) + 1]
      KeyBlock(i) == rijndaelEncrypt(ek, <<L - 1>> \o n \o Word(L, i))
      stream[i \in 0..Blocks(m)] == IF i = 0 THEN <<>> ELSE stream[i - 1] \o KeyBlock(i)
  IN XorBytes(m, SubSeq(stream[Blocks(m)], 1, Len(m)))
     \o XorBytes(SubSeq(mac16, 1, M), SubSeq(KeyBlock(0), 1, M))
=============================================================================
