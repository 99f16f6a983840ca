-------------------------------- MODULE Keys --------------------------------
(***************************************************************************)
(* hmac.c and the parts of crypto.c that make keys: the HMAC, the          *)
(* pseudo-random function that expands every secret of DTLS, and the       *)
(* pre-master secret of a shared key.  The hash of Sha2 is a parameter,    *)
(* and so are its sizes.                                                   *)
(***************************************************************************)
EXTENDS Words

CONSTANTS
  HashOf(_),             \* what dtls_hash_finalize makes of all the bytes
  DTLS_HMAC_BLOCKSIZE,
  DTLS_HMAC_DIGEST_SIZE

ASSUME KeysAssumption == DTLS_HMAC_BLOCKSIZE >= DTLS_HMAC_DIGEST_SIZE
                         /\ DTLS_HMAC_DIGEST_SIZE > 0

Pads(n, byte) == Kept([i \in 1..n |-> byte])

-----------------------------------------------------------------------------
(* hmac.c: a context is what the hash was given, and the pad *)

(* Mutant: a key as long as a block is hashed, too.                        *)
dtls_hmac_init_at_block(key) ==
  LET short == IF Len(key) >= DTLS_HMAC_BLOCKSIZE THEN HashOf(key) ELSE key
      pad == short \o ZeroBytes(DTLS_HMAC_BLOCKSIZE - Len(short))
      ipad == XorBytes(pad, Pads(DTLS_HMAC_BLOCKSIZE, 54))
  IN [data |-> ipad, pad |-> XorBytes(ipad, Pads(DTLS_HMAC_BLOCKSIZE, 106))]

(* The pad is xored with 0x36 and then with 0x6A, their difference to 0x5C. *)
dtls_hmac_init(key) ==
  LET short == IF Len(key) > DTLS_HMAC_BLOCKSIZE THEN HashOf(key) ELSE key
      pad == short \o ZeroBytes(DTLS_HMAC_BLOCKSIZE - Len(short))
      ipad == XorBytes(pad, Pads(DTLS_HMAC_BLOCKSIZE, 54))
  IN [data |-> ipad, pad |-> XorBytes(ipad, Pads(DTLS_HMAC_BLOCKSIZE, 106))]

dtls_hmac_update(ctx, input) == [ctx EXCEPT !.data = @ \o input]
dtls_hmac_finalize(ctx) == HashOf(ctx.pad \o HashOf(ctx.data))

-----------------------------------------------------------------------------
(* crypto.c *)

(* dtls_hmac_new finds one of the free contexts, if there is one. *)
HMAC_UPDATE_SEED(ctx, label, random1, random2) ==
  dtls_hmac_update(dtls_hmac_update(dtls_hmac_update(ctx, label), random1), random2)

(* One turn of the loop: a piece of the result, and A(i + 1). *)
PieceAndNext(key, A, label, random1, random2) ==
  LET p == dtls_hmac_update(dtls_hmac_init(key), A)
      tmp == dtls_hmac_finalize(HMAC_UPDATE_SEED(p, label, random1, random2))
  IN [tmp |-> tmp, A |-> dtls_hmac_finalize(dtls_hmac_update(dtls_hmac_init(key), A))]

(* What is written of the buffer, with so many contexts free; the second   *)
(* one that is missing is not told to the caller.                          *)
dtls_p_hash(key, label, random1, random2, buflen, free) ==
  LET turns == IF buflen = 0 THEN 0 ELSE (buflen - 1) \div DTLS_HMAC_DIGEST_SIZE
      first == HMAC_UPDATE_SEED(dtls_hmac_init(key), label, random1, random2)
      f[i \in 0..turns + 1] ==
        IF i = 0 THEN [buf |-> <<>>, A |-> dtls_hmac_finalize(first)]
        ELSE LET p == f[i - 1]
                 next == PieceAndNext(key, p.A, label, random1, random2)
             IN [buf |-> p.buf \o next.tmp, A |-> next.A]
  IN CASE free = 0 -> [ret |-> 0, buf |-> <<>>]
       [] free = 1 -> [ret |-> buflen, buf |-> <<>>]
       [] OTHER -> [ret |-> buflen, buf |-> SubSeq(f[turns + 1].buf, 1, buflen)]

dtls_prf(key, label, random1, random2, buflen, free) ==
  LET p == dtls_p_hash(key, label, random1, random2, buflen, free)
  IN [ret |-> p.ret, buf |-> p.buf \o ZeroBytes(buflen - Len(p.buf))]

(* The MAC over sequence number, type, version, length and content. *)
dtls_mac(ctx, record, packet) ==
  dtls_hmac_finalize(
    dtls_hmac_update(ctx, SubSeq(record, 4, 11) \o SubSeq(record, 1, 3)
                          \o Word(2, Len(packet)) \o packet))

dtls_psk_pre_master_secret(key, result_len) ==
  IF result_len < 2 * (2 + Len(key)) THEN [ret |-> -1, result |-> <<>>]
  ELSE LET length == Word(2, Len(key))
       IN [ret |-> 2 * (2 + Len(key)),
           result |-> length \o ZeroBytes(Len(key)) \o length \o key]

-----------------------------------------------------------------------------
(* Reference: RFC 2104 and RFC 5246, 5 *)

Hmac(key, text) ==
  LET short == IF Len(key) <= DTLS_HMAC_BLOCKSIZE THEN key ELSE HashOf(key)
      k == short \o ZeroBytes(DTLS_HMAC_BLOCKSIZE - Len(short))
  IN HashOf(XorBytes(k, Pads(Len(k), 92)) \o HashOf(XorBytes(k, Pads(Len(k), 54)) \o text))
Prf(secret, seed, n) ==
  LET A[i \in 0..n] == IF i = 0 THEN seed ELSE Hmac(secret, A[i - 1])
      output[i \in 0..n] == IF i = 0 THEN <<>>
                            ELSE output[i - 1] \o Hmac(secret, A[i] \o seed)
  IN SubSeq(output[n], 1, n)
=============================================================================
