-------------------------------- MODULE Sha2 --------------------------------
(***************************************************************************)
(* sha2/sha2.c: SHA-256, which every MAC, key and transcript of DTLS goes  *)
(* through in pieces of any size, and its siblings SHA-384 and SHA-512.    *)
(* The three are the same code but for the record that describes one.      *)
(***************************************************************************)
EXTENDS Words

CONSTANTS
  K,        \* round constants, as 80 words of 8 bytes (K256: their halves)
  Initial   \* initial hash values, as 8 words of 8 bytes

SHA256 == [word |-> 4, block |-> 64, rounds |-> 64, digest |-> 8]
SHA384 == [word |-> 8, block |-> 128, rounds |-> 80, digest |-> 6]
SHA512 == [word |-> 8, block |-> 128, rounds |-> 80, digest |-> 8]
ShortBlock(alg) == alg.block - 2 * alg.word

Ch(x, y, z) == XorBytes(AndBytes(x, y), AndBytes(NotBytes(x), z))
Maj(x, y, z) == XorBytes(XorBytes(AndBytes(x, y), AndBytes(x, z)), AndBytes(y, z))
Rotations(n, x) == XorBytes(XorBytes(RotR(n[1], x), RotR(n[2], x)), RotR(n[3], x))
Sigma0(x) == Rotations(IF Len(x) = 4 THEN <<2, 13, 22>> ELSE <<28, 34, 39>>, x)
Sigma1(x) == Rotations(IF Len(x) = 4 THEN <<6, 11, 25>> ELSE <<14, 18, 41>>, x)
sigma0(x) == IF Len(x) = 4 THEN XorBytes(XorBytes(RotR(7, x), RotR(18, x)), ShR(3, x))
             ELSE XorBytes(XorBytes(RotR(1, x), RotR(8, x)), ShR(7, x))
sigma1(x) == IF Len(x) = 4 THEN XorBytes(XorBytes(RotR(17, x), RotR(19, x)), ShR(10, x))
             ELSE XorBytes(XorBytes(RotR(19, x), RotR(61, x)), ShR(6, x))

-----------------------------------------------------------------------------
(* The transform *)

HashWords(alg, bytes) ==
  Kept([i \in 1..Len(bytes) \div alg.word |->
         SubSeq(bytes, alg.word * (i - 1) + 1, alg.word * i)])

(* The registers a to h after one round with word w. *)
Round(r, k, w) ==
  LET T1 == Plus(Plus(Plus(r[8], Sigma1(r[5])), Plus(Ch(r[5], r[6], r[7]), k)), w)
      T2 == Plus(Sigma0(r[1]), Maj(r[1], r[2], r[3]))
  IN <<Plus(T1, T2), r[1], r[2], r[3], Plus(r[4], T1), r[5], r[6], r[7]>>

(* Word j of the message schedule, which replaces word j - 16. *)
schedule(W, j) ==
  Plus(W[(j % 16) + 1], Plus(sigma1(W[((j + 14) % 16) + 1]),
                             Plus(W[((j + 9) % 16) + 1], sigma0(W[((j + 1) % 16) + 1]))))

Transform(alg, state, data) ==
  LET f[j \in 0..alg.rounds] ==
        IF j = 0 THEN [W |-> HashWords(alg, data), r |-> state]
        ELSE LET p == f[j - 1]
                 w == IF j <= 16 THEN p.W[j] ELSE schedule(p.W, j - 1)
             IN [W |-> [p.W EXCEPT ![((j - 1) % 16) + 1] = w],
                 r |-> Round(p.r, SubSeq(K[j], 1, alg.word), w)]
  IN Kept([i \in 1..8 |-> Plus(state[i], f[alg.rounds].r[i])])

-----------------------------------------------------------------------------
(* Contexts: the state of one is what Transform makes of the blocks it has *)
(* been given, which "done" lists.  Transform leaves the schedule in the   *)
(* buffer, which stands for anything.                                      *)

ShaInit(alg) == [buffer |-> ZeroBytes(alg.block), bitcount |-> 0, done |-> <<>>]
Junk == 165
Transformed(alg, ctx, data) ==
  [ctx EXCEPT !.buffer = Kept([i \in 1..alg.block |-> Junk]), !.done = Append(@, data)]
(* memcpy to a place in the buffer, from 0. *)
Copied(ctx, place, data) ==
  [ctx EXCEPT !.buffer = SubSeq(@, 1, place) \o data
                         \o SubSeq(@, place + Len(data) + 1, Len(@))]
Counted(ctx, len) == [ctx EXCEPT !.bitcount = @ + 8 * len]

(* All complete blocks of the data, and the rest. *)
UpdateBlocks(alg, ctx0, data) ==
  LET n == Len(data) \div alg.block
      f[i \in 0..n] ==
        IF i = 0 THEN ctx0
        ELSE LET ctx == f[i - 1]
             IN Counted(Transformed(alg, ctx, SubSeq(data, alg.block * (i - 1) + 1,
                                                     alg.block * i)), alg.block)
      rest == SubSeq(data, alg.block * n + 1, Len(data))
  IN Counted(Copied(f[n], 0, rest), Len(rest))

ShaUpdate(alg, ctx, data) ==
  LET usedspace == (ctx.bitcount \div 8) % alg.block
      freespace == alg.block - usedspace
      filled == Counted(Copied(ctx, usedspace, SubSeq(data, 1, freespace)), freespace)
  IN IF data = <<>> THEN ctx
     ELSE IF usedspace = 0 THEN UpdateBlocks(alg, ctx, data)
     ELSE IF Len(data) < freespace
     THEN Counted(Copied(ctx, usedspace, data), Len(data))
     ELSE UpdateBlocks(alg, Transformed(alg, filled, filled.buffer),
                       SubSeq(data, freespace + 1, Len(data)))

(* Mutant: a block more only if even the first byte of the padding has no  *)
(* room in front of the length.                                            *)
ShaLastShort(alg, ctx) ==
  LET usedspace == (ctx.bitcount \div 8) % alg.block
      first == Copied(Copied(ctx, usedspace, ZeroBytes(alg.block - usedspace)),
                      usedspace, <<128>>)
      last == IF usedspace <= ShortBlock(alg) THEN first
              ELSE Copied(Transformed(alg, first, first.buffer), 0, ZeroBytes(ShortBlock(alg)))
      full == Copied(last, ShortBlock(alg), Word(2 * alg.word, ctx.bitcount))
  IN Transformed(alg, full, full.buffer)

(* The padding: one more block when the first byte of it and the length do *)
(* not fit behind the data.                                                *)
ShaLast(alg, ctx) ==
  LET usedspace == (ctx.bitcount \div 8) % alg.block
      first == Copied(Copied(ctx, usedspace, ZeroBytes(alg.block - usedspace)),
                      usedspace, <<128>>)
      last == IF usedspace + 1 <= ShortBlock(alg) THEN first
              ELSE Copied(Transformed(alg, first, first.buffer), 0, ZeroBytes(ShortBlock(alg)))
      full == Copied(last, ShortBlock(alg), Word(2 * alg.word, ctx.bitcount))
  IN Transformed(alg, full, full.buffer)

InitialHash(alg) == Kept([j \in 1..8 |-> SubSeq(Initial[j], 1, alg.word)])
ShaFinal(alg, ctx) ==
  LET done == ShaLast(alg, ctx).done
      f[i \in 0..Len(done)] ==
        IF i = 0 THEN InitialHash(alg) ELSE Transform(alg, f[i - 1], done[i])
      g[j \in 0..alg.digest] == IF j = 0 THEN <<>> ELSE g[j - 1] \o f[Len(done)][j]
  IN g[alg.digest]

(* Two hexadecimal digits for each byte of the digest. *)
ShaEnd(alg, ctx) ==
  LET digest == ShaFinal(alg, ctx)
  IN Kept([i \in 1..2 * Len(digest) |->
             IF i % 2 = 1 THEN digest[(i + 1) \div 2] \div 16 ELSE digest[i \div 2] % 16])
ShaData(alg, data) == ShaEnd(alg, ShaUpdate(alg, ShaInit(alg), data))

-----------------------------------------------------------------------------
(* Reference: FIPS 180 pads the whole message, cuts it into blocks and     *)
(* expands each to a schedule of one word for every round.                 *)

PaddedMessage(alg, m) ==
  LET zeros == CHOOSE n \in 0..alg.block - 1 :
                 (Len(m) + 1 + n + 2 * alg.word) % alg.block = 0
  IN m \o <<128>> \o ZeroBytes(zeros) \o Word(2 * alg.word, 8 * Len(m))
Parsed(alg, bytes) ==
  Kept([i \in 1..Len(bytes) \div alg.block |->
         SubSeq(bytes, alg.block * (i - 1) + 1, alg.block * i)])
Expanded(alg, data) ==
  LET w[t \in 16..alg.rounds] ==
        IF t = 16 THEN HashWords(alg, data)
        ELSE LET p == w[t - 1]
             IN Append(p, Plus(Plus(sigma1(p[t - 2]), p[t - 7]),
                               Plus(sigma0(p[t - 15]), p[t - 16])))
  IN w[alg.rounds]
(* One block with schedule w; f lists the registers after each round. *)
Compressed(alg, h, w) ==
  LET f[j \in 0..alg.rounds] ==
        IF j = 0 THEN <<h>>
        ELSE LET p == f[j - 1]
             IN Append(p, Round(p[j], SubSeq(K[j], 1, alg.word), w[j]))
  IN Kept([i \in 1..8 |-> Plus(h[i], f[alg.rounds][alg.rounds + 1][i])])
=============================================================================
