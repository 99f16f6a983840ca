------------------------------ MODULE Rijndael ------------------------------
(***************************************************************************)
(* aes/rijndael.c: the block cipher of CCM, with the tables that do        *)
(* SubBytes, ShiftRows and MixColumns in one, and its key schedules.       *)
(* DTLS encrypts blocks with 128-bit keys only; the other keys and the     *)
(* inverse cipher (WITH_AES_DECRYPT) are there for other users.            *)
(***************************************************************************)
EXTENDS Words

-----------------------------------------------------------------------------
(* Arithmetic in GF(2^8), of which the tables of the code are the result *)

XTime(x) == IF x < 128 THEN 2 * x ELSE XorByte[2 * x - 256][27]
Gf(x, y) ==
  LET f[i \in 0..8] == \* the upper i bits of y
        IF i = 0 THEN 0
        ELSE LET twice == XTime(f[i - 1])
             IN IF (y \div 2^(8 - i)) % 2 = 1 THEN XorByte[twice][x] ELSE twice
  IN f[8]
(* The inverse of x, and 0 for 0: x to the power 254 = 2 * (2^7 - 1).      *)
Inverse8(x) ==
  LET square(y) == Gf(y, y)
      f[i \in 0..7] == IF i = 0 THEN 1 ELSE LET y == f[i - 1] IN Gf(square(y), x)
  IN square(f[7])
SBox == [x \in Byte |->
        LET v == Inverse8(x)
            turn(n) == ((v * 2^n) % 256) + v \div 2^(8 - n)
        IN XorByte[99][XorByte[XorByte[v][turn(1)]][XorByte[XorByte[turn(2)][turn(3)]][turn(4)]]]]
SBoxInverse == [y \in Byte |-> CHOOSE x \in Byte : SBox[x] = y]

(* One column of the table for a byte: it times four coefficients. *)
Column(x, c) == Kept([i \in 1..4 |-> Gf(x, c[i])])
Te0 == [x \in Byte |-> Column(SBox[x], <<2, 1, 1, 3>>)]
Te1 == [x \in Byte |-> Column(SBox[x], <<3, 2, 1, 1>>)]
Te2 == [x \in Byte |-> Column(SBox[x], <<1, 3, 2, 1>>)]
Te3 == [x \in Byte |-> Column(SBox[x], <<1, 1, 3, 2>>)]
Te4 == [x \in Byte |-> Column(SBox[x], <<1, 1, 1, 1>>)]
Td0 == [x \in Byte |-> Column(SBoxInverse[x], <<14, 9, 13, 11>>)]
Td1 == [x \in Byte |-> Column(SBoxInverse[x], <<11, 14, 9, 13>>)]
Td2 == [x \in Byte |-> Column(SBoxInverse[x], <<13, 11, 14, 9>>)]
Td3 == [x \in Byte |-> Column(SBoxInverse[x], <<9, 13, 11, 14>>)]
Td4 == [x \in Byte |-> Column(SBoxInverse[x], <<1, 1, 1, 1>>)]
rcon == <<1, 2, 4, 8, 16, 32, 64, 128, 27, 54>>

-----------------------------------------------------------------------------
(* Key schedules; round key word i of the code is rk[i + 1] *)

GETU32(pt, i) == SubSeq(pt, i + 1, i + 4)
Xor5(u, v, w, x, y) == XorBytes(XorBytes(XorBytes(u, v), XorBytes(w, x)), y)
SubWord(w) == Kept([i \in 1..4 |-> Te4[w[i]][i]])
RotWord(w) == <<w[2], w[3], w[4], w[1]>>

(* n words, the first from temp and each other from the one before it, all *)
(* combined with the words nk earlier.                                     *)
Chained(rk, nk, temp, n) ==
  LET f[i \in 0..n] ==
        IF i = 0 THEN <<>>
        ELSE LET p == f[i - 1]
             IN Append(p, XorBytes(rk[Len(rk) + i - nk], IF i = 1 THEN temp ELSE p[i - 1]))
  IN rk \o f[n]
FirstTemp(rk, i) == XorBytes(SubWord(RotWord(rk[Len(rk)])), <<rcon[i], 0, 0, 0>>)

(* One turn of the loop for each size of key, from 1. *)
key_turn_128(rk, i) == Chained(rk, 4, FirstTemp(rk, i), 4)
key_turn_192(rk, i) == Chained(rk, 6, FirstTemp(rk, i), IF i = 8 THEN 4 ELSE 6)
key_turn_256(rk, i) ==
  LET half == Chained(rk, 8, FirstTemp(rk, i), 4)
  IN IF i = 7 THEN half ELSE Chained(half, 8, SubWord(half[Len(half)]), 4)

(* Round keys and number of rounds, 0 for any other size of key. *)
rijndaelKeySetupEnc(cipherKey) ==
  LET n == Len(cipherKey) \div 4
      first == [i \in 1..n |-> GETU32(cipherKey, 4 * (i - 1))]
      f[i \in 0..10] == IF i = 0 THEN first
                        ELSE CASE n = 4 -> key_turn_128(f[i - 1], i)
                               [] n = 6 -> key_turn_192(f[i - 1], i)
                               [] n = 8 -> key_turn_256(f[i - 1], i)
  IN CASE n = 4 -> [rk |-> f[10], Nr |-> 10]
       [] n = 6 -> [rk |-> f[8], Nr |-> 12]
       [] n = 8 -> [rk |-> f[7], Nr |-> 14]
       [] OTHER -> [rk |-> first, Nr |-> 0]

InvMixed(w) == XorBytes(XorBytes(Td0[Te4[w[1]][4]], Td1[Te4[w[2]][4]]),
                   XorBytes(Td2[Te4[w[3]][4]], Td3[Te4[w[4]][4]]))
rijndaelKeySetupDec(cipherKey) ==
  LET enc == rijndaelKeySetupEnc(cipherKey)
      turned(i) == enc.rk[4 * (enc.Nr - i \div 4) + (i % 4) + 1]
  IN [rk |-> Kept([i \in 1..4 * (enc.Nr + 1) |->
               IF (i - 1) \div 4 \in 1..enc.Nr - 1 THEN InvMixed(turned(i - 1))
               ELSE turned(i - 1)]),
      Nr |-> enc.Nr]

-----------------------------------------------------------------------------
(* Rounds: the code's s0 ... s3 are s[1] ... s[4] *)

(* Rows turned to the left, and to the right. *)
Left(s, j, k) == s[((j + k - 1) % 4) + 1][k + 1]
Right(s, j, k) == s[((j - k + 3) % 4) + 1][k + 1]

enc_round(s, key) ==
  Kept([j \in 1..4 |-> Xor5(Te0[Left(s, j, 0)], Te1[Left(s, j, 1)], Te2[Left(s, j, 2)],
                            Te3[Left(s, j, 3)], key[j])])
enc_last(s, key) ==
  Kept([j \in 1..4 |-> XorBytes(SubWord([k \in 1..4 |-> Left(s, j, k - 1)]), key[j])])
dec_round(s, key) ==
  Kept([j \in 1..4 |-> Xor5(Td0[Right(s, j, 0)], Td1[Right(s, j, 1)], Td2[Right(s, j, 2)],
                            Td3[Right(s, j, 3)], key[j])])
dec_last(s, key) ==
  Kept([j \in 1..4 |-> XorBytes([k \in 1..4 |-> Td4[Right(s, j, k - 1)][k]], key[j])])

RoundKey(rk, r) == SubSeq(rk, 4 * r + 1, 4 * r + 4)
Loaded(pt, key) == Kept([j \in 1..4 |-> XorBytes(GETU32(pt, 4 * (j - 1)), key[j])])
Stored(s) == s[1] \o s[2] \o s[3] \o s[4]

(* The loop does two rounds a turn and ends in the middle of the last.     *)
(* states[r + 1] is s0 ... s3 after r rounds.                              *)
rijndaelEncrypt(ks, pt) ==
  LET states[r \in 0..ks.Nr - 1] ==
        IF r = 0 THEN <<Loaded(pt, RoundKey(ks.rk, 0))>>
        ELSE LET p == states[r - 1] IN Append(p, enc_round(p[r], RoundKey(ks.rk, r)))
  IN Stored(enc_last(states[ks.Nr - 1][ks.Nr], RoundKey(ks.rk, ks.Nr)))
rijndaelDecrypt(ks, ct) ==
  LET states[r \in 0..ks.Nr - 1] ==
        IF r = 0 THEN <<Loaded(ct, RoundKey(ks.rk, 0))>>
        ELSE LET p == states[r - 1] IN Append(p, dec_round(p[r], RoundKey(ks.rk, r)))
  IN Stored(dec_last(states[ks.Nr - 1][ks.Nr], RoundKey(ks.rk, ks.Nr)))

(* ret -1 for a key that has no schedule. *)
rijndael_set_key(key) ==
  LET ek == rijndaelKeySetupEnc(key)
  IN IF ek.Nr = 0 THEN [ret |-> -1]
     ELSE [ret |-> 0, ek |-> ek, dk |-> rijndaelKeySetupDec(key)]
rijndael_encrypt(ctx, src) == rijndaelEncrypt(ctx.ek, src)
rijndael_decrypt(ctx, src) == rijndaelDecrypt(ctx.dk, src)

-----------------------------------------------------------------------------
(* Reference: FIPS 197, on a state of four rows and columns *)

(* The words of the key, and as many more a turn until there are enough.   *)
KeyExpansion(key) ==
  LET nk == Len(key) \div 4
      sub(c) == Kept([r \in 1..4 |-> SBox[c[r]]])
      temp(c, j, turn) ==
        CASE j = 1 -> XorBytes(sub(Tail(c) \o <<c[1]>>), <<rcon[turn], 0, 0, 0>>)
          [] nk > 6 /\ j = 5 -> sub(c)
          [] OTHER -> c
      more(w, turn) ==
        LET new[j \in 0..nk] ==
              IF j = 0 THEN <<>>
              ELSE LET n == new[j - 1]
                       c == IF j = 1 THEN w[Len(w)] ELSE n[j - 1]
                   IN Append(n, XorBytes(w[Len(w) - nk + j], temp(c, j, turn)))
        IN w \o new[nk]
      words[t \in 0..10] ==
        IF t = 0 THEN [k \in 1..nk |-> SubSeq(key, 4 * k - 3, 4 * k)]
        ELSE more(words[t - 1], t)
      needed == 4 * (nk + 7)
  IN SubSeq(words[(needed - 1) \div nk], 1, needed)
MixColumn(c) ==
  Kept([r \in 1..4 |-> LET at(k) == c[((r + k - 1) % 4) + 1]
                       IN XorByte[XorByte[Gf(at(0), 2)][Gf(at(1), 3)]][XorByte[at(2)][at(3)]]])
Cipher(w, block) == \* w: the expanded key
  LET nr == Len(w) \div 4 - 1
      AddRoundKey(state, r) == Kept([c \in 1..4 |-> XorBytes(state[c], w[4 * r + c])])
      Shifted(s) == [c \in 1..4 |-> [k \in 1..4 |-> SBox[s[((c + k - 2) % 4) + 1][k]]]]
      Mixed(s) == [c \in 1..4 |-> MixColumn(s[c])]
      states[r \in 0..nr] == \* states[r + 1] after r rounds
        IF r = 0 THEN <<AddRoundKey([c \in 1..4 |-> SubSeq(block, 4 * c - 3, 4 * c)], 0)>>
        ELSE LET p == states[r - 1]
                 s == Shifted(p[r])
             IN Append(p, AddRoundKey(IF r = nr THEN s ELSE Mixed(s), r))
  IN Stored(states[nr][nr + 1])
=============================================================================
