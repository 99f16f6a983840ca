--------------------------------- MODULE Ma ---------------------------------
(***************************************************************************)
(* ma/ma.c: the public-key encryption of the multiple-authentication       *)
(* suites.  Numbers are integers, as the library under it computes them    *)
(* (see MiniGmp); every random byte is an argument.  Messages go block by  *)
(* block, a block is one byte shorter than t; the encoding of groups is    *)
(* not compiled into use (DTLS_MA_G is 0), and errors are positive         *)
(* (DTLS_MA_E_SIGN).                                                       *)
(***************************************************************************)
EXTENDS Words, Calls

CONSTANTS
  DTLS_MA_N,        \* elements of a cipher, and of the private vector
  DTLS_MA_M,        \* elements of the public key
  DTLS_MA_T_BITS, DTLS_MA_Q_BITS, DTLS_MA_E_BITS,
  DTLS_MA_W, DTLS_MA_W_MIN,
  dtls_ma_common,       \* coefficients, a sequence
  dtls_ma_common_sign   \* a byte for every byte

T == 2^DTLS_MA_T_BITS
Q == 2^DTLS_MA_Q_BITS
R == 2^DTLS_MA_E_BITS
BlockLen == DTLS_MA_T_BITS \div 8

(* The product modulo m, for products beyond the integers of TLC.          *)
MulMod(x, y, m) ==
  LET f[i \in 0..31] == \* of x and the i most significant bits of y
        IF i = 0 THEN 0 ELSE (2 * f[i - 1] + x * ((y \div 2^(31 - i)) % 2)) % m
  IN f[31]

(* The inverse of x modulo m, 0 if there is none: mpz_invert.              *)
Inverted(x, m) ==
  LET f[i \in 0..40] == \* remainders, and what x must be multiplied with
        IF i = 0 THEN [r |-> m, s |-> 0, nr |-> x % m, ns |-> 1]
        ELSE LET p == f[i - 1]
             IN IF p.nr = 0 THEN p
                ELSE [r |-> p.nr, s |-> p.ns, nr |-> p.r % p.nr,
                      ns |-> p.s - (p.r \div p.nr) * p.ns]
      end == f[40]
  IN IF end.r = 1 THEN end.s % m ELSE 0

SumOver(n, term) == LET f[i \in 0..n] == IF i = 0 THEN 0 ELSE f[i - 1] + term[i] IN f[n]
Coefficient(i) == dtls_ma_common[(i % Len(dtls_ma_common)) + 1]

-----------------------------------------------------------------------------
(* Keys *)

(* The step from t to p: odd, and below the room.                          *)
OddStep(draw, room) ==
  LET step == draw % room
  IN IF step % 2 = 1 THEN step ELSE IF step + 1 < room THEN step + 1 ELSE step - 1

Accepted(sk, room) == (T - 1) * sk < Q /\ room >= T + 255

(* Mutant: the room the errors need is not asked for.                      *)
dtls_ma_generate_private_key_roomless(draw) ==
  LET sk == 2 * draw.sk + 1
      p(i) == T + OddStep(draw.steps[i], 256)
      coprime == {i \in DOMAIN draw.steps : Inverted(sk, p(i)) # 0}
      first == p(CHOOSE i \in coprime : \A j \in coprime : i <= j)
  IN IF (T - 1) * sk >= Q \/ coprime = {} THEN [ok |-> FALSE]
     ELSE [ok |-> TRUE, sk |-> sk, p |-> first, skInvP |-> Inverted(sk, first), k |-> draw.k]

(* The draws are a byte for sk, bytes for p until one has an inverse of sk *)
(* and the private vector.  The code has no result: when the parameters do *)
(* not fit (ok = FALSE) it prints an error and leaves the key unfinished.  *)
dtls_ma_generate_private_key(draw) ==
  LET sk == 2 * draw.sk + 1
      room == (Q - (T - 1) * sk) \div (DTLS_MA_W * R)
      p(i) == T + OddStep(draw.steps[i], room - T)
      coprime == {i \in DOMAIN draw.steps : Inverted(sk, p(i)) # 0}
      first == p(CHOOSE i \in coprime : \A j \in coprime : i <= j)
  IN IF ~Accepted(sk, room) \/ coprime = {} THEN [ok |-> FALSE]
     ELSE [ok |-> TRUE, sk |-> sk, p |-> first, skInvP |-> Inverted(sk, first), k |-> draw.k]

(* An equation of the private vector for each element, with an error that  *)
(* sk turns into a small multiple of p.                                    *)
dtls_ma_get_public_key(privk, bias, errors) ==
  LET used == IF bias = 0 THEN 1 ELSE bias
      skInvQ == MulMod(Inverted(privk.sk, Q), privk.p, Q)
      left(i) == SumOver(DTLS_MA_N, [j \in 1..DTLS_MA_N |->
                                       privk.k[j] * Coefficient(i + j * used)])
  IN [bias |-> used,
      Element |-> Kept([i \in 1..DTLS_MA_M |->
                          (left(i - 1) - MulMod(skInvQ, errors[i] % R, Q)) % Q])]

-----------------------------------------------------------------------------
(* Encryption of a number *)

(* How many elements are added, from a random number: at most W.           *)
Selected(draw) ==
  LET sel == draw % DTLS_MA_W
  IN IF sel < DTLS_MA_W_MIN THEN DTLS_MA_W - sel ELSE sel

(* "draws" are random bytes that choose the elements.                      *)
dtls_ma_enc(pubk, v, sel, draws) ==
  LET alpha == [j \in 1..sel |-> draws[j] % DTLS_MA_M]
      partialV == SumOver(sel, [j \in 1..sel |-> pubk.Element[alpha[j] + 1]])
  IN [element |-> Kept([i \in 1..DTLS_MA_N |->
                          SumOver(sel, [j \in 1..sel |-> Coefficient(alpha[j] + i * pubk.bias)])]),
      tail |-> ((v % T) - partialV) % Q]

dtls_ma_dec(privk, D) ==
  LET sum[j \in 0..DTLS_MA_N] ==
        IF j = 0 THEN 0 ELSE (sum[j - 1] + privk.k[j] * D.element[j]) % Q
  IN MulMod(MulMod(privk.sk, (sum[DTLS_MA_N] + D.tail) % Q, Q) % privk.p,
            privk.skInvP, privk.p)

-----------------------------------------------------------------------------
(* Numbers in text: hexadecimal digits, and Comma behind them              *)

Comma == 16
Numeral(x) ==
  LET f[i \in 0..8] == \* the i least significant digits
        IF i = 0 THEN <<>> ELSE <<(x \div 16^(i - 1)) % 16>> \o f[i - 1]
      n == CHOOSE n \in 1..8 : x < 16^n /\ \A m \in 1..n - 1 : x >= 16^m
  IN f[IF x < 16^7 THEN n ELSE 8]
NumeralValue(s) ==
  LET f[i \in 0..Len(s)] == IF i = 0 THEN 0 ELSE 16 * f[i - 1] + s[i] IN f[Len(s)]

BufLen == (DTLS_MA_N * DTLS_MA_Q_BITS) \div 8 + 16
dtls_ma_cipher_out_str(D, buf_len) ==
  LET f[i \in 0..DTLS_MA_N] ==
        IF i = 0 THEN <<>> ELSE f[i - 1] \o Numeral(D.element[i]) \o <<Comma>>
      buf == f[DTLS_MA_N] \o Numeral(D.tail) \o <<Comma>>
  IN IF Len(buf) > buf_len THEN [ret |-> -1] ELSE [ret |-> Len(buf), buf |-> buf]

(* The cipher in front of a text, and where the next one begins.           *)
dtls_ma_cipher_in_str(buf) ==
  LET comma(i) == CHOOSE j \in i..Len(buf) : buf[j] = Comma /\ \A k \in i..j - 1 : buf[k] # Comma
      f[i \in 0..DTLS_MA_N + 1] ==
        IF i = 0 THEN [pos |-> 0, numbers |-> <<>>]
        ELSE LET p == f[i - 1]
                 next == comma(p.pos + 1)
             IN [pos |-> next,
                 numbers |-> Append(p.numbers, NumeralValue(SubSeq(buf, p.pos + 1, next - 1)))]
      read == f[DTLS_MA_N + 1].numbers
  IN IF f[DTLS_MA_N].pos >= (DTLS_MA_N * DTLS_MA_Q_BITS) \div 8 + 64 THEN [ret |-> -1]
     ELSE [ret |-> f[DTLS_MA_N + 1].pos,
           D |-> [element |-> SubSeq(read, 1, DTLS_MA_N), tail |-> read[DTLS_MA_N + 1]]]

(* A key in a file, a numeral in each line; the lines of the parameters,   *)
(* the same in all files, are left out.                                    *)
dtls_ma_save_private_key(privk) ==
  Kept([i \in 1..3 + DTLS_MA_N |->
          Numeral(CASE i = 1 -> privk.p [] i = 2 -> privk.sk [] i = 3 -> privk.skInvP
                    [] OTHER -> privk.k[i - 3])])
dtls_ma_load_private_key(file) ==
  LET n(i) == NumeralValue(file[i])
  IN [ok |-> TRUE, p |-> n(1), sk |-> n(2), skInvP |-> n(3),
      k |-> Kept([i \in 1..DTLS_MA_N |-> n(3 + i)])]
dtls_ma_save_public_key(pubk) ==
  <<Numeral(pubk.bias)>> \o [i \in 1..DTLS_MA_M |-> Numeral(pubk.Element[i])]
dtls_ma_load_public_key(file) ==
  [bias |-> NumeralValue(file[1]),
   Element |-> Kept([i \in 1..DTLS_MA_M |-> NumeralValue(file[i + 1])])]

-----------------------------------------------------------------------------
(* Messages as numbers: a tag and bytes, all xored with a check sum that   *)
(* is never the tag                                                        *)

Tag170 == 170
(* Each byte with its sign; the backup takes the sign of the next byte.    *)
XorOver(s, next) ==
  LET f[i \in 0..Len(s)] ==
        IF i = 0 THEN 0
        ELSE XorByte[f[i - 1]][XorByte[dtls_ma_common_sign[((s[i] + next) % 256) + 1]][s[i]]]
  IN f[Len(s)]
CheckSum(s) ==
  LET sum == XorOver(s, 0)
      backup == XorOver(s, 1)
  IN IF sum # Tag170 THEN sum ELSE IF backup # Tag170 THEN backup ELSE 204

(* The first bytes of buf as a number, and how many they are.              *)
dtls_ma_encode(buf) ==
  LET bytes == SubSeq(buf, 1, IF Len(buf) >= BlockLen THEN BlockLen - 1 ELSE Len(buf))
      sum == CheckSum(bytes)
      f[i \in 0..Len(bytes)] ==
        IF i = 0 THEN XorByte[Tag170][sum] ELSE 256 * f[i - 1] + XorByte[bytes[i]][sum]
  IN [ret |-> Len(bytes), res |-> f[Len(bytes)]]

dtls_ma_decode(res) ==
  LET byte(i) == (res \div 256^i) % 256
      set == {i \in 0..BlockLen - 1 : byte(i) # 0}
      top == CHOOSE i \in set : \A j \in set : i >= j
      sum == XorByte[byte(top)][Tag170]
      buf == [j \in 1..top |-> XorByte[byte(top - j)][sum]]
  IN IF set = {} THEN [ret |-> -1]
     ELSE IF CheckSum(buf) # sum THEN [ret |-> -1]
     ELSE [ret |-> top, buf |-> buf]

(* "draws" has the random numbers for each block.                          *)
dtls_ma_enc_str_G(pubk, buf, draws) ==
  LET f[i \in 0..Len(buf)] == \* after i blocks
        IF i = 0 THEN [pos |-> 0, res |-> <<>>, ok |-> TRUE]
        ELSE LET s == f[i - 1]
                 v == dtls_ma_encode(SubSeq(buf, s.pos + 1, Len(buf)))
                 c == dtls_ma_enc(pubk, v.res, Selected(draws.sel), draws.alpha)
                 out == dtls_ma_cipher_out_str(c, BufLen)
             IN IF s.pos = Len(buf) \/ ~s.ok THEN s
                ELSE IF out.ret = -1 THEN [s EXCEPT !.ok = FALSE]
                ELSE [pos |-> s.pos + v.ret, res |-> s.res \o out.buf, ok |-> TRUE]
  IN f[Len(buf)]

dtls_ma_dec_str_G(privk, buf) ==
  LET f[i \in 0..Len(buf)] ==
        IF i = 0 THEN [pos |-> 0, res |-> <<>>, ok |-> TRUE]
        ELSE LET s == f[i - 1]
                 in == dtls_ma_cipher_in_str(SubSeq(buf, s.pos + 1, Len(buf)))
                 d == dtls_ma_decode(dtls_ma_dec(privk, in.D))
             IN IF s.pos = Len(buf) \/ ~s.ok THEN s
                ELSE IF d.ret < 0 THEN [s EXCEPT !.ok = FALSE]
                ELSE [pos |-> s.pos + in.ret, res |-> s.res \o d.buf, ok |-> TRUE]
  IN f[Len(buf)]

-----------------------------------------------------------------------------

CONSTANTS KeyDraws, PublicDraws, MaMessages, CipherDraws

MaCalled == Called("ma", KeyDraws \X PublicDraws)
MaGiven == Given("ma", MaMessages \X CipherDraws)

(* Whatever is drawn, a message encrypted under a public key comes back    *)
(* from the private key, both read from the files they were saved to: the  *)
(* checks on the parameters leave enough room below q for the errors of    *)
(* all elements that are added, and no checksum of a block is the tag,     *)
(* which would make it shorter.  With one element of the private vector    *)
(* changed the message does not come back                                  *)
(* (dtls_ma_generate_private_key, dtls_ma_enc_str_G, dtls_ma_dec_str_G).   *)
MaRecovers ==
  [][Returns("ma") =>
       LET privk == dtls_ma_generate_private_key(a[1])
           pubk == dtls_ma_get_public_key(privk, a[2].bias, a[2].errors)
           e == dtls_ma_enc_str_G(dtls_ma_load_public_key(dtls_ma_save_public_key(pubk)), b[1], b[2])
           d == dtls_ma_dec_str_G(dtls_ma_load_private_key(dtls_ma_save_private_key(privk)), e.res)
           other(j) == [privk EXCEPT !.k[j] = (@ + 1) % Q]
           wrong(j) == dtls_ma_dec_str_G(other(j), e.res)
       IN privk.ok => /\ e.ok /\ d.ok
                      /\ d.res = b[1]
                      /\ b[1] # <<>> => \A j \in 1..DTLS_MA_N : ~(wrong(j).ok /\ wrong(j).res = b[1])]_call
=============================================================================
