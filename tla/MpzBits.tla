------------------------------- MODULE MpzBits -------------------------------
(***************************************************************************)
(* Bit operations, numerals and byte strings of ma/mini-gmp.c.             *)
(*                                                                         *)
(* Negative numbers behave like two's complement with infinitely many sign *)
(* bits, but are kept as sign and absolute value: the loops complement     *)
(* limbs and carry the one to add as they go.                              *)
(* A character of a numeral is its digit value, or Minus, or Space; a byte *)
(* has ByteBits bits.                                                      *)
(***************************************************************************)
EXTENDS Mpz

CONSTANT ByteBits    \* CHAR_BIT

ASSUME ByteAssumption == ByteBits \in Nat /\ ByteBits > 0 /\ LimbBits % ByteBits = 0

mpz_tstbit(d, bit_index) ==
  LET i == bit_index \div LimbBits
      shift == bit_index % LimbBits
      w == d.d[i + 1]
      set == Shr(w, shift) % 2 = 1
      below == w % 2^shift # 0 \/ ~mpn_zero_p(Low(d.d, i))
  IN IF i >= Len(d.d) THEN d.neg ELSE IF d.neg /\ below THEN ~set ELSE set

mpz_abs_add_bit(d, bit_index) ==
  LET i == bit_index \div LimbBits
      bit == 2^(bit_index % LimbBits)
  IN Mpz(d.neg,
         IF i >= Len(d.d) THEN Append(d.d \o Zeros(i - Len(d.d)), bit)
         ELSE Low(d.d, i) \o Grown(mpn_add_1(High(d.d, i), bit)))

mpz_abs_sub_bit(d, bit_index) ==
  LET i == bit_index \div LimbBits
      bit == 2^(bit_index % LimbBits)
  IN mpz_limbs_finish(Low(d.d, i) \o mpn_sub_1(High(d.d, i), bit).rp, d.neg)

mpz_setbit(d, i) ==
  IF mpz_tstbit(d, i) THEN d
  ELSE IF d.neg THEN mpz_abs_sub_bit(d, i) ELSE mpz_abs_add_bit(d, i)
mpz_clrbit(d, i) ==
  IF ~mpz_tstbit(d, i) THEN d
  ELSE IF d.neg THEN mpz_abs_add_bit(d, i) ELSE mpz_abs_sub_bit(d, i)
mpz_combit(d, i) ==
  IF mpz_tstbit(d, i) # d.neg THEN mpz_abs_sub_bit(d, i) ELSE mpz_abs_add_bit(d, i)
mpz_com(u) == mpz_sub_ui(mpz_neg(u), 1)

(* Limb i of x in two's complement, and the carry into the next one.       *)
TwosLimb(limb, neg, c) ==
  LET l == ((IF neg THEN Com(limb) ELSE limb) + c) % B
  IN [l |-> l, c |-> Bit(l < c)]

(* The loops of mpz_and, mpz_ior and mpz_xor: rn limbs of the two operands *)
(* through Op, v continued by its sign; the result has the sign rneg.      *)
Logical(Op(_, _), u, v, rn, rneg) ==
  LET Turn(i, c) ==
        LET ul == TwosLimb(u.d[i], u.neg, c.u)
            vl == IF i <= Len(v.d) THEN TwosLimb(v.d[i], v.neg, c.v)
                  ELSE [l |-> IF v.neg THEN GMP_LIMB_MAX ELSE 0, c |-> c.v]
            rl == TwosLimb(Op(ul.l, vl.l), rneg, c.r)
        IN [l |-> rl.l, c |-> [u |-> ul.c, v |-> vl.c, r |-> rl.c]]
      x == Carry(Turn, rn, [u |-> Bit(u.neg), v |-> Bit(v.neg), r |-> Bit(rneg)])
  IN IF x.cy.r > 0 THEN Mpz(rneg, Append(x.rp, x.cy.r))
     ELSE mpz_limbs_finish(x.rp, rneg)

(* Mutant: only the limbs of the smaller operand, whatever its sign.       *)
mpz_and_short(a, b) ==
  LET u == IF Len(a.d) < Len(b.d) THEN b ELSE a
      v == IF Len(a.d) < Len(b.d) THEN a ELSE b
  IN IF v.d = <<>> THEN mpz_init
     ELSE Logical(&, u, v, Len(v.d), u.neg /\ v.neg)

mpz_and(a, b) ==
  LET u == IF Len(a.d) < Len(b.d) THEN b ELSE a
      v == IF Len(a.d) < Len(b.d) THEN a ELSE b
  IN IF v.d = <<>> THEN mpz_init
     ELSE Logical(&, u, v, IF v.neg THEN Len(u.d) ELSE Len(v.d), u.neg /\ v.neg)
mpz_ior(a, b) ==
  LET u == IF Len(a.d) < Len(b.d) THEN b ELSE a
      v == IF Len(a.d) < Len(b.d) THEN a ELSE b
  IN IF v.d = <<>> THEN u
     ELSE Logical(|, u, v, IF v.neg THEN Len(v.d) ELSE Len(u.d), u.neg \/ v.neg)
mpz_xor(a, b) ==
  LET u == IF Len(a.d) < Len(b.d) THEN b ELSE a
      v == IF Len(a.d) < Len(b.d) THEN a ELSE b
  IN IF v.d = <<>> THEN u ELSE Logical(^^, u, v, Len(u.d), u.neg # v.neg)

gmp_popcount_limb(x) ==
  LET f[n \in 0..LimbBits] == IF n = 0 THEN 0 ELSE f[n - 1] + (Shr(x, n - 1) % 2)
  IN f[LimbBits]
mpn_popcount(p) ==
  LET f[i \in 0..Len(p)] == IF i = 0 THEN 0 ELSE f[i - 1] + gmp_popcount_limb(p[i])
  IN f[Len(p)]
mpz_popcount(u) == IF u.neg THEN NoBit ELSE mpn_popcount(u.d)

mpz_hamdist(a, b) ==
  LET u == IF Len(a.d) < Len(b.d) THEN b ELSE a
      v == IF Len(a.d) < Len(b.d) THEN a ELSE b
      Turn(i, c) ==
        LET ul == TwosLimb(u.d[i], a.neg, c.u)
            vl == IF i <= Len(v.d) THEN TwosLimb(v.d[i], a.neg, c.v)
                  ELSE [l |-> IF a.neg THEN GMP_LIMB_MAX ELSE 0, c |-> c.v]
        IN [l |-> ul.l ^^ vl.l, c |-> [u |-> ul.c, v |-> vl.c]]
  IN IF a.neg # b.neg THEN NoBit
     ELSE mpn_popcount(Carry(Turn, Len(u.d), [u |-> Bit(a.neg), v |-> Bit(a.neg)]).rp)

mpz_scan1(u, starting_bit) ==
  LET i == starting_bit \div LimbBits
      zero == Bit(mpn_zero_p(Low(u.d, i)))
      l == IF u.neg THEN (Com(u.d[i + 1]) + zero) % B ELSE u.d[i + 1]
  IN CASE i >= Len(u.d) -> IF u.neg THEN starting_bit ELSE NoBit
       [] i < Len(u.d) /\ starting_bit = 0 ->
            mpn_common_scan(u.d[i + 1], i, u.d, Len(u.d), 0)
       [] OTHER -> mpn_common_scan(From(l, starting_bit % LimbBits), i, u.d,
                     Len(u.d), IF u.neg /\ l >= zero THEN GMP_LIMB_MAX ELSE 0)
mpz_scan0(u, starting_bit) ==
  LET i == starting_bit \div LimbBits
      l == IF u.neg THEN (u.d[i + 1] - Bit(mpn_zero_p(Low(u.d, i)))) % B
           ELSE Com(u.d[i + 1])
  IN IF i >= Len(u.d) THEN (IF u.neg THEN NoBit ELSE starting_bit)
     ELSE mpn_common_scan(From(l, starting_bit % LimbBits), i, u.d, Len(u.d),
                          IF u.neg THEN 0 ELSE GMP_LIMB_MAX)

-----------------------------------------------------------------------------
(* Numerals *)

Minus == -1
Space == -2

RECURSIVE count_digits(_, _)
count_digits(tp, bi) ==
  LET q == mpn_div_qr_1_preinv(tp, bi).qp
  IN IF tp = <<>> THEN 0
     ELSE 1 + count_digits(Low(q, Len(q) - Bit(q[Len(q)] = 0)), bi)

mpz_sizeinbase(u, base) ==
  LET un == Len(u.d)
      bits == (un - 1) * LimbBits + mpn_limb_size_in_base_2(u.d[un])
      log == mpn_base_power_of_two_p(base)
  IN IF un = 0 THEN 1
     ELSE IF log > 0 THEN (bits + log - 1) \div log
     ELSE count_digits(u.d, mpn_div_qr_1_invert(base))

mpz_get_str(base, u) ==
  IF u.d = <<>> THEN <<0>>
  ELSE (IF u.neg THEN <<Minus>> ELSE <<>>) \o mpn_get_str(base, u.d)

NoMpz == [ret |-> -1, r |-> mpz_init]

(* Spaces are skipped everywhere, but a sign only counts before any digit. *)
mpz_set_str(sp, base) ==
  LET Solid(c) == c # Space
      chars == SelectSeq(sp, Solid)
      sign == chars # <<>> /\ chars[1] = Minus
      dp == IF sign THEN Tail(chars) ELSE chars
      rp == mpn_set_str(dp, base)
      rn == Len(rp) - Bit(rp # <<>> /\ rp[Len(rp)] = 0)
  IN IF dp = <<>> \/ \E i \in DOMAIN dp : dp[i] \notin 0..base - 1 THEN NoMpz
     ELSE [ret |-> 0, r |-> Mpz(sign, Low(rp, rn))]

-----------------------------------------------------------------------------
(* Byte strings of count words of size bytes: order 1 has the most         *)
(* significant word first, endian 1 the most significant byte of a word.   *)

LimbBytes == LimbBits \div ByteBits

(* Where byte n (0 the least significant) of the number is in the string.  *)
ByteIndex(n, count, order, size, endian) ==
  LET k == n \div size
      j == n % size
  IN (IF order = 1 THEN count - 1 - k ELSE k) * size
     + (IF endian = 1 THEN size - 1 - j ELSE j) + 1

mpz_import(count, order, size, endian, src) ==
  LET n == size * count
      rn == (n + LimbBytes - 1) \div LimbBytes
      f[k \in 0..n] ==
        IF k = 0 THEN Zeros(rn)
        ELSE [f[k - 1] EXCEPT ![(k - 1) \div LimbBytes + 1] =
                @ | (src[ByteIndex(k - 1, count, order, size, endian)]
                     * 2^(((k - 1) % LimbBytes) * ByteBits))]
  IN mpz_limbs_finish(f[n], FALSE)

mpz_export(order, size, endian, u) ==
  LET un == Len(u.d)
      k == CHOOSE k \in 1..LimbBytes :
             u.d[un] < 2^(k * ByteBits) /\ u.d[un] >= 2^((k - 1) * ByteBits)
      count == IF un = 0 THEN 0 ELSE (k + (un - 1) * LimbBytes + size - 1) \div size
      byte(n) == LET i == n \div LimbBytes + 1
                 IN IF i > un THEN 0
                    ELSE Shr(u.d[i], (n % LimbBytes) * ByteBits) % 2^ByteBits
  IN [count |-> count,
      r |-> [p \in 1..count * size |->
               byte(CHOOSE n \in 0..count * size - 1 :
                      ByteIndex(n, count, order, size, endian) = p)]]
=============================================================================
