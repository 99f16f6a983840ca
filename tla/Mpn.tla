--------------------------------- MODULE Mpn ---------------------------------
(***************************************************************************)
(* The natural-number layer of ma/mini-gmp.c: the limb macros and the mpn  *)
(* functions, the latter under their own names.  A number is the sequence  *)
(* of its limbs, least significant first; the operand sizes the functions  *)
(* take are the lengths of the sequences.  What they write to rp and       *)
(* return as a carry is the record [rp, cy].  Limb arithmetic is modulo B. *)
(***************************************************************************)
EXTENDS Integers, Sequences

CONSTANT LimbBits    \* GMP_LIMB_BITS (32 or 64 in a build)

ASSUME LimbAssumption == LimbBits \in Nat /\ LimbBits > 0 /\ LimbBits % 2 = 0

B == 2^LimbBits
GMP_LIMB_MAX == B - 1
GMP_LIMB_HIGHBIT == B \div 2
GMP_HLIMB_BIT == 2^(LimbBits \div 2)

Bit(p) == IF p THEN 1 ELSE 0
Com(x) == GMP_LIMB_MAX - x
Shl(x, n) == (x * 2^n) % B
Shr(x, n) == x \div 2^n

mpn_limb_size_in_base_2(u) ==
  CHOOSE n \in 1..LimbBits : 2^(n - 1) <= u /\ u < 2^n
gmp_clz(x) == LimbBits - mpn_limb_size_in_base_2(x)
gmp_ctz(x) == CHOOSE n \in 0..LimbBits - 1 : x % 2^n = 0 /\ x % 2^(n + 1) # 0

(* Mutant: the carry of the second addition to x1 is lost.                 *)
umul_ppmm_no_carry(u, v) ==
  LET x0 == (u % GMP_HLIMB_BIT) * (v % GMP_HLIMB_BIT)
      x2 == (u \div GMP_HLIMB_BIT) * (v % GMP_HLIMB_BIT)
      x1 == ((u % GMP_HLIMB_BIT) * (v \div GMP_HLIMB_BIT)
             + x0 \div GMP_HLIMB_BIT + x2) % B
      x3 == (u \div GMP_HLIMB_BIT) * (v \div GMP_HLIMB_BIT)
  IN [hi |-> (x3 + x1 \div GMP_HLIMB_BIT) % B,
      lo |-> (x1 * GMP_HLIMB_BIT + (x0 % GMP_HLIMB_BIT)) % B]

(* The double limb u * v, from four products of half limbs. *)
gmp_umul_ppmm(u, v) ==
  LET ul == u % GMP_HLIMB_BIT   uh == u \div GMP_HLIMB_BIT
      vl == v % GMP_HLIMB_BIT   vh == v \div GMP_HLIMB_BIT
      x0 == ul * vl
      x2 == uh * vl
      x1 == (ul * vh + x0 \div GMP_HLIMB_BIT + x2) % B
      x3 == uh * vh + (IF x1 < x2 THEN GMP_HLIMB_BIT ELSE 0)
  IN [hi |-> (x3 + x1 \div GMP_HLIMB_BIT) % B,
      lo |-> (x1 * GMP_HLIMB_BIT + (x0 % GMP_HLIMB_BIT)) % B]

(* Double limbs <<high, low>>. *)
gmp_add_ssaaaa(a, b) ==
  LET x == (a[2] + b[2]) % B IN <<(a[1] + b[1] + Bit(x < a[2])) % B, x>>
gmp_sub_ddmmss(a, b) ==
  <<(a[1] - b[1] - Bit(a[2] < b[2])) % B, (a[2] - b[2]) % B>>
Double(w) == <<w.hi, w.lo>>

(* <<nh, nl>> divided by the normalised limb d, di being its inverse. *)
gmp_udiv_qrnnd_preinv(nh, nl, d, di) ==
  LET e == gmp_add_ssaaaa(Double(gmp_umul_ppmm(nh, di)), <<nh + 1, nl>>)
      x == (nl - e[1] * d) % B
      q == IF x > e[2] THEN (e[1] - 1) % B ELSE e[1]
      r == IF x > e[2] THEN (x + d) % B ELSE x
  IN IF r >= d THEN [q |-> (q + 1) % B, r |-> r - d] ELSE [q |-> q, r |-> r]

(* <<n[1], n[2], n0>> divided by the normalised double limb d. *)
gmp_udiv_qr_3by2(n, n0, d, dinv) ==
  LET e == gmp_add_ssaaaa(Double(gmp_umul_ppmm(n[1], dinv)), n)
      x == gmp_sub_ddmmss(gmp_sub_ddmmss(<<(n[2] - d[1] * e[1]) % B, n0>>, d),
                          Double(gmp_umul_ppmm(d[2], e[1])))
      over == x[1] >= e[2]
      q == IF over THEN e[1] ELSE (e[1] + 1) % B
      r == IF over THEN gmp_add_ssaaaa(x, d) ELSE x
  IN IF r[1] > d[1] \/ (r[1] = d[1] /\ r[2] >= d[2])
     THEN [q |-> (q + 1) % B, r |-> gmp_sub_ddmmss(r, d)]
     ELSE [q |-> q, r |-> r]

-----------------------------------------------------------------------------
(* Loops over limbs.  Op(i, c) is what a turn at limb i with carry c writes *)
(* (l) and hands to the next turn (c).                                     *)

Carry(Op(_, _), n, c0) ==
  LET f[i \in 0..n] ==
        IF i = 0 THEN [rp |-> <<>>, cy |-> c0]
        ELSE LET p == f[i - 1]
                 s == Op(i, p.cy)
             IN [rp |-> Append(p.rp, s.l), cy |-> s.c]
  IN f[n]

(* The same from the most significant limb down. *)
CarryDown(Op(_, _), n, c0) ==
  LET f[i \in 0..n] ==
        IF i = 0 THEN [rp |-> <<>>, cy |-> c0]
        ELSE LET p == f[i - 1]
                 s == Op(n + 1 - i, p.cy)
             IN [rp |-> <<s.l>> \o p.rp, cy |-> s.c]
  IN f[n]

Low(up, n) == SubSeq(up, 1, n)
High(up, n) == SubSeq(up, n + 1, Len(up))
Zeros(n) == [i \in 1..n |-> 0]

mpn_normalized_size(xp) ==
  LET f[n \in 0..Len(xp)] == IF n > 0 /\ xp[n] = 0 THEN f[n - 1] ELSE n
  IN f[Len(xp)]
Normalized(xp) == Low(xp, mpn_normalized_size(xp))
mpn_zero_p(rp) == mpn_normalized_size(rp) = 0

mpn_cmp(ap, bp) ==
  LET differ == {i \in DOMAIN ap : ap[i] # bp[i]}
      top == CHOOSE i \in differ : \A j \in differ : j <= i
  IN IF differ = {} THEN 0 ELSE IF ap[top] > bp[top] THEN 1 ELSE -1
mpn_cmp4(ap, bp) ==
  IF Len(ap) # Len(bp) THEN (IF Len(ap) < Len(bp) THEN -1 ELSE 1)
  ELSE mpn_cmp(ap, bp)

mpn_add_1(ap, b) ==
  Carry(LAMBDA i, c : LET r == (ap[i] + c) % B IN [l |-> r, c |-> Bit(r < c)],
        Len(ap), b)

mpn_add_n(ap, bp) ==
  Carry(LAMBDA i, cy : LET a == (ap[i] + cy) % B
                           r == (a + bp[i]) % B
                       IN [l |-> r, c |-> Bit(a < cy) + Bit(r < bp[i])],
        Len(ap), 0)

mpn_add(ap, bp) ==
  LET lo == mpn_add_n(Low(ap, Len(bp)), bp)
      hi == mpn_add_1(High(ap, Len(bp)), lo.cy)
  IN [rp |-> lo.rp \o hi.rp, cy |-> hi.cy]

mpn_sub_1(ap, b) ==
  Carry(LAMBDA i, c : [l |-> (ap[i] - c) % B, c |-> Bit(ap[i] < c)], Len(ap), b)

mpn_sub_n(ap, bp) ==
  Carry(LAMBDA i, cy : LET b == (bp[i] + cy) % B
                       IN [l |-> (ap[i] - b) % B,
                           c |-> Bit(b < cy) + Bit(ap[i] < b)], Len(ap), 0)

mpn_sub(ap, bp) ==
  LET lo == mpn_sub_n(Low(ap, Len(bp)), bp)
      hi == mpn_sub_1(High(ap, Len(bp)), lo.cy)
  IN [rp |-> lo.rp \o hi.rp, cy |-> hi.cy]

(* up[i] * vl plus the carry cl, as the three multiplications compute it. *)
MulStep(u, vl, cl) ==
  LET w == gmp_umul_ppmm(u, vl)
      l == (w.lo + cl) % B
  IN [l |-> l, c |-> (Bit(l < cl) + w.hi) % B]

mpn_mul_1(up, vl) == Carry(LAMBDA i, cl : MulStep(up[i], vl, cl), Len(up), 0)

mpn_addmul_1(rp, up, vl) ==
  Carry(LAMBDA i, cl : LET m == MulStep(up[i], vl, cl)
                           l == (rp[i] + m.l) % B
                       IN [l |-> l, c |-> (m.c + Bit(l < rp[i])) % B],
        Len(up), 0)

mpn_submul_1(rp, up, vl) ==
  Carry(LAMBDA i, cl : LET m == MulStep(up[i], vl, cl)
                           l == (rp[i] - m.l) % B
                       IN [l |-> l, c |-> (m.c + Bit(l > rp[i])) % B],
        Len(up), 0)

(* Schoolbook product, Len(up) >= Len(vp) >= 1: rp has grown by one limb   *)
(* with each limb of vp.                                                   *)
mpn_mul(up, vp) ==
  LET un == Len(up)
      f[k \in 1..Len(vp)] ==
        IF k = 1 THEN LET m == mpn_mul_1(up, vp[1]) IN Append(m.rp, m.cy)
        ELSE LET rp == f[k - 1]
                 m == mpn_addmul_1(SubSeq(rp, k, k + un - 1), up, vp[k])
             IN Append(Low(rp, k - 1) \o m.rp, m.cy)
  IN f[Len(vp)]
mpn_sqr(ap) == mpn_mul(ap, ap)

mpn_lshift(up, cnt) ==
  [rp |-> [i \in DOMAIN up |->
             Shl(up[i], cnt)
             + (IF i = 1 THEN 0 ELSE Shr(up[i - 1], LimbBits - cnt))],
   cy |-> Shr(up[Len(up)], LimbBits - cnt)]

mpn_rshift(up, cnt) ==
  [rp |-> [i \in DOMAIN up |->
             Shr(up[i], cnt)
             + (IF i = Len(up) THEN 0 ELSE Shl(up[i + 1], LimbBits - cnt))],
   cy |-> Shl(up[1], LimbBits - cnt)]

mpn_com(up) == [i \in DOMAIN up |-> Com(up[i])]

mpn_neg(up) ==
  LET n == CHOOSE i \in 0..Len(up) :
             /\ \A j \in 1..i : up[j] = 0
             /\ i < Len(up) => up[i + 1] # 0
  IN IF n = Len(up) THEN [rp |-> up, cy |-> 0]
     ELSE [rp |-> Append(Low(up, n), B - up[n + 1])
                    \o mpn_com(High(up, n + 1)), cy |-> 1]

(* The first bit at or after limb i, limb being what is left of limb i, in *)
(* up xor ux; NoBit when i reaches un.  Limbs count from 0 here.           *)
NoBit == -1
RECURSIVE mpn_common_scan(_, _, _, _, _)
mpn_common_scan(limb, i, up, un, ux) ==
  IF limb # 0 THEN i * LimbBits + gmp_ctz(limb)
  ELSE IF i + 1 = un THEN (IF ux = 0 THEN NoBit ELSE un * LimbBits)
  ELSE mpn_common_scan(IF ux = 0 THEN up[i + 2] ELSE Com(up[i + 2]),
                       i + 1, up, un, ux)

(* limb & (GMP_LIMB_MAX << n) *)
From(limb, n) == limb - (limb % 2^n)
mpn_scan1(ptr, bit) ==
  LET i == bit \div LimbBits
  IN mpn_common_scan(From(ptr[i + 1], bit % LimbBits), i, ptr, i, 0)
mpn_scan0(ptr, bit) ==
  LET i == bit \div LimbBits
  IN mpn_common_scan(From(Com(ptr[i + 1]), bit % LimbBits), i, ptr, i,
                     GMP_LIMB_MAX)
=============================================================================
