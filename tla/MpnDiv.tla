-------------------------------- MODULE MpnDiv --------------------------------
(***************************************************************************)
(* Division by precomputed inverses and base conversion of                 *)
(* ma/mini-gmp.c.  Digits are sequences, most significant first.           *)
(***************************************************************************)
EXTENDS Mpn, Bitwise

(* floor((B^3 - 1) / (B u1 + u0)) - B, from half limbs.                    *)
mpn_invert_3by2(u1, u0) ==
  LET ul == u1 % GMP_HLIMB_BIT
      uh == u1 \div GMP_HLIMB_BIT
      q0 == Com(u1) \div uh
      r0 == (((Com(u1) - q0 * uh) * GMP_HLIMB_BIT) % B) + GMP_HLIMB_BIT - 1
      p0 == (q0 * ul) % B
      r1 == (r0 + u1) % B
      low1 == r0 < p0
      low2 == low1 /\ r1 >= u1 /\ r1 < p0
      qh == q0 - Bit(low1) - Bit(low2)
      r2 == ((IF low2 THEN r1 + u1 ELSE IF low1 THEN r1 ELSE r0) - p0) % B
      p1 == ((r2 \div GMP_HLIMB_BIT) * qh + r2) % B
      q1 == p1 \div GMP_HLIMB_BIT + 1
      r3 == (r2 * GMP_HLIMB_BIT + GMP_HLIMB_BIT - 1 - q1 * u1) % B
      high == r3 >= (p1 * GMP_HLIMB_BIT) % B
      ql == q1 - Bit(high)
      r4 == IF high THEN (r3 + u1) % B ELSE r3
      m0 == (qh * GMP_HLIMB_BIT + ql + Bit(r4 >= u1)) % B
      r5 == IF r4 >= u1 THEN r4 - u1 ELSE r4
      \* the inverse of u1 alone; what follows adjusts it for u0
      r6 == (Com(r5) + u0) % B
      under == r6 < u0
      m1 == m0 - (IF under THEN 1 + Bit(r6 >= u1) ELSE 0)
      r7 == IF under THEN (r6 - u1 - (IF r6 >= u1 THEN u1 ELSE 0)) % B ELSE r6
      t == gmp_umul_ppmm(u0, m1 % B)
      r8 == (r7 + t.hi) % B
  IN IF u0 = 0 THEN m0
     ELSE IF r8 < t.hi
          THEN (m1 - 1 - Bit(r8 > u1 \/ (r8 = u1 /\ t.lo > u0))) % B
          ELSE m1 % B

mpn_invert_limb(d) == mpn_invert_3by2(d, 0)

(* struct gmp_div_inverse *)
mpn_div_qr_1_invert(d) ==
  LET shift == gmp_clz(d)
  IN [shift |-> shift, d1 |-> Shl(d, shift), d0 |-> 0,
      di |-> mpn_invert_limb(Shl(d, shift))]

(* The two leading limbs of dp, shifted up with what follows them. *)
Leading(dp, shift) ==
  LET dn == Len(dp)
      next(i) == IF i >= 1 THEN Shr(dp[i], LimbBits - shift) ELSE 0
  IN [shift |-> shift,
      d1 |-> Shl(dp[dn], shift) + next(dn - 1),
      d0 |-> Shl(dp[dn - 1], shift) + next(dn - 2)]

mpn_div_qr_invert(dp) ==
  IF Len(dp) = 1 THEN mpn_div_qr_1_invert(dp[1])
  ELSE LET l == Leading(dp, gmp_clz(dp[Len(dp)]))
       IN [shift |-> l.shift, d1 |-> l.d1, d0 |-> l.d0,
           di |-> mpn_invert_3by2(l.d1, l.d0)]

Shifted(np, shift) ==
  IF shift > 0 THEN mpn_lshift(np, shift) ELSE [rp |-> np, cy |-> 0]

mpn_div_qr_1_preinv(np, inv) ==
  LET s == Shifted(np, inv.shift)
      Turn(i, r) == LET x == gmp_udiv_qrnnd_preinv(r, s.rp[i], inv.d1, inv.di)
                    IN [l |-> x.q, c |-> x.r]
      qr == CarryDown(Turn, Len(np), s.cy)
  IN [qp |-> qr.rp, r |-> Shr(qr.cy, inv.shift)]

mpn_div_qr_1(np, d) ==
  IF 2^gmp_ctz(d) = d
  THEN [qp |-> IF d = 1 THEN np ELSE mpn_rshift(np, gmp_ctz(d)).rp,
        r |-> np[1] % d]
  ELSE mpn_div_qr_1_preinv(np, mpn_div_qr_1_invert(d))

mpn_div_qr_2_preinv(np, inv) ==
  LET nn == Len(np)
      s == Shifted(np, inv.shift)
      Turn(i, r) == LET x == gmp_udiv_qr_3by2(r, s.rp[i], <<inv.d1, inv.d0>>, inv.di)
                    IN [l |-> x.q, c |-> x.r]
      qr == CarryDown(Turn, nn - 1, <<s.cy, s.rp[nn]>>)
      r1 == qr.cy[1]
      r0 == qr.cy[2]
  IN [qp |-> qr.rp,
      rp |-> IF inv.shift = 0 THEN <<r0, r1>>
             ELSE <<Shr(r0, inv.shift) + Shl(r1, LimbBits - inv.shift),
                    Shr(r1, inv.shift)>>]

(* Mutant: the remainder is not corrected when the estimate was too high.  *)
pi1_turn_uncorrected(np, n1, dp, i, dinv) ==
  LET dn == Len(dp)
      x == gmp_udiv_qr_3by2(<<n1, np[dn + i]>>, np[dn + i - 1],
                            <<dp[dn], dp[dn - 1]>>, dinv)
      sub == mpn_submul_1(SubSeq(np, i + 1, i + dn - 2), Low(dp, dn - 2), x.q)
      lo == Low(np, i) \o sub.rp \o <<(x.r[2] - sub.cy) % B>> \o High(np, i + dn - 1)
  IN [np |-> lo, n1 |-> (x.r[1] - Bit(x.r[2] < sub.cy)) % B, q |-> x.q]

(* One turn of mpn_div_qr_pi1: limb i of the quotient, and the window of   *)
(* np above limb i less that multiple of dp; its top limb moves to n1.     *)
pi1_turn(np, n1, dp, i, dinv) ==
  LET dn == Len(dp)
      n0 == np[dn + i]
      x == gmp_udiv_qr_3by2(<<n1, n0>>, np[dn + i - 1], <<dp[dn], dp[dn - 1]>>,
                            dinv)
      all == mpn_submul_1(SubSeq(np, i + 1, i + dn), dp, GMP_LIMB_MAX)
      sub == mpn_submul_1(SubSeq(np, i + 1, i + dn - 2), Low(dp, dn - 2), x.q)
      cy1 == Bit(x.r[2] < sub.cy)
      m0 == Append(sub.rp, (x.r[2] - sub.cy) % B)
      m1 == (x.r[1] - cy1) % B
      back == mpn_add_n(m0, Low(dp, dn - 1))
      top == High(np, i + dn - 1)
  IN IF n1 = dp[dn] /\ n0 = dp[dn - 1]
     THEN [np |-> Low(np, i) \o all.rp \o High(np, i + dn), n1 |-> all.rp[dn],
           q |-> GMP_LIMB_MAX]
     ELSE IF x.r[1] >= cy1
          THEN [np |-> Low(np, i) \o m0 \o top, n1 |-> m1, q |-> x.q]
          ELSE [np |-> Low(np, i) \o back.rp \o top,
                n1 |-> (m1 + dp[dn] + back.cy) % B, q |-> (x.q - 1) % B]

mpn_div_qr_pi1(np, n1, dp, dinv) ==
  LET dn == Len(dp)
      f[i \in 0..Len(np) - dn + 1] ==
        IF i = Len(np) - dn + 1 THEN [np |-> np, n1 |-> n1, qp |-> <<>>]
        ELSE LET s == f[i + 1]
                 t == pi1_turn(s.np, s.n1, dp, i, dinv)
             IN [np |-> t.np, n1 |-> t.n1, qp |-> <<t.q>> \o s.qp]
  IN [qp |-> f[0].qp, rp |-> Append(Low(f[0].np, dn - 1), f[0].n1)]

(* dp is normalised when it has more than two limbs. *)
mpn_div_qr_preinv(np, dp, inv) ==
  IF Len(dp) = 1
  THEN LET x == mpn_div_qr_1_preinv(np, inv) IN [qp |-> x.qp, rp |-> <<x.r>>]
  ELSE IF Len(dp) = 2 THEN mpn_div_qr_2_preinv(np, inv)
  ELSE LET s == Shifted(np, inv.shift)
           x == mpn_div_qr_pi1(s.rp, s.cy, dp, inv.di)
       IN [qp |-> x.qp,
           rp |-> IF inv.shift > 0 THEN mpn_rshift(x.rp, inv.shift).rp ELSE x.rp]

mpn_div_qr(np, dp) ==
  LET inv == mpn_div_qr_invert(dp)
  IN mpn_div_qr_preinv(np, IF Len(dp) > 2 THEN Shifted(dp, inv.shift).rp ELSE dp,
                       inv)

-----------------------------------------------------------------------------
(* Base conversion *)

mpn_base_power_of_two_p(b) ==
  IF \E n \in 1..8 : b = 2^n THEN CHOOSE n \in 1..8 : b = 2^n ELSE 0

(* bb is the largest power of the base that fits in one limb. *)
mpn_get_base_info(b) ==
  LET n == CHOOSE n \in 1..LimbBits : b^n <= GMP_LIMB_MAX
                                      /\ b^n > GMP_LIMB_MAX \div b
  IN [exp |-> n, bb |-> b^n]

mpn_get_str_bits(bits, up) ==
  LET un == Len(up)
      sn == ((un - 1) * LimbBits + mpn_limb_size_in_base_2(up[un]) + bits - 1)
            \div bits
      f[j \in 0..sn] ==
        IF j = 0 THEN [i |-> 1, shift |-> 0, sp |-> <<>>]
        ELSE LET s == f[j - 1]
                 wrap == s.shift + bits >= LimbBits
                 spill == wrap /\ s.i + 1 <= un
                 shift == s.shift + bits - (IF spill THEN LimbBits ELSE 0)
                 low == Shr(up[s.i], s.shift)
                 digit == IF spill THEN low | (up[s.i + 1] * 2^(bits - shift))
                          ELSE low
             IN [i |-> IF wrap THEN s.i + 1 ELSE s.i, shift |-> shift,
                 sp |-> <<digit % 2^bits>> \o s.sp]
  IN f[sn].sp

(* Digits of one limb, least significant first. *)
RECURSIVE mpn_limb_get_str(_, _)
mpn_limb_get_str(w, binv) ==
  LET x == gmp_udiv_qrnnd_preinv(Shr(w, LimbBits - binv.shift),
                                 Shl(w, binv.shift), binv.d1, binv.di)
  IN IF w = 0 THEN <<>>
     ELSE <<Shr(x.r, binv.shift)>> \o mpn_limb_get_str(x.q, binv)

(* Mutant: the zeros a chunk begins with are not written.                  *)
RECURSIVE get_str_chunks_short(_, _, _, _)
get_str_chunks_short(up, info, binv, bbinv) ==
  LET x == mpn_div_qr_1_preinv(up, bbinv)
      rest == IF x.qp[Len(up)] = 0 THEN Low(x.qp, Len(up) - 1) ELSE x.qp
  IN IF Len(up) = 1 THEN mpn_limb_get_str(up[1], binv)
     ELSE mpn_limb_get_str(x.r, binv) \o get_str_chunks_short(rest, info, binv, bbinv)

(* A chunk of info.exp digits for each division by bb, least significant   *)
(* digit first.                                                            *)
RECURSIVE get_str_chunks(_, _, _, _)
get_str_chunks(up, info, binv, bbinv) ==
  LET x == mpn_div_qr_1_preinv(up, bbinv)
      rest == IF x.qp[Len(up)] = 0 THEN Low(x.qp, Len(up) - 1) ELSE x.qp
      digits == mpn_limb_get_str(x.r, binv)
  IN IF Len(up) = 1 THEN mpn_limb_get_str(up[1], binv)
     ELSE digits \o Zeros(info.exp - Len(digits))
            \o get_str_chunks(rest, info, binv, bbinv)

mpn_get_str_other(base, info, up) ==
  LET sp == get_str_chunks(up, info, mpn_div_qr_1_invert(base),
                           mpn_div_qr_1_invert(info.bb))
  IN [i \in DOMAIN sp |-> sp[Len(sp) + 1 - i]]

mpn_get_str(base, up) ==
  LET bits == mpn_base_power_of_two_p(base)
  IN IF bits > 0 THEN mpn_get_str_bits(bits, up)
     ELSE mpn_get_str_other(base, mpn_get_base_info(base), up)

mpn_set_str_bits(sp, bits) ==
  LET sn == Len(sp)
      f[j \in 0..sn] ==
        IF j = 0 THEN [rp |-> <<>>, shift |-> 0]
        ELSE LET s == f[j - 1]
                 digit == sp[sn + 1 - j]
                 rn == Len(s.rp)
                 shift == s.shift + bits
             IN IF s.shift = 0 THEN [rp |-> Append(s.rp, digit), shift |-> shift]
                ELSE LET rp == [s.rp EXCEPT ![rn] = @ | Shl(digit, s.shift)]
                         over == shift - LimbBits
                     IN [rp |-> IF over > 0 THEN Append(rp, Shr(digit, bits - over))
                                ELSE rp,
                         shift |-> IF over >= 0 THEN over ELSE shift]
  IN Normalized(f[sn].rp)

(* Chunks of info.exp digits, the first one shorter, each multiplied in. *)
mpn_set_str_other(sp, b, info) ==
  LET sn == Len(sp)
      first == 1 + ((sn - 1) % info.exp)
      w[j \in 0..sn] == \* the digits from the start of its chunk to j
        IF j = 0 THEN 0
        ELSE IF j > first /\ (j - first) % info.exp = 1 % info.exp THEN sp[j]
        ELSE (w[j - 1] * b + sp[j]) % B
      f[k \in 0..(sn - first) \div info.exp] ==
        IF k = 0 THEN <<w[first]>>
        ELSE LET m == mpn_mul_1(f[k - 1], info.bb)
                 a == mpn_add_1(m.rp, w[first + k * info.exp])
                 cy == m.cy + a.cy
             IN IF cy > 0 THEN Append(a.rp, cy) ELSE a.rp
  IN f[(sn - first) \div info.exp]

mpn_set_str(sp, base) ==
  LET bits == mpn_base_power_of_two_p(base)
  IN IF sp = <<>> THEN <<>>
     ELSE IF bits > 0 THEN mpn_set_str_bits(sp, bits)
     ELSE mpn_set_str_other(sp, base, mpn_get_base_info(base))
=============================================================================
