--------------------------------- MODULE Mpz ---------------------------------
(***************************************************************************)
(* The integers of ma/mini-gmp.c: assignment, comparison, sums, products   *)
(* and quotients.  An mpz_t is [neg, d]: d are its limbs, |_mp_size| of    *)
(* them, and neg tells that _mp_size is negative.  What a function writes  *)
(* to its result arguments is what its operator returns; operands may      *)
(* share memory with results, which values cannot show.  unsigned long is  *)
(* as wide as a limb.  Sizes of allocations are left out.                  *)
(***************************************************************************)
EXTENDS MpnDiv

Mpz(neg, d) == [neg |-> neg /\ d # <<>>, d |-> d]
mpz_init == Mpz(FALSE, <<>>)
SizeOf(u) == IF u.neg THEN -Len(u.d) ELSE Len(u.d)
Cmp(a, b) == IF a > b THEN 1 ELSE IF a < b THEN -1 ELSE 0

mpz_set_ui(x) == Mpz(FALSE, IF x > 0 THEN <<x>> ELSE <<>>)
(* GMP_NEG_CAST: the limb of -x, for a signed long x < 0. *)
mpz_set_si(x) == IF x >= 0 THEN mpz_set_ui(x) ELSE Mpz(TRUE, <<(-x) % B>>)
mpz_get_ui(u) == IF u.d = <<>> THEN 0 ELSE u.d[1]
mpz_get_si(u) ==
  IF u.neg THEN -1 - ((u.d[1] - 1) % GMP_LIMB_HIGHBIT)
  ELSE mpz_get_ui(u) % GMP_LIMB_HIGHBIT
mpz_fits_slong_p(u) ==
  CASE SizeOf(u) = 1 -> u.d[1] < GMP_LIMB_HIGHBIT
    [] SizeOf(u) = -1 -> u.d[1] <= GMP_LIMB_HIGHBIT
    [] OTHER -> SizeOf(u) = 0
mpz_fits_ulong_p(u) == SizeOf(u) \in {0, 1}
mpz_getlimbn(u, n) == IF n \in 0..Len(u.d) - 1 THEN u.d[n + 1] ELSE 0
mpz_limbs_finish(xp, neg) == Mpz(neg, Normalized(xp))

mpz_sgn(u) == Cmp(SizeOf(u), 0)
mpz_cmp_ui(u, v) ==
  IF SizeOf(u) > 1 THEN 1 ELSE IF u.neg THEN -1 ELSE Cmp(mpz_get_ui(u), v)
mpz_cmp_si(u, v) ==
  IF SizeOf(u) < -1 THEN -1
  ELSE IF v >= 0 THEN mpz_cmp_ui(u, v)
  ELSE IF ~u.neg THEN 1 ELSE Cmp((-v) % B, u.d[1])
mpz_cmp(a, b) ==
  IF SizeOf(a) # SizeOf(b) THEN Cmp(SizeOf(a), SizeOf(b))
  ELSE IF a.neg THEN mpn_cmp(b.d, a.d) ELSE mpn_cmp(a.d, b.d)
mpz_cmpabs_ui(u, v) == IF Len(u.d) > 1 THEN 1 ELSE Cmp(mpz_get_ui(u), v)
mpz_cmpabs(u, v) == mpn_cmp4(u.d, v.d)
mpz_abs(u) == Mpz(FALSE, u.d)
mpz_neg(u) == Mpz(~u.neg, u.d)

-----------------------------------------------------------------------------
(* Sums.  The mpz_abs functions return a size, negative when the second    *)
(* operand was the larger: here [neg, d].                                  *)

(* rp with its carry limb, if it has one. *)
Grown(r) == IF r.cy > 0 THEN Append(r.rp, r.cy) ELSE r.rp

mpz_abs_add_ui(a, b) ==
  IF a.d = <<>> THEN mpz_set_ui(b) ELSE Mpz(FALSE, Grown(mpn_add_1(a.d, b)))
mpz_abs_sub_ui(a, b) ==
  CASE a.d = <<>> -> mpz_neg(mpz_set_ui(b))
    [] Len(a.d) = 1 /\ a.d[1] < b -> Mpz(TRUE, <<b - a.d[1]>>)
    [] OTHER -> Mpz(FALSE, Normalized(mpn_sub_1(a.d, b).rp))
mpz_add_ui(a, b) ==
  IF a.neg THEN mpz_neg(mpz_abs_sub_ui(a, b)) ELSE mpz_abs_add_ui(a, b)
mpz_sub_ui(a, b) ==
  IF a.neg THEN mpz_neg(mpz_abs_add_ui(a, b)) ELSE mpz_abs_sub_ui(a, b)
mpz_ui_sub(a, b) ==
  IF b.neg THEN mpz_abs_add_ui(b, a) ELSE mpz_neg(mpz_abs_sub_ui(b, a))

mpz_abs_add(a, b) ==
  Mpz(FALSE, Grown(IF Len(a.d) < Len(b.d) THEN mpn_add(b.d, a.d)
                   ELSE mpn_add(a.d, b.d)))

(* Mutant: the difference keeps the limbs of the larger operand.           *)
mpz_abs_sub_long(a, b) ==
  LET cmp == mpn_cmp4(a.d, b.d)
  IN CASE cmp > 0 -> Mpz(FALSE, mpn_sub(a.d, b.d).rp)
       [] cmp < 0 -> Mpz(TRUE, mpn_sub(b.d, a.d).rp)
       [] OTHER -> mpz_init

mpz_abs_sub(a, b) ==
  LET cmp == mpn_cmp4(a.d, b.d)
  IN CASE cmp > 0 -> Mpz(FALSE, Normalized(mpn_sub(a.d, b.d).rp))
       [] cmp < 0 -> Mpz(TRUE, Normalized(mpn_sub(b.d, a.d).rp))
       [] OTHER -> mpz_init

mpz_add(a, b) ==
  LET r == IF a.neg = b.neg THEN mpz_abs_add(a, b) ELSE mpz_abs_sub(a, b)
  IN IF a.neg THEN mpz_neg(r) ELSE r
mpz_sub(a, b) ==
  LET r == IF a.neg = b.neg THEN mpz_abs_sub(a, b) ELSE mpz_abs_add(a, b)
  IN IF a.neg THEN mpz_neg(r) ELSE r

-----------------------------------------------------------------------------
(* Products *)

mpz_mul_ui(u, v) ==
  IF u.d = <<>> \/ v = 0 THEN mpz_init ELSE Mpz(u.neg, Grown(mpn_mul_1(u.d, v)))
mpz_mul_si(u, v) ==
  IF v < 0 THEN mpz_neg(mpz_mul_ui(u, (-v) % B)) ELSE mpz_mul_ui(u, v)

mpz_mul(u, v) ==
  LET tp == IF Len(u.d) >= Len(v.d) THEN mpn_mul(u.d, v.d) ELSE mpn_mul(v.d, u.d)
      rn == Len(tp) - Bit(tp[Len(tp)] = 0)
  IN IF u.d = <<>> \/ v.d = <<>> THEN mpz_init
     ELSE Mpz(u.neg # v.neg, Low(tp, rn))

mpz_mul_2exp(u, bits) ==
  LET shift == bits % LimbBits
      zeros == Zeros(bits \div LimbBits)
  IN IF u.d = <<>> THEN mpz_init
     ELSE Mpz(u.neg, zeros \o IF shift > 0 THEN Grown(mpn_lshift(u.d, shift))
                              ELSE u.d)

mpz_addmul(r, u, v) == mpz_add(r, mpz_mul(u, v))
mpz_submul(r, u, v) == mpz_sub(r, mpz_mul(u, v))
mpz_addmul_ui(r, u, v) == mpz_add(r, mpz_mul_ui(u, v))
mpz_submul_ui(r, u, v) == mpz_sub(r, mpz_mul_ui(u, v))

-----------------------------------------------------------------------------
(* Quotients; mode is "floor", "ceil" or "trunc".  nz tells whether there  *)
(* is a remainder.                                                         *)

(* Mutant: a divisor that is longer than the dividend always gives the     *)
(* n has fewer limbs than d. *)
div_short(n, d, mode) ==
  CASE mode = "ceil" /\ n.neg = d.neg ->
         [q |-> mpz_set_ui(1), r |-> mpz_sub(n, d), nz |-> TRUE]
    [] mode = "floor" /\ n.neg # d.neg ->
         [q |-> mpz_set_si(-1), r |-> mpz_add(n, d), nz |-> TRUE]
    [] OTHER -> [q |-> mpz_init, r |-> n, nz |-> TRUE]

mpz_div_qr(n, d, mode) ==
  LET x == mpn_div_qr(n.d, d.d)
      qn == Len(x.qp) - Bit(x.qp[Len(x.qp)] = 0)
      tq == Mpz(n.neg # d.neg, Low(x.qp, qn))
      tr == Mpz(n.neg, Normalized(x.rp))
      nz == tr.d # <<>>
  IN IF n.d = <<>> THEN [q |-> mpz_init, r |-> mpz_init, nz |-> FALSE]
     ELSE IF Len(n.d) < Len(d.d) THEN div_short(n, d, mode)
     ELSE CASE mode = "floor" /\ n.neg # d.neg /\ nz ->
                 [q |-> mpz_sub_ui(tq, 1), r |-> mpz_add(tr, d), nz |-> nz]
            [] mode = "ceil" /\ n.neg = d.neg /\ nz ->
                 [q |-> mpz_add_ui(tq, 1), r |-> mpz_sub(tr, d), nz |-> nz]
            [] OTHER -> [q |-> tq, r |-> tr, nz |-> nz]

mpz_mod(n, d) == mpz_div_qr(n, d, IF d.neg THEN "ceil" ELSE "floor").r
mpz_tdiv_r(n, d) == mpz_div_qr(n, d, "trunc").r
mpz_tdiv_q(n, d) == mpz_div_qr(n, d, "trunc").q
mpz_divexact(n, d) == mpz_tdiv_q(n, d)
mpz_divisible_p(n, d) == ~mpz_div_qr(n, d, "trunc").nz
mpz_congruent_p(a, b, m) ==
  IF mpz_sgn(m) = 0 THEN mpz_cmp(a, b) = 0 ELSE mpz_divisible_p(mpz_sub(a, b), m)

(* The direction in which |u| is rounded up. *)
AwayMode(u) == IF u.neg THEN "floor" ELSE "ceil"

(* Mutant: the limbs below the quotient are not looked at.                 *)
mpz_div_q_2exp_top(u, bits, mode) ==
  LET cnt == bits \div LimbBits
      qn == Len(u.d) - cnt
      low == bits % LimbBits
      adjust == /\ mode = AwayMode(u)
                /\ \/ qn <= 0
                   \/ u.d[cnt + 1] % 2^low # 0
      qp == IF qn <= 0 THEN <<>>
            ELSE IF low > 0 THEN Normalized(mpn_rshift(High(u.d, cnt), low).rp)
            ELSE High(u.d, cnt)
      q == mpz_add_ui(Mpz(FALSE, qp), Bit(adjust))
  IN IF u.d = <<>> THEN mpz_init ELSE IF u.neg THEN mpz_neg(q) ELSE q

mpz_div_q_2exp(u, bits, mode) ==
  LET cnt == bits \div LimbBits
      qn == Len(u.d) - cnt
      low == bits % LimbBits
      adjust == /\ mode = AwayMode(u)
                /\ \/ qn <= 0
                   \/ ~mpn_zero_p(Low(u.d, cnt))
                   \/ u.d[cnt + 1] % 2^low # 0
      qp == IF qn <= 0 THEN <<>>
            ELSE IF low > 0
            THEN LET s == mpn_rshift(High(u.d, cnt), low).rp
                 IN Low(s, qn - Bit(s[qn] = 0))
            ELSE High(u.d, cnt)
      q == IF adjust THEN mpz_add_ui(Mpz(FALSE, qp), 1) ELSE Mpz(FALSE, qp)
  IN IF u.d = <<>> THEN mpz_init ELSE IF u.neg THEN mpz_neg(q) ELSE q

mpz_div_r_2exp(u, bits, mode) ==
  LET rn == (bits + LimbBits - 1) \div LimbBits
      un == Len(u.d)
      mask == 2^(bits - (rn - 1) * LimbBits)     \* of the top limb, plus one
      away == mode = AwayMode(u)
      extended == mpn_neg(u.d).rp
                    \o [i \in 1..rn - un |-> IF i < rn - un THEN GMP_LIMB_MAX
                                             ELSE mask - 1]
      cut == [Low(u.d, rn) EXCEPT ![rn] = @ % mask]
      negated == [mpn_neg(cut).rp EXCEPT ![rn] = @ % mask]
  IN IF u.d = <<>> \/ bits = 0 THEN mpz_init
     ELSE mpz_limbs_finish(IF rn > un THEN (IF away THEN extended ELSE u.d)
                           ELSE IF away THEN negated ELSE cut,
                           u.neg # away)

(* The remainder is the returned unsigned long, r what is stored. *)
mpz_div_qr_ui(n, d, mode) ==
  LET x == mpn_div_qr_1(n.d, d)
      away == x.r > 0 /\ mode = AwayMode(n)
      qp == IF away THEN mpn_add_1(x.qp, 1).rp ELSE x.qp
      rl == IF away THEN d - x.r ELSE x.r
      qn == Len(qp) - Bit(qp[Len(qp)] = 0)
  IN IF n.d = <<>> THEN [q |-> mpz_init, r |-> mpz_init, rl |-> 0]
     ELSE [q |-> Mpz(n.neg, Low(qp, qn)),
           r |-> IF rl = 0 THEN mpz_init ELSE Mpz(n.neg # away, <<rl>>),
           rl |-> rl]
=============================================================================
