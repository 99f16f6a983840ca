------------------------------ MODULE MpzNumber ------------------------------
(***************************************************************************)
(* Greatest common divisors, inverses, powers and roots of ma/mini-gmp.c.  *)
(***************************************************************************)
EXTENDS MpzBits

Swap(p) == <<p[2], p[1]>>

RECURSIVE limb_odd(_)
limb_odd(v) == IF v % 2 = 0 THEN limb_odd(v \div 2) ELSE v

RECURSIVE gcd_odd(_, _)
gcd_odd(u, v) ==
  IF u = v THEN u
  ELSE IF u > v THEN gcd_odd(limb_odd(u - v), v) ELSE gcd_odd(u, limb_odd(v - u))

(* The smaller power of two of both is put aside; one of the rest is odd.  *)
mpn_gcd_11(u, v) ==
  LET shift == gmp_ctz(u | v)
      a == Shr(u, shift)
      b == Shr(v, shift)
  IN IF u = 0 THEN v ELSE IF v = 0 THEN u
     ELSE (IF a % 2 = 0 THEN gcd_odd(b, limb_odd(a)) ELSE gcd_odd(a, limb_odd(b)))
          * 2^shift

(* g is what is stored, v what is returned.                                *)
mpz_gcd_ui(u, v) ==
  IF v = 0 THEN [g |-> mpz_abs(u), v |-> v]
  ELSE LET w == IF u.d = <<>> THEN v ELSE mpn_gcd_11(mpn_div_qr_1(u.d, v).r, v)
       IN [g |-> mpz_set_ui(w), v |-> w]

(* r without its factors of two, and how many they were. *)
mpz_make_odd(r) ==
  LET shift == mpn_common_scan(r.d[1], 0, r.d, 0, 0)
  IN [r |-> mpz_div_q_2exp(r, shift, "trunc"), shift |-> shift]

RECURSIVE gcd_loop(_, _)
gcd_loop(u, tv) ==
  LET tu == mpz_make_odd(u).r
      c == mpz_cmp(tu, tv)
      a == IF c < 0 THEN tv ELSE tu
      b == IF c < 0 THEN tu ELSE tv
  IN IF c = 0 THEN tu
     ELSE IF Len(b.d) = 1
     THEN mpz_set_ui(mpn_gcd_11(mpz_div_qr_ui(a, b.d[1], "trunc").rl, b.d[1]))
     ELSE gcd_loop(mpz_sub(a, b), b)

mpz_gcd(u, v) ==
  LET mu == mpz_make_odd(mpz_abs(u))
      mv == mpz_make_odd(mpz_abs(v))
      gz == IF mu.shift < mv.shift THEN mu.shift ELSE mv.shift
      long == IF Len(mu.r.d) < Len(mv.r.d) THEN mv.r ELSE mu.r
      short == IF Len(mu.r.d) < Len(mv.r.d) THEN mu.r ELSE mv.r
      tu == mpz_tdiv_r(long, short)
  IN IF u.d = <<>> THEN mpz_abs(v) ELSE IF v.d = <<>> THEN mpz_abs(u)
     ELSE mpz_mul_2exp(IF tu.d = <<>> THEN short ELSE gcd_loop(tu, short), gz)

(* The loop of mpz_gcdext: x holds tu, tv, the cofactors and the power of  *)
(* two they still have to be divided by.                                   *)
RECURSIVE gcdext_loop(_)
gcdext_loop(x) ==
  LET c == mpz_cmp(x.tu, x.tv)
      m == mpz_make_odd(IF c < 0 THEN mpz_sub(x.tv, x.tu) ELSE mpz_sub(x.tu, x.tv))
      t == mpz_add(x.t0, x.t1)
      s == mpz_add(x.s0, x.s1)
  IN IF c = 0 THEN x
     ELSE IF c < 0
     THEN gcdext_loop([x EXCEPT !.tv = m.r, !.t0 = t, !.s0 = s,
                        !.t1 = mpz_mul_2exp(@, m.shift),
                        !.s1 = mpz_mul_2exp(@, m.shift), !.power = @ + m.shift])
     ELSE gcdext_loop([x EXCEPT !.tu = m.r, !.t1 = t, !.s1 = s,
                        !.t0 = mpz_mul_2exp(@, m.shift),
                        !.s0 = mpz_mul_2exp(@, m.shift), !.power = @ + m.shift])

mpz_odd_p(z) == z.d # <<>> /\ z.d[1] % 2 = 1

(* Mutant: the cofactor of v is not looked at.                              *)
RECURSIVE gcdext_halve_s(_, _, _)
gcdext_halve_s(p, ug, vg) ==
  LET odd == mpz_odd_p(p.s0)
      s == IF odd THEN mpz_sub(p.s0, vg) ELSE p.s0
      t == IF odd THEN mpz_add(p.t0, ug) ELSE p.t0
      half(z) == mpz_div_qr_ui(z, 2, "trunc").q
  IN IF p.power = 0 THEN p
     ELSE gcdext_halve_s([power |-> p.power - 1, s0 |-> half(s), t0 |-> half(t)],
                         ug, vg)

RECURSIVE gcdext_halve(_, _, _)
gcdext_halve(p, ug, vg) ==
  LET odd == mpz_odd_p(p.s0) \/ mpz_odd_p(p.t0)
      s == IF odd THEN mpz_sub(p.s0, vg) ELSE p.s0
      t == IF odd THEN mpz_add(p.t0, ug) ELSE p.t0
      half(z) == mpz_div_qr_ui(z, 2, "trunc").q
  IN IF p.power = 0 THEN p
     ELSE gcdext_halve([power |-> p.power - 1, s0 |-> half(s), t0 |-> half(t)],
                       ug, vg)

(* Two nonzero numbers, u not shorter than v once both are odd. *)
gcdext_ordered(u, v, mu, mv) ==
  LET gz == IF mu.shift < mv.shift THEN mu.shift ELSE mv.shift
      uz == mu.shift - gz
      vz == mv.shift - gz
      qr == mpz_div_qr(mu.r, mv.r, "trunc")
      m == mpz_make_odd(qr.r)
      x0 == [tu |-> qr.r, tv |-> mv.r, power |-> uz + vz,
             t0 |-> mpz_setbit(mpz_init, uz), t1 |-> mpz_mul_2exp(qr.q, uz),
             s0 |-> mpz_init, s1 |-> mpz_setbit(mpz_init, vz)]
      x == IF qr.r.d = <<>> THEN x0
           ELSE gcdext_loop([x0 EXCEPT !.tu = m.r, !.power = @ + m.shift,
                               !.t0 = mpz_mul_2exp(@, m.shift),
                               !.s0 = mpz_mul_2exp(@, m.shift)])
      g == mpz_mul_2exp(x.tv, gz)
      vg == mpz_abs(mpz_divexact(v, g))
      ug == mpz_abs(mpz_divexact(u, g))
      h == gcdext_halve([power |-> x.power, s0 |-> mpz_neg(x.s0), t0 |-> x.t0],
                        ug, vg)
      s1 == mpz_add(h.s0, vg)
      far == mpz_cmpabs(h.s0, s1) > 0
      s == IF far THEN s1 ELSE h.s0
      t == IF far THEN mpz_sub(h.t0, ug) ELSE h.t0
  IN [g |-> g, s |-> IF u.neg THEN mpz_neg(s) ELSE s,
      t |-> IF v.neg THEN mpz_neg(t) ELSE t]

mpz_gcdext(u, v) ==
  LET mu == mpz_make_odd(mpz_abs(u))
      mv == mpz_make_odd(mpz_abs(v))
      swapped == gcdext_ordered(v, u, mv, mu)
  IN CASE u.d = <<>> -> [g |-> mpz_abs(v), s |-> mpz_init,
                         t |-> mpz_set_si(mpz_sgn(v))]
       [] u.d # <<>> /\ v.d = <<>> -> [g |-> mpz_abs(u), t |-> mpz_init,
                                       s |-> mpz_set_si(mpz_sgn(u))]
       [] OTHER -> IF Len(mu.r.d) < Len(mv.r.d)
                   THEN [g |-> swapped.g, s |-> swapped.t, t |-> swapped.s]
                   ELSE gcdext_ordered(u, v, mu, mv)

mpz_lcm(u, v) ==
  IF u.d = <<>> \/ v.d = <<>> THEN mpz_init
  ELSE mpz_abs(mpz_mul(mpz_divexact(u, mpz_gcd(u, v)), v))
mpz_lcm_ui(u, v) ==
  IF u.d = <<>> \/ v = 0 THEN mpz_init
  ELSE mpz_abs(mpz_mul_ui(u, v \div mpz_gcd_ui(u, v).v))

(* Mutant: a negative cofactor is returned as it is.                       *)
mpz_invert_negative(u, m) ==
  LET x == mpz_gcdext(u, m)
      ok == u.d # <<>> /\ mpz_cmpabs_ui(m, 1) > 0 /\ mpz_cmp_ui(x.g, 1) = 0
  IN [ret |-> ok, r |-> x.s]

(* r is only written when there is an inverse.                             *)
mpz_invert(u, m) ==
  LET x == mpz_gcdext(u, m)
      ok == u.d # <<>> /\ mpz_cmpabs_ui(m, 1) > 0 /\ mpz_cmp_ui(x.g, 1) = 0
  IN [ret |-> ok,
      r |-> IF ~x.s.neg THEN x.s
            ELSE IF m.neg THEN mpz_sub(x.s, m) ELSE mpz_add(x.s, m)]

-----------------------------------------------------------------------------
(* Powers and roots *)

mpz_pow_ui(b, e) ==
  LET f[n \in 0..LimbBits] == \* the n highest bits of e
        IF n = 0 THEN mpz_set_ui(1)
        ELSE LET sq == mpz_mul(f[n - 1], f[n - 1])
             IN IF Shr(e, LimbBits - n) % 2 = 1 THEN mpz_mul(sq, b) ELSE sq
  IN f[LimbBits]

(* Every reduction but the last is by the normalised modulus, so that tr   *)
(* may stay above m, as long as it has no more limbs.                      *)
mpz_powm(b, e, m) ==
  LET mn == Len(m.d)
      minv == mpn_div_qr_invert(m.d)
      mp == Shifted(m.d, minv.shift).rp
      Reduce(tp, shift) ==
        Normalized(mpn_div_qr_preinv(tp, mp, [minv EXCEPT !.shift = shift]).rp)
      ab == mpz_abs(b).d
      reduced == IF Len(ab) >= mn
                 THEN mpn_div_qr_preinv(ab, mp, [minv EXCEPT !.shift = 0]).rp
                 ELSE ab
      base == IF e.neg THEN mpz_invert(b, m).r
              ELSE mpz_limbs_finish(IF b.neg THEN mpn_sub(mp, reduced).rp
                                    ELSE reduced, FALSE)
      bits == Len(e.d) * LimbBits
      Set(n) == Shr(e.d[n \div LimbBits + 1], n % LimbBits) % 2 = 1
      f[n \in 0..bits] == \* the n highest bits of e
        IF n = 0 THEN mpz_set_ui(1)
        ELSE LET sq == mpz_mul(f[n - 1], f[n - 1])
                 p == IF Set(bits - n) THEN mpz_mul(sq, base) ELSE sq
             IN IF Len(p.d) > mn THEN Mpz(FALSE, Reduce(p.d, 0)) ELSE p
      tr == f[bits]
  IN IF e.d = <<>> THEN mpz_set_ui(1)
     ELSE IF Len(tr.d) >= mn THEN Mpz(FALSE, Reduce(tr.d, minv.shift)) ELSE tr

(* Mutant: the first guess is a power of two too small.                    *)
root_guess_low(y, z) == mpz_setbit(mpz_init, mpz_sizeinbase(y, 2) \div z)

root_guess(y, z) == mpz_setbit(mpz_init, mpz_sizeinbase(y, 2) \div z + 1)

(* Newton's iteration, as long as the absolute value falls. *)
RECURSIVE root_loop(_, _, _)
root_loop(u, y, z) ==
  LET t == IF z = 2
           THEN mpz_div_q_2exp(mpz_add(mpz_tdiv_q(y, u), u), 1, "trunc")
           ELSE mpz_div_qr_ui(mpz_add(mpz_tdiv_q(y, mpz_pow_ui(u, z - 1)),
                                      mpz_mul_ui(u, z - 1)), z, "trunc").q
  IN IF mpz_cmpabs(t, u) < 0 THEN root_loop(t, y, z) ELSE u

mpz_rootrem(y, z) ==
  LET t == root_guess(y, z)
      x == root_loop(IF y.neg THEN mpz_neg(t) ELSE t, y, z)
  IN IF mpz_cmpabs_ui(y, 1) <= 0 THEN [x |-> y, r |-> mpz_init]
     ELSE [x |-> x, r |-> mpz_sub(y, mpz_pow_ui(x, z))]
mpz_root(y, z) == mpz_rootrem(y, z).r.d = <<>>
mpz_perfect_square_p(u) == IF mpz_sgn(u) <= 0 THEN u.d = <<>> ELSE mpz_root(u, 2)

mpz_fac_ui(n) ==
  LET f[k \in 2..n] == IF k = n THEN mpz_set_ui(n) ELSE mpz_mul_ui(f[k + 1], k)
  IN IF n <= 2 THEN mpz_set_ui(n + Bit(n = 0)) ELSE f[2]

mpz_bin_uiui(n, k) ==
  LET j == IF k <= n \div 2 THEN k ELSE IF k <= n THEN n - k ELSE 0
      f[i \in 0..j] == IF i = 0 THEN mpz_set_ui(Bit(k <= n))
                       ELSE mpz_mul_ui(f[i - 1], n + 1 - i)
  IN mpz_divexact(f[j], mpz_fac_ui(j))
=============================================================================
