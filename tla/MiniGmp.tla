------------------------------- MODULE MiniGmp -------------------------------
(***************************************************************************)
(* ma/mini-gmp.c against the integers: a behaviour takes two operands, and *)
(* the invariants compare what each function computes from their limbs     *)
(* with what it should be.  The operands are limbs at the edges of their   *)
(* range, where carries, borrows and quotient estimates go wrong.          *)
(***************************************************************************)
EXTENDS MpzNumber, Calls, TLC

CONSTANTS
  Edges,      \* limbs the operands are made of
  MaxLimbs,   \* bound on the limbs of a first operand
  Exponents   \* exponents, roots and shift counts

ASSUME EdgeAssumption == Edges \subseteq 0..GMP_LIMB_MAX /\ Exponents \subseteq Nat

Limbs(n) == UNION {[1..k -> Edges] : k \in 1..n}
Normal(n) == {s \in Limbs(n) : s[Len(s)] # 0}
Integers(n) == {mpz_init} \cup {Mpz(neg, s) : neg \in BOOLEAN, s \in Normal(n)}

NumberCalled == \/ Called("mpn", Limbs(MaxLimbs))
                \/ Called("mpz", Integers(MaxLimbs - 1))

NumberGiven == \/ Given("mpn", {s \in Normal(MaxLimbs - 1) : Len(s) <= Len(a)})
               \/ Given("mpz", Integers(MaxLimbs - 1))

-----------------------------------------------------------------------------
(* Reference *)

Value(s) ==
  LET f[i \in 0..Len(s)] == IF i = 0 THEN 0 ELSE f[i - 1] + s[i] * B^(i - 1)
  IN f[Len(s)]
IntOf(z) == IF z.neg THEN -Value(z.d) ELSE Value(z.d)
(* The value of a function is v and has no leading zero limb. *)
Is(z, v) == /\ IntOf(z) = v
            /\ z.d = Normalized(z.d)
            /\ z.d = <<>> => ~z.neg

Abs(x) == IF x < 0 THEN -x ELSE x
RECURSIVE Euclid(_, _)
Euclid(u, v) == IF v = 0 THEN u ELSE Euclid(v, u % v)
IsGcd(g, u, v) == g = Euclid(Abs(u), Abs(v))
BitOf(u, i) == (u \div 2^i) % 2 = 1      \* \div rounds down: two's complement
Modes == {"floor", "ceil", "trunc"}
(* q and r are quotient and remainder of n and d as the mode rounds. *)
Rounded(n, d, mode, q, r) ==
  /\ n = q * d + r
  /\ Abs(r) < Abs(d)
  /\ r # 0 => CASE mode = "floor" -> (r < 0) = (d < 0)
                [] mode = "ceil" -> (r < 0) # (d < 0)
                [] mode = "trunc" -> (r < 0) = (n < 0)

x == IntOf(a)
y == IntOf(b)

-----------------------------------------------------------------------------
(* What is expected of the functions, one group of them at a time *)

(* The schoolbook product with half-limb multiplications, and sums and     *)
(* differences with carries across all limbs, are exact (mpn_mul, mpn_add, *)
(* mpn_sub and what they call).                                            *)
LimbProducts ==
  /\ Value(mpn_mul(a, b)) = Value(a) * Value(b)
  /\ LET s == mpn_add(a, b)
     IN Value(s.rp) + s.cy * B^Len(a) = Value(a) + Value(b)
  /\ LET s == mpn_sub(a, b)
     IN Value(s.rp) - s.cy * B^Len(a) = Value(a) - Value(b)

(* Quotient limbs are estimated from two limbs and an approximate inverse  *)
(* and corrected at most twice; whatever the limbs below, mpn_div_qr       *)
(* leaves the quotient and a remainder below the divisor.                  *)
LimbQuotients ==
  LET qr == mpn_div_qr(a, b)
  IN /\ Value(a) = Value(qr.qp) * Value(b) + Value(qr.rp)
     /\ Value(qr.rp) < Value(b)

(* mpz_add, mpz_sub, mpz_mul and their unsigned-long forms give the sum,   *)
(* difference and product, normalised, for every combination of signs.     *)
SumsAndProducts ==
  /\ Is(mpz_add(a, b), x + y)
  /\ Is(mpz_sub(a, b), x - y)
  /\ Is(mpz_mul(a, b), x * y)
  /\ mpz_cmp(a, b) = Cmp(x, y)
  /\ mpz_cmpabs(a, b) = Cmp(Abs(x), Abs(y))
  /\ LET u == mpz_get_ui(b)
     IN /\ Is(mpz_add_ui(a, u), x + u)
        /\ Is(mpz_sub_ui(a, u), x - u)
        /\ Is(mpz_ui_sub(u, a), u - x)
        /\ Is(mpz_addmul_ui(a, b, u), x + y * u)
        /\ Is(mpz_submul(a, b, b), x - y * y)
        /\ mpz_cmp_ui(a, u) = Cmp(x, u)
        /\ mpz_cmpabs_ui(a, u) = Cmp(Abs(x), u)
  /\ mpz_fits_slong_p(b) =>
       /\ mpz_get_si(b) = y
       /\ mpz_set_si(y) = b
       /\ mpz_cmp_si(a, y) = Cmp(x, y)
       /\ Is(mpz_mul_si(a, y), x * y)

(* mpz_div_qr rounds down, up or towards zero as it is asked to, for all   *)
(* signs and sizes, and the forms for a single limb and for powers of two, *)
(* which look at sign and limbs themselves, agree with it.                 *)
RoundedDivision ==
  y # 0 =>
    \A mode \in Modes :
      /\ LET qr == mpz_div_qr(a, b, mode)
         IN /\ Rounded(x, y, mode, IntOf(qr.q), IntOf(qr.r))
            /\ Is(qr.q, IntOf(qr.q)) /\ Is(qr.r, IntOf(qr.r))
            /\ qr.nz = ~mpz_divisible_p(a, b)
      /\ LET qr == mpz_div_qr_ui(a, b.d[1], mode)
         IN b.d[1] # 0 =>
              /\ Rounded(x, b.d[1], mode, IntOf(qr.q), IntOf(qr.r))
              /\ qr.rl = Abs(IntOf(qr.r))
      /\ IntOf(mpz_mod(a, b)) \in 0..Abs(y) - 1
      /\ mpz_congruent_p(a, mpz_mod(a, b), b)
      /\ \A n \in Exponents :
           LET q == mpz_div_q_2exp(a, n, mode)
               r == mpz_div_r_2exp(a, n, mode)
           IN b = mpz_set_ui(1) =>
                /\ Is(q, IntOf(q)) /\ Is(r, IntOf(r))
                /\ Rounded(x, 2^n, mode, IntOf(q), IntOf(r))
                /\ Is(mpz_mul_2exp(a, n), x * 2^n)

(* Binary gcd: the cofactors of mpz_gcdext, which are kept times a power   *)
(* of two and halved at the end, satisfy g = s u + t v with small s, and   *)
(* mpz_gcd and mpz_lcm agree with them.                                    *)
Cofactors ==
  LET e == mpz_gcdext(a, b)
  IN /\ IsGcd(IntOf(e.g), x, y)
     /\ IntOf(e.s) * x + IntOf(e.t) * y = IntOf(e.g)
     /\ Is(e.s, IntOf(e.s)) /\ Is(e.t, IntOf(e.t)) /\ Is(e.g, IntOf(e.g))
     /\ mpz_gcd(a, b) = e.g
     /\ IntOf(mpz_lcm(a, b)) * IntOf(e.g) = Abs(x) * Abs(y)
     /\ LET u == mpz_get_ui(b)
        IN /\ IsGcd(IntOf(mpz_gcd_ui(a, u).g), x, u)
           /\ IntOf(mpz_lcm_ui(a, u)) * IntOf(mpz_gcd_ui(a, u).g) = Abs(x) * u

(* mpz_invert finds the inverse modulo |b| whenever there is one, between  *)
(* 0 and |b|, and mpz_powm reduces by the normalised modulus in between    *)
(* without losing the residue.                                             *)
InversesAndPowers ==
  Abs(y) > 1 =>
    LET inv == mpz_invert(a, b)
    IN /\ inv.ret = (mpz_gcd(a, b) = mpz_set_ui(1) /\ x # 0)
       /\ inv.ret => IntOf(inv.r) \in 1..Abs(y) - 1 /\ (IntOf(inv.r) * x - 1) % Abs(y) = 0
       /\ Len(b.d) <= 2 =>
            \A n \in Exponents :
              LET power[k \in 0..n] == IF k = 0 THEN 1
                                       ELSE ((power[k - 1] * x) % Abs(y))
              IN n > 0 => Is(mpz_powm(a, mpz_set_ui(n), b), power[n] % Abs(y))

(* Newton's iteration from a power of two above the root ends at the       *)
(* rounded root.                                                           *)
RoundedRoots ==
  b = mpz_init =>
    \A z \in Exponents \cap 2..4 :
      (~a.neg \/ z % 2 = 1) =>
        LET e == mpz_rootrem(a, z)
            s == Abs(IntOf(e.x))
        IN /\ IntOf(e.r) = x - IntOf(e.x)^z
           /\ s^z <= Abs(x) /\ Abs(x) < (s + 1)^z
           /\ mpz_root(a, z) = (s^z = Abs(x))

(* The bit operations treat a negative number as two's complement with its *)
(* sign continued, though only its absolute value is stored.               *)
BitsContinued ==
  LET top == 0..LimbBits * MaxLimbs
      Same(z, P(_)) == Is(z, IntOf(z)) /\ \A i \in top : BitOf(IntOf(z), i) = P(i)
  IN /\ \A i \in top : mpz_tstbit(a, i) = BitOf(x, i)
     /\ Same(mpz_and(a, b), LAMBDA i : BitOf(x, i) /\ BitOf(y, i))
     /\ Same(mpz_ior(a, b), LAMBDA i : BitOf(x, i) \/ BitOf(y, i))
     /\ Same(mpz_xor(a, b), LAMBDA i : BitOf(x, i) # BitOf(y, i))
     /\ mpz_hamdist(a, b) = mpz_popcount(mpz_xor(a, b))
     /\ b = mpz_init =>
          \A i \in top :
            /\ Same(mpz_setbit(a, i), LAMBDA j : j = i \/ BitOf(x, j))
            /\ Same(mpz_clrbit(a, i), LAMBDA j : j # i /\ BitOf(x, j))
            /\ Same(mpz_combit(a, i), LAMBDA j : (j = i) # BitOf(x, j))
            /\ Is(mpz_com(a), -x - 1)
            /\ LET one == mpz_scan1(a, i)
                   zero == mpz_scan0(a, i)
               IN /\ IF one = NoBit THEN \A j \in top : j >= i => ~BitOf(x, j)
                     ELSE one >= i /\ BitOf(x, one)
                          /\ \A j \in i..one - 1 : ~BitOf(x, j)
                  /\ IF zero = NoBit THEN \A j \in top : j >= i => BitOf(x, j)
                     ELSE zero >= i /\ ~BitOf(x, zero)
                          /\ \A j \in i..zero - 1 : BitOf(x, j)

(* A numeral written in any base reads back as the number, also behind     *)
(* zeros, and has the length mpz_sizeinbase promised the caller's buffer;  *)
(* so does what mpz_export writes in any word and byte order.              *)
NumeralsAndBytes ==
  b = mpz_init =>
    /\ \A base \in {2, 3, 6, 7, 8, 10} :
        LET sp == mpz_get_str(base, a)
            digits == IF a.neg THEN Tail(sp) ELSE sp
        IN /\ mpz_set_str(sp, base) = [ret |-> 0, r |-> a]
           /\ mpz_set_str(<<Space, 0, 0, 0>> \o digits, base) = [ret |-> 0, r |-> mpz_abs(a)]
           /\ Len(digits) = mpz_sizeinbase(a, base)
           /\ mpz_set_str(sp \o <<base>>, base).ret = -1
    /\ \A order \in {1, -1}, endian \in {1, -1}, size \in 1..3 :
        LET e == mpz_export(order, size, endian, a)
        IN a # mpz_init =>
             mpz_import(e.count, order, size, endian, e.r) = mpz_abs(a)

-----------------------------------------------------------------------------
(* Properties *)

(* Carries, borrows and estimated quotient limbs: the functions on bare    *)
(* limbs give the exact product, sum, difference, quotient and remainder,  *)
(* whatever the limbs (mpn_mul, mpn_add, mpn_sub, mpn_div_qr).             *)
LimbsExact == [][Returns("mpn") => LimbProducts /\ LimbQuotients]_call

(* The functions on signed numbers give the exact sum, difference and      *)
(* product, and round quotients and roots as they are asked to, for every  *)
(* combination of signs and sizes and in their forms for one limb and for  *)
(* powers of two; results are normalised.  Numbers are stored as sign and  *)
(* absolute value, but every bit operation behaves as if they were in      *)
(* two's complement with the sign continued (mpz_add ... mpz_rootrem,      *)
(* mpz_and ... mpz_scan1).                                                 *)
IntegersExact ==
  [][Returns("mpz") => /\ SumsAndProducts /\ RoundedDivision /\ RoundedRoots
                       /\ BitsContinued]_call

(* The cofactors of the extended gcd and the inverse and powers that rest  *)
(* on it are right for every pair of numbers, the key generation of the    *)
(* MA suites looks for one that has an inverse (mpz_gcdext, mpz_invert).   *)
InversesExist == [][Returns("mpz") => Cofactors /\ InversesAndPowers]_call

(* What is written of a number, in any base, word size and byte order,     *)
(* reads back as the number, and has the length announced to the owner of  *)
(* the buffer (mpz_get_str, mpz_set_str, mpz_sizeinbase, mpz_export,       *)
(* mpz_import).                                                            *)
NumeralsReadBack == [][Returns("mpz") => NumeralsAndBytes]_call
=============================================================================
