-------------------------------- MODULE Ecc --------------------------------
(***************************************************************************)
(* ecc/ecc.c: the curve.  Numbers are arrays of arrayLength words in the   *)
(* code and integers here, WordOf takes one of their words.  The prime has *)
(* the same form for words of any width, b^8 - b^7 + b^6 + b^3 - 1; with   *)
(* words of one bit it is 199, a prime too, and the curves over it have    *)
(* few enough points to look at all of them.                               *)
(***************************************************************************)
EXTENDS Integers, Sequences, Calls

CONSTANTS
  EccWordBits,           \* 32
  ecc_order_m,           \* the order of the generator, a prime
  ecc_g_point,           \* the generator
  EccC                   \* the curve is y^2 = x^3 - 3x + EccC

arrayLength == 8
EccBase == 2^EccWordBits
Pow(n) == EccBase^n
Full == Pow(arrayLength)
WordOf(x, i) == (x \div Pow(i)) % EccBase

ecc_prime_m == Full - Pow(7) + Pow(6) + Pow(3) - 1
ecc_prime_r == Full - ecc_prime_m
ecc_order_r == Full - ecc_order_m
ecc_order_mu == Pow(16) \div ecc_order_m

-----------------------------------------------------------------------------
(* Fields: a carry or borrow is corrected once *)

fieldAdd(x, y, reducer) ==
  IF x + y < Full THEN x + y ELSE (x + y - Full + reducer) % Full
fieldSub(x, y, modulus) ==
  IF x >= y THEN x - y ELSE (x - y + Full + modulus) % Full

(* Where the words 8 to 15 of a product are put (16: nowhere) in the terms *)
(* added to its words 0 to 7, and in those subtracted.                     *)
Terms == << <<16, 16, 16, 11, 12, 13, 14, 15>>, <<16, 16, 16, 11, 12, 13, 14, 15>>,
            <<16, 16, 16, 12, 13, 14, 15, 16>>, <<16, 16, 16, 12, 13, 14, 15, 16>>,
            <<8, 9, 10, 16, 16, 16, 14, 15>>, <<9, 10, 11, 13, 14, 15, 13, 8>>,
            <<11, 12, 13, 16, 16, 16, 8, 10>>, <<12, 13, 14, 15, 16, 16, 9, 11>>,
            <<13, 14, 15, 8, 9, 10, 16, 12>>, <<14, 15, 16, 9, 10, 11, 16, 13>> >>
(* The sum after the terms, and whether one of the sums or differences     *)
(* needs a second correction, which it does not get.                       *)
Summed(x) ==
  LET word == [n \in 0..16 |-> WordOf(x, n)]
      term(i) == LET t == Terms[i]
                     part(n) == IF t[n] = 16 THEN 0 ELSE word[t[n]] * Pow(n - 1)
                 IN part(1) + part(2) + part(3) + part(4) + part(5) + part(6) + part(7) + part(8)
      A[i \in 0..10] ==
        IF i = 0 THEN [sum |-> x % Full, lost |-> FALSE]
        ELSE LET s == A[i - 1]
                 t == term(i)
             IN IF i <= 6
                THEN [sum |-> fieldAdd(s.sum, t, ecc_prime_r),
                      lost |-> s.lost \/ s.sum + t - Full + ecc_prime_r >= Full]
                ELSE [sum |-> fieldSub(s.sum, t, ecc_prime_m),
                      lost |-> s.lost \/ s.sum - t + ecc_prime_m < 0]
  IN A[10]

Reduced(sum) ==
  IF sum >= ecc_prime_m THEN fieldSub(sum, ecc_prime_m, ecc_prime_m) ELSE sum
fieldModP(x) == Reduced(Summed(x).sum)

(* fieldMult and fieldModP; "lost" is history.                             *)
MultP(x, y) == LET s == Summed(x * y) IN [n |-> Reduced(s.sum), lost |-> s.lost]

(* Mutant: one multiple of the order is left at the boundary.              *)
fieldModO_above(A, length) ==
  LET q3 == ((ecc_order_mu * ((A % Pow(length)) \div Pow(7))) \div Pow(9)) % Full
      result[i \in 0..4] ==
        IF i = 0 THEN (A - q3 * ecc_order_m) % Pow(9)
        ELSE IF result[i - 1] > ecc_order_m THEN result[i - 1] - ecc_order_m
        ELSE result[i - 1]
  IN IF length = arrayLength /\ A % Full <= ecc_order_m THEN A % Full ELSE result[4]

(* Barrett's reduction of "length" words.  The order itself is returned as *)
(* it is, and nine words of A take part in the subtraction, also when it   *)
(* has eight only.  The callers multiply by a factor below the order, so   *)
(* the quotient fits into eight words.                                     *)
fieldModO(A, length) ==
  LET q3 == ((ecc_order_mu * ((A % Pow(length)) \div Pow(7))) \div Pow(9)) % Full
      result[i \in 0..4] ==
        IF i = 0 THEN (A - q3 * ecc_order_m) % Pow(9)
        ELSE IF result[i - 1] >= ecc_order_m THEN result[i - 1] - ecc_order_m
        ELSE result[i - 1]
  IN IF length = arrayLength /\ A % Full <= ecc_order_m THEN A % Full ELSE result[4]

(* Half of x + modulus, with the carry of the sum in its highest bit.      *)
fieldAddAndDivide(x, modulus, reducer) ==
  LET half == (x + modulus) \div 2
  IN IF x + modulus >= Full /\ half > modulus THEN (half + reducer) % Full ELSE half

(* u and its cofactor x1, until u is odd. *)
Halved(u, x1, modulus, reducer) ==
  LET f[i \in 0..arrayLength * EccWordBits] ==
        IF i = 0 THEN [u |-> u, x1 |-> x1]
        ELSE LET s == f[i - 1]
             IN IF s.u % 2 = 1 THEN s
                ELSE [u |-> s.u \div 2,
                      x1 |-> IF s.x1 % 2 = 0 THEN s.x1 \div 2
                             ELSE fieldAddAndDivide(s.x1, modulus, reducer)]
  IN f[arrayLength * EccWordBits]

(* The binary gcd of A and the modulus.  It does not end for A = 0.        *)
fieldInv(A, modulus, reducer) ==
  LET f[i \in 0..2 * arrayLength * EccWordBits] ==
        IF i = 0 THEN [u |-> A, v |-> modulus, x1 |-> 1, x2 |-> 0]
        ELSE LET s == f[i - 1]
                 h == Halved(s.u, s.x1, modulus, reducer)
                 k == Halved(s.v, s.x2, modulus, reducer)
             IN IF s.u = 1 \/ s.v = 1 THEN s
                ELSE IF h.u >= k.u
                THEN [u |-> h.u - k.u, v |-> k.u, x1 |-> fieldSub(h.x1, k.x1, modulus), x2 |-> k.x1]
                ELSE [u |-> h.u, v |-> k.u - h.u, x1 |-> h.x1, x2 |-> fieldSub(k.x1, h.x1, modulus)]
      end == f[2 * arrayLength * EccWordBits]
  IN IF end.u = 1 THEN end.x1 ELSE end.x2

-----------------------------------------------------------------------------
(* Points: (0, 0) is the neutral one; "lost" is history: a carry was lost  *)
(* in one of the products the point was computed from.                     *)

Point(x, y, lost) == [x |-> x, y |-> y, lost |-> lost]
Neutral == Point(0, 0, FALSE)
IsNeutral(p) == p.x = 0 /\ p.y = 0
SubP(x, y) == fieldSub(x, y, ecc_prime_m)
InvP(x) == fieldInv(x, ecc_prime_m, ecc_prime_r)

(* The third point on the line through p and q with this slope, mirrored.  *)
OnLine(slope, p, q, lost) ==
  LET square == MultP(slope.n, slope.n)
      x == SubP(SubP(square.n, p.x), q.x)
      rise == MultP(slope.n, SubP(q.x, x))
  IN Point(x, SubP(rise.n, q.y), p.lost \/ q.lost \/ lost \/ slope.lost \/ square.lost \/ rise.lost)

ec_double(p) ==
  LET square == MultP(p.x, p.x)
      triple == MultP(SubP(square.n, 1), 3)
      slope == MultP(triple.n, InvP(fieldAdd(p.y, p.y, ecc_prime_r)))
  IN IF IsNeutral(p) THEN p ELSE OnLine(slope, p, p, square.lost \/ triple.lost)

ec_add(p, q) ==
  IF IsNeutral(p) THEN [q EXCEPT !.lost = @ \/ p.lost]
  ELSE IF IsNeutral(q) THEN [p EXCEPT !.lost = @ \/ q.lost]
  ELSE IF p.x # q.x
       THEN OnLine(MultP(SubP(p.y, q.y), InvP(SubP(p.x, q.x))), p, q, FALSE)
  ELSE IF p.y # q.y THEN Point(0, 0, p.lost \/ q.lost)
  ELSE ec_double(p)

ecc_ec_mult(p, secret) ==
  LET f[i \in 0..arrayLength * EccWordBits] == \* after the i highest bits
        IF i = 0 THEN Neutral
        ELSE LET twice == ec_double(f[i - 1])
             IN IF (secret \div 2^(arrayLength * EccWordBits - i)) % 2 = 1
                THEN ec_add(twice, p) ELSE twice
  IN f[arrayLength * EccWordBits]

-----------------------------------------------------------------------------
(* Signatures *)

(* "above" is the ninth word of the caller's array for r, which nobody has *)
(* written when the first reduction reads it.                              *)
ecc_ecdsa_sign(d, e, k, above) ==
  LET point == ecc_ec_mult(ecc_g_point, k)
      r == fieldModO(point.x + above * Full, 8)
      tmp3 == fieldModO(e + fieldModO(r * d, 16), 9)
      s == fieldModO(fieldInv(k, ecc_order_m, ecc_order_r) * tmp3, 16)
  IN IF k = 0 THEN [ret |-> -1]
     ELSE IF r = 0 THEN [ret |-> -1]
     ELSE IF s = 0 THEN [ret |-> -1]
     ELSE [ret |-> 0, r |-> r, s |-> s, lost |-> point.lost]

ecc_ecdsa_validate(public, e, r, s) ==
  LET w == fieldInv(s, ecc_order_m, ecc_order_r)
      tmp1 == ecc_ec_mult(ecc_g_point, fieldModO(e * w, 16))
      tmp2 == ecc_ec_mult(public, fieldModO(r * w, 16))
      tmp3 == ec_add(tmp1, tmp2)
  IN [ret |-> IF tmp3.x = r THEN 0 ELSE -1, lost |-> tmp3.lost]

(* The callers draw random numbers until one will do. *)
ecc_is_valid_key(secret) == ecc_order_m > secret
dtls_ecdsa_generate_key(draws) ==
  LET valid == SelectSeq(draws, ecc_is_valid_key)
  IN [secret |-> valid[1], public |-> ecc_ec_mult(ecc_g_point, valid[1])]
dtls_ecdsa_create_sig_hash(d, e, draws, above) ==
  LET f[i \in 1..Len(draws)] ==
        IF i = 1 THEN ecc_ecdsa_sign(d, e, draws[1], above)
        ELSE LET sig == f[i - 1]
             IN IF sig.ret = 0 THEN sig ELSE ecc_ecdsa_sign(d, e, draws[i], above)
  IN f[Len(draws)]
dtls_ecdh_pre_master_secret(secret, public) ==
  LET point == ecc_ec_mult(public, secret) IN [secret |-> point.x, lost |-> point.lost]

-----------------------------------------------------------------------------
(* References, by their definitions *)

Field == 0..ecc_prime_m - 1
OnCurve(p) == (p.y * p.y - (p.x * p.x - 3) * p.x - EccC) % ecc_prime_m = 0
(* The sum of points of the curve: a chord or a tangent, mirrored.         *)
SumOfPoints(p, q) ==
  IF p = Neutral THEN q ELSE IF q = Neutral THEN p
  ELSE IF p.x = q.x /\ p.y # q.y THEN Neutral
  ELSE LET slope == CHOOSE l \in Field :
                      IF p = q THEN (2 * p.y * l - 3 * (p.x * p.x - 1)) % ecc_prime_m = 0
                      ELSE (l * (p.x - q.x) - (p.y - q.y)) % ecc_prime_m = 0
           x == (slope * slope - p.x - q.x) % ecc_prime_m
       IN Point(x, (slope * (p.x - x) - p.y) % ecc_prime_m, FALSE)
Multiples ==
  LET f[k \in 1..ecc_order_m] ==
        IF k = 1 THEN <<ecc_g_point>>
        ELSE LET s == f[k - 1] IN Append(s, SumOfPoints(s[k - 1], ecc_g_point))
  IN f[ecc_order_m]
Multiple(k) == IF k % ecc_order_m = 0 THEN Neutral ELSE Multiples[k % ecc_order_m]

-----------------------------------------------------------------------------

CONSTANTS EccFactors, EccSecrets, EccHashes, EccNonces

FieldCalled == Called("field", EccFactors)
FieldGiven == Given("field", EccFactors)
SignatureCalled == Called("ecdsa", EccSecrets)
SignatureGiven == Given("ecdsa", EccNonces \X EccHashes)

FieldsExact ==
  /\ (a < ecc_prime_m /\ b < ecc_prime_m /\ ~Summed(a * b).lost) =>
       fieldModP(a * b) = (a * b) % ecc_prime_m
  /\ a < ecc_order_m => fieldModO(a, 8) = a
  /\ b < ecc_order_m => fieldModO(a * b, 16) = (a * b) % ecc_order_m
  /\ a % ecc_prime_m # 0 => (a * InvP(a)) % ecc_prime_m = 1
  /\ a % ecc_order_m # 0 => (a * fieldInv(a, ecc_order_m, ecc_order_r)) % ecc_order_m = 1

(* A multiple of the generator by a definition, unless a carry was lost.   *)
IsMultiple(p, k) == ~p.lost => p = Multiple(k)
SharedSecret(secret, public, k) ==
  LET s == dtls_ecdh_pre_master_secret(secret, public)
  IN ~s.lost => s.secret = Multiple(k).x

SignaturesValidate ==
  LET key == dtls_ecdsa_generate_key(<<255, a[1]>>)
      d == key.secret
      peer == dtls_ecdsa_generate_key(<<a[2]>>)
      k == b[1][1]
      above == b[1][2]
      e == b[2]
      used == IF ecc_ecdsa_sign(d, e, k, above).ret = 0 THEN k ELSE 2
      sig == dtls_ecdsa_create_sig_hash(d, e, <<k, 2>>, above)
  IN /\ IsMultiple(ecc_ec_mult(ecc_g_point, k), k)
     /\ d = a[1] /\ IsMultiple(key.public, d) /\ (~key.public.lost => OnCurve(key.public))
     /\ SharedSecret(d, peer.public, d * a[2]) /\ SharedSecret(a[2], key.public, d * a[2])
     /\ (~sig.lost /\ Multiple(used).x < ecc_order_m) =>
          \A h \in EccHashes :
            LET v == ecc_ecdsa_validate(key.public, h, sig.r, sig.s)
            IN ~v.lost => (v.ret = 0 <=> \/ (h - e) % ecc_order_m = 0
                                        \/ (h + e + 2 * sig.r * d) % ecc_order_m = 0)

(* The arithmetic behind ECDH and ECDSA, where no carry is lost in the     *)
(* reduction modulo the prime: inverses, that reduction and the reduction  *)
(* of products modulo the order are exact, both sides of an exchange get   *)
(* the same multiple of the generator, and a signature whose point has an  *)
(* x below the order is accepted for its hash (and the other one ECDSA     *)
(* admits for it) and for no other (fieldModP, fieldModO, ecc_ec_mult,     *)
(* ecc_ecdsa_sign, ecc_ecdsa_validate).                                    *)
CurveExact ==
  [][/\ Returns("field") => FieldsExact
     /\ Returns("ecdsa") => SignaturesValidate]_call

=============================================================================
