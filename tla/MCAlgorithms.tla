---------------------------- MODULE MCAlgorithms ----------------------------
(***************************************************************************)
(* The functions without state, all in one run.                            *)
(***************************************************************************)
EXTENDS MiniGmp, Protection, Encoding, Ma, Ecc

Init == NumberCalled \/ ProtectionCalled \/ EncodingCalled \/ MaCalled \/ FieldCalled \/ SignatureCalled
Next == \/ NumberGiven \/ ProtectionGiven \/ EncodingGiven \/ MaGiven
        \/ FieldGiven \/ SignatureGiven
        \/ Returns("mpn") \/ Returns("mpz")
        \/ Returns("aes") \/ Returns("ccm") \/ Returns("record")
        \/ Returns("sha") \/ Returns("prf")
        \/ Returns("hello") \/ Returns("identity") \/ Returns("signature")
        \/ Returns("ma") \/ Returns("field") \/ Returns("ecdsa")
Spec == Init /\ [][Next]_call

(* Stand-ins for the constants of SHA-2 and the hash under the HMAC: the   *)
(* properties hold for any.                                                *)
Constants80 == [i \in 1..80 |-> [j \in 1..8 |-> (i * i + 31 * j + 7) % 256]]
Initial8 == [i \in 1..8 |-> [j \in 1..8 |-> (i * 29 + j * j * 13) % 256]]
(* Two bytes that depend on every byte and its place. *)
ToyHash(s) ==
  LET f[i \in 0..Len(s)] ==
        IF i = 0 THEN 7 ELSE (f[i - 1] * 31 + s[i] * 5 + i) % 65521
  IN <<f[Len(s)] % 256, f[Len(s)] \div 256>>

EdgeLimbs == {0, 1, 8, 15}

(* Set and cleared bits where the ASN.1 form of an integer changes. *)
Tops == {<<255, 1, 2, 3>>, <<128, 0, 0, 0>>, <<127, 1, 1, 1>>, <<1, 0, 0, 0>>,
         <<0, 128, 0, 0>>, <<0, 127, 1, 1>>, <<0, 0, 128, 0>>, <<0, 0, 0, 5>>,
         <<0, 0, 0, 0>>}
Middles == {<<0, 0, 0, 0>>, <<0, 0, 0, 1>>, <<200, 1, 1, 1>>}

(* Check sums that are the tag of a block, with and without the backup. *)
MaSign == [i \in 1..256 |->
             LET c == i - 1
             IN IF c \in {16, 17, 40} THEN XorByte[c][170]
                ELSE IF c = 41 THEN XorByte[40][170] ELSE (7 * c + 3) % 256]
MaCommon == <<4, 2, 13, 7, 9, 7, 7, 12>>
(* Secrets that are accepted and that are too large for q. *)
MaKeys == [sk : {0, 1, 2, 7, 255}, steps : {<<5, 1>>, <<0, 4, 2>>, <<255, 254, 3>>},
           k : {<<0, 1048575>>, <<99999, 777>>}]
MaPublics == [bias : {0, 7, 123456}, errors : {<<0, 0, 0>>, <<3, 7, 255>>, <<1, 2, 3>>}]
MaTexts == {<<c>> : c \in {0, 1, 16, 17, 40, 41, 85, 170, 200, 255}} \cup {<<>>, <<16, 255, 0>>}
MaDraws == [sel : {0, 1, 2, 65535}, alpha : {<<0, 0, 0>>, <<1, 5, 255>>, <<2, 2, 1>>}]

(* The curve with c = 13: all its points are multiples of this one. *)
Generator == Point(0, 49, FALSE)
Factors == (0..12) \cup (50..62) \cup (120..135) \cup (170..200) \cup (250..255)
KeyPairs == {<<1, 2>>, <<96, 191>>, <<192, 77>>}
(* 58 and 135 give points with an x above the order, 62 one with the order. *)
DrawnNonces == {0, 1, 2, 43, 58, 62, 96, 127, 128, 135, 192, 193, 194, 255} \X {0, 1}
=============================================================================
