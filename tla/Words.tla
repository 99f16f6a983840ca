-------------------------------- MODULE Words --------------------------------
(***************************************************************************)
(* Machine words as the ciphers and hashes use them: a word is the         *)
(* sequence of its bytes, the most significant one first, so that a word   *)
(* of any width is also what the conversions from and to byte order of the *)
(* C code (GETU32, REVERSE32, dtls_int_to_uint32) make of it.              *)
(***************************************************************************)
EXTENDS Integers, Sequences

Byte == 0..255
LOCAL Nibble == 0..15

(* The table of a bitwise operation on bytes, from that on bits. *)
LOCAL Tabulated(Op(_, _)) ==
  LET bit(x, i) == (x \div 2^i) % 2
      four == [x \in Nibble |-> [y \in Nibble |->
                 Op(bit(x, 0), bit(y, 0)) + 2 * Op(bit(x, 1), bit(y, 1))
                 + 4 * Op(bit(x, 2), bit(y, 2)) + 8 * Op(bit(x, 3), bit(y, 3))]]
  IN [x \in Byte |-> [y \in Byte |->
        16 * four[x \div 16][y \div 16] + four[x % 16][y % 16]]]
XorByte == Tabulated(LAMBDA p, q : (p + q) % 2)
AndByte == Tabulated(LAMBDA p, q : p * q)

(* The sequence s itself, which TLC then computes once. *)
Kept(s) == s \o <<>>

XorBytes(u, v) == Kept([i \in DOMAIN u |-> XorByte[u[i]][v[i]]])
AndBytes(u, v) == Kept([i \in DOMAIN u |-> AndByte[u[i]][v[i]]])
NotBytes(u) == Kept([i \in DOMAIN u |-> 255 - u[i]])

(* Rotation and shift to the right by n bits. *)
RotR(n, u) ==
  LET size == Len(u)
      from(i) == u[(((i - 1) + (size - n \div 8)) % size) + 1]
      before(i) == from(IF i = 1 THEN size ELSE i - 1)
      low == 2^(n % 8)
  IN Kept([i \in 1..size |-> (before(i) % low) * (256 \div low) + from(i) \div low])
ShR(n, u) ==
  LET low == 2^(n % 8)
      from(i) == IF i > n \div 8 THEN u[i - n \div 8] ELSE 0
  IN Kept([i \in 1..Len(u) |->
             (from(i - 1) % low) * (256 \div low) + from(i) \div low])

(* The sum of two words without the last carry. *)
Plus(u, v) ==
  LET from[i \in 1..Len(u) + 1] == \* the carry, and the bytes from i on
        IF i = Len(u) + 1 THEN <<0>>
        ELSE LET low == from[i + 1]
                 sum == u[i] + v[i] + low[1]
             IN <<sum \div 256, sum % 256>> \o Tail(low)
  IN Tail(from[1])

ZeroBytes(n) == [i \in 1..n |-> 0]
(* The last bytes of n as a word of the given size. *)
Word(size, n) == [i \in 1..size |-> IF size - i > 3 THEN 0 ELSE (n \div 256^(size - i)) % 256]
=============================================================================
