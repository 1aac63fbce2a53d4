-------------------------------- MODULE Bits --------------------------------
(***************************************************************************)
(* Bytes and words as numbers, C's operators on their bits, and the two    *)
(* ways to tell their parity.                                              *)
(***************************************************************************)
EXTENDS Integers

Byte == 0 .. 255
Word == {w \in Nat : w < 65536}

Low(w) == w % 256
High(w) == w \div 256
Pair(high, low) == 256 * high + low

\* bit i of x
Bit(x, i) == (x \div 2^i) % 2

\* the byte whose bit i is b(i)
OfBits(b(_)) ==
  128 * b(7) + 64 * b(6) + 32 * b(5) + 16 * b(4) + 8 * b(3) + 4 * b(2) + 2 * b(1) + b(0)

AndBit(b, c) == IF b = 1 THEN c ELSE 0
OrBit(b, c) == IF b = 1 THEN 1 ELSE c
XorBit(b, c) == (b + c) % 2

And(x, y) == OfBits(LAMBDA i : AndBit(Bit(x, i), Bit(y, i)))
Or(x, y) == OfBits(LAMBDA i : OrBit(Bit(x, i), Bit(y, i)))
Xor(x, y) == OfBits(LAMBDA i : XorBit(Bit(x, i), Bit(y, i)))
Not(x) == 255 - x

\* The number of ones is even.
EvenParity(v) ==
  (Bit(v, 0) + Bit(v, 1) + Bit(v, 2) + Bit(v, 3)
     + Bit(v, 4) + Bit(v, 5) + Bit(v, 6) + Bit(v, 7)) % 2 = 0

\* v ^= v >> 4, v ^= v >> 2, v ^= v >> 1, of which bit 0 is looked at
check_parity(v) ==
  LET by4(i) == XorBit(Bit(v, i), Bit(v, i + 4))
      by2(i) == XorBit(by4(i), by4(i + 2))
  IN XorBit(by2(0), by2(1)) = 0
=============================================================================
