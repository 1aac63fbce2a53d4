---------------------------- MODULE Alu8080Proofs ----------------------------
(***************************************************************************)
(* What TLAPS proves of Alu8080, for every accumulator, operand and set of *)
(* flags: the tricks by which the opcode functions find carries and parity *)
(* give what arithmetic says, so every step is one of Manual8080; and      *)
(* multi-byte sums and differences are right.                              *)
(***************************************************************************)
EXTENDS Alu8080, TLAPS

-----------------------------------------------------------------------------
(* The half-carry.                                                         *)

\* A byte is its two hexadecimal digits.
LEMMA Digits ==
  ASSUME NEW x \in Byte
  PROVE  x = 16 * (x \div 16) + (x % 16) /\ x \div 16 \in 0..15 /\ x % 16 \in 0..15
  BY DEF Byte

\* The three exclusive ors of APPLY_AUX_CARRY_FLAG find the half-carry of a sum of bytes.
LEMMA HalfCarry ==
  ASSUME NEW l \in Byte, NEW r \in Byte, NEW c \in {0, 1}
  PROVE  XorBit(XorBit(Bit(l, 4), Bit(r, 4)), Bit(l + r + c, 4)) = 1
           <=> (l % 16) + (r % 16) + c > 15
<1>1. PICK lq \in 0..15, lr \in 0..15 : l = 16 * lq + lr /\ lq = l \div 16 /\ lr = l % 16
  BY Digits
<1>2. PICK rq \in 0..15, rr \in 0..15 : r = 16 * rq + rr /\ rq = r \div 16 /\ rr = r % 16
  BY Digits
<1>3. Bit(l, 4) = lq % 2 /\ Bit(r, 4) = rq % 2
  BY <1>1, <1>2 DEF Bit
<1>4. Bit(l + r + c, 4) = (IF lr + rr + c > 15 THEN lq + rq + 1 ELSE lq + rq) % 2
  <2>1. l = 16 * lq + lr /\ r = 16 * rq + rr
    BY <1>1, <1>2
  <2>2. (l + r + c) \div 16 = (IF lr + rr + c > 15 THEN lq + rq + 1 ELSE lq + rq)
    BY <2>1
  <2>. QED
    BY <2>2 DEF Bit
<1>5. XorBit(XorBit(lq % 2, rq % 2), (IF lr + rr + c > 15 THEN lq + rq + 1 ELSE lq + rq) % 2) = 1
        <=> lr + rr + c > 15
  <2>1. CASE lr + rr + c > 15
    BY <2>1 DEF XorBit
  <2>2. CASE ~(lr + rr + c > 15)
    BY <2>2 DEF XorBit
  <2>. QED
    BY <2>1, <2>2
<1>. QED
  BY <1>1, <1>2, <1>3, <1>4, <1>5

\* They also find it in the sum with 65535 that DCR makes: no borrow from the high digit.
LEMMA HalfCarryOfDcr ==
  ASSUME NEW l \in Byte
  PROVE  XorBit(XorBit(Bit(l, 4), Bit(65535, 4)), Bit((l + 65535 + 0) % 65536, 4)) = 1
           <=> l % 16 # 0
  BY DEF Byte, Bit, XorBit

-----------------------------------------------------------------------------
(* Parity, sign and carry.                                                 *)

\* Folding a byte by exclusive or leaves its parity in bit 0.
LEMMA ParityByFolding ==
  ASSUME NEW v \in Byte
  PROVE  check_parity(v) <=> EvenParity(v)
  BY DEF check_parity, EvenParity, XorBit, Bit, Byte

\* The sum of two bytes and a carry, in 16 bits.
LEMMA SumOfBytes ==
  ASSUME NEW l \in Byte, NEW r \in Byte, NEW c \in {0, 1}
  PROVE  /\ Sum(l, r, c) = l + r + c
         /\ Low(Sum(l, r, c)) \in Byte
         /\ Bit(Sum(l, r, c), 8) = 1 <=> l + r + c > 255
         /\ Bit(Sum(l, r, c), 8) = 0 <=> l + r + c <= 255
<1>1. Sum(l, r, c) = l + r + c
  BY DEF Sum, Byte
<1>2. Low(l + r + c) \in Byte
  BY DEF Low, Byte
<1>3. Bit(l + r + c, 8) = 1 <=> l + r + c > 255
  BY DEF Bit, Byte
<1>4. Bit(l + r + c, 8) = 0 <=> l + r + c <= 255
  BY DEF Bit, Byte
<1>. QED
  BY <1>1, <1>2, <1>3, <1>4

\* Zero, sign and parity of a 16-bit result are those of its low byte.
LEMMA FlagsOfResult ==
  ASSUME NEW w \in Word
  PROVE  /\ "z" \in ResultFlags(w) <=> Low(w) = 0
         /\ "s" \in ResultFlags(w) <=> Low(w) >= 128
         /\ "p" \in ResultFlags(w) <=> EvenParity(Low(w))
         /\ ResultFlags(w) \subseteq {"z", "s", "p"}
         /\ Low(w) \in Byte
<1>1. Low(w) \in Byte
  BY DEF Low, Byte, Word
<1>2. Bit(w, 7) = 1 <=> Low(w) >= 128
  <2>1. PICK k \in 0..255, v \in 0..255 : w = 256 * k + v /\ v = w % 256
    <3>1. w = 256 * (w \div 256) + (w % 256) /\ w \div 256 \in 0..255 /\ w % 256 \in 0..255
      BY DEF Word
    <3>. QED
      BY <3>1
  <2>2. CASE v >= 128
    <3>1. (256 * k + v) \div 128 = 2 * k + 1
      BY <2>1, <2>2
    <3>. QED
      BY <2>1, <2>2, <3>1 DEF Bit, Low
  <2>3. CASE v < 128
    <3>1. (256 * k + v) \div 128 = 2 * k
      BY <2>1, <2>3
    <3>. QED
      BY <2>1, <2>3, <3>1 DEF Bit, Low
  <2>. QED
    BY <2>1, <2>2, <2>3
<1>. QED
  BY <1>1, <1>2, ParityByFolding DEF ResultFlags, If

\* The flags that _add makes of two bytes and a carry.
LEMMA FlagsOfAdd ==
  ASSUME NEW l \in Byte, NEW r \in Byte, NEW c \in {0, 1}
  PROVE  LET f == AddFlags(l, r, c)
             v == Low(Sum(l, r, c))
         IN /\ f \subseteq {"ac", "z", "s", "p"}
            /\ "ac" \in f <=> (l % 16) + (r % 16) + c > 15
            /\ "z" \in f <=> v = 0
            /\ "s" \in f <=> v >= 128
            /\ "p" \in f <=> EvenParity(v)
<1>1. Sum(l, r, c) = l + r + c
  BY SumOfBytes
<1>2. Sum(l, r, c) \in Word
  BY <1>1 DEF Word, Byte
<1>3. "ac" \in AuxCarry(l, r, Sum(l, r, c)) <=> (l % 16) + (r % 16) + c > 15
  BY <1>1, HalfCarry DEF AuxCarry, If
<1>4. AuxCarry(l, r, Sum(l, r, c)) \subseteq {"ac"}
  BY DEF AuxCarry, If
<1>. QED
  BY <1>2, <1>3, <1>4, FlagsOfResult DEF AddFlags

-----------------------------------------------------------------------------
(* Subtraction as the addition of a complement.                            *)

\* The carry out of the sum with a complement is the absence of a borrow.
LEMMA Borrow ==
  ASSUME NEW x \in Byte, NEW y \in Byte, NEW b \in {0, 1}
  PROVE  Bit(Sum(x, Not(y), 1 - b), 8) = 0 <=> x < y + b
<1>1. Not(y) \in Byte /\ 1 - b \in {0, 1}
  BY DEF Not, Byte
<1>2. Bit(Sum(x, Not(y), 1 - b), 8) = 0 <=> x + Not(y) + (1 - b) <= 255
  BY <1>1, SumOfBytes
<1>. QED
  BY <1>2 DEF Not, Byte

\* A byte less a byte and a borrow, by way of the complement and of 1 less the borrow.
LEMMA Complement ==
  ASSUME NEW x \in Byte, NEW y \in Byte, NEW b \in {0, 1}
  PROVE  /\ Not(y) \in Byte /\ 1 - b \in {0, 1}
         /\ Low(Sum(x, Not(y), 1 - b)) = (x - y - b) % 256
         /\ (x % 16) + (Not(y) % 16) + (1 - b) > 15 <=> x % 16 >= (y % 16) + b
<1>1. Not(y) \in Byte /\ 1 - b \in {0, 1}
  BY DEF Not, Byte
<1>2. Sum(x, Not(y), 1 - b) = x + (255 - y) + (1 - b)
  BY DEF Sum, Not, Byte
<1>3. (x + (255 - y) + (1 - b)) % 256 = (x - y - b) % 256
  BY DEF Byte
<1>4. (255 - y) % 16 = 15 - (y % 16)
  BY DEF Byte
<1>5. (x % 16) + (Not(y) % 16) + (1 - b) > 15 <=> x % 16 >= (y % 16) + b
  BY <1>4 DEF Not, Byte
<1>. QED
  BY <1>1, <1>2, <1>3, <1>5 DEF Low

-----------------------------------------------------------------------------
(* Every instruction is the manual's.                                      *)

\* What Manual8080 gets from Bits is what Alu8080 gets from it.
LEMMA SameBits ==
  /\ \A v : Manual!EvenParity(v) = EvenParity(v)
  /\ \A x, y : Manual!And(x, y) = And(x, y) /\ Manual!Or(x, y) = Or(x, y)
             /\ Manual!Xor(x, y) = Xor(x, y)
  /\ \A x, i : Manual!Bit(x, i) = Bit(x, i)
  /\ Manual!Byte = Byte
  BY DEF Manual!EvenParity, EvenParity, Manual!And, And, Manual!Or, Or, Manual!Xor, Xor,
         Manual!OfBits, OfBits, Manual!AndBit, AndBit, Manual!OrBit, OrBit, Manual!XorBit, XorBit,
         Manual!Bit, Bit, Manual!Byte, Byte

LEMMA CarryIsBit == CarryIn(flags) \in {0, 1} /\ CarryIn(flags) = Manual!carry
  BY DEF CarryIn, Manual!carry

AllFlags == {"s", "z", "ac", "p", "cy"}

\* _add and a carry set the flags that the manual has of a sum.
LEMMA AddSets ==
  ASSUME NEW l \in Byte, NEW r \in Byte, NEW c \in {0, 1}, NEW cy \in SUBSET {"cy"},
         flags' = AddFlags(l, r, c) \cup cy
  PROVE  /\ flags' \subseteq AllFlags
         /\ "cy" \in flags' <=> "cy" \in cy
         /\ "ac" \in flags' <=> (l % 16) + (r % 16) + c > 15
         /\ Manual!SetsOfResult(Low(Sum(l, r, c)))
<1>1. AddFlags(l, r, c) \subseteq {"ac", "z", "s", "p"}
  BY FlagsOfAdd
<1>2. /\ flags' \subseteq AllFlags
      /\ "cy" \in flags' <=> "cy" \in cy
      /\ \A f \in {"ac", "z", "s", "p"} : f \in flags' <=> f \in AddFlags(l, r, c)
  BY <1>1 DEF AllFlags
<1>. QED
  BY <1>2, FlagsOfAdd, SameBits DEF Manual!SetsOfResult, Manual!Sets

LEMMA AddAdcRight ==
  ASSUME TypeOK, AddAdc
  PROVE  Manual!Execute /\ TypeOK'
<1>1. PICK c \in {0, 1} :
         /\ c = AddCarry(op, flags)
         /\ op = "ADD" => c = 0
         /\ op = "ADC" => c = Manual!carry
  BY CarryIsBit DEF AddCarry, AddAdc
<1>2. a \in Byte /\ operand \in Byte
  BY DEF TypeOK
<1>3. /\ a' = Low(Sum(a, operand, c))
      /\ flags' = AddFlags(a, operand, c) \cup Carry(Sum(a, operand, c))
      /\ op' = "none" /\ operand' = operand
  BY <1>1 DEF AddAdc, Done
<1>4. a' \in Byte /\ a' = (a + operand + c) % 256
  BY <1>2, <1>3, SumOfBytes DEF Low
<1>5. /\ flags' \subseteq AllFlags
      /\ "cy" \in flags' <=> a + operand + c > 255
      /\ "ac" \in flags' <=> (a % 16) + (operand % 16) + c > 15
      /\ Manual!SetsOfResult(a')
  <2>1. Carry(Sum(a, operand, c)) \in SUBSET {"cy"}
    BY DEF Carry, If
  <2>2. "cy" \in Carry(Sum(a, operand, c)) <=> a + operand + c > 255
    BY <1>2, SumOfBytes DEF Carry, If
  <2>. QED
    BY <1>2, <1>3, <2>1, <2>2, AddSets
<1>6. Manual!Add(c)
  BY <1>4, <1>5 DEF Manual!Add, Manual!Sets
<1>7. Manual!Execute
  BY <1>1, <1>3, <1>5, <1>6 DEF AddAdc, Manual!Execute, AllFlags
<1>. QED
  BY <1>3, <1>4, <1>5, <1>7 DEF TypeOK, AllFlags

\* SUB, SBB and CMP set the flags of a difference.
LEMMA DifferenceSets ==
  ASSUME NEW x \in Byte, NEW y \in Byte, NEW b \in {0, 1}, x = a, y = operand,
         flags' = AddFlags(x, Not(y), 1 - b) \cup CarryInverted(Sum(x, Not(y), 1 - b))
  PROVE  flags' \subseteq AllFlags /\ Manual!DifferenceFlags(b)
<1>1. CarryInverted(Sum(x, Not(y), 1 - b)) \in SUBSET {"cy"}
  BY DEF CarryInverted, If
<1>2. "cy" \in CarryInverted(Sum(x, Not(y), 1 - b)) <=> x < y + b
  BY Borrow DEF CarryInverted, If
<1>3. Not(y) \in Byte /\ 1 - b \in {0, 1}
  BY Complement
<1>4. /\ flags' \subseteq AllFlags
      /\ "cy" \in flags' <=> x < y + b
      /\ "ac" \in flags' <=> (x % 16) + (Not(y) % 16) + (1 - b) > 15
      /\ Manual!SetsOfResult(Low(Sum(x, Not(y), 1 - b)))
  BY <1>1, <1>2, <1>3, AddSets
<1>5. /\ "ac" \in flags' <=> x % 16 >= (y % 16) + b
      /\ Manual!SetsOfResult((x - y - b) % 256)
  BY <1>4, Complement
<1>. QED
  BY <1>4, <1>5 DEF Manual!DifferenceFlags, Manual!Sets

LEMMA SubSbbRight ==
  ASSUME TypeOK, SubSbb
  PROVE  Manual!Execute /\ TypeOK'
<1>1. PICK b \in {0, 1} :
         /\ 1 - b = SubCarry(op, flags)
         /\ op = "SUB" => b = 0
         /\ op = "SBB" => b = Manual!carry
  <2>1. CASE op = "SUB"
    BY <2>1 DEF SubCarry
  <2>2. CASE op = "SBB"
    BY <2>2, CarryIsBit DEF SubCarry
  <2>. QED
    BY <2>1, <2>2 DEF SubSbb
<1>2. a \in Byte /\ operand \in Byte
  BY DEF TypeOK
<1>3. /\ a' = Low(Sum(a, Not(operand), 1 - b))
      /\ flags' = AddFlags(a, Not(operand), 1 - b) \cup CarryInverted(Sum(a, Not(operand), 1 - b))
      /\ op' = "none" /\ operand' = operand
  BY <1>1 DEF SubSbb, Done
<1>4. a' = (a - operand - b) % 256
  BY <1>2, <1>3, Complement
<1>5. a' \in Byte
  BY <1>2, <1>4 DEF Byte
<1>6. flags' \subseteq AllFlags /\ Manual!DifferenceFlags(b)
  BY <1>2, <1>3, DifferenceSets
<1>7. Manual!Execute
  BY <1>1, <1>3, <1>4, <1>6 DEF SubSbb, Manual!Execute, Manual!Subtract, AllFlags
<1>. QED
  BY <1>3, <1>5, <1>6, <1>7 DEF TypeOK, AllFlags

LEMMA CmpRight ==
  ASSUME TypeOK, Cmp
  PROVE  Manual!Execute /\ TypeOK'
<1>1. a \in Byte /\ operand \in Byte
  BY DEF TypeOK
<1>2. flags' = AddFlags(a, Not(operand), 1 - 0) \cup CarryInverted(Sum(a, Not(operand), 1 - 0))
  BY DEF Cmp
<1>3. flags' \subseteq AllFlags /\ Manual!DifferenceFlags(0)
  BY <1>1, <1>2, DifferenceSets
<1>. QED
  BY <1>1, <1>3 DEF Cmp, Done, Manual!Execute, TypeOK, AllFlags

\* INR and DCR put the manual's value where they put theirs.
LEMMA NamedRight ==
  ASSUME TypeOK, NEW v \in Byte, Named(v)
  PROVE  /\ \/ operand' = v /\ UNCHANGED a
            \/ operand = a /\ a' = v /\ UNCHANGED operand
         /\ a' \in Byte /\ operand' \in Byte
  BY DEF Named, TypeOK

LEMMA InrRight ==
  ASSUME TypeOK, Inr
  PROVE  Manual!Execute /\ TypeOK'
<1>1. operand \in Byte /\ 1 \in Byte
  BY DEF TypeOK, Byte
<1>2. Low(Sum(operand, 1, 0)) = (operand + 1) % 256 /\ (operand + 1) % 256 \in Byte
  BY <1>1 DEF Sum, Low, Byte
<1>3. /\ flags' \subseteq AllFlags
      /\ "cy" \in flags' <=> "cy" \in flags
      /\ "ac" \in flags' <=> (operand % 16) + (1 % 16) + 0 > 15
      /\ Manual!SetsOfResult(Low(Sum(operand, 1, 0)))
  <2>1. flags \cap {"cy"} \in SUBSET {"cy"} /\ flags' = AddFlags(operand, 1, 0) \cup (flags \cap {"cy"})
    BY DEF Inr
  <2>. QED
    BY <1>1, <2>1, AddSets
<1>4. (operand % 16) + (1 % 16) + 0 > 15 <=> operand % 16 = 15
  BY <1>1 DEF Byte
<1>5. Manual!Step((operand + 1) % 256, operand % 16 = 15)
  BY <1>2, <1>3, <1>4, NamedRight DEF Inr, Manual!Step, Manual!Sets, Manual!Keeps
<1>. QED
  BY <1>2, <1>3, <1>5, NamedRight DEF Inr, Manual!Execute, TypeOK, AllFlags

LEMMA DcrRight ==
  ASSUME TypeOK, Dcr
  PROVE  Manual!Execute /\ TypeOK'
<1> DEFINE sum == Sum(operand, 65535, 0)
<1>1. operand \in Byte
  BY DEF TypeOK
<1>2. sum \in Word
  BY <1>1 DEF Sum, Word, Byte
<1>3. Low(sum) = (operand - 1) % 256
  BY <1>1 DEF Sum, Low, Byte
<1>4. Low(sum) \in Byte
  BY <1>2, FlagsOfResult
<1>5. "ac" \in AuxCarry(operand, 65535, sum) <=> operand % 16 # 0
  BY <1>1, HalfCarryOfDcr DEF AuxCarry, If, Sum
<1>6. AuxCarry(operand, 65535, sum) \subseteq {"ac"}
  BY DEF AuxCarry, If
<1>7. flags' = (flags \cap {"cy"}) \cup (AuxCarry(operand, 65535, sum) \cup ResultFlags(sum))
  BY DEF Dcr, AddFlags
<1>8. /\ "z" \in ResultFlags(sum) <=> Low(sum) = 0
      /\ "s" \in ResultFlags(sum) <=> Low(sum) >= 128
      /\ "p" \in ResultFlags(sum) <=> EvenParity(Low(sum))
      /\ ResultFlags(sum) \subseteq {"z", "s", "p"}
  BY <1>2, FlagsOfResult
<1>9. Manual!SetsOfResult(Low(sum))
  <2>1. \A f \in {"z", "s", "p"} : f \in flags' <=> f \in ResultFlags(sum)
    BY <1>6, <1>7
  <2>. QED
    BY <1>8, <2>1, SameBits DEF Manual!SetsOfResult, Manual!Sets
<1>10. /\ flags' \subseteq AllFlags
       /\ "cy" \in flags' <=> "cy" \in flags
       /\ "ac" \in flags' <=> operand % 16 # 0
  BY <1>5, <1>6, <1>7, <1>8 DEF AllFlags
<1>11. Named(Low(sum)) /\ op = "DCR" /\ op' = "none"
  BY DEF Dcr
<1>12. Manual!Step((operand - 1) % 256, operand % 16 # 0)
  BY <1>3, <1>4, <1>9, <1>10, <1>11, NamedRight DEF Manual!Step, Manual!Sets, Manual!Keeps
<1>. QED
  BY <1>4, <1>10, <1>11, <1>12, NamedRight DEF Manual!Execute, TypeOK, AllFlags

-----------------------------------------------------------------------------
(* The logical instructions.                                               *)

LEMMA BitsOfByte ==
  ASSUME NEW x \in Byte
  PROVE  /\ Bit(x, 0) \in {0, 1} /\ Bit(x, 1) \in {0, 1} /\ Bit(x, 2) \in {0, 1}
         /\ Bit(x, 3) \in {0, 1} /\ Bit(x, 4) \in {0, 1} /\ Bit(x, 5) \in {0, 1}
         /\ Bit(x, 6) \in {0, 1} /\ Bit(x, 7) \in {0, 1}
  BY DEF Bit, Byte

\* A byte put together of eight bits is a byte, whose bit 3 is the fourth of them.
LEMMA ByteOfBits ==
  ASSUME NEW b0 \in {0, 1}, NEW b1 \in {0, 1}, NEW b2 \in {0, 1}, NEW b3 \in {0, 1},
         NEW b4 \in {0, 1}, NEW b5 \in {0, 1}, NEW b6 \in {0, 1}, NEW b7 \in {0, 1},
         NEW v, v = 128 * b7 + 64 * b6 + 32 * b5 + 16 * b4 + 8 * b3 + 4 * b2 + 2 * b1 + b0
  PROVE  v \in Byte /\ Bit(v, 3) = b3
<1>1. v \in Byte
  BY DEF Byte
<1>2. v \div 8 = 16 * b7 + 8 * b6 + 4 * b5 + 2 * b4 + b3
  OBVIOUS
<1>3. (16 * b7 + 8 * b6 + 4 * b5 + 2 * b4 + b3) % 2 = b3
  OBVIOUS
<1>. QED
  BY <1>1, <1>2, <1>3 DEF Bit

LEMMA BytesOfBits ==
  ASSUME NEW x \in Byte, NEW y \in Byte
  PROVE  /\ And(x, y) \in Byte /\ Or(x, y) \in Byte /\ Xor(x, y) \in Byte
         /\ Bit(Or(x, y), 3) = OrBit(Bit(x, 3), Bit(y, 3))
<1>1. \A b, c \in {0, 1} : AndBit(b, c) \in {0, 1} /\ OrBit(b, c) \in {0, 1} /\ XorBit(b, c) \in {0, 1}
  BY DEF AndBit, OrBit, XorBit
<1>2. And(x, y) \in Byte
  BY <1>1, BitsOfByte, ByteOfBits DEF And, OfBits
<1>3. Or(x, y) \in Byte /\ Bit(Or(x, y), 3) = OrBit(Bit(x, 3), Bit(y, 3))
  BY <1>1, BitsOfByte, ByteOfBits DEF Or, OfBits
<1>4. Xor(x, y) \in Byte
  BY <1>1, BitsOfByte, ByteOfBits DEF Xor, OfBits
<1>. QED
  BY <1>2, <1>3, <1>4

\* The flags of a logical instruction.
LEMMA LogicalSets ==
  ASSUME NEW v \in Byte, NEW half \in SUBSET {"ac"}, flags' = half \cup ResultFlags(v)
  PROVE  /\ flags' \subseteq AllFlags
         /\ "cy" \notin flags'
         /\ "ac" \in flags' <=> "ac" \in half
         /\ Manual!SetsOfResult(v)
<1>1. v \in Word /\ Low(v) = v
  BY DEF Word, Byte, Low
<1>2. /\ "z" \in ResultFlags(v) <=> v = 0
      /\ "s" \in ResultFlags(v) <=> v >= 128
      /\ "p" \in ResultFlags(v) <=> EvenParity(v)
      /\ ResultFlags(v) \subseteq {"z", "s", "p"}
  BY <1>1, FlagsOfResult
<1>3. \A f \in {"z", "s", "p"} : f \in flags' <=> f \in ResultFlags(v)
  OBVIOUS
<1>. QED
  BY <1>2, <1>3, SameBits DEF Manual!SetsOfResult, Manual!Sets, AllFlags

LEMMA AnaRight ==
  ASSUME TypeOK, Ana
  PROVE  Manual!Execute /\ TypeOK'
<1>1. a \in Byte /\ operand \in Byte
  BY DEF TypeOK
<1>2. /\ op = "ANA" /\ op' = "none" /\ operand' = operand
      /\ a' = And(a, operand) /\ a' \in Byte
      /\ flags' = If("ac", Bit(Or(a, operand), 3) = 1) \cup ResultFlags(a')
  BY <1>1, BytesOfBits DEF Ana, Done
<1>3. If("ac", Bit(Or(a, operand), 3) = 1) \in SUBSET {"ac"}
  BY DEF If
<1>4. "ac" \in If("ac", Bit(Or(a, operand), 3) = 1) <=> Bit(a, 3) = 1 \/ Bit(operand, 3) = 1
  BY <1>1, BytesOfBits, BitsOfByte DEF If, OrBit
<1>5. /\ flags' \subseteq AllFlags /\ "cy" \notin flags'
      /\ "ac" \in flags' <=> Bit(a, 3) = 1 \/ Bit(operand, 3) = 1
      /\ Manual!SetsOfResult(a')
  BY <1>2, <1>3, <1>4, LogicalSets
<1>6. Manual!Logical(Manual!And(a, operand), Manual!Bit(a, 3) = 1 \/ Manual!Bit(operand, 3) = 1)
  BY <1>2, <1>5, SameBits DEF Manual!Logical, Manual!Sets
<1>. QED
  BY <1>1, <1>2, <1>5, <1>6 DEF Manual!Execute, TypeOK, AllFlags

LEMMA XraRight ==
  ASSUME TypeOK, Xra
  PROVE  Manual!Execute /\ TypeOK'
<1>1. a \in Byte /\ operand \in Byte
  BY DEF TypeOK
<1>2. /\ op = "XRA" /\ op' = "none" /\ operand' = operand
      /\ a' = Xor(a, operand) /\ a' \in Byte /\ flags' = {} \cup ResultFlags(a')
  BY <1>1, BytesOfBits DEF Xra, Done
<1>3. flags' \subseteq AllFlags /\ "cy" \notin flags' /\ "ac" \notin flags' /\ Manual!SetsOfResult(a')
  <2>1. {} \in SUBSET {"ac"} /\ "ac" \notin {}
    OBVIOUS
  <2>. QED
    BY <1>2, <2>1, LogicalSets
<1>4. Manual!Logical(Manual!Xor(a, operand), FALSE)
  BY <1>2, <1>3, SameBits DEF Manual!Logical, Manual!Sets
<1>. QED
  BY <1>1, <1>2, <1>3, <1>4 DEF Manual!Execute, TypeOK, AllFlags

LEMMA OraRight ==
  ASSUME TypeOK, Ora
  PROVE  Manual!Execute /\ TypeOK'
<1>1. a \in Byte /\ operand \in Byte
  BY DEF TypeOK
<1>2. /\ op = "ORA" /\ op' = "none" /\ operand' = operand
      /\ a' = Or(a, operand) /\ a' \in Byte /\ flags' = {} \cup ResultFlags(a')
  BY <1>1, BytesOfBits DEF Ora, Done
<1>3. flags' \subseteq AllFlags /\ "cy" \notin flags' /\ "ac" \notin flags' /\ Manual!SetsOfResult(a')
  <2>1. {} \in SUBSET {"ac"} /\ "ac" \notin {}
    OBVIOUS
  <2>. QED
    BY <1>2, <2>1, LogicalSets
<1>4. Manual!Logical(Manual!Or(a, operand), FALSE)
  BY <1>2, <1>3, SameBits DEF Manual!Logical, Manual!Sets
<1>. QED
  BY <1>1, <1>2, <1>3, <1>4 DEF Manual!Execute, TypeOK, AllFlags

-----------------------------------------------------------------------------
(* DAA.                                                                    *)

\* The constant that DAA adds, against six to the low digit and then to the high one.
LEMMA AdjustSum ==
  ASSUME NEW x \in Byte, NEW f
  PROVE  LET low == IF DaaLow(x, f) THEN x + 6 ELSE x
         IN /\ DaaWorking(x, f) \in Byte
            /\ DaaHigh(x, f) <=> (low \div 16 > 9 \/ "cy" \in f)
            /\ (x + DaaWorking(x, f)) % 256 = (IF DaaHigh(x, f) THEN low + 96 ELSE low) % 256
            /\ (x % 16) + (DaaWorking(x, f) % 16) + 0 > 15 <=> low \div 16 # x \div 16
<1>1. PICK q \in 0..15, r \in 0..15 : x = 16 * q + r /\ q = x \div 16 /\ r = x % 16
  BY Digits
<1>2. DaaLow(x, f) <=> r > 9 \/ "ac" \in f
  BY <1>1 DEF DaaLow
<1>3. DaaHigh(x, f) <=> (q >= 9 /\ r > 9) \/ q > 9 \/ "cy" \in f
  BY <1>1 DEF DaaHigh
<1>4. (x + 6) \div 16 = (IF r > 9 THEN q + 1 ELSE q)
  BY <1>1
<1>5. DaaWorking(x, f) = (IF DaaLow(x, f) THEN 6 ELSE 0) + (IF DaaHigh(x, f) THEN 96 ELSE 0)
  BY DEF DaaWorking
<1>6. DaaHigh(x, f) <=> ((IF DaaLow(x, f) THEN x + 6 ELSE x) \div 16 > 9 \/ "cy" \in f)
  BY <1>1, <1>2, <1>3, <1>4
<1>7. (x % 16) + (DaaWorking(x, f) % 16) + 0 > 15
        <=> (IF DaaLow(x, f) THEN x + 6 ELSE x) \div 16 # x \div 16
  <2>1. DaaWorking(x, f) % 16 = (IF DaaLow(x, f) THEN 6 ELSE 0)
    BY <1>5
  <2>. QED
    BY <1>1, <1>2, <1>4, <2>1
<1>8. DaaWorking(x, f) \in Byte
  BY <1>5 DEF Byte
<1>9. x + DaaWorking(x, f)
        = (IF DaaHigh(x, f) THEN (IF DaaLow(x, f) THEN x + 6 ELSE x) + 96
                            ELSE (IF DaaLow(x, f) THEN x + 6 ELSE x))
  BY <1>1, <1>5
<1>. QED
  BY <1>6, <1>7, <1>8, <1>9

LEMMA DaaRight ==
  ASSUME TypeOK, Daa
  PROVE  Manual!Execute /\ TypeOK'
<1> DEFINE working == DaaWorking(a, flags)
           low == IF a % 16 > 9 \/ "ac" \in flags THEN a + 6 ELSE a
           up == low \div 16 > 9 \/ "cy" \in flags
<1>1. a \in Byte /\ operand \in Byte
  BY DEF TypeOK
<1>2. /\ working \in Byte
      /\ DaaHigh(a, flags) <=> up
      /\ (a + working) % 256 = (IF up THEN low + 96 ELSE low) % 256
      /\ (a % 16) + (working % 16) + 0 > 15 <=> low \div 16 # a \div 16
  <2>1. DaaLow(a, flags) <=> a % 16 > 9 \/ "ac" \in flags
    BY DEF DaaLow
  <2>2. low = (IF DaaLow(a, flags) THEN a + 6 ELSE a)
    BY <2>1
  <2>. QED
    BY <1>1, <2>2, AdjustSum
<1>3. /\ op = "DAA" /\ op' = "none" /\ operand' = operand
      /\ a' = Low(Sum(a, working, 0))
      /\ flags' = AddFlags(a, working, 0) \cup If("cy", DaaHigh(a, flags))
  BY DEF Daa, Done, DaaSum, DaaFlags
<1>4. a' \in Byte /\ a' = (a + working) % 256
  <2>. HIDE DEF working
  <2>1. Sum(a, working, 0) = a + working + 0 /\ Low(Sum(a, working, 0)) \in Byte
    BY <1>1, <1>2, SumOfBytes
  <2>2. a + working + 0 = a + working
    BY <1>1, <1>2 DEF Byte
  <2>. QED
    BY <1>3, <2>1, <2>2 DEF Low
<1>5. /\ flags' \subseteq AllFlags
      /\ "cy" \in flags' <=> up
      /\ "ac" \in flags' <=> low \div 16 # a \div 16
      /\ Manual!SetsOfResult(a')
  <2>1. If("cy", DaaHigh(a, flags)) \in SUBSET {"cy"}
    BY DEF If
  <2>2. "cy" \in If("cy", DaaHigh(a, flags)) <=> up
    BY <1>2 DEF If
  <2>. QED
    BY <1>1, <1>2, <1>3, <2>1, <2>2, AddSets
<1>6. Manual!carry = 1 <=> "cy" \in flags
  BY DEF Manual!carry
<1>7. Manual!Adjust
  BY <1>2, <1>4, <1>5, <1>6 DEF Manual!Adjust, Manual!Sets
<1>. QED
  BY <1>1, <1>3, <1>4, <1>5, <1>7 DEF Manual!Execute, TypeOK, AllFlags

-----------------------------------------------------------------------------
(* Rotations, and the instructions on the carry alone.                     *)

LEMMA CarryAlone ==
  ASSUME TypeOK, NEW condition, OnlyCarry(condition)
  PROVE  /\ flags' \subseteq AllFlags
         /\ "cy" \in flags' <=> condition
         /\ Manual!KeepsAllBut("cy")
  BY DEF OnlyCarry, If, Manual!KeepsAllBut, TypeOK, AllFlags

LEMMA RlcRight ==
  ASSUME TypeOK, Rlc
  PROVE  Manual!Execute /\ TypeOK'
<1>1. a \in Byte /\ operand \in Byte
  BY DEF TypeOK
<1>2. /\ op = "RLC" /\ op' = "none" /\ operand' = operand
      /\ a' = Low(2 * a + a \div 128) /\ OnlyCarry(Bit(a', 0) = 1)
  BY DEF Rlc, Done
<1>3. a' = (IF a >= 128 THEN 2 * a - 255 ELSE 2 * a) /\ a' \in Byte
  BY <1>1, <1>2 DEF Low, Byte
<1>4. Bit(a', 0) = 1 <=> a >= 128
  BY <1>1, <1>3 DEF Bit, Byte
<1>5. a' = (IF a = 255 THEN 255 ELSE (2 * a) % 255)
  BY <1>1, <1>3 DEF Byte
<1>6. Manual!Rotate /\ flags' \subseteq AllFlags
  BY <1>2, <1>4, <1>5, CarryAlone DEF Manual!Rotate, Manual!RotatedLeft, Manual!Sets
<1>. QED
  BY <1>1, <1>2, <1>3, <1>6 DEF Manual!Execute, TypeOK, AllFlags

LEMMA RrcRight ==
  ASSUME TypeOK, Rrc
  PROVE  Manual!Execute /\ TypeOK'
<1>1. a \in Byte /\ operand \in Byte
  BY DEF TypeOK
<1>2. /\ op = "RRC" /\ op' = "none" /\ operand' = operand
      /\ a' = Low(a \div 2 + 128 * a) /\ OnlyCarry(Bit(a', 7) = 1)
  BY DEF Rrc, Done
<1>3. PICK k \in 0..127, r \in {0, 1} : a = 2 * k + r /\ k = a \div 2
  <2>1. a = 2 * (a \div 2) + (a % 2) /\ a \div 2 \in 0..127 /\ a % 2 \in {0, 1}
    BY <1>1 DEF Byte
  <2>. QED
    BY <2>1
<1>4. a' = k + 128 * r /\ a' \in Byte
  BY <1>2, <1>3 DEF Low, Byte
<1>5. Bit(a', 7) = 1 <=> a' >= 128
  BY <1>4 DEF Bit, Byte
<1>6. a = (IF a' = 255 THEN 255 ELSE (2 * a') % 255)
  BY <1>3, <1>4
<1>7. Manual!Rotate /\ flags' \subseteq AllFlags
  BY <1>2, <1>4, <1>5, <1>6, CarryAlone, SameBits DEF Manual!Rotate, Manual!RotatedLeft, Manual!Sets
<1>. QED
  BY <1>1, <1>2, <1>4, <1>7 DEF Manual!Execute, TypeOK, AllFlags

\* Nine bits, of which top leaves at the left and comes in at the right.
LEMMA NineBits ==
  ASSUME NEW top \in {0, 1}, NEW rest \in Byte
  PROVE  2 * rest + top
           = (IF 256 * top + rest = 511 THEN 511 ELSE (2 * (256 * top + rest)) % 511)
<1>1. CASE top = 0
  BY <1>1 DEF Byte
<1>2. CASE top = 1
  BY <1>2 DEF Byte
<1>. QED
  BY <1>1, <1>2

\* Their value is bit 8 and a byte.
LEMMA BitAndByte ==
  ASSUME NEW top \in {0, 1}, NEW rest \in Byte
  PROVE  /\ Low(2 * rest + top) \in Byte
         /\ 2 * rest + top = 256 * Bit(2 * rest + top, 8) + Low(2 * rest + top)
         /\ Bit(2 * rest + top, 8) \in {0, 1}
  BY DEF Bit, Low, Byte

LEMMA RalRight ==
  ASSUME TypeOK, Ral
  PROVE  Manual!Execute /\ TypeOK'
<1> DEFINE c == CarryIn(flags)
           shifted == 2 * a + c
<1>1. a \in Byte /\ operand \in Byte /\ c \in {0, 1} /\ c = Manual!carry
  BY CarryIsBit DEF TypeOK
<1>2. /\ op = "RAL" /\ op' = "none" /\ operand' = operand
      /\ a' = Low(shifted) /\ OnlyCarry(Bit(shifted, 8) = 1)
  BY DEF Ral, Done
<1>3. a' \in Byte /\ Manual!carryNext = Bit(shifted, 8) /\ shifted = 256 * Bit(shifted, 8) + a'
  <2>1. "cy" \in flags' <=> Bit(shifted, 8) = 1
    BY <1>2, CarryAlone
  <2>. HIDE DEF c
  <2>2. /\ a' \in Byte /\ Bit(shifted, 8) \in {0, 1}
        /\ shifted = 256 * Bit(shifted, 8) + a'
    BY <1>1, <1>2, BitAndByte
  <2>. QED
    BY <2>1, <2>2 DEF Manual!carryNext
<1>4. 256 * Manual!carryNext + a'
        = (IF 256 * Manual!carry + a = 511 THEN 511 ELSE (2 * (256 * Manual!carry + a)) % 511)
  <2>. HIDE DEF c
  <2>. QED
    BY <1>1, <1>3, NineBits
<1>5. Manual!Rotate /\ flags' \subseteq AllFlags
  BY <1>2, <1>3, <1>4, CarryAlone, SameBits
     DEF Manual!Rotate, Manual!RotatedLeft, Manual!Through
<1>. QED
  BY <1>1, <1>2, <1>3, <1>5 DEF Manual!Execute, TypeOK, AllFlags

LEMMA RarRight ==
  ASSUME TypeOK, Rar
  PROVE  Manual!Execute /\ TypeOK'
<1> DEFINE c == CarryIn(flags)
<1>1. a \in Byte /\ operand \in Byte /\ c \in {0, 1} /\ c = Manual!carry
  BY CarryIsBit DEF TypeOK
<1>2. /\ op = "RAR" /\ op' = "none" /\ operand' = operand
      /\ a' = a \div 2 + 128 * c /\ OnlyCarry(Bit(a, 0) = 1)
  BY DEF Rar, Done
<1>3. PICK k \in 0..127, r \in {0, 1} : a = 2 * k + r /\ k = a \div 2 /\ r = Bit(a, 0)
  <2>1. a = 2 * (a \div 2) + (a % 2) /\ a \div 2 \in 0..127 /\ a % 2 \in {0, 1}
    BY <1>1 DEF Byte
  <2>2. Bit(a, 0) = a % 2
    BY <1>1 DEF Bit, Byte
  <2>. QED
    BY <2>1, <2>2
<1>4. a' = k + 128 * c /\ a' \in Byte
  BY <1>1, <1>2, <1>3 DEF Byte
<1>5. Manual!carryNext = r
  BY <1>2, <1>3, CarryAlone DEF Manual!carryNext
<1>6. 256 * Manual!carry + a
        = (IF 256 * Manual!carryNext + a' = 511 THEN 511 ELSE (2 * (256 * Manual!carryNext + a')) % 511)
  <2>. HIDE DEF c
  <2>1. a = 2 * k + r /\ a' = k + 128 * c /\ c \in {0, 1}
    BY <1>1, <1>3, <1>4
  <2>2. 256 * c + a = 2 * a' + r
    BY <2>1
  <2>3. a' \in Byte /\ r \in {0, 1}
    BY <1>4
  <2>4. 2 * a' + r = (IF 256 * r + a' = 511 THEN 511 ELSE (2 * (256 * r + a')) % 511)
    BY <2>3, NineBits
  <2>. QED
    BY <1>1, <1>5, <2>2, <2>4
<1>7. Manual!Rotate /\ flags' \subseteq AllFlags
  BY <1>1, <1>2, <1>4, <1>6, CarryAlone, SameBits
     DEF Manual!Rotate, Manual!RotatedLeft, Manual!Through
<1>. QED
  BY <1>1, <1>2, <1>4, <1>7 DEF Manual!Execute, TypeOK, AllFlags

LEMMA CmaRight ==
  ASSUME TypeOK, Cma
  PROVE  Manual!Execute /\ TypeOK'
<1>1. a' \in Byte /\ a + a' = 255
  BY DEF TypeOK, Cma, Not, Byte
<1>. QED
  BY <1>1 DEF Cma, Done, Manual!Execute, TypeOK

LEMMA CmcStcRight ==
  ASSUME TypeOK, CmcStc
  PROVE  Manual!Execute /\ TypeOK'
<1>1. /\ op \in {"CMC", "STC"} /\ op' = "none" /\ operand' = operand /\ a' = a
      /\ OnlyCarry(op = "STC" \/ "cy" \notin flags)
  BY DEF CmcStc, Done
<1>. QED
  BY <1>1, CarryAlone DEF Manual!Execute, Manual!Sets, TypeOK, AllFlags

LEMMA FetchRight ==
  ASSUME TypeOK, Fetch
  PROVE  Manual!Fetch /\ TypeOK'
<1>1. operand' \in Byte /\ a \in Byte
  BY OperandsAssumption DEF TypeOK, Fetch
<1>. QED
  BY <1>1, SameBits DEF Fetch, Manual!Fetch, TypeOK, Naming, Implied

-----------------------------------------------------------------------------
(* Arithmetic of several bytes.                                            *)

\* A word is its two bytes.
LEMMA BytesOfWord ==
  ASSUME NEW w \in Word
  PROVE  High(w) \in Byte /\ Low(w) \in Byte /\ w = 256 * High(w) + Low(w)
  BY DEF High, Low, Byte, Word

\* The sum of bytes is a carry, the one the next opcode function is passed, and a byte.
LEMMA CarryOut ==
  ASSUME NEW l \in Byte, NEW r \in Byte, NEW c \in {0, 1}
  PROVE  LET k == CarryIn(Carry(Sum(l, r, c)))
         IN /\ k \in {0, 1} /\ Low(Sum(l, r, c)) \in Byte
            /\ l + r + c = 256 * k + Low(Sum(l, r, c))
            /\ Carry(Sum(l, r, c)) = If("cy", k = 1)
            /\ CarryIn(CarryInverted(Sum(l, r, c))) = 1 - k
            /\ CarryInverted(Sum(l, r, c)) = If("cy", k = 0)
<1>1. Sum(l, r, c) = l + r + c /\ Low(Sum(l, r, c)) \in Byte
  BY SumOfBytes
<1>2. Bit(Sum(l, r, c), 8) \in {0, 1} /\ l + r + c = 256 * Bit(Sum(l, r, c), 8) + Low(Sum(l, r, c))
  BY <1>1 DEF Bit, Low, Byte
<1>3. /\ CarryIn(Carry(Sum(l, r, c))) = Bit(Sum(l, r, c), 8)
      /\ CarryIn(CarryInverted(Sum(l, r, c))) = 1 - Bit(Sum(l, r, c), 8)
  BY <1>2 DEF CarryIn, Carry, CarryInverted, If
<1>. QED
  BY <1>1, <1>2, <1>3 DEF Carry, CarryInverted

\* A number of 17 bits is its top bit and a word.
LEMMA CarryAndWord ==
  ASSUME NEW n \in Nat, NEW kh \in {0, 1}, NEW h \in Byte, NEW l \in Byte,
         n = 65536 * kh + (256 * h + l)
  PROVE  n % 65536 = 256 * h + l /\ (n \div 65536) % 2 = kh
<1>1. 256 * h + l \in Nat /\ 256 * h + l < 65536
  BY DEF Byte
<1>2. PICK w \in Nat : w = 256 * h + l /\ w < 65536
  BY <1>1
<1>3. n = 65536 * kh + w
  BY <1>2
<1>4. n % 65536 = w /\ n \div 65536 = kh
  BY <1>2, <1>3
<1>. QED
  BY <1>2, <1>4

LEMMA WordsAdded ==
  ASSUME NEW x \in Word, NEW y \in Word
  PROVE  AddsWords(x, y)
<1>1. PICK xh \in Byte, xl \in Byte : xh = High(x) /\ xl = Low(x) /\ x = 256 * xh + xl
  BY BytesOfWord
<1>2. PICK yh \in Byte, yl \in Byte : yh = High(y) /\ yl = Low(y) /\ y = 256 * yh + yl
  BY BytesOfWord
<1>3. PICK kl \in {0, 1}, l \in Byte :
        /\ kl = CarryIn(Carry(Sum(xl, yl, 0))) /\ l = Low(Sum(xl, yl, 0))
        /\ xl + yl + 0 = 256 * kl + l
  BY CarryOut
<1>4. PICK kh \in {0, 1}, h \in Byte :
        /\ h = Low(Sum(xh, yh, kl)) /\ Carry(Sum(xh, yh, kl)) = If("cy", kh = 1)
        /\ xh + yh + kl = 256 * kh + h
  BY CarryOut
<1>5. x + y = 65536 * kh + (256 * h + l)
  <2>1. xl + yl = 256 * kl + l /\ xh + yh + kl = 256 * kh + h
    BY <1>3, <1>4 DEF Byte
  <2>. QED
    BY <1>1, <1>2, <2>1 DEF Byte
<1>6. (x + y) % 65536 = 256 * h + l /\ ((x + y) \div 65536) % 2 = kh
  <2>1. x + y \in Nat
    BY DEF Word
  <2>. QED
    BY <1>5, <2>1, CarryAndWord
<1>7. DadHl(x, y) = 256 * h + l /\ Bit(x + y, 16) = kh
  BY <1>6 DEF DadHl, Bit
<1>8. AddCarry("ADD", {}) = 0 /\ AddCarry("ADC", Carry(Sum(xl, yl, 0))) = kl
  BY <1>3 DEF AddCarry
<1>9. Sum(Low(x), Low(y), AddCarry("ADD", {})) = Sum(xl, yl, 0)
  BY <1>1, <1>2, <1>8
<1>10. Sum(High(x), High(y), AddCarry("ADC", Carry(Sum(xl, yl, 0)))) = Sum(xh, yh, kl)
  BY <1>1, <1>2, <1>8
<1>11. Pair(Low(Sum(xh, yh, kl)), Low(Sum(xl, yl, 0))) = DadHl(x, y)
  BY <1>3, <1>4, <1>7 DEF Pair
<1>12. Carry(Sum(xh, yh, kl)) = DadCarry(x, y)
  BY <1>4, <1>7 DEF DadCarry
<1>. QED
  BY <1>9, <1>10, <1>11, <1>12 DEF AddsWords

LEMMA WordsSubtracted ==
  ASSUME NEW x \in Word, NEW y \in Word
  PROVE  SubtractsWords(x, y)
<1>1. PICK xh \in Byte, xl \in Byte : xh = High(x) /\ xl = Low(x) /\ x = 256 * xh + xl
  BY BytesOfWord
<1>2. PICK yh \in Byte, yl \in Byte : yh = High(y) /\ yl = Low(y) /\ y = 256 * yh + yl
  BY BytesOfWord
<1>3. Not(yh) = 255 - yh /\ Not(yh) \in Byte /\ Not(yl) = 255 - yl /\ Not(yl) \in Byte
  BY DEF Not, Byte
<1>4. PICK kl \in {0, 1}, l \in Byte :
        /\ CarryIn(CarryInverted(Sum(xl, Not(yl), 1))) = 1 - kl /\ l = Low(Sum(xl, Not(yl), 1))
        /\ xl + Not(yl) + 1 = 256 * kl + l
  BY <1>3, CarryOut
<1>5. PICK kh \in {0, 1}, h \in Byte :
        /\ h = Low(Sum(xh, Not(yh), kl)) /\ CarryInverted(Sum(xh, Not(yh), kl)) = If("cy", kh = 0)
        /\ xh + Not(yh) + kl = 256 * kh + h
  BY <1>3, CarryOut
<1>6. (x - y) + 65536 = 65536 * kh + (256 * h + l)
  <2>1. xl + (255 - yl) + 1 = 256 * kl + l /\ xh + (255 - yh) + kl = 256 * kh + h
    BY <1>3, <1>4, <1>5
  <2>. QED
    BY <1>1, <1>2, <2>1 DEF Byte
<1>7. (x - y) % 65536 = 256 * h + l
  <2>1. (x - y) + 65536 \in Nat /\ ((x - y) + 65536) % 65536 = (x - y) % 65536
    BY DEF Word
  <2>. QED
    BY <1>6, <2>1, CarryAndWord
<1>8. kh = 0 <=> x < y
  BY <1>6 DEF Byte, Word
<1>9. "cy" \in CarryInverted(Sum(xh, Not(yh), kl)) <=> x < y
  BY <1>5, <1>8 DEF If
<1>10. SubCarry("SUB", {}) = 1 /\ SubCarry("SBB", CarryInverted(Sum(xl, Not(yl), 1))) = kl
  BY <1>4 DEF SubCarry
<1>11. Pair(h, l) = (x - y) % 65536
  BY <1>7 DEF Pair
<1>12. Sum(Low(x), Not(Low(y)), SubCarry("SUB", {})) = Sum(xl, Not(yl), 1)
  BY <1>1, <1>2, <1>10
<1>13. Sum(High(x), Not(High(y)), SubCarry("SBB", CarryInverted(Sum(xl, Not(yl), 1))))
         = Sum(xh, Not(yh), kl)
  BY <1>1, <1>2, <1>10
<1>14. Pair(Low(Sum(xh, Not(yh), kl)), Low(Sum(xl, Not(yl), 1))) = (x - y) % 65536
  BY <1>4, <1>5, <1>11
<1>. QED
  BY <1>9, <1>12, <1>13, <1>14 DEF SubtractsWords

-----------------------------------------------------------------------------
(* Decimal arithmetic.                                                     *)

\* Two decimal digits in a byte.
LEMMA DecimalByte ==
  ASSUME NEW x \in Byte, NEW h \in 0..9, NEW l \in 0..9, x = 16 * h + l
  PROVE  IsDecimal(x) /\ Value(x) = 10 * h + l
<1>1. x \div 16 = h /\ x % 16 = l
  OBVIOUS
<1>. QED
  BY <1>1 DEF IsDecimal, Value

\* The digits before DAA, h and l with carry cy, of a sum whose digits add up to t and u.
LEMMA BinaryDigits ==
  ASSUME NEW t \in 0..18, NEW u \in 0..19, NEW cy \in {0, 1}, NEW h \in 0..15, NEW l \in 0..15,
         256 * cy + 16 * h + l = 16 * t + u
  PROVE  /\ u <= 15 => l = u /\ 16 * cy + h = t
         /\ u > 15 => l = u - 16 /\ 16 * cy + h = t + 1
  OBVIOUS

\* DAA corrects each digit exactly if its decimal sum carries.
LEMMA DecimalAdjust ==
  ASSUME NEW x \in Byte, NEW y \in Byte, NEW c \in {0, 1}, IsDecimal(x), IsDecimal(y)
  PROVE  LET sum == Sum(x, y, c)
             f == AddFlags(x, y, c) \cup Carry(sum)
             adjusted == Low(DaaSum(Low(sum), f))
         IN /\ IsDecimal(adjusted)
            /\ Value(x) + Value(y) + c = 100 * CarryIn(DaaFlags(Low(sum), f)) + Value(adjusted)
<1> DEFINE sum == Sum(x, y, c)
           f == AddFlags(x, y, c) \cup Carry(sum)
<1>1. PICK xh \in 0..9, xl \in 0..9 :
        x = 16 * xh + xl /\ xl = x % 16 /\ Value(x) = 10 * xh + xl
  BY Digits DEF IsDecimal, Value
<1>2. PICK yh \in 0..9, yl \in 0..9 :
        y = 16 * yh + yl /\ yl = y % 16 /\ Value(y) = 10 * yh + yl
  BY Digits DEF IsDecimal, Value
<1>3. PICK cy \in {0, 1}, b \in Byte :
        /\ b = Low(sum) /\ x + y + c = 256 * cy + b /\ Carry(sum) = If("cy", cy = 1)
  BY CarryOut
<1>4. PICK h \in 0..15, l \in 0..15 : b = 16 * h + l /\ h = b \div 16 /\ l = b % 16
  BY Digits
<1>5. PICK t \in 0..18, u \in 0..19 : t = xh + yh /\ u = xl + yl + c
  OBVIOUS
<1>6. /\ u <= 15 => l = u /\ 16 * cy + h = t
      /\ u > 15 => l = u - 16 /\ 16 * cy + h = t + 1
  <2>1. x = 16 * xh + xl /\ y = 16 * yh + yl /\ x + y + c = 256 * cy + b /\ b = 16 * h + l
    BY <1>1, <1>2, <1>3, <1>4
  <2>2. 256 * cy + 16 * h + l = 16 * t + u
    BY <1>5, <2>1
  <2>. QED
    BY <2>2, BinaryDigits
<1>7. ("ac" \in f <=> u > 15) /\ ("cy" \in f <=> cy = 1)
  <2>1. /\ AddFlags(x, y, c) \subseteq {"ac", "z", "s", "p"}
        /\ "ac" \in AddFlags(x, y, c) <=> (x % 16) + (y % 16) + c > 15
    BY FlagsOfAdd
  <2>2. (x % 16) + (y % 16) + c = u
    BY <1>1, <1>2, <1>5
  <2>. QED
    BY <1>3, <2>1, <2>2 DEF If
<1>8. PICK d \in {0, 1}, k \in {0, 1} :
        /\ d = (IF u > 9 THEN 1 ELSE 0) /\ k = (IF t + d > 9 THEN 1 ELSE 0)
  OBVIOUS
<1>9. DaaLow(b, f) <=> d = 1
  BY <1>4, <1>6, <1>7, <1>8 DEF DaaLow
<1>10. DaaHigh(b, f) <=> k = 1
  <2>1. DaaHigh(b, f) <=> (h >= 9 /\ l > 9) \/ h > 9 \/ cy = 1
    BY <1>4, <1>7 DEF DaaHigh
  <2>. QED
    BY <1>6, <1>8, <2>1
<1>11. DaaWorking(b, f) = 6 * d + 96 * k /\ DaaWorking(b, f) \in Byte
  BY <1>9, <1>10 DEF DaaWorking, Byte
<1>12. Low(DaaSum(b, f)) = 16 * (t + d - 10 * k) + (u - 10 * d)
  <2>1. DaaSum(b, f) = b + (6 * d + 96 * k) + 0
    BY <1>11, SumOfBytes DEF DaaSum
  <2>2. b + (6 * d + 96 * k) + 0 = (16 * (t + d + 6 * k) + (u - 10 * d)) - 256 * cy
    BY <1>4, <1>6, <1>8
  <2>3. ((16 * (t + d + 6 * k) + (u - 10 * d)) - 256 * cy) % 256 = 16 * (t + d - 10 * k) + (u - 10 * d)
    BY <1>6, <1>8
  <2>. QED
    BY <2>1, <2>2, <2>3 DEF Low
<1>13. t + d - 10 * k \in 0..9 /\ u - 10 * d \in 0..9
  BY <1>8
<1>14. PICK n \in 0..9, m \in 0..9 : n = t + d - 10 * k /\ m = u - 10 * d
  BY <1>13
<1>15. PICK v \in Byte : v = Low(DaaSum(b, f)) /\ v = 16 * n + m
  BY <1>12, <1>14 DEF Byte
<1>16. IsDecimal(v) /\ Value(v) = 10 * n + m
  BY <1>15, DecimalByte
<1>17. CarryIn(DaaFlags(b, f)) = k
  <2>1. AddFlags(b, DaaWorking(b, f), 0) \subseteq {"ac", "z", "s", "p"}
    BY <1>11, FlagsOfAdd
  <2>2. "cy" \in DaaFlags(b, f) <=> k = 1
    BY <1>10, <2>1 DEF DaaFlags, If
  <2>. QED
    BY <2>2 DEF CarryIn
<1>18. Value(x) + Value(y) + c = 100 * k + Value(v)
  <2>1. Value(x) + Value(y) + c = 10 * t + u
    BY <1>1, <1>2, <1>5
  <2>2. 100 * k + (10 * n + m) = 10 * t + u
    BY <1>8, <1>14
  <2>. QED
    BY <1>16, <2>1, <2>2
<1>. QED
  BY <1>3, <1>15, <1>16, <1>17, <1>18

-----------------------------------------------------------------------------
(* The theorems.                                                           *)

LEMMA InitRight == Init => TypeOK /\ Manual!Init
  BY DEF Init, TypeOK, Manual!Init, Byte

LEMMA NextRight ==
  ASSUME TypeOK, [Next]_vars
  PROVE  TypeOK' /\ [Manual!Fetch \/ Manual!Execute]_(Manual!vars)
<1>1. CASE Next
  BY <1>1, FetchRight, AddAdcRight, SubSbbRight, CmpRight, InrRight, DcrRight, DaaRight,
     AnaRight, XraRight, OraRight, RlcRight, RrcRight, RalRight, RarRight, CmaRight, CmcStcRight
     DEF Next
<1>2. CASE UNCHANGED vars
  BY <1>2 DEF vars, Manual!vars, TypeOK
<1>. QED
  BY <1>1, <1>2

(* The accumulator stays a byte: no opcode function leaves a carry in it.  *)
THEOREM AluTypeCorrect == Spec => []TypeOK
<1>. QED
  BY InitRight, NextRight, PTL DEF Spec

(* Every execution of the opcode functions computes what Manual8080 says.  *)
THEOREM Implementation == Spec => ImplementsManual
<1>. QED
  BY AluTypeCorrect, InitRight, NextRight, PTL DEF Spec, ImplementsManual, Manual!Spec

(* ADD and ADC, SUB and SBB, byte by byte, are 16-bit arithmetic, for all  *)
(* words.                                                                  *)
THEOREM EveryWord == \A x, y \in Word : AddsWords(x, y) /\ SubtractsWords(x, y)
  BY WordsAdded, WordsSubtracted

(* So they are whenever ADC or SBB is reached.                             *)
THEOREM WordArithmeticHolds == Spec => []WordArithmetic
<1>1. ASSUME TypeOK PROVE WordArithmetic
  <2>1. \A high, low \in Byte : Pair(high, low) \in Word
    BY DEF Pair, Word, Byte
  <2>2. a \in Byte /\ operand \in Byte /\ Operands \subseteq Byte
    BY <1>1, OperandsAssumption DEF TypeOK
  <2>. QED
    BY <2>1, <2>2, EveryWord DEF WordArithmetic
<1>. QED
  BY <1>1, AluTypeCorrect, PTL

(* Any two decimal numbers are added rightly.                              *)
THEOREM DecimalSumsHold == Spec => []DecimalSums
<1>1. ASSUME TypeOK PROVE DecimalSums
  <2>1. a \in Byte /\ operand \in Byte /\ AddCarry(op, flags) \in {0, 1}
    BY <1>1 DEF TypeOK, AddCarry, CarryIn
  <2>. QED
    BY <2>1, DecimalAdjust DEF DecimalSums
<1>. QED
  BY <1>1, AluTypeCorrect, PTL
=============================================================================
