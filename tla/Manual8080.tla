----------------------------- MODULE Manual8080 -----------------------------
(***************************************************************************)
(* What the arithmetic and logical instructions of the 8080 are to         *)
(* compute, in arithmetic: sums and differences of numbers, carries and    *)
(* borrows as comparisons, rotations as products.                          *)
(***************************************************************************)
EXTENDS Bits

VARIABLES a, operand, flags, op

vars == <<a, operand, flags, op>>

carry == IF "cy" \in flags THEN 1 ELSE 0

\* flag f is set exactly if the condition holds
Sets(f, condition) == f \in flags' <=> condition

SetsOfResult(v) ==
  Sets("z", v = 0) /\ Sets("s", v >= 128) /\ Sets("p", EvenParity(v))

Keeps(f) == Sets(f, f \in flags)
KeepsAllBut(f) == flags' \ {f} = flags \ {f}

-----------------------------------------------------------------------------
Fetch ==
  /\ op = "none"
  /\ op' \in {"ADD", "ADC", "SUB", "SBB", "CMP", "INR", "DCR", "ANA", "XRA", "ORA",
              "DAA", "RLC", "RRC", "RAL", "RAR", "CMA", "CMC", "STC"}
  /\ operand' \in Byte
  /\ UNCHANGED <<a, flags>>

Add(c) ==
  /\ a' = (a + operand + c) % 256
  /\ Sets("cy", a + operand + c > 255)
  /\ Sets("ac", (a % 16) + (operand % 16) + c > 15)
  /\ SetsOfResult(a')

\* what SUB, SBB and CMP set; the half-carry is the absence of a borrow
DifferenceFlags(b) ==
  /\ Sets("cy", a < operand + b)
  /\ Sets("ac", a % 16 >= (operand % 16) + b)
  /\ SetsOfResult((a - operand - b) % 256)

Subtract(b) == a' = (a - operand - b) % 256 /\ DifferenceFlags(b)

Step(value, half) ==
  /\ \/ operand' = value /\ UNCHANGED a
     \/ operand = a /\ a' = value /\ UNCHANGED operand
  /\ Sets("ac", half) /\ Keeps("cy") /\ SetsOfResult(value)

Logical(value, half) ==
  /\ a' = value
  /\ Sets("cy", FALSE) /\ Sets("ac", half) /\ SetsOfResult(value)

\* six to the low digit if it is no digit or carried, then to the high digit
Adjust ==
  LET low == IF a % 16 > 9 \/ "ac" \in flags THEN a + 6 ELSE a
      up == low \div 16 > 9 \/ carry = 1
  IN /\ a' = (IF up THEN low + 96 ELSE low) % 256
     /\ Sets("cy", up) /\ Sets("ac", low \div 16 # a \div 16) /\ SetsOfResult(a')

\* Rotating left by one is doubling modulo 2^n - 1, where n ones stay n ones.
RotatedLeft(v, ones) == IF v = ones THEN ones ELSE (2 * v) % ones
Through(c, v) == 256 * c + v
carryNext == IF "cy" \in flags' THEN 1 ELSE 0

Rotate ==
  /\ KeepsAllBut("cy")
  /\ \/ op = "RLC" /\ a' = RotatedLeft(a, 255) /\ Sets("cy", a >= 128)
     \/ op = "RRC" /\ a' \in Byte /\ a = RotatedLeft(a', 255) /\ Sets("cy", a' >= 128)
     \/ op = "RAL" /\ a' \in Byte /\ Through(carryNext, a') = RotatedLeft(Through(carry, a), 511)
     \/ op = "RAR" /\ a' \in Byte /\ Through(carry, a) = RotatedLeft(Through(carryNext, a'), 511)

Execute ==
  /\ op # "none" /\ op' = "none"
  /\ flags' \subseteq {"s", "z", "ac", "p", "cy"}
  /\ op \notin {"INR", "DCR"} => UNCHANGED operand
  /\ \/ op = "ADD" /\ Add(0)
     \/ op = "ADC" /\ Add(carry)
     \/ op = "SUB" /\ Subtract(0)
     \/ op = "SBB" /\ Subtract(carry)
     \/ op = "CMP" /\ DifferenceFlags(0) /\ UNCHANGED a
     \/ op = "INR" /\ Step((operand + 1) % 256, operand % 16 = 15)
     \/ op = "DCR" /\ Step((operand - 1) % 256, operand % 16 # 0)
     \/ op = "ANA" /\ Logical(And(a, operand), Bit(a, 3) = 1 \/ Bit(operand, 3) = 1)
     \/ op = "XRA" /\ Logical(Xor(a, operand), FALSE)
     \/ op = "ORA" /\ Logical(Or(a, operand), FALSE)
     \/ op = "DAA" /\ Adjust
     \/ Rotate
     \/ op = "CMA" /\ a + a' = 255 /\ UNCHANGED flags
     \/ op = "CMC" /\ UNCHANGED a /\ KeepsAllBut("cy") /\ Sets("cy", "cy" \notin flags)
     \/ op = "STC" /\ UNCHANGED a /\ KeepsAllBut("cy") /\ Sets("cy", TRUE)

Init == a = 0 /\ operand = 0 /\ flags = {} /\ op = "none"
Spec == Init /\ [][Fetch \/ Execute]_vars
=============================================================================
