------------------------------ MODULE Alu8080 ------------------------------
(***************************************************************************)
(* The arithmetic and logical opcode functions of                          *)
(* src/arithmetic_opcodes.c and src/logical_opcodes.c, as they compute the *)
(* accumulator and the five condition flags: subtraction is the addition   *)
(* of a complement, the half-carry is found by three exclusive ors, parity *)
(* by folding, and DAA adds one constant.                                  *)
(*                                                                         *)
(* The register, memory byte or immediate that an instruction names is     *)
(* operand; the functions on an immediate differ from those on a register  *)
(* in where it comes from and in their cycles only.  Of the 16-bit         *)
(* arithmetic there is DAD, as an operator.                                *)
(***************************************************************************)
EXTENDS Bits

CONSTANT Operands  \* the bytes that instructions name, besides A

ASSUME OperandsAssumption == Operands \subseteq Byte

VARIABLES
  a,        \* the accumulator
  operand,  \* the byte named by the instruction at hand
  flags,    \* the condition flags that are set, of "s", "z", "ac", "p", "cy"
  op        \* the instruction at hand, "none" between two

vars == <<a, operand, flags, op>>

Naming == {"ADD", "ADC", "SUB", "SBB", "CMP", "INR", "DCR", "ANA", "XRA", "ORA"}
Implied == {"DAA", "RLC", "RRC", "RAL", "RAR", "CMA", "CMC", "STC"}

-----------------------------------------------------------------------------
(* The APPLY macros.                                                       *)

If(flag, condition) == IF condition THEN {flag} ELSE {}

ResultFlags(result) ==
  If("z", Low(result) = 0) \cup If("p", check_parity(Low(result))) \cup If("s", Bit(result, 7) = 1)

AuxCarry(op1, op2, result) ==
  If("ac", XorBit(XorBit(Bit(op1, 4), Bit(op2, 4)), Bit(result, 4)) = 1)

Carry(result) == If("cy", Bit(result, 8) = 1)
CarryInverted(result) == If("cy", Bit(result, 8) = 0)

CarryIn(f) == IF "cy" \in f THEN 1 ELSE 0

(* _add: its uint16_t result, and the flags it sets, all but the carry.    *)
Sum(left, right, carry) == (left + right + carry) % 65536

AddFlags(left, right, carry) ==
  LET result == Sum(left, right, carry)
  IN AuxCarry(left, right, result) \cup ResultFlags(result)

-----------------------------------------------------------------------------
(* Opcode functions as operators on values.                                *)

\* Mutant of AddCarry: ADC ignores the carry.
AddCarryNone(o, f) == 0

\* the carry that ADD or ADC passes to _add
AddCarry(o, f) == IF o = "ADC" THEN CarryIn(f) ELSE 0

\* the carry that SUB, SBB or CMP passes to _add with the complement
SubCarry(o, f) == IF o = "SBB" THEN 1 - CarryIn(f) ELSE 1

\* dad: hl and the carry of hl + *rp
DadHl(hl, rp) == (hl + rp) % 65536
DadCarry(hl, rp) == If("cy", Bit(hl + rp, 16) = 1)

\* Mutant of DaaHigh: a carry out of the low digit's correction is not foreseen.
DaaHighAlone(x, f) == x \div 16 > 9 \/ "cy" \in f

\* daa: is six added to the low digit, to the high digit?
DaaLow(x, f) == x % 16 > 9 \/ "ac" \in f
DaaHigh(x, f) == (x \div 16 >= 9 /\ x % 16 > 9) \/ x \div 16 > 9 \/ "cy" \in f

DaaWorking(x, f) == (IF DaaLow(x, f) THEN 6 ELSE 0) + (IF DaaHigh(x, f) THEN 96 ELSE 0)
DaaSum(x, f) == Sum(x, DaaWorking(x, f), 0)
DaaFlags(x, f) ==
  AddFlags(x, DaaWorking(x, f), 0) \cup If("cy", DaaHigh(x, f))

-----------------------------------------------------------------------------
(* An instruction is fetched, then executed.                               *)

Fetch ==
  /\ op = "none"
  /\ \/ op' \in Naming /\ operand' \in Operands \cup {a}
     \/ op' \in Implied /\ operand' = a
  /\ UNCHANGED <<a, flags>>

Done == op' = "none" /\ UNCHANGED operand

\* add_adc, adi, aci
AddAdc ==
  /\ op \in {"ADD", "ADC"}
  /\ LET carry == AddCarry(op, flags)
         result == Sum(a, operand, carry)
     IN /\ a' = Low(result)
        /\ flags' = AddFlags(a, operand, carry) \cup Carry(result)
  /\ Done

\* Mutant of SubSbb: the half-carry is taken with the operand, not its complement.
SubSbbUncomplemented ==
  /\ op \in {"SUB", "SBB"}
  /\ LET carry == SubCarry(op, flags)
         result == Sum(a, Not(operand), carry)
     IN /\ a' = Low(result)
        /\ flags' = AuxCarry(a, operand, result) \cup ResultFlags(result) \cup CarryInverted(result)
  /\ Done

\* sub_sbb, sui_sbi
SubSbb ==
  /\ op \in {"SUB", "SBB"}
  /\ LET carry == SubCarry(op, flags)
         result == Sum(a, Not(operand), carry)
     IN /\ a' = Low(result)
        /\ flags' = AddFlags(a, Not(operand), carry) \cup CarryInverted(result)
  /\ Done

\* cmp, cpi
Cmp ==
  /\ op = "CMP"
  /\ flags' = AddFlags(a, Not(operand), 1) \cup CarryInverted(Sum(a, Not(operand), 1))
  /\ UNCHANGED a
  /\ Done

(* INR and DCR go to the byte they name, which may be A itself.  (That     *)
(* write8 loses the result when it is a byte of ROM is not modelled.)      *)
Named(value) ==
  \/ operand' = value /\ UNCHANGED a
  \/ operand = a /\ a' = value /\ UNCHANGED operand

Inr ==
  /\ op = "INR"
  /\ Named(Low(Sum(operand, 1, 0)))
  /\ flags' = (flags \cap {"cy"}) \cup AddFlags(operand, 1, 0)
  /\ op' = "none"

\* the -1 is converted to a uint16_t
Dcr ==
  /\ op = "DCR"
  /\ Named(Low(Sum(operand, 65535, 0)))
  /\ flags' = (flags \cap {"cy"}) \cup AddFlags(operand, 65535, 0)
  /\ op' = "none"

\* ana, ani
Ana ==
  /\ op = "ANA"
  /\ a' = And(a, operand)
  /\ flags' = If("ac", Bit(Or(a, operand), 3) = 1) \cup ResultFlags(a')
  /\ Done

\* xra, xri
Xra ==
  /\ op = "XRA"
  /\ a' = Xor(a, operand)
  /\ flags' = ResultFlags(a')
  /\ Done

\* ora, ori
Ora ==
  /\ op = "ORA"
  /\ a' = Or(a, operand)
  /\ flags' = ResultFlags(a')
  /\ Done

Daa ==
  /\ op = "DAA"
  /\ a' = Low(DaaSum(a, flags))
  /\ flags' = DaaFlags(a, flags)
  /\ Done

\* the flags of an instruction that sets the carry only
OnlyCarry(condition) == flags' = (flags \ {"cy"}) \cup If("cy", condition)

Rlc ==
  /\ op = "RLC"
  /\ a' = Low(2 * a + a \div 128)
  /\ OnlyCarry(Bit(a', 0) = 1)
  /\ Done

Rrc ==
  /\ op = "RRC"
  /\ a' = Low(a \div 2 + 128 * a)
  /\ OnlyCarry(Bit(a', 7) = 1)
  /\ Done

\* Mutant of Ral: the result is kept in 16 bits.
RalWide ==
  /\ op = "RAL"
  /\ LET shifted == 2 * a + CarryIn(flags)
     IN a' = shifted /\ OnlyCarry(Bit(shifted, 8) = 1)
  /\ Done

Ral ==
  /\ op = "RAL"
  /\ LET shifted == 2 * a + CarryIn(flags)
     IN a' = Low(shifted) /\ OnlyCarry(Bit(shifted, 8) = 1)
  /\ Done

Rar ==
  /\ op = "RAR"
  /\ a' = a \div 2 + 128 * CarryIn(flags)
  /\ OnlyCarry(Bit(a, 0) = 1)
  /\ Done

Cma ==
  /\ op = "CMA"
  /\ a' = Not(a)
  /\ UNCHANGED flags
  /\ Done

CmcStc ==
  /\ op \in {"CMC", "STC"}
  /\ OnlyCarry(op = "STC" \/ "cy" \notin flags)
  /\ UNCHANGED a
  /\ Done

-----------------------------------------------------------------------------
Init == a = 0 /\ operand = 0 /\ flags = {} /\ op = "none"

Next ==
  \/ Fetch
  \/ AddAdc \/ SubSbb \/ Cmp \/ Inr \/ Dcr \/ Daa
  \/ Ana \/ Xra \/ Ora
  \/ Rlc \/ Rrc \/ Ral \/ Rar \/ Cma \/ CmcStc

Spec == Init /\ [][Next]_vars

-----------------------------------------------------------------------------
TypeOK ==
  /\ a \in Byte /\ operand \in Byte
  /\ flags \subseteq {"s", "z", "ac", "p", "cy"}
  /\ op \in Naming \cup Implied \cup {"none"}

(* Every opcode function computes what the processor's definition in       *)
(* Manual8080 says of the result and of each flag.                         *)
Manual == INSTANCE Manual8080
ImplementsManual == Manual!Spec

(* ADD or ADC of a number of two decimal digits to another one in A,       *)
(* followed by DAA, makes A their decimal sum and the carry its hundreds   *)
(* digit (arithmetic_opcodes.c:233-252 on the flags that _add leaves).     *)
IsDecimal(byte) == byte \div 16 <= 9 /\ byte % 16 <= 9
Value(byte) == 10 * (byte \div 16) + (byte % 16)

DecimalSums ==
  op \in {"ADD", "ADC"} /\ IsDecimal(a) /\ IsDecimal(operand) =>
    LET carry == AddCarry(op, flags)
        sum == Sum(a, operand, carry)
        f == AddFlags(a, operand, carry) \cup Carry(sum)
        adjusted == Low(DaaSum(Low(sum), f))
    IN /\ IsDecimal(adjusted)
       /\ Value(a) + Value(operand) + carry
            = 100 * CarryIn(DaaFlags(Low(sum), f)) + Value(adjusted)

(* When ADC or SBB is about to work on the high bytes of two words, after  *)
(* ADD or SUB of their low bytes, whatever these were, the result is that  *)
(* of 16-bit arithmetic, and DAD agrees with the addition                  *)
(* (arithmetic_opcodes.c:24-28, 101-105 and 216-221).                      *)
AddsWords(x, y) ==
  LET low == Sum(Low(x), Low(y), AddCarry("ADD", {}))
      high == Sum(High(x), High(y), AddCarry("ADC", Carry(low)))
  IN /\ Pair(Low(high), Low(low)) = DadHl(x, y)
     /\ Carry(high) = DadCarry(x, y)

SubtractsWords(x, y) ==
  LET low == Sum(Low(x), Not(Low(y)), SubCarry("SUB", {}))
      high == Sum(High(x), Not(High(y)), SubCarry("SBB", CarryInverted(low)))
  IN /\ Pair(Low(high), Low(low)) = (x - y) % 65536
     /\ "cy" \in CarryInverted(high) <=> x < y

WordArithmetic ==
  \A low1, low2 \in Operands :
    /\ op = "ADC" => AddsWords(Pair(a, low1), Pair(operand, low2))
    /\ op = "SBB" => SubtractsWords(Pair(a, low1), Pair(operand, low2))
=============================================================================
