----------------------------- MODULE DispatchProofs -----------------------------
(***************************************************************************)
(* The table, the sizes and the assertions agree for every opcode, and the *)
(* two bytes of the si library are a shift register, for bytes of any      *)
(* width.                                                                  *)
(***************************************************************************)
EXTENDS Dispatch, Integers, TLAPS

-----------------------------------------------------------------------------
(* An opcode by its octal digits.                                          *)

LEMMA Digits ==
  ASSUME NEW op \in Opcodes
  PROVE  \E x \in 0 .. 3, y \in Field, z \in Field : op = 64 * x + 8 * y + z
<1>. DEFINE x == op \div 64
            y == (op % 64) \div 8
            z == op % 8
<1>1. x \in 0 .. 3 /\ y \in Field /\ z \in Field /\ op = 64 * x + 8 * y + z
  BY DEF Opcodes, Field
<1>. QED
  BY <1>1

LEMMA InOctal ==
  ASSUME NEW x \in 0 .. 3, NEW ys \in SUBSET Field, NEW zs \in SUBSET Field,
         NEW y \in ys, NEW z \in zs
  PROVE  64 * x + 8 * y + z \in Octal(x, ys, zs)
  BY DEF Octal

(* The sizes by digits: moves and arithmetic take one byte.                *)
LEMMA SizesQuarter0 ==
  ASSUME NEW y \in Field, NEW z \in Field
  PROVE  get_opcode_size(8 * y + z) =
           IF z = 6 THEN 2
           ELSE IF (z = 1 /\ y \in Even) \/ (z = 2 /\ y >= 4) THEN 3 ELSE 1
  BY DEF get_opcode_size, ThreeBytes, TwoBytes, Field, Even

LEMMA SizesMiddle ==
  ASSUME NEW op \in 64 .. 191
  PROVE  get_opcode_size(op) = 1
  BY DEF get_opcode_size, ThreeBytes, TwoBytes

LEMMA SizesQuarter3 ==
  ASSUME NEW y \in Field, NEW z \in Field
  PROVE  get_opcode_size(192 + 8 * y + z) =
           IF z = 6 \/ (z = 3 /\ y \in {2, 3}) THEN 2
           ELSE IF z \in {2, 4} \/ (z = 5 /\ y \in Odd) \/ (z = 3 /\ y \in {0, 1}) THEN 3
           ELSE 1
  BY DEF get_opcode_size, ThreeBytes, TwoBytes, Field, Odd

-----------------------------------------------------------------------------
(* The assertions, function by function.                                   *)

LEMMA Domains ==
  /\ DOMAIN AssertedData =
       {"mov", "mvi", "lxi", "lda", "sta", "lhld", "shld", "ldax",
        "stax", "xchg"}
  /\ DOMAIN AssertedBranch =
       {"jmp", "jcond", "call", "ccond", "ret", "retcond", "rst",
        "pchl"}
  /\ DOMAIN AssertedArithmetic =
       {"add_adc", "adi", "aci", "sub_sbb", "sui_sbi", "inr",
        "dcr", "inx_dcx", "dad", "daa"}
  /\ DOMAIN AssertedLogical =
       {"ana", "ani", "xra", "xri", "ora", "ori", "cmp", "cpi",
        "rlc", "rrc", "ral", "rar", "cma", "cmc", "stc"}
  /\ DOMAIN AssertedOther =
       {"push", "pop", "xthl", "sphl", "ei", "di", "hlt", "nop"}
  /\ DOMAIN AssertedHardware =
       {"hw_in", "hw_out"}
  BY DEF AssertedData, AssertedBranch, AssertedArithmetic,
         AssertedLogical, AssertedOther, AssertedHardware

LEMMA OfData ==
  ASSUME NEW f \in DOMAIN AssertedData
  PROVE  Asserted(f) = AssertedData[f]
  BY Domains DEF Asserted

LEMMA OfBranch ==
  ASSUME NEW f \in DOMAIN AssertedBranch
  PROVE  Asserted(f) = AssertedBranch[f]
  BY Domains DEF Asserted

LEMMA OfArithmetic ==
  ASSUME NEW f \in DOMAIN AssertedArithmetic
  PROVE  Asserted(f) = AssertedArithmetic[f]
  BY Domains DEF Asserted

LEMMA OfLogical ==
  ASSUME NEW f \in DOMAIN AssertedLogical
  PROVE  Asserted(f) = AssertedLogical[f]
  BY Domains DEF Asserted

LEMMA OfOther ==
  ASSUME NEW f \in DOMAIN AssertedOther
  PROVE  Asserted(f) = AssertedOther[f]
  BY Domains DEF Asserted

LEMMA OfHardware ==
  ASSUME NEW f \in DOMAIN AssertedHardware
  PROVE  Asserted(f) = AssertedHardware[f]
  BY Domains DEF Asserted
(* What a function asserts and how much it reads.                          *)
LEMMA DataFunctions ==
  /\ Asserted("mov") = Octal(1, Field, Field) \ {\h76} /\ Immediates("mov") = 0
  /\ Asserted("mvi") = Octal(0, Field, {6}) /\ Immediates("mvi") = 1
  /\ Asserted("lxi") = Octal(0, Even, {1}) /\ Immediates("lxi") = 2
  /\ Asserted("lda") = {\h3A} /\ Immediates("lda") = 2
  /\ Asserted("sta") = {\h32} /\ Immediates("sta") = 2
  /\ Asserted("lhld") = {\h2A} /\ Immediates("lhld") = 2
  /\ Asserted("shld") = {\h22} /\ Immediates("shld") = 2
  /\ Asserted("ldax") = {\h0A, \h1A} /\ Immediates("ldax") = 0
  /\ Asserted("stax") = {\h02, \h12} /\ Immediates("stax") = 0
  /\ Asserted("xchg") = {\hEB} /\ Immediates("xchg") = 0
  BY Domains, OfData DEF AssertedData, Immediates

LEMMA BranchFunctions ==
  /\ Asserted("jmp") = {\hC3, \hCB} /\ Immediates("jmp") = 2
  /\ Asserted("jcond") = Octal(3, Field, {2}) /\ Immediates("jcond") = 2
  /\ Asserted("call") = Octal(3, Odd, {5}) /\ Immediates("call") = 2
  /\ Asserted("ccond") = Octal(3, Field, {4}) /\ Immediates("ccond") = 2
  /\ Asserted("ret") = Octal(3, {1, 3}, {1}) /\ Immediates("ret") = 0
  /\ Asserted("retcond") = Octal(3, Field, {0}) /\ Immediates("retcond") = 0
  /\ Asserted("rst") = Octal(3, Field, {7}) /\ Immediates("rst") = 0
  /\ Asserted("pchl") = {\hE9} /\ Immediates("pchl") = 0
  BY Domains, OfBranch DEF AssertedBranch, Immediates

LEMMA ArithmeticFunctions ==
  /\ Asserted("add_adc") = Octal(2, {0, 1}, Field) /\ Immediates("add_adc") = 0
  /\ Asserted("adi") = {\hC6} /\ Immediates("adi") = 1
  /\ Asserted("aci") = {\hCE} /\ Immediates("aci") = 1
  /\ Asserted("sub_sbb") = Octal(2, {2, 3}, Field) /\ Immediates("sub_sbb") = 0
  /\ Asserted("sui_sbi") = {\hD6, \hDE} /\ Immediates("sui_sbi") = 1
  /\ Asserted("inr") = Octal(0, Field, {4}) /\ Immediates("inr") = 0
  /\ Asserted("dcr") = Octal(0, Field, {5}) /\ Immediates("dcr") = 0
  /\ Asserted("inx_dcx") = Octal(0, Field, {3}) /\ Immediates("inx_dcx") = 0
  /\ Asserted("dad") = Octal(0, Odd, {1}) /\ Immediates("dad") = 0
  /\ Asserted("daa") = {\h27} /\ Immediates("daa") = 0
  BY Domains, OfArithmetic DEF AssertedArithmetic, Immediates

LEMMA LogicalFunctions ==
  /\ Asserted("ana") = Octal(2, {4}, Field) /\ Immediates("ana") = 0
  /\ Asserted("ani") = {\hE6} /\ Immediates("ani") = 1
  /\ Asserted("xra") = Octal(2, {5}, Field) /\ Immediates("xra") = 0
  /\ Asserted("xri") = {\hEE} /\ Immediates("xri") = 1
  /\ Asserted("ora") = Octal(2, {6}, Field) /\ Immediates("ora") = 0
  /\ Asserted("ori") = {\hF6} /\ Immediates("ori") = 1
  /\ Asserted("cmp") = Octal(2, {7}, Field) /\ Immediates("cmp") = 0
  /\ Asserted("cpi") = {\hFE} /\ Immediates("cpi") = 1
  /\ Asserted("rlc") = {\h07} /\ Immediates("rlc") = 0
  /\ Asserted("rrc") = {\h0F} /\ Immediates("rrc") = 0
  /\ Asserted("ral") = {\h17} /\ Immediates("ral") = 0
  /\ Asserted("rar") = {\h1F} /\ Immediates("rar") = 0
  /\ Asserted("cma") = {\h2F} /\ Immediates("cma") = 0
  /\ Asserted("cmc") = {\h3F} /\ Immediates("cmc") = 0
  /\ Asserted("stc") = {\h37} /\ Immediates("stc") = 0
  BY Domains, OfLogical DEF AssertedLogical, Immediates

LEMMA OtherFunctions ==
  /\ Asserted("push") = Octal(3, Even, {5}) /\ Immediates("push") = 0
  /\ Asserted("pop") = Octal(3, Even, {1}) /\ Immediates("pop") = 0
  /\ Asserted("xthl") = {\hE3} /\ Immediates("xthl") = 0
  /\ Asserted("sphl") = {\hF9} /\ Immediates("sphl") = 0
  /\ Asserted("ei") = {\hFB} /\ Immediates("ei") = 0
  /\ Asserted("di") = {\hF3} /\ Immediates("di") = 0
  /\ Asserted("hlt") = {\h76} /\ Immediates("hlt") = 0
  /\ Asserted("nop") = Octal(0, Field, {0}) /\ Immediates("nop") = 0
  BY Domains, OfOther DEF AssertedOther, Immediates

-----------------------------------------------------------------------------
(* The table and what it is compared with, a quarter at a time.  Each      *)
(* function is one that the table names itself, so not one of those that   *)
(* the library fills in.                                                   *)

Agrees(op, f) ==
  /\ f \notin {"NULL", "hw_in", "hw_out"}
  /\ op \in Asserted(f)
  /\ 1 + Immediates(f) = get_opcode_size(op)

LEMMA Quarter0 ==
  ASSUME NEW y \in Field, NEW z \in Field
  PROVE  Agrees(8 * y + z, opcodes[8 * y + z])
<1>. DEFINE op == 8 * y + z
            f == opcodes[op]
<1>. SUFFICES Agrees(op, f)
  OBVIOUS
<1>1. op \in 0 .. 63 /\ op \in Opcodes
  BY DEF Field, Opcodes
<1>2. f = Opcodes00[op + 1]
  BY <1>1 DEF opcodes
<1>. HIDE DEF f
<1>3. \A zs \in SUBSET Field, ys \in SUBSET Field : y \in ys /\ z \in zs => op \in Octal(0, ys, zs)
  <2>1. op = 64 * 0 + 8 * y + z
    BY DEF Field
  <2>. QED
    BY <2>1, InOctal
<1>4. get_opcode_size(op) =
        IF z = 6 THEN 2
        ELSE IF (z = 1 /\ y \in Even) \/ (z = 2 /\ y >= 4) THEN 3 ELSE 1
  BY SizesQuarter0
<1>5. y \in {0, 1, 2, 3, 4, 5, 6, 7} /\ z \in {0, 1, 2, 3, 4, 5, 6, 7}
  BY DEF Field
<1>6. CASE z \in {0, 3, 4, 5, 6}
  <2>1. f = IF z = 0 THEN "nop" ELSE IF z = 3 THEN "inx_dcx" ELSE IF z = 4 THEN "inr"
            ELSE IF z = 5 THEN "dcr" ELSE "mvi"
    BY <1>2, <1>5, <1>6 DEF Opcodes00
  <2>2. op \in Octal(0, Field, {z})
    BY <1>3 DEF Field
  <2>3. CASE z = 0
    <3>1. f = "nop" /\ op \in Octal(0, Field, {0}) /\ get_opcode_size(op) = 1
      BY <1>4, <2>1, <2>2, <2>3
    <3>. QED
      BY <3>1, OtherFunctions DEF Agrees
  <2>4. CASE z = 3
    <3>1. f = "inx_dcx" /\ op \in Octal(0, Field, {3}) /\ get_opcode_size(op) = 1
      BY <1>4, <2>1, <2>2, <2>4
    <3>. QED
      BY <3>1, ArithmeticFunctions DEF Agrees
  <2>5. CASE z = 4
    <3>1. f = "inr" /\ op \in Octal(0, Field, {4}) /\ get_opcode_size(op) = 1
      BY <1>4, <2>1, <2>2, <2>5
    <3>. QED
      BY <3>1, ArithmeticFunctions DEF Agrees
  <2>6. CASE z = 5
    <3>1. f = "dcr" /\ op \in Octal(0, Field, {5}) /\ get_opcode_size(op) = 1
      BY <1>4, <2>1, <2>2, <2>6
    <3>. QED
      BY <3>1, ArithmeticFunctions DEF Agrees
  <2>7. CASE z = 6
    <3>1. f = "mvi" /\ op \in Octal(0, Field, {6}) /\ get_opcode_size(op) = 2
      BY <1>4, <2>1, <2>2, <2>7
    <3>. QED
      BY <3>1, DataFunctions DEF Agrees
  <2>. QED
    BY <1>6, <2>3, <2>4, <2>5, <2>6, <2>7
<1>7. CASE z = 1
  <2>1. f = IF y \in Even THEN "lxi" ELSE "dad"
    BY <1>2, <1>5, <1>7 DEF Opcodes00, Even
  <2>2. CASE y \in Even
    <3>1. f = "lxi" /\ op \in Octal(0, Even, {1}) /\ get_opcode_size(op) = 3
      BY <1>3, <1>4, <1>7, <2>1, <2>2 DEF Field, Even
    <3>. QED
      BY <3>1, DataFunctions DEF Agrees
  <2>3. CASE y \notin Even
    <3>1. f = "dad" /\ op \in Octal(0, Odd, {1}) /\ get_opcode_size(op) = 1
      BY <1>3, <1>4, <1>5, <1>7, <2>1, <2>3 DEF Field, Even, Odd
    <3>. QED
      BY <3>1, ArithmeticFunctions DEF Agrees
  <2>. QED
    BY <2>2, <2>3
<1>8. CASE z = 2
  <2>1. /\ y = 0 => f = "stax" /\ op = 2
        /\ y = 1 => f = "ldax" /\ op = 10
        /\ y = 2 => f = "stax" /\ op = 18
        /\ y = 3 => f = "ldax" /\ op = 26
        /\ y = 4 => f = "shld" /\ op = 34
        /\ y = 5 => f = "lhld" /\ op = 42
        /\ y = 6 => f = "sta" /\ op = 50
        /\ y = 7 => f = "lda" /\ op = 58
    BY <1>2, <1>8 DEF Opcodes00
  <2>. QED
    BY <1>4, <1>5, <1>8, <2>1, DataFunctions DEF Agrees
<1>9. CASE z = 7
  <2>1. /\ y = 0 => f = "rlc" /\ op = 7
        /\ y = 1 => f = "rrc" /\ op = 15
        /\ y = 2 => f = "ral" /\ op = 23
        /\ y = 3 => f = "rar" /\ op = 31
        /\ y = 4 => f = "daa" /\ op = 39
        /\ y = 5 => f = "cma" /\ op = 47
        /\ y = 6 => f = "stc" /\ op = 55
        /\ y = 7 => f = "cmc" /\ op = 63
    BY <1>2, <1>9 DEF Opcodes00
  <2>. QED
    BY <1>4, <1>5, <1>9, <2>1, ArithmeticFunctions, LogicalFunctions DEF Agrees
<1>. QED
  BY <1>5, <1>6, <1>7, <1>8, <1>9

LEMMA Quarter1 ==
  ASSUME NEW y \in Field, NEW z \in Field
  PROVE  Agrees(64 + 8 * y + z, opcodes[64 + 8 * y + z])
<1>. DEFINE op == 64 + 8 * y + z
            f == opcodes[op]
<1>. SUFFICES Agrees(op, f)
  OBVIOUS
<1>1. op \in 64 .. 127 /\ op \in Opcodes
  BY DEF Field, Opcodes
<1>2. f = IF op = 118 THEN "hlt" ELSE "mov"
  BY <1>1 DEF opcodes, Opcodes40
<1>. HIDE DEF f
<1>3. op \in Octal(1, Field, Field)
  <2>1. op = 64 * 1 + 8 * y + z
    BY DEF Field
  <2>. QED
    BY <2>1, InOctal
<1>4. get_opcode_size(op) = 1
  BY <1>1, SizesMiddle
<1>. HIDE DEF op
<1>. QED
  BY <1>2, <1>3, <1>4, DataFunctions, OtherFunctions DEF Agrees

LEMMA Quarter2 ==
  ASSUME NEW y \in Field, NEW z \in Field
  PROVE  Agrees(128 + 8 * y + z, opcodes[128 + 8 * y + z])
<1>. DEFINE op == 128 + 8 * y + z
            f == opcodes[op]
<1>. SUFFICES Agrees(op, f)
  OBVIOUS
<1>1. op \in 128 .. 191 /\ op \in Opcodes
  BY DEF Field, Opcodes
<1>2. f = Opcodes80[y + 1]
  <2>1. (op - 128) \div 8 = y
    BY DEF Field
  <2>. QED
    BY <1>1, <2>1 DEF opcodes
<1>. HIDE DEF f
<1>3. \A ys \in SUBSET Field : y \in ys => op \in Octal(2, ys, Field)
  <2>1. op = 64 * 2 + 8 * y + z
    BY DEF Field
  <2>. QED
    BY <2>1, InOctal
<1>4. get_opcode_size(op) = 1
  BY <1>1, SizesMiddle
<1>. HIDE DEF op
<1>5. y \in {0, 1, 2, 3, 4, 5, 6, 7}
  BY DEF Field
<1>6. CASE y \in {0, 1}
  <2>1. f = "add_adc" /\ op \in Octal(2, {0, 1}, Field)
    BY <1>2, <1>3, <1>6 DEF Opcodes80, Field
  <2>. QED
    BY <1>4, <2>1, ArithmeticFunctions DEF Agrees
<1>7. CASE y \in {2, 3}
  <2>1. f = "sub_sbb" /\ op \in Octal(2, {2, 3}, Field)
    BY <1>2, <1>3, <1>7 DEF Opcodes80, Field
  <2>. QED
    BY <1>4, <2>1, ArithmeticFunctions DEF Agrees
<1>8. CASE y \in {4, 5, 6, 7}
  <2>1. /\ f = IF y = 4 THEN "ana" ELSE IF y = 5 THEN "xra" ELSE IF y = 6 THEN "ora" ELSE "cmp"
        /\ op \in Octal(2, {y}, Field)
    BY <1>2, <1>3, <1>8 DEF Opcodes80, Field
  <2>2. \/ f = "ana" /\ op \in Octal(2, {4}, Field)
        \/ f = "xra" /\ op \in Octal(2, {5}, Field)
        \/ f = "ora" /\ op \in Octal(2, {6}, Field)
        \/ f = "cmp" /\ op \in Octal(2, {7}, Field)
    BY <1>8, <2>1
  <2>. QED
    BY <1>4, <2>2, LogicalFunctions DEF Agrees
<1>. QED
  BY <1>5, <1>6, <1>7, <1>8

LEMMA Quarter3 ==
  ASSUME NEW y \in Field, NEW z \in Field,
         192 + 8 * y + z \notin {OpcodeIn, OpcodeOut}
  PROVE  Agrees(192 + 8 * y + z, opcodes[192 + 8 * y + z])
<1>. DEFINE op == 192 + 8 * y + z
            f == opcodes[op]
<1>. SUFFICES Agrees(op, f)
  OBVIOUS
<1>1. op \in 192 .. 255 /\ op \in Opcodes /\ op - 192 = 8 * y + z
  BY DEF Field, Opcodes
<1>2. f = OpcodesC0[8 * y + z + 1]
  BY <1>1 DEF opcodes
<1>. HIDE DEF f
<1>3. \A zs \in SUBSET Field, ys \in SUBSET Field : y \in ys /\ z \in zs => op \in Octal(3, ys, zs)
  <2>1. op = 64 * 3 + 8 * y + z
    BY DEF Field
  <2>. QED
    BY <2>1, InOctal
<1>4. get_opcode_size(op) =
        IF z = 6 \/ (z = 3 /\ y \in {2, 3}) THEN 2
        ELSE IF z \in {2, 4} \/ (z = 5 /\ y \in Odd) \/ (z = 3 /\ y \in {0, 1}) THEN 3
        ELSE 1
  BY SizesQuarter3
<1>5. y \in {0, 1, 2, 3, 4, 5, 6, 7} /\ z \in {0, 1, 2, 3, 4, 5, 6, 7}
  BY DEF Field
<1>6. CASE z = 0
  <2>1. f = "retcond" /\ op \in Octal(3, Field, {0}) /\ get_opcode_size(op) = 1
    BY <1>2, <1>3, <1>4, <1>5, <1>6 DEF OpcodesC0, Field
  <2>. QED
    BY <2>1, BranchFunctions DEF Agrees
<1>7. CASE z = 1
  <2>1. CASE y \in Even
    <3>1. f = "pop" /\ op \in Octal(3, Even, {1}) /\ get_opcode_size(op) = 1
      BY <1>2, <1>3, <1>4, <1>5, <1>7, <2>1 DEF OpcodesC0, Field, Even
    <3>. QED
      BY <3>1, OtherFunctions DEF Agrees
  <2>2. CASE y \in {1, 3}
    <3>1. f = "ret" /\ op \in Octal(3, {1, 3}, {1}) /\ get_opcode_size(op) = 1
      BY <1>2, <1>3, <1>4, <1>7, <2>2 DEF OpcodesC0, Field
    <3>. QED
      BY <3>1, BranchFunctions DEF Agrees
  <2>3. CASE y = 5
    <3>1. f = "pchl" /\ op = 233 /\ get_opcode_size(op) = 1
      BY <1>2, <1>4, <1>7, <2>3 DEF OpcodesC0
    <3>. QED
      BY <3>1, BranchFunctions DEF Agrees
  <2>4. CASE y = 7
    <3>1. f = "sphl" /\ op = 249 /\ get_opcode_size(op) = 1
      BY <1>2, <1>4, <1>7, <2>4 DEF OpcodesC0
    <3>. QED
      BY <3>1, OtherFunctions DEF Agrees
  <2>. QED
    BY <1>5, <2>1, <2>2, <2>3, <2>4 DEF Even
<1>8. CASE z = 2
  <2>1. f = "jcond" /\ op \in Octal(3, Field, {2}) /\ get_opcode_size(op) = 3
    BY <1>2, <1>3, <1>4, <1>5, <1>8 DEF OpcodesC0, Field
  <2>. QED
    BY <2>1, BranchFunctions DEF Agrees
<1>9. CASE z = 3
  <2>1. y \notin {2, 3}
    BY <1>9 DEF OpcodeIn, OpcodeOut
  <2>2. \/ f = "jmp" /\ op \in {195, 203} /\ get_opcode_size(op) = 3
        \/ f = "xthl" /\ op = 227 /\ get_opcode_size(op) = 1
        \/ f = "xchg" /\ op = 235 /\ get_opcode_size(op) = 1
        \/ f = "di" /\ op = 243 /\ get_opcode_size(op) = 1
        \/ f = "ei" /\ op = 251 /\ get_opcode_size(op) = 1
    BY <1>2, <1>4, <1>5, <1>9, <2>1 DEF OpcodesC0
  <2>. QED
    BY <2>2, BranchFunctions, OtherFunctions, DataFunctions DEF Agrees
<1>10. CASE z = 4
  <2>1. f = "ccond" /\ op \in Octal(3, Field, {4}) /\ get_opcode_size(op) = 3
    BY <1>2, <1>3, <1>4, <1>5, <1>10 DEF OpcodesC0, Field
  <2>. QED
    BY <2>1, BranchFunctions DEF Agrees
<1>11. CASE z = 5
  <2>1. CASE y \in Even
    <3>1. f = "push" /\ op \in Octal(3, Even, {5}) /\ get_opcode_size(op) = 1
      BY <1>2, <1>3, <1>4, <1>5, <1>11, <2>1 DEF OpcodesC0, Field, Even, Odd
    <3>. QED
      BY <3>1, OtherFunctions DEF Agrees
  <2>2. CASE y \in Odd
    <3>1. f = "call" /\ op \in Octal(3, Odd, {5}) /\ get_opcode_size(op) = 3
      BY <1>2, <1>3, <1>4, <1>5, <1>11, <2>2 DEF OpcodesC0, Field, Odd
    <3>. QED
      BY <3>1, BranchFunctions DEF Agrees
  <2>. QED
    BY <1>5, <2>1, <2>2 DEF Even, Odd
<1>12. CASE z = 6
  <2>1. get_opcode_size(op) = 2
    BY <1>4, <1>12
  <2>2. \/ f = "adi" /\ op = 198
        \/ f = "aci" /\ op = 206
        \/ f = "sui_sbi" /\ op \in {214, 222}
        \/ f = "ani" /\ op = 230
        \/ f = "xri" /\ op = 238
        \/ f = "ori" /\ op = 246
        \/ f = "cpi" /\ op = 254
    BY <1>2, <1>5, <1>12 DEF OpcodesC0
  <2>. QED
    BY <2>1, <2>2, ArithmeticFunctions, LogicalFunctions DEF Agrees
<1>13. CASE z = 7
  <2>1. f = "rst" /\ op \in Octal(3, Field, {7}) /\ get_opcode_size(op) = 1
    BY <1>2, <1>3, <1>4, <1>5, <1>13 DEF OpcodesC0, Field
  <2>. QED
    BY <2>1, BranchFunctions DEF Agrees
<1>. QED
  BY <1>5, <1>6, <1>7, <1>8, <1>9, <1>10, <1>11, <1>12, <1>13

(* Whatever byte is fetched, the function that the table names accepts it  *)
(* and reads the rest of its instruction; the two entries that are left to *)
(* the library take two bytes (opcode_array.c:39-296, opcode_size.h:6-62). *)
THEOREM TableAgrees ==
  ASSUME NEW op \in Opcodes \ {OpcodeIn, OpcodeOut}
  PROVE  Agrees(op, opcodes[op])
<1>1. PICK x \in 0 .. 3, y \in Field, z \in Field : op = 64 * x + 8 * y + z
  BY Digits
<1>2. CASE x = 0
  <2>1. op = 8 * y + z
    BY <1>1, <1>2 DEF Field
  <2>. QED
    BY <2>1, Quarter0
<1>3. CASE x = 1
  <2>1. op = 64 + 8 * y + z
    BY <1>1, <1>3 DEF Field
  <2>. QED
    BY <2>1, Quarter1
<1>4. CASE x = 2
  <2>1. op = 128 + 8 * y + z
    BY <1>1, <1>4 DEF Field
  <2>. QED
    BY <2>1, Quarter2
<1>5. CASE x = 3
  <2>1. op = 192 + 8 * y + z
    BY <1>1, <1>5 DEF Field
  <2>. QED
    BY <2>1, Quarter3
<1>. QED
  BY <1>2, <1>3, <1>4, <1>5

LEMMA LibraryFunctions ==
  /\ OpcodeIn \in Asserted("hw_in") /\ 1 + Immediates("hw_in") = get_opcode_size(OpcodeIn)
  /\ OpcodeOut \in Asserted("hw_out") /\ 1 + Immediates("hw_out") = get_opcode_size(OpcodeOut)
<1>1. Asserted("hw_in") = {OpcodeIn} /\ Asserted("hw_out") = {OpcodeOut}
  BY Domains, OfHardware DEF AssertedHardware
<1>2. get_opcode_size(OpcodeIn) = 2 /\ get_opcode_size(OpcodeOut) = 2
  BY DEF get_opcode_size, ThreeBytes, TwoBytes, OpcodeIn, OpcodeOut
<1>3. Immediates("hw_in") = 1 /\ Immediates("hw_out") = 1
  BY DEF Immediates
<1>. QED
  BY <1>1, <1>2, <1>3

-----------------------------------------------------------------------------
(* The program runs only with a whole library, whose two functions are     *)
(* then in the table.                                                      *)

Loaded ==
  /\ Looked \ {"hw_interrupt_hook"} \subseteq defined
  /\ DOMAIN table = {OpcodeIn, OpcodeOut}
  /\ table[OpcodeIn] = "hw_in"
  /\ table[OpcodeOut] = "hw_out"

IInv ==
  /\ place = "run" => Loaded
  /\ NoAssertionFails
  /\ OperandsInPlace
  /\ OnlyTheHookMayBeNull

LEMMA FindHwFuncsKeeps == IInv /\ FindHwFuncs => IInv'
<1> SUFFICES ASSUME IInv, FindHwFuncs
             PROVE  IInv'
  OBVIOUS
<1>1. defined' = defined /\ inPlace' = inPlace
  BY DEF FindHwFuncs
<1>2. place' \in {"run", "exited"}
  BY DEF FindHwFuncs
<1>3. OpcodeIn # OpcodeOut
  BY DEF OpcodeIn, OpcodeOut
<1>4. place' = "run" => Looked \ {"hw_interrupt_hook"} \subseteq defined
  BY DEF FindHwFuncs
<1>5. "hw_in" \in Looked \ {"hw_interrupt_hook"} /\ "hw_out" \in Looked \ {"hw_interrupt_hook"}
  BY DEF Looked
<1>6. /\ DOMAIN table' = {OpcodeIn, OpcodeOut}
      /\ table'[OpcodeIn] = IF "hw_in" \in defined THEN "hw_in" ELSE Null
      /\ table'[OpcodeOut] = IF "hw_out" \in defined THEN "hw_out" ELSE Null
  BY <1>3 DEF FindHwFuncs
<1>7. place' = "run" => Loaded'
  BY <1>1, <1>4, <1>5, <1>6 DEF Loaded
<1>. QED
  BY <1>1, <1>2, <1>7 DEF IInv, NoAssertionFails, OperandsInPlace, OnlyTheHookMayBeNull

(* What a call of a function that agrees with the opcode comes to.         *)
LEMMA CallOutcome ==
  ASSUME IInv, place = "run", NEW op \in Opcodes, NEW r,
         r = get_opcode_size(op), Call(op, r)
  PROVE  IInv'
<1>1. Loaded
  BY DEF IInv
<1>2. /\ Called(op) # Null
      /\ op \in Asserted(Called(op))
      /\ 1 + Immediates(Called(op)) = get_opcode_size(op)
  <2>1. CASE op = OpcodeIn
    <3>1. Called(op) = "hw_in"
      BY <1>1, <2>1 DEF Loaded, Called
    <3>. QED
      BY <2>1, <3>1, LibraryFunctions DEF Null
  <2>2. CASE op = OpcodeOut
    <3>1. Called(op) = "hw_out"
      BY <1>1, <2>2 DEF Loaded, Called
    <3>. QED
      BY <2>2, <3>1, LibraryFunctions DEF Null
  <2>3. CASE op \notin {OpcodeIn, OpcodeOut}
    <3>1. Called(op) = opcodes[op]
      BY <1>1, <2>3 DEF Loaded, Called
    <3>. QED
      BY <2>3, <3>1, TableAgrees DEF Null, Agrees
  <2>. QED
    BY <2>1, <2>2, <2>3
<1>3. place' = "run" /\ inPlace' = TRUE
  BY <1>2 DEF Call, Outcome
<1>4. defined' = defined /\ table' = table
  BY DEF Call
<1>. QED
  BY <1>1, <1>3, <1>4 DEF IInv, Loaded, NoAssertionFails, OperandsInPlace, OnlyTheHookMayBeNull

LEMMA Inductive == IInv /\ [Next]_vars => IInv'
<1> SUFFICES ASSUME IInv, [Next]_vars
             PROVE  IInv'
  OBVIOUS
<1>1. CASE FindHwFuncs
  BY <1>1, FindHwFuncsKeeps
<1>2. CASE Execute
  <2>1. PICK op \in Opcodes : Call(op, get_opcode_size(op))
    BY <1>2 DEF Execute
  <2>. QED
    BY <1>2, <2>1, CallOutcome DEF Execute
<1>3. CASE Interrupt
  <2>1. PICK op \in Opcodes : get_opcode_size(op) = 1 /\ Call(op, 1)
    BY <1>3 DEF Interrupt
  <2>. QED
    BY <1>3, <2>1, CallOutcome DEF Interrupt
<1>4. CASE InterruptNull
  BY <1>4 DEF InterruptNull, IInv, Loaded, NoAssertionFails, OperandsInPlace, OnlyTheHookMayBeNull
<1>5. CASE Ended \/ UNCHANGED vars
  BY <1>5 DEF Ended, vars, IInv, Loaded, NoAssertionFails, OperandsInPlace, OnlyTheHookMayBeNull
<1>. QED
  BY <1>1, <1>2, <1>3, <1>4, <1>5 DEF Next

LEMMA InitHolds == Init => IInv
  BY DEF Init, IInv, NoAssertionFails, OperandsInPlace, OnlyTheHookMayBeNull

LEMMA Holds == Spec => []IInv
  BY InitHolds, Inductive, PTL DEF Spec

(* No byte, fetched or posted, reaches a function that rejects it.         *)
THEOREM TableMatchesAssertions == Spec => []NoAssertionFails
<1>1. IInv => NoAssertionFails
  BY DEF IInv
<1>. QED
  BY <1>1, Holds, PTL

(* pc is moved over exactly the bytes that the function reads.             *)
THEOREM TableMatchesSizes == Spec => []OperandsInPlace
<1>1. IInv => OperandsInPlace
  BY DEF IInv
<1>. QED
  BY <1>1, Holds, PTL

(* A library without hw_in or hw_out never gets to be called.              *)
THEOREM OnlyHookNull == Spec => []OnlyTheHookMayBeNull
<1>1. IInv => OnlyTheHookMayBeNull
  BY DEF IInv
<1>. QED
  BY <1>1, Holds, PTL

-----------------------------------------------------------------------------
(* Arithmetic of shifts: p is 2^Width, m is 2^shift_offset and d is        *)
(* 2^(Width - shift_offset).                                               *)

LEMMA ProductGrows ==
  ASSUME NEW a \in Nat, NEW b \in Nat, NEW k \in Nat, a <= b
  PROVE  a * k <= b * k
  OBVIOUS

LEMMA Distribute ==
  ASSUME NEW a \in Int, NEW b \in Int, NEW k \in Int
  PROVE  /\ (a + b) * k = a * k + b * k
         /\ (a - b) * k = a * k - b * k
  OBVIOUS

LEMMA Associate ==
  ASSUME NEW a \in Int, NEW b \in Int, NEW k \in Int
  PROVE  (a * b) * k = a * (b * k) /\ (a * b) * k = (a * k) * b
  OBVIOUS

(* Quotient and remainder are unique.                                      *)
LEMMA Euclid ==
  ASSUME NEW p \in Nat \ {0}, NEW q \in Nat, NEW r \in 0 .. p - 1
  PROVE  (q * p + r) \div p = q /\ (q * p + r) % p = r
<1>. DEFINE x == q * p + r
            k == x \div p
            s == x % p
<1>1. x \in Nat
  OBVIOUS
<1>2. k \in Nat /\ s \in 0 .. p - 1 /\ x = k * p + s
  BY <1>1
<1>. HIDE DEF k, s
<1>3. ~(k > q)
  <2>1. SUFFICES ASSUME k >= q + 1
                 PROVE  FALSE
    BY <1>2
  <2>2. (q + 1) * p <= k * p
    BY <1>2, <2>1, ProductGrows
  <2>3. (q + 1) * p = q * p + p
    OBVIOUS
  <2>. QED
    BY <1>2, <2>2, <2>3
<1>4. ~(k < q)
  <2>1. SUFFICES ASSUME k + 1 <= q
                 PROVE  FALSE
    BY <1>2
  <2>2. (k + 1) * p <= q * p
    BY <1>2, <2>1, ProductGrows
  <2>3. (k + 1) * p = k * p + p
    BY <1>2
  <2>. QED
    BY <1>2, <2>2, <2>3
<1>5. k = q
  BY <1>2, <1>3, <1>4
<1>6. s = r
  BY <1>2, <1>5
<1>. QED
  BY <1>5, <1>6 DEF k, s

LEMMA Division ==
  ASSUME NEW p \in Nat \ {0}, NEW x \in Nat
  PROVE  /\ x \div p \in Nat /\ x % p \in 0 .. p - 1
         /\ x = (x \div p) * p + (x % p)
  OBVIOUS

(* The window on the register is the high byte shifted left and, below it, *)
(* the top bits of the low byte.                                           *)
LEMMA WindowArithmetic ==
  ASSUME NEW p \in Nat \ {0}, NEW m \in Nat \ {0}, NEW d \in Nat \ {0}, p = m * d,
         NEW new \in 0 .. p - 1, NEW old \in 0 .. p - 1
  PROVE  (((new * p + old) * m) \div p) % p = ((new * m) % p) + (old \div d)
<1>1. PICK q \in Nat, r \in 0 .. d - 1 : old = q * d + r /\ old \div d = q
  BY Division
<1>2. PICK a \in Nat, b \in 0 .. d - 1 : new = a * d + b
  <2>1. ASSUME NEW x \in Nat
        PROVE  \E a \in Nat, b \in 0 .. d - 1 : x = a * d + b
    <3>1. /\ x \div d \in Nat /\ x % d \in 0 .. d - 1
          /\ x = (x \div d) * d + (x % d)
      BY Division
    <3>. QED
      BY <3>1
  <2>2. new \in Nat
    OBVIOUS
  <2>. QED
    BY <2>1, <2>2
<1>3. q <= m - 1
  <2>1. SUFFICES ASSUME m <= q
                 PROVE  FALSE
    BY <1>1
  <2>2. m * d <= q * d
    BY <2>1, ProductGrows
  <2>. QED
    BY <1>1, <2>2
<1>4. \A c \in 0 .. d - 1 : c * m \in Nat /\ c * m <= p - m
  <2>1. TAKE c \in 0 .. d - 1
  <2>2. c * m <= (d - 1) * m
    BY ProductGrows
  <2>3. (d - 1) * m = p - m
    BY Distribute
  <2>. QED
    BY <2>2, <2>3
<1>5. old * m = q * p + r * m
  <2>1. (q * d + r) * m = (q * d) * m + r * m
    OBVIOUS
  <2>2. (q * d) * m = q * p
    BY Associate
  <2>. QED
    BY <1>1, <2>1, <2>2
<1>6. new * m = a * p + b * m
  <2>1. (a * d + b) * m = (a * d) * m + b * m
    OBVIOUS
  <2>2. (a * d) * m = a * p
    BY Associate
  <2>. QED
    BY <1>2, <2>1, <2>2
<1>7. (new * p + old) * m = (new * m + q) * p + r * m
  <2>1. (new * p + old) * m = (new * p) * m + old * m
    OBVIOUS
  <2>2. (new * p) * m = (new * m) * p
    BY Associate
  <2>3. (new * m + q) * p = (new * m) * p + q * p
    OBVIOUS
  <2>. QED
    BY <1>5, <2>1, <2>2, <2>3
<1>8. ((new * p + old) * m) \div p = new * m + q
  <2>1. r * m \in 0 .. p - 1 /\ new * m + q \in Nat
    BY <1>4
  <2>. QED
    BY <1>7, <2>1, Euclid
<1>9. (new * m) % p = b * m
  <2>1. PICK c \in 0 .. p - 1 : c = b * m
    BY <1>4
  <2>2. (a * p + c) % p = c
    BY Euclid
  <2>. QED
    BY <1>6, <2>1, <2>2
<1>10. (new * m + q) % p = b * m + q
  <2>1. PICK c \in 0 .. p - 1 : c = b * m + q
    BY <1>3, <1>4
  <2>2. (a * p + c) % p = c
    BY Euclid
  <2>3. new * m + q = a * p + c
    BY <1>4, <1>6, <2>1
  <2>. QED
    BY <2>1, <2>2, <2>3
<1>. QED
  BY <1>1, <1>8, <1>9, <1>10

(* The byte that is shifted in pushes the low byte out.                    *)
LEMMA ShiftInArithmetic ==
  ASSUME NEW p \in Nat \ {0}, NEW v \in 0 .. p - 1,
         NEW new \in 0 .. p - 1, NEW old \in 0 .. p - 1
  PROVE  (v * (p * p) + (new * p + old)) \div p = v * p + new
<1>1. v * (p * p) = (v * p) * p
  OBVIOUS
<1>2. (v * p + new) * p = (v * p) * p + new * p
  OBVIOUS
<1>3. v * (p * p) + (new * p + old) = (v * p + new) * p + old
  BY <1>1, <1>2
<1>4. v * p + new \in Nat
  OBVIOUS
<1>. QED
  BY <1>3, <1>4, Euclid

-----------------------------------------------------------------------------
(* The refinement: the two bytes stay bytes and the offset a number of     *)
(* bits, so that each port is the operation of the register.               *)

ShiftType ==
  /\ shift_old \in Byte
  /\ shift_new \in Byte
  /\ shift_offset \in 0 .. Width - 1

LEMMA ShiftConstants ==
  /\ 2^Width \in Nat \ {0}
  /\ 0 \in Byte /\ 0 \in 0 .. Width - 1
<1>1. 2^Width \in Nat \ {0}
  BY DispatchAssumption, PowersAssumption
<1>. QED
  BY <1>1, DispatchAssumption DEF Byte

LEMMA ReadWindowReads ==
  ASSUME ShiftType, ReadWindow
  PROVE  ShiftType' /\ Register!Read
<1>. DEFINE p == 2^Width
            m == 2^shift_offset
            d == 2^(Width - shift_offset)
<1>1. shift_offset \in 0 .. Width /\ Width \in Nat
  BY DispatchAssumption DEF ShiftType
<1>2. p \in Nat \ {0} /\ p = m * d
  BY <1>1, PowersAssumption, ShiftConstants
<1>3. m \in Nat \ {0}
  BY <1>1, PowersAssumption
<1>4. d \in Nat \ {0}
  <2>1. Width - shift_offset \in 0 .. Width
    BY <1>1
  <2>. QED
    BY <2>1, PowersAssumption
<1>5. shift_new \in 0 .. p - 1 /\ shift_old \in 0 .. p - 1
  BY DEF ShiftType, Byte
<1>6. window' = ((shift_new * m) % p) + (shift_old \div d)
  BY DEF ReadWindow
<1>7. UNCHANGED <<shift_old, shift_new, shift_offset>>
  BY DEF ReadWindow
<1>. HIDE DEF p, m, d
<1>8. window' = (((shift_new * p + shift_old) * m) \div p) % p
  <2>1. \A new, old \in 0 .. p - 1 :
          (((new * p + old) * m) \div p) % p = ((new * m) % p) + (old \div d)
    BY <1>2, <1>3, <1>4, WindowArithmetic
  <2>. QED
    BY <1>5, <1>6, <2>1
<1>9. Register!Read
  BY <1>7, <1>8 DEF Register!Read, p, m
<1>. QED
  BY <1>7, <1>9 DEF ShiftType, Byte

LEMMA SetShiftOffsetSets ==
  ASSUME ShiftType, NEW a \in Byte, SetShiftOffset(a)
  PROVE  ShiftType' /\ \E k \in 0 .. Width - 1 : Register!SetOffset(k)
<1>1. a \in Nat /\ Width \in Nat \ {0}
  BY ShiftConstants, DispatchAssumption DEF Byte
<1>2. a % Width \in 0 .. Width - 1
  BY <1>1
<1>3. Register!SetOffset(a % Width)
  BY DEF SetShiftOffset, Register!SetOffset
<1>. QED
  BY <1>2, <1>3 DEF SetShiftOffset, ShiftType, Byte

LEMMA ShiftInShifts ==
  ASSUME ShiftType, NEW a \in Byte, ShiftIn(a)
  PROVE  ShiftType' /\ \E v \in Register!Byte : Register!ShiftIn(v)
<1>. DEFINE p == 2^Width
            p2 == 2^(2 * Width)
<1>1. p \in Nat \ {0} /\ p2 = p * p
  BY ShiftConstants, PowersAssumption
<1>2. a \in 0 .. p - 1 /\ shift_new \in 0 .. p - 1 /\ shift_old \in 0 .. p - 1
  BY DEF ShiftType, Byte
<1>3. shift_old' = shift_new /\ shift_new' = a /\ UNCHANGED <<shift_offset, window>>
  BY DEF ShiftIn
<1>. HIDE DEF p, p2
<1>4. a * p + shift_new = (a * p2 + (shift_new * p + shift_old)) \div p
  BY <1>1, <1>2, ShiftInArithmetic
<1>5. Register!ShiftIn(a)
  BY <1>3, <1>4 DEF Register!ShiftIn, p, p2
<1>6. a \in Register!Byte
  BY DEF Byte, Register!Byte
<1>. QED
  BY <1>3, <1>5, <1>6 DEF ShiftType, Byte

LEMMA StepRefines == ShiftType /\ [Next]_vars => ShiftType' /\ [Register!Next]_<<shift_new * 2^Width + shift_old, shift_offset, window>>
<1> SUFFICES ASSUME ShiftType, [Next]_vars
             PROVE  ShiftType' /\ [Register!Next]_<<shift_new * 2^Width + shift_old, shift_offset, window>>
  OBVIOUS
<1>1. CASE UNCHANGED shiftVars
  BY <1>1 DEF shiftVars, ShiftType, Byte
<1>2. CASE hw_in
  <2>1. ReadWindow \/ UNCHANGED shiftVars
    BY <1>2 DEF hw_in, ReadConsole, Otherwise
  <2>. QED
    BY <1>1, <2>1, ReadWindowReads DEF Register!Next
<1>3. CASE hw_out
  <2>1. (\E a \in Byte : SetShiftOffset(a) \/ ShiftIn(a)) \/ UNCHANGED shiftVars
    BY <1>3 DEF hw_out, Otherwise
  <2>. QED
    BY <1>1, <2>1, SetShiftOffsetSets, ShiftInShifts DEF Register!Next
<1>4. \A op, r : Call(op, r) => hw_in \/ hw_out \/ UNCHANGED shiftVars
  BY DEF Call, Otherwise
<1>5. CASE Execute \/ Interrupt
  BY <1>1, <1>2, <1>3, <1>4, <1>5 DEF Execute, Interrupt
<1>6. CASE FindHwFuncs \/ InterruptNull \/ Ended \/ UNCHANGED vars
  BY <1>1, <1>6 DEF FindHwFuncs, InterruptNull, Ended, vars
<1>. QED
  BY <1>5, <1>6 DEF Next

(* The two bytes, the offset and the shifts of ports 2, 3 and 4 are the    *)
(* two-byte register, whatever the width of a byte.                        *)
THEOREM Implementation == Spec => ImplementsShiftRegister
<1>1. Init => ShiftType /\ Register!Init
  <2>1. 0 * 2^Width + 0 = 0
    BY ShiftConstants
  <2>. QED
    BY <2>1, ShiftConstants DEF Init, ShiftType, Register!Init
<1>. QED
  BY <1>1, StepRefines, PTL DEF Spec, ImplementsShiftRegister, Register!Spec
=============================================================================
