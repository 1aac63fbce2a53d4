------------------------------- MODULE Decoder -------------------------------
(***************************************************************************)
(* The three things the code knows about an opcode: the function it calls  *)
(* (opcode_array.c), the number of bytes it takes (opcode_size.h), and     *)
(* what each function asserts of the opcodes it is called for and reads    *)
(* after them.  They are written down in three places and have to agree.   *)
(***************************************************************************)
EXTENDS Naturals, Sequences

Opcodes == 0 .. 255
OpcodeOut == \hD3
OpcodeIn == \hDB

-----------------------------------------------------------------------------
(* The array opcodes, a quarter at a time in rows of eight.                *)

Opcodes00 ==
  << "nop", "lxi", "stax", "inx_dcx", "inr", "dcr", "mvi", "rlc",
     "nop", "dad", "ldax", "inx_dcx", "inr", "dcr", "mvi", "rrc",
     "nop", "lxi", "stax", "inx_dcx", "inr", "dcr", "mvi", "ral",
     "nop", "dad", "ldax", "inx_dcx", "inr", "dcr", "mvi", "rar",
     "nop", "lxi", "shld", "inx_dcx", "inr", "dcr", "mvi", "daa",
     "nop", "dad", "lhld", "inx_dcx", "inr", "dcr", "mvi", "cma",
     "nop", "lxi", "sta",  "inx_dcx", "inr", "dcr", "mvi", "stc",
     "nop", "dad", "lda",  "inx_dcx", "inr", "dcr", "mvi", "cmc" >>

Opcodes40(op) == IF op = \h76 THEN "hlt" ELSE "mov"

Opcodes80 ==
  << "add_adc", "add_adc", "sub_sbb", "sub_sbb", "ana", "xra", "ora", "cmp" >>

\* Mutant of OpcodesC0: the functions of 0xED and 0xEE are swapped.
OpcodesC0Swapped ==
  << "retcond", "pop", "jcond", "jmp",  "ccond", "push", "adi",     "rst",
     "retcond", "ret", "jcond", "jmp",  "ccond", "call", "aci",     "rst",
     "retcond", "pop", "jcond", "NULL", "ccond", "push", "sui_sbi", "rst",
     "retcond", "ret", "jcond", "NULL", "ccond", "call", "sui_sbi", "rst",
     "retcond", "pop", "jcond", "xthl", "ccond", "push", "ani",     "rst",
     "retcond", "pchl", "jcond", "xchg", "ccond", "xri", "call",    "rst",
     "retcond", "pop", "jcond", "di",   "ccond", "push", "ori",     "rst",
     "retcond", "sphl", "jcond", "ei",  "ccond", "call", "cpi",     "rst" >>

OpcodesC0 ==
  << "retcond", "pop", "jcond", "jmp",  "ccond", "push", "adi",     "rst",
     "retcond", "ret", "jcond", "jmp",  "ccond", "call", "aci",     "rst",
     "retcond", "pop", "jcond", "NULL", "ccond", "push", "sui_sbi", "rst",
     "retcond", "ret", "jcond", "NULL", "ccond", "call", "sui_sbi", "rst",
     "retcond", "pop", "jcond", "xthl", "ccond", "push", "ani",     "rst",
     "retcond", "pchl", "jcond", "xchg", "ccond", "call", "xri",    "rst",
     "retcond", "pop", "jcond", "di",   "ccond", "push", "ori",     "rst",
     "retcond", "sphl", "jcond", "ei",  "ccond", "call", "cpi",     "rst" >>

\* The table as the compiler leaves it; the hardware library fills in the NULLs.
opcodes ==
  [op \in Opcodes |->
     CASE op < \h40 -> Opcodes00[op + 1]
       [] op \in \h40 .. \h7F -> Opcodes40(op)
       [] op \in \h80 .. \hBF -> Opcodes80[(op - \h80) \div 8 + 1]
       [] op >= \hC0 -> OpcodesC0[op - \hC0 + 1]]

-----------------------------------------------------------------------------
(* get_opcode_size                                                         *)

ThreeBytes ==
  { \h01, \h11, \h21, \h22, \h2A, \h31, \h32, \h3A,
    \hC2, \hC3, \hC4, \hCA, \hCB, \hCC, \hCD, \hD2, \hD4, \hDA, \hDC, \hDD,
    \hE2, \hE4, \hEA, \hEC, \hED, \hF2, \hF4, \hFA, \hFC, \hFD }

\* Mutant of TwoBytes: IN is forgotten.
TwoBytesNoIn ==
  { \h06, \h0E, \h16, \h1E, \h26, \h2E, \h36, \h3E,
    \hC6, \hCE, \hD3, \hD6, \hDE, \hE6, \hEE, \hF6, \hFE }

TwoBytes ==
  { \h06, \h0E, \h16, \h1E, \h26, \h2E, \h36, \h3E,
    \hC6, \hCE, \hD3, \hD6, \hDB, \hDE, \hE6, \hEE, \hF6, \hFE }

get_opcode_size(op) ==
  IF op \in ThreeBytes THEN 3 ELSE IF op \in TwoBytes THEN 2 ELSE 1

-----------------------------------------------------------------------------
(* What the functions assert of opcode[0].  An opcode's octal digits are   *)
(* its fields: the quarter, a destination, condition or pair, and a source.*)

Octal(x, ys, zs) == {64 * x + 8 * y + z : y \in ys, z \in zs}
Field == 0 .. 7
Even == {0, 2, 4, 6}
Odd == {1, 3, 5, 7}

AssertedData ==
  [ mov |-> Octal(1, Field, Field) \ {\h76}, mvi |-> Octal(0, Field, {6}),
    lxi |-> Octal(0, Even, {1}), lda |-> {\h3A}, sta |-> {\h32},
    lhld |-> {\h2A}, shld |-> {\h22}, ldax |-> {\h0A, \h1A},
    stax |-> {\h02, \h12}, xchg |-> {\hEB} ]

AssertedBranch ==
  [ jmp |-> {\hC3, \hCB}, jcond |-> Octal(3, Field, {2}), call |-> Octal(3, Odd, {5}),
    ccond |-> Octal(3, Field, {4}), ret |-> Octal(3, {1, 3}, {1}),
    retcond |-> Octal(3, Field, {0}), rst |-> Octal(3, Field, {7}), pchl |-> {\hE9} ]

AssertedArithmetic ==
  [ add_adc |-> Octal(2, {0, 1}, Field), adi |-> {\hC6}, aci |-> {\hCE},
    sub_sbb |-> Octal(2, {2, 3}, Field), sui_sbi |-> {\hD6, \hDE},
    inr |-> Octal(0, Field, {4}), dcr |-> Octal(0, Field, {5}),
    inx_dcx |-> Octal(0, Field, {3}), dad |-> Octal(0, Odd, {1}), daa |-> {\h27} ]

AssertedLogical ==
  [ ana |-> Octal(2, {4}, Field), ani |-> {\hE6}, xra |-> Octal(2, {5}, Field),
    xri |-> {\hEE}, ora |-> Octal(2, {6}, Field), ori |-> {\hF6},
    cmp |-> Octal(2, {7}, Field), cpi |-> {\hFE}, rlc |-> {\h07}, rrc |-> {\h0F},
    ral |-> {\h17}, rar |-> {\h1F}, cma |-> {\h2F}, cmc |-> {\h3F}, stc |-> {\h37} ]

AssertedOther ==
  [ push |-> Octal(3, Even, {5}), pop |-> Octal(3, Even, {1}), xthl |-> {\hE3},
    sphl |-> {\hF9}, ei |-> {\hFB}, di |-> {\hF3}, hlt |-> {\h76},
    nop |-> Octal(0, Field, {0}) ]

AssertedHardware == [ hw_in |-> {OpcodeIn}, hw_out |-> {OpcodeOut} ]

Asserted(f) ==
  CASE f \in DOMAIN AssertedData -> AssertedData[f]
    [] f \in DOMAIN AssertedBranch -> AssertedBranch[f]
    [] f \in DOMAIN AssertedArithmetic -> AssertedArithmetic[f]
    [] f \in DOMAIN AssertedLogical -> AssertedLogical[f]
    [] f \in DOMAIN AssertedOther -> AssertedOther[f]
    [] f \in DOMAIN AssertedHardware -> AssertedHardware[f]

\* The bytes that a function reads after opcode[0].
Immediates(f) ==
  IF f \in {"lxi", "lda", "sta", "lhld", "shld", "jmp", "jcond", "call", "ccond"} THEN 2
  ELSE IF f \in {"mvi", "adi", "aci", "sui_sbi", "ani", "xri", "ori", "cpi",
                 "hw_in", "hw_out"} THEN 1
  ELSE 0
=============================================================================
