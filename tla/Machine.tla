------------------------------- MODULE Machine -------------------------------
(***************************************************************************)
(* The registers and the memory of the CPU under the opcode functions that *)
(* move data, use the stack and jump, from the state the loader leaves.    *)
(* Every store goes through write8 or write16, which consult the mask.     *)
(*                                                                         *)
(* The program is arbitrary: any instruction may be at pc.  Its immediate  *)
(* operands are read where the code reads them, after the opcode's byte.   *)
(* The flags are left to Alu8080, so a condition may be met or not.  A     *)
(* function of a single-byte opcode also runs as an interrupt, when pc has *)
(* not been advanced over an opcode; its argument here is the pc it sees.  *)
(***************************************************************************)
EXTENDS Loader

CONSTANTS
  Pairs,   \* the register pairs that are told apart, of BC, DE and HL
  Vectors  \* the addresses RST jumps to

ASSUME PairsAssumption == {"DE", "HL"} \subseteq Pairs /\ Pairs \subseteq {"BC", "DE", "HL"}
ASSUME VectorsAssumption == Vectors \subseteq Address

VARIABLES
  reg,   \* the byte registers, the accumulator A among them
  sp,
  pc,
  words  \* history: the word last stored at each address by write16, if intact

vars == <<loaderVars, reg, sp, pc, words>>

HighOf == [BC |-> "B", DE |-> "D", HL |-> "H"]
LowOf == [BC |-> "C", DE |-> "E", HL |-> "L"]
Registers == {HighOf[p] : p \in Pairs} \cup {LowOf[p] : p \in Pairs} \cup {"A"}
NoWord == MAX_MEMORY

-----------------------------------------------------------------------------
(* Words, and what a read finds.                                           *)

Word(low, high) == low + Radix * high
Pair(p) == Word(reg[LowOf[p]], reg[HighOf[p]])
WithPair(p, w) == [reg EXCEPT ![HighOf[p]] = w \div Radix, ![LowOf[p]] = w % Radix]
Plus(a, n) == (a + n) % MAX_MEMORY
Minus(a, n) == (a + MAX_MEMORY - n) % MAX_MEMORY

(* A byte read through a pointer into the memory: past its end, whatever   *)
(* the process has there.                                                  *)
Peek(mem, a) == IF a \in Address THEN {mem[a]} ELSE Byte

\* *((uint16_t*) &memory[a]), and IMM16(opcode) with a = opcode + 1
Word16(mem, a) == {Word(low, high) : low \in Peek(mem, a), high \in Peek(mem, a + 1)}

Operand(r) == IF r = "M" THEN memory[Pair("HL")] ELSE reg[r]

-----------------------------------------------------------------------------
(* Stores.                                                                 *)

Writable(offset) == rom_mask[offset \div 2^mask_shift] = 0

write8(mem, offset, value) ==
  IF Writable(offset) THEN [mem EXCEPT ![offset] = value] ELSE mem

\* Mutants of write16: one look at the mask for both bytes, or the bytes swapped.
write16MaskedOnce(mem, offset, value) ==
  IF Writable(offset)
  THEN [mem EXCEPT ![offset] = value % Radix, ![Plus(offset, 1)] = value \div Radix]
  ELSE mem

write16Swapped(mem, offset, value) ==
  write8(write8(mem, offset, value \div Radix), Plus(offset, 1), value % Radix)

write16(mem, offset, value) ==
  write8(write8(mem, offset, value % Radix), Plus(offset, 1), value \div Radix)

\* The history when the bytes at `cells` have been stored to.
Keeping(cells) ==
  [a \in Address |-> IF {a, Plus(a, 1)} \cap cells = {} THEN words[a] ELSE NoWord]

NoStore == UNCHANGED <<memory, words>>

StoreByte(a, v) ==
  /\ memory' = write8(memory, a, v)
  /\ words' = Keeping({a})

(* A word that is stored whole and can be read back: not one that wraps to *)
(* address 0, which no 16-bit read does.                                   *)
StoreWord(a, w) ==
  /\ memory' = write16(memory, a, w)
  /\ words' = [Keeping({a, Plus(a, 1)}) EXCEPT
                 ![a] = IF Writable(a) /\ a + 1 \in Address /\ Writable(a + 1)
                        THEN w ELSE NoWord]

Push(w) ==
  /\ sp' = Minus(sp, 2)
  /\ StoreWord(Minus(sp, 2), w)

\* v goes to the operand r, a register or the byte at HL.
Into(r, v) ==
  \/ r = "M" /\ StoreByte(Pair("HL"), v) /\ UNCHANGED reg
  \/ r # "M" /\ reg' = [reg EXCEPT ![r] = v] /\ NoStore

-----------------------------------------------------------------------------
(* Single-byte opcodes.                                                    *)

Mov(next) ==
  /\ \E dst \in Registers \cup {"M"}, src \in Registers \cup {"M"} :
       /\ dst # "M" \/ src # "M"  \* that opcode is HLT
       /\ Into(dst, Operand(src))
  /\ pc' = next /\ UNCHANGED sp

Ldax(next) ==
  /\ \E p \in Pairs \ {"HL"} : reg' = [reg EXCEPT !["A"] = memory[Pair(p)]]
  /\ pc' = next /\ NoStore /\ UNCHANGED sp

Stax(next) ==
  /\ \E p \in Pairs \ {"HL"} : StoreByte(Pair(p), reg["A"])
  /\ pc' = next /\ UNCHANGED <<reg, sp>>

Xchg(next) ==
  /\ reg' = [reg EXCEPT !["D"] = reg["H"], !["E"] = reg["L"],
                        !["H"] = reg["D"], !["L"] = reg["E"]]
  /\ pc' = next /\ NoStore /\ UNCHANGED sp

Inr(next) ==
  /\ \E r \in Registers \cup {"M"} : Into(r, (Operand(r) + 1) % Radix)
  /\ pc' = next /\ UNCHANGED sp

Dcr(next) ==
  /\ \E r \in Registers \cup {"M"} : Into(r, (Operand(r) + Radix - 1) % Radix)
  /\ pc' = next /\ UNCHANGED sp

InxDcx(next) ==
  /\ \/ \E p \in Pairs : reg' = WithPair(p, Plus(Pair(p), 1)) /\ UNCHANGED sp
     \/ \E p \in Pairs : reg' = WithPair(p, Minus(Pair(p), 1)) /\ UNCHANGED sp
     \/ sp' \in {Plus(sp, 1), Minus(sp, 1)} /\ UNCHANGED reg
  /\ pc' = next /\ NoStore

\* Mutant of Dad: the sum keeps its carry.
DadWide(next) ==
  /\ \E w \in {Pair(p) : p \in Pairs} \cup {sp} : reg' = WithPair("HL", Pair("HL") + w)
  /\ pc' = next /\ NoStore /\ UNCHANGED sp

Dad(next) ==
  /\ \E w \in {Pair(p) : p \in Pairs} \cup {sp} :
       reg' = WithPair("HL", Plus(Pair("HL"), w))
  /\ pc' = next /\ NoStore /\ UNCHANGED sp

Pchl == pc' = Pair("HL") /\ NoStore /\ UNCHANGED <<reg, sp>>
Sphl(next) == sp' = Pair("HL") /\ pc' = next /\ NoStore /\ UNCHANGED reg

\* PUSH PSW pushes A and some flags.
PushPair(next) ==
  /\ \/ \E p \in Pairs : Push(Pair(p))
     \/ \E flags \in Byte : Push(Word(flags, reg["A"]))
  /\ pc' = next /\ UNCHANGED reg

Pop(next) ==
  /\ \E w \in Word16(memory, sp) :
       \/ \E p \in Pairs : reg' = WithPair(p, w)
       \/ reg' = [reg EXCEPT !["A"] = w \div Radix]
  /\ sp' = Plus(sp, 2)
  /\ pc' = next /\ NoStore

Xthl(next) ==
  /\ \E w \in Word16(memory, sp) : reg' = WithPair("HL", w)
  /\ StoreWord(sp, Pair("HL"))
  /\ pc' = next /\ UNCHANGED sp

\* RET, and RNZ to RM when the condition is met.
Ret ==
  /\ pc' \in Word16(memory, sp)
  /\ sp' = Plus(sp, 2)
  /\ NoStore /\ UNCHANGED reg

Rst(next) ==
  /\ Push(next)
  /\ pc' \in Vectors
  /\ UNCHANGED reg

\* The arithmetic and logical functions on A: Alu8080 says what they leave.
Accumulate(next) ==
  /\ \E v \in Byte : reg' = [reg EXCEPT !["A"] = v]
  /\ pc' = next /\ NoStore /\ UNCHANGED sp

\* NOP, EI, DI, HLT, CMC, STC, CMP and a return whose condition is not met
OnlyAdvance(next) == pc' = next /\ NoStore /\ UNCHANGED <<reg, sp>>

SingleByte(next) ==
  \/ Mov(next) \/ Ldax(next) \/ Stax(next) \/ Xchg(next)
  \/ Inr(next) \/ Dcr(next) \/ InxDcx(next) \/ Dad(next)
  \/ Pchl \/ Sphl(next) \/ PushPair(next) \/ Pop(next) \/ Xthl(next)
  \/ Ret \/ Rst(next) \/ Accumulate(next) \/ OnlyAdvance(next)

-----------------------------------------------------------------------------
(* Opcodes with an immediate byte or word.                                 *)

Imm8 == Peek(memory, pc + 1)
Imm16 == Word16(memory, pc + 1)

Mvi ==
  /\ \E r \in Registers \cup {"M"}, v \in Imm8 : Into(r, v)
  /\ pc' = Plus(pc, 2) /\ UNCHANGED sp

Lxi ==
  /\ \E w \in Imm16 :
       \/ \E p \in Pairs : reg' = WithPair(p, w) /\ UNCHANGED sp
       \/ sp' = w /\ UNCHANGED reg
  /\ pc' = Plus(pc, 3) /\ NoStore

Lda ==
  /\ \E a \in Imm16 : reg' = [reg EXCEPT !["A"] = memory[a]]
  /\ pc' = Plus(pc, 3) /\ NoStore /\ UNCHANGED sp

Sta ==
  /\ \E a \in Imm16 : StoreByte(a, reg["A"])
  /\ pc' = Plus(pc, 3) /\ UNCHANGED <<reg, sp>>

Lhld ==
  /\ \E a \in Imm16 : \E w \in Word16(memory, a) : reg' = WithPair("HL", w)
  /\ pc' = Plus(pc, 3) /\ NoStore /\ UNCHANGED sp

Shld ==
  /\ \E a \in Imm16 : StoreWord(a, Pair("HL"))
  /\ pc' = Plus(pc, 3) /\ UNCHANGED <<reg, sp>>

\* JMP, and a conditional jump that is taken
Jump == pc' \in Imm16 /\ NoStore /\ UNCHANGED <<reg, sp>>

\* CALL, and a conditional call that is taken: the operand is read after the push.
Call ==
  /\ Push(Plus(pc, 3))
  /\ pc' \in Word16(memory', pc + 1)
  /\ UNCHANGED reg

(* Not taken jumps and calls; the immediate arithmetic and logical         *)
(* functions, CPI among them; IN and OUT.                                  *)
ImmediateRest ==
  \/ OnlyAdvance(Plus(pc, 2)) \/ OnlyAdvance(Plus(pc, 3)) \/ Accumulate(Plus(pc, 2))

-----------------------------------------------------------------------------
Running == place = "run" /\ UNCHANGED <<place, files, mask_shift, rom_mask, skipped, filled>>

\* opcodes[opcode[0]](opcode, &cpu), with pc advanced over the opcode
Execute ==
  /\ Running
  /\ \/ SingleByte(Plus(pc, 1))
     \/ Mvi \/ Lxi \/ Lda \/ Sta \/ Lhld \/ Shld \/ Jump \/ Call \/ ImmediateRest

\* op_func(opcode, cpu), from the interrupt hook
Interrupt == Running /\ SingleByte(pc)

\* cycle_wait's if (*cpu->reset_flag)
Reset == Running /\ pc' = 0 /\ NoStore /\ UNCHANGED <<reg, sp>>

Load == LoaderNext /\ UNCHANGED <<reg, sp, pc, words>>

Stopped == place = "stopped" /\ UNCHANGED vars

Init ==
  /\ LoaderInit
  /\ reg = [r \in Registers |-> 0]
  /\ sp = 0 /\ pc = 0
  /\ words = [a \in Address |-> NoWord]

Next == Load \/ Execute \/ Interrupt \/ Reset \/ Stopped

Spec == Init /\ [][Next]_vars

-----------------------------------------------------------------------------
TypeOK ==
  /\ place \in {"read_rom", "open_mask", "read_mask", "run", "stopped"}
  /\ rom \in Roms /\ maskFile \in MaskFiles \cup {NoFile, Unreadable}
  /\ memory \in [Address -> Byte]
  /\ mask_shift \in 0 .. AddressBits
  /\ skipped \in 0 .. 1 /\ filled \in Nat
  /\ place \in {"read_mask", "run"} => rom_mask \in [Pages(mask_shift) -> Nat]
  /\ reg \in [Registers -> Byte]
  /\ sp \in Address /\ pc \in Address
  /\ words \in [Address -> Address \cup {NoWord}]

(* The mask file write-protects an address: its sizing byte shifts the     *)
(* address to the number of a page, whose byte follows it and is not zero; *)
(* pages past the end of the file are writable (roms/README.md:35-58).     *)
Protected(a) ==
  /\ maskFile \notin {NoFile, Unreadable}
  /\ LET page == a \div 2^maskFile[1] IN
       page + 2 \in 1 .. Len(maskFile) /\ maskFile[page + 2] # 0

(* The read of the sizing byte did not fail.                               *)
SizingByteRead == skipped = 1

(* While the CPU runs, the bytes of the ROM that the mask in place does    *)
(* not let be written are never anything else, whatever the program        *)
(* stores, pushes or calls, word stores that straddle a page or wrap       *)
(* included; and unless the read of the sizing byte failed, which goes     *)
(* unnoticed and shifts the mask by a page, the bytes that the mask file   *)
(* protects are among them, in however many pieces the files were read     *)
(* (main.c:70-88, 312-338, opcode_helpers.h:308-326).                      *)
RomProtected ==
  place = "run" =>
    \A a \in Address :
      /\ SizingByteRead /\ Protected(a) => ~Writable(a)
      /\ ~Writable(a) /\ a < Len(rom) => memory[a] = rom[a + 1]

(* When the ROM has been read, all of the file that fits is in memory,     *)
(* from address 0, whatever the sizes of the reads, and reading the mask   *)
(* leaves it there (main.c:70-88).                                         *)
RomLoaded ==
  place \in {"open_mask", "read_mask"} =>
    \A a \in Address : a < Len(rom) => memory[a] = rom[a + 1]

(* A word that PUSH, CALL, RST, an interrupt, XTHL or SHLD stores in       *)
(* writable memory below 0xffff is what POP, RET, XTHL or LHLD find there, *)
(* until something is stored to one of its bytes: no store reaches a byte  *)
(* it does not name, and the two sides agree on the order of bytes and on  *)
(* where a word begins (opcode_helpers.h:308-326, branch_opcodes.c:122).   *)
StoredWordsKept ==
  place = "run" =>
    \A a \in Address : words[a] # NoWord => Word16(memory, a) = {words[a]}
=============================================================================
