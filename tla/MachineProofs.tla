----------------------------- MODULE MachineProofs -----------------------------
(***************************************************************************)
(* The memory of the machine, for bytes of any number of values, whatever  *)
(* the files hold and whatever the program does.                           *)
(***************************************************************************)
EXTENDS Machine, TLAPS

-----------------------------------------------------------------------------
(* Bytes, words and addresses.                                             *)

LEMMA ProductGrows ==
  ASSUME NEW a \in Nat, NEW b \in Nat, NEW k \in Nat, a <= b
  PROVE  k * a <= k * b
  OBVIOUS

LEMMA MemorySize == MAX_MEMORY \in Nat /\ MAX_MEMORY > 1 /\ 0 \in Address
<1>1. Radix \in Nat /\ 2 <= Radix
  BY RadixAssumption
<1>2. Radix * 2 <= Radix * Radix /\ Radix * Radix \in Nat
  BY <1>1, ProductGrows
<1>. QED
  BY <1>1, <1>2 DEF MAX_MEMORY, Address

LEMMA WordIsAddress ==
  ASSUME NEW low \in Byte, NEW high \in Byte
  PROVE  Word(low, high) \in Address
<1>1. Radix \in Nat /\ 2 <= Radix /\ low \in Nat /\ high \in Nat /\ low < Radix
      /\ high <= Radix - 1 /\ Radix - 1 \in Nat
  BY RadixAssumption DEF Byte
<1>2. Radix * high <= Radix * (Radix - 1) /\ Radix * high \in Nat
  BY <1>1, ProductGrows
<1>3. Radix * (Radix - 1) = Radix * Radix - Radix /\ Radix * Radix \in Nat
  BY <1>1
<1>. QED
  BY <1>1, <1>2, <1>3 DEF Word, Address, MAX_MEMORY

LEMMA BytesOfWord ==
  ASSUME NEW w \in Address
  PROVE  /\ w \div Radix \in Byte /\ w % Radix \in Byte
         /\ Word(w % Radix, w \div Radix) = w
<1>. DEFINE q == w \div Radix
            r == w % Radix
<1>1. Radix \in Nat /\ 2 <= Radix /\ w \in Nat /\ w < Radix * Radix
  BY RadixAssumption, MemorySize DEF Address, MAX_MEMORY
<1>2. q \in Nat /\ r \in 0 .. Radix - 1 /\ w = Radix * q + r
  BY <1>1
<1>. HIDE DEF q, r
<1>3. q < Radix
  <2>. SUFFICES ASSUME q >= Radix
                PROVE  FALSE
    BY <1>1, <1>2
  <2>1. Radix * Radix <= Radix * q
    BY <1>1, <1>2, ProductGrows
  <2>2. Radix * Radix \in Nat /\ Radix * q \in Nat
    BY <1>1, <1>2
  <2>. QED
    BY <1>1, <1>2, <2>1, <2>2
<1>4. Word(r, q) = w
  <2>1. Radix * q \in Nat
    BY <1>1, <1>2
  <2>. QED
    BY <1>1, <1>2, <2>1 DEF Word
<1>. QED
  BY <1>1, <1>2, <1>3, <1>4 DEF Byte, q, r

LEMMA Wraps ==
  ASSUME NEW a \in Address, NEW n \in Nat
  PROVE  Plus(a, n) \in Address
  BY MemorySize DEF Plus, Address

LEMMA StackMoves ==
  ASSUME NEW a \in Address, NEW n \in {1, 2}
  PROVE  Minus(a, n) \in Address
  BY MemorySize DEF Minus, Address

LEMMA NextByte ==
  ASSUME NEW a \in Address
  PROVE  a + 1 \in Address => Plus(a, 1) = a + 1
  BY MemorySize DEF Plus, Address

LEMMA ReadsBytes ==
  ASSUME NEW mem \in [Address -> Byte], NEW a \in Nat
  PROVE  /\ Peek(mem, a) \subseteq Byte
         /\ Word16(mem, a) \subseteq Address
<1>1. Peek(mem, a) \subseteq Byte /\ Peek(mem, a + 1) \subseteq Byte
  BY DEF Peek
<1>. QED
  BY <1>1, WordIsAddress DEF Word16

-----------------------------------------------------------------------------
(* The registers.                                                          *)

LEMMA Named ==
  /\ {"A", "D", "E", "H", "L"} \subseteq Registers
  /\ \A p \in Pairs : HighOf[p] \in Registers /\ LowOf[p] \in Registers
  /\ "HL" \in Pairs /\ "DE" \in Pairs
<1>1. {"DE", "HL"} \subseteq Pairs
  BY PairsAssumption
<1>2. \A p \in Pairs : HighOf[p] \in Registers /\ LowOf[p] \in Registers
  BY DEF Registers
<1>3. HighOf["DE"] = "D" /\ LowOf["DE"] = "E" /\ HighOf["HL"] = "H" /\ LowOf["HL"] = "L"
  BY DEF HighOf, LowOf
<1>4. "A" \in Registers
  BY DEF Registers
<1>. QED
  BY <1>1, <1>2, <1>3, <1>4

LEMMA PairIsAddress ==
  ASSUME reg \in [Registers -> Byte], NEW p \in Pairs
  PROVE  Pair(p) \in Address
  BY Named, WordIsAddress DEF Pair

LEMMA PairSet ==
  ASSUME reg \in [Registers -> Byte], NEW p \in Pairs, NEW w \in Address
  PROVE  WithPair(p, w) \in [Registers -> Byte]
  BY Named, BytesOfWord DEF WithPair

LEMMA OperandIsByte ==
  ASSUME reg \in [Registers -> Byte], memory \in [Address -> Byte],
         NEW r \in Registers \cup {"M"}
  PROVE  Operand(r) \in Byte
  BY Named, PairIsAddress DEF Operand

-----------------------------------------------------------------------------
(* What an opcode function can do: set registers, sp and pc in their       *)
(* ranges, and to memory at most one store of a byte or of a word.         *)

State ==
  /\ reg \in [Registers -> Byte] /\ memory \in [Address -> Byte]
  /\ sp \in Address /\ pc \in Address

Stores ==
  \/ NoStore
  \/ \E a \in Address, v \in Byte : StoreByte(a, v)
  \/ \E a \in Address, w \in Address : StoreWord(a, w)

Effect ==
  /\ reg' \in [Registers -> Byte] /\ sp' \in Address /\ pc' \in Address
  /\ Stores

LEMMA IntoStores ==
  ASSUME State, NEW r \in Registers \cup {"M"}, NEW v \in Byte, Into(r, v)
  PROVE  reg' \in [Registers -> Byte] /\ Stores
<1>1. CASE r = "M" /\ StoreByte(Pair("HL"), v) /\ UNCHANGED reg
  BY <1>1, Named, PairIsAddress DEF State, Stores
<1>2. CASE r # "M" /\ reg' = [reg EXCEPT ![r] = v] /\ NoStore
  BY <1>2 DEF State, Stores
<1>. QED
  BY <1>1, <1>2 DEF Into

LEMMA PushStores ==
  ASSUME State, NEW w \in Address, Push(w)
  PROVE  sp' \in Address /\ Stores
  BY StackMoves DEF State, Push, Stores

LEMMA Moves ==
  ASSUME State, NEW next \in Address,
         \/ Mov(next) \/ Ldax(next) \/ Stax(next) \/ Xchg(next)
         \/ Inr(next) \/ Dcr(next) \/ Accumulate(next) \/ OnlyAdvance(next)
  PROVE  Effect
<1>1. CASE Mov(next)
  <2>1. PICK dst \in Registers \cup {"M"}, src \in Registers \cup {"M"} : Into(dst, Operand(src))
    BY <1>1 DEF Mov
  <2>2. Operand(src) \in Byte
    BY OperandIsByte DEF State
  <2>3. pc' = next /\ sp' = sp
    BY <1>1 DEF Mov
  <2>. QED
    BY <2>1, <2>2, <2>3, IntoStores DEF Effect, State
<1>2. CASE Ldax(next)
  <2>1. PICK p \in Pairs : reg' = [reg EXCEPT !["A"] = memory[Pair(p)]]
    BY <1>2 DEF Ldax
  <2>2. Pair(p) \in Address
    BY PairIsAddress DEF State
  <2>. QED
    BY <1>2, <2>1, <2>2 DEF Ldax, Effect, State, Stores
<1>3. CASE Stax(next)
  <2>1. PICK p \in Pairs : StoreByte(Pair(p), reg["A"])
    BY <1>3 DEF Stax
  <2>2. Pair(p) \in Address /\ reg["A"] \in Byte
    BY PairIsAddress, Named DEF State
  <2>3. Stores
    BY <2>1, <2>2 DEF Stores
  <2>. QED
    BY <1>3, <2>3 DEF Stax, Effect, State
<1>4. CASE Xchg(next)
  <2>1. reg["D"] \in Byte /\ reg["E"] \in Byte /\ reg["H"] \in Byte /\ reg["L"] \in Byte
    BY Named DEF State
  <2>. QED
    BY <1>4, <2>1 DEF Xchg, Effect, State, Stores
<1>5. CASE Inr(next)
  <2>1. PICK r \in Registers \cup {"M"} : Into(r, (Operand(r) + 1) % Radix)
    BY <1>5 DEF Inr
  <2>2. (Operand(r) + 1) % Radix \in Byte
    BY OperandIsByte, RadixAssumption DEF State, Byte
  <2>3. pc' = next /\ sp' = sp
    BY <1>5 DEF Inr
  <2>. QED
    BY <2>1, <2>2, <2>3, IntoStores DEF Effect, State
<1>6. CASE Dcr(next)
  <2>1. PICK r \in Registers \cup {"M"} : Into(r, (Operand(r) + Radix - 1) % Radix)
    BY <1>6 DEF Dcr
  <2>2. (Operand(r) + Radix - 1) % Radix \in Byte
    BY OperandIsByte, RadixAssumption DEF State, Byte
  <2>3. pc' = next /\ sp' = sp
    BY <1>6 DEF Dcr
  <2>. QED
    BY <2>1, <2>2, <2>3, IntoStores DEF Effect, State
<1>7. CASE Accumulate(next)
  BY <1>7 DEF Accumulate, Effect, State, Stores
<1>8. CASE OnlyAdvance(next)
  BY <1>8 DEF OnlyAdvance, Effect, State, Stores
<1>. QED
  BY <1>1, <1>2, <1>3, <1>4, <1>5, <1>6, <1>7, <1>8

LEMMA WordsAndStack ==
  ASSUME State, NEW next \in Address,
         \/ InxDcx(next) \/ Dad(next) \/ Pchl \/ Sphl(next)
         \/ PushPair(next) \/ Pop(next) \/ Xthl(next)
  PROVE  Effect
<1>. DEFINE hl == Pair("HL")
<1>1. hl \in Address
  BY Named, PairIsAddress DEF State
<1>. HIDE DEF hl
<1>2. CASE InxDcx(next)
  <2>1. \A p \in Pairs : Pair(p) \in Address
    BY PairIsAddress DEF State
  <2>2. \A a \in Address : Plus(a, 1) \in Address /\ Minus(a, 1) \in Address
    BY Wraps, StackMoves
  <2>3. reg' \in [Registers -> Byte] /\ sp' \in Address
    BY <1>2, <2>1, <2>2, PairSet DEF InxDcx, State
  <2>. QED
    BY <1>2, <2>3 DEF InxDcx, Effect, Stores
<1>3. CASE Dad(next)
  <2>1. PICK w \in {Pair(p) : p \in Pairs} \cup {sp} : reg' = WithPair("HL", Plus(hl, w))
    BY <1>3 DEF Dad, hl
  <2>2. w \in Address /\ w \in Nat
    BY PairIsAddress, MemorySize DEF State, Address
  <2>3. reg' \in [Registers -> Byte]
    BY <1>1, <2>1, <2>2, Wraps, PairSet, Named DEF State
  <2>. QED
    BY <1>3, <2>3 DEF Dad, Effect, Stores, State
<1>4. CASE Pchl
  BY <1>1, <1>4 DEF Pchl, Effect, Stores, State, hl
<1>5. CASE Sphl(next)
  BY <1>1, <1>5 DEF Sphl, Effect, Stores, State, hl
<1>6. CASE PushPair(next)
  <2>1. PICK w \in Address : Push(w)
    <3>1. reg["A"] \in Byte /\ \A p \in Pairs : Pair(p) \in Address
      BY Named, PairIsAddress DEF State
    <3>2. \A flags \in Byte : Word(flags, reg["A"]) \in Address
      BY <3>1, WordIsAddress
    <3>. QED
      BY <1>6, <3>1, <3>2 DEF PushPair
  <2>. QED
    BY <1>6, <2>1, PushStores DEF PushPair, Effect, State
<1>7. CASE Pop(next)
  <2>1. sp \in Nat
    BY MemorySize DEF State, Address
  <2>2. PICK w \in Word16(memory, sp) :
          \/ \E p \in Pairs : reg' = WithPair(p, w)
          \/ reg' = [reg EXCEPT !["A"] = w \div Radix]
    BY <1>7 DEF Pop
  <2>3. w \in Address /\ w \div Radix \in Byte
    BY <2>1, ReadsBytes, BytesOfWord DEF State
  <2>4. reg' \in [Registers -> Byte]
    BY <2>2, <2>3, PairSet DEF State
  <2>5. Plus(sp, 2) \in Address
    BY Wraps DEF State
  <2>. QED
    BY <1>7, <2>4, <2>5 DEF Pop, Effect, Stores
<1>8. CASE Xthl(next)
  <2>1. sp \in Nat
    BY MemorySize DEF State, Address
  <2>2. reg' \in [Registers -> Byte]
    <3>1. PICK w \in Word16(memory, sp) : reg' = WithPair("HL", w)
      BY <1>8 DEF Xthl
    <3>2. w \in Address
      BY <2>1, ReadsBytes DEF State
    <3>. QED
      BY <3>1, <3>2, PairSet, Named DEF State
  <2>3. Stores
    BY <1>1, <1>8 DEF Xthl, Stores, State, hl
  <2>. QED
    BY <1>8, <2>2, <2>3 DEF Xthl, Effect, State
<1>. QED
  BY <1>2, <1>3, <1>4, <1>5, <1>6, <1>7, <1>8

LEMMA SingleByteEffect ==
  ASSUME State, NEW next \in Address, SingleByte(next)
  PROVE  Effect
<1>1. CASE Ret
  <2>1. Plus(sp, 2) \in Address
    BY Wraps DEF State
  <2>2. Word16(memory, sp) \subseteq Address
    <3>1. sp \in Nat
      BY MemorySize DEF State, Address
    <3>. QED
      BY <3>1, ReadsBytes DEF State
  <2>3. pc' \in Address
    BY <1>1, <2>2 DEF Ret
  <2>4. NoStore /\ reg' = reg /\ sp' = Plus(sp, 2)
    BY <1>1 DEF Ret
  <2>. QED
    BY <2>1, <2>3, <2>4 DEF Effect, Stores, State
<1>2. CASE Rst(next)
  BY <1>2, PushStores, VectorsAssumption DEF Rst, Effect, State
<1>. QED
  BY <1>1, <1>2, Moves, WordsAndStack DEF SingleByte

(* A store leaves bytes in memory, and only an address it names and the    *)
(* mask does not protect can change.                                       *)
LEMMA Write8 ==
  ASSUME NEW mem \in [Address -> Byte], NEW a \in Address, NEW v \in Byte
  PROVE  /\ write8(mem, a, v) \in [Address -> Byte]
         /\ Writable(a) => write8(mem, a, v)[a] = v
         /\ \A b \in Address : b # a \/ ~Writable(b) => write8(mem, a, v)[b] = mem[b]
  BY DEF write8

LEMMA Write16 ==
  ASSUME NEW mem \in [Address -> Byte], NEW a \in Address, NEW w \in Address
  PROVE  /\ write16(mem, a, w) \in [Address -> Byte]
         /\ \A b \in Address :
              b \notin {a, Plus(a, 1)} \/ ~Writable(b) => write16(mem, a, w)[b] = mem[b]
         /\ Writable(a) /\ Plus(a, 1) # a => write16(mem, a, w)[a] = w % Radix
         /\ Writable(Plus(a, 1)) => write16(mem, a, w)[Plus(a, 1)] = w \div Radix
<1>. DEFINE first == write8(mem, a, w % Radix)
<1>1. w % Radix \in Byte /\ w \div Radix \in Byte /\ Plus(a, 1) \in Address
  BY BytesOfWord, Wraps
<1>2. /\ first \in [Address -> Byte]
      /\ Writable(a) => first[a] = w % Radix
      /\ \A b \in Address : b # a \/ ~Writable(b) => first[b] = mem[b]
  BY <1>1, Write8
<1>. HIDE DEF first
<1>3. write16(mem, a, w) = write8(first, Plus(a, 1), w \div Radix)
  BY DEF write16, first
<1>4. /\ write16(mem, a, w) \in [Address -> Byte]
      /\ Writable(Plus(a, 1)) => write16(mem, a, w)[Plus(a, 1)] = w \div Radix
      /\ \A b \in Address :
           b # Plus(a, 1) \/ ~Writable(b) => write16(mem, a, w)[b] = first[b]
  <2>. DEFINE next == Plus(a, 1)
              high == w \div Radix
  <2>1. next \in Address /\ high \in Byte /\ write16(mem, a, w) = write8(first, next, high)
    BY <1>1, <1>3
  <2>. HIDE DEF next, high
  <2>2. /\ write8(first, next, high) \in [Address -> Byte]
        /\ Writable(next) => write8(first, next, high)[next] = high
        /\ \A b \in Address :
             b # next \/ ~Writable(b) => write8(first, next, high)[b] = first[b]
    BY <1>2, <2>1, Write8
  <2>. QED
    BY <2>1, <2>2 DEF next, high
<1>5. Writable(a) /\ Plus(a, 1) # a => write16(mem, a, w)[a] = w % Radix
  BY <1>2, <1>4
<1>6. ASSUME NEW b \in Address, b \notin {a, Plus(a, 1)} \/ ~Writable(b)
      PROVE  write16(mem, a, w)[b] = mem[b]
  <2>1. b # a \/ ~Writable(b)
    BY <1>6
  <2>2. b # Plus(a, 1) \/ ~Writable(b)
    BY <1>6
  <2>. QED
    BY <1>2, <1>4, <2>1, <2>2
<1>. QED
  BY <1>4, <1>5, <1>6

LEMMA StoresKeepBytes ==
  ASSUME State, Stores
  PROVE  /\ memory' \in [Address -> Byte]
         /\ \A b \in Address : ~Writable(b) => memory'[b] = memory[b]
<1>1. CASE NoStore
  BY <1>1 DEF NoStore, State
<1>2. ASSUME NEW a \in Address, NEW v \in Byte, StoreByte(a, v)
      PROVE  /\ memory' \in [Address -> Byte]
             /\ \A b \in Address : ~Writable(b) => memory'[b] = memory[b]
  BY <1>2, Write8 DEF StoreByte, State
<1>3. ASSUME NEW a \in Address, NEW w \in Address, StoreWord(a, w)
      PROVE  /\ memory' \in [Address -> Byte]
             /\ \A b \in Address : ~Writable(b) => memory'[b] = memory[b]
  BY <1>3, Write16 DEF StoreWord, State
<1>. QED
  BY <1>1, <1>2, <1>3 DEF Stores

LEMMA ImmediateEffect ==
  ASSUME State,
         \/ Mvi \/ Lxi \/ Lda \/ Sta \/ Lhld \/ Shld \/ Jump \/ Call \/ ImmediateRest
  PROVE  Effect
<1>1. /\ pc \in Nat /\ pc + 1 \in Nat /\ Imm8 \subseteq Byte /\ Imm16 \subseteq Address
  <2>1. pc \in Nat
    BY MemorySize DEF State, Address
  <2>. QED
    BY <2>1, ReadsBytes DEF State, Imm8, Imm16
<1>2. Plus(pc, 2) \in Address /\ Plus(pc, 3) \in Address
  BY Wraps DEF State
<1>3. CASE Mvi
  <2>1. PICK r \in Registers \cup {"M"}, v \in Imm8 : Into(r, v)
    BY <1>3 DEF Mvi
  <2>2. reg' \in [Registers -> Byte] /\ Stores
    BY <1>1, <2>1, IntoStores
  <2>. QED
    BY <1>2, <1>3, <2>2 DEF Mvi, Effect, State
<1>4. CASE Lxi
  <2>1. reg' \in [Registers -> Byte] /\ sp' \in Address
    <3>1. PICK w \in Imm16 : \/ \E p \in Pairs : reg' = WithPair(p, w) /\ UNCHANGED sp
                             \/ sp' = w /\ UNCHANGED reg
      BY <1>4 DEF Lxi
    <3>. QED
      BY <1>1, <3>1, PairSet DEF State
  <2>. QED
    BY <1>2, <1>4, <2>1 DEF Lxi, Effect, Stores
<1>5. CASE Lda
  <2>1. reg' \in [Registers -> Byte]
    BY <1>1, <1>5, Named DEF Lda, State
  <2>. QED
    BY <1>2, <1>5, <2>1 DEF Lda, Effect, Stores, State
<1>6. CASE Sta
  <2>1. reg["A"] \in Byte
    BY Named DEF State
  <2>2. Stores
    BY <1>1, <1>6, <2>1 DEF Sta, Stores
  <2>. QED
    BY <1>2, <1>6, <2>2 DEF Sta, Effect, State
<1>7. CASE Lhld
  <2>1. PICK a \in Imm16 : \E w \in Word16(memory, a) : reg' = WithPair("HL", w)
    BY <1>7 DEF Lhld
  <2>2. a \in Nat
    BY <1>1, MemorySize DEF Address
  <2>3. PICK w \in Word16(memory, a) : reg' = WithPair("HL", w)
    BY <2>1
  <2>4. w \in Address
    BY <2>2, ReadsBytes DEF State
  <2>5. reg' \in [Registers -> Byte]
    BY <2>3, <2>4, PairSet, Named DEF State
  <2>. QED
    BY <1>2, <1>7, <2>5 DEF Lhld, Effect, Stores, State
<1>8. CASE Shld
  <2>1. Pair("HL") \in Address
    BY PairIsAddress, Named DEF State
  <2>2. Stores
    BY <1>1, <1>8, <2>1 DEF Shld, Stores
  <2>. QED
    BY <1>2, <1>8, <2>2 DEF Shld, Effect, State
<1>9. CASE Jump
  BY <1>1, <1>9 DEF Jump, Effect, Stores, State
<1>10. CASE Call
  <2>1. sp' \in Address /\ Stores
    BY <1>2, <1>10, PushStores DEF Call
  <2>2. memory' \in [Address -> Byte]
    BY <2>1, StoresKeepBytes
  <2>3. Word16(memory', pc + 1) \subseteq Address
    BY <1>1, <2>2, ReadsBytes
  <2>. QED
    BY <1>10, <2>1, <2>3 DEF Call, Effect, State
<1>11. CASE ImmediateRest
  BY <1>2, <1>11, Moves DEF ImmediateRest
<1>. QED
  BY <1>3, <1>4, <1>5, <1>6, <1>7, <1>8, <1>9, <1>10, <1>11

(* Every step of the running machine.                                      *)
RunStep == Execute \/ Interrupt \/ Reset

LEMMA RunEffect ==
  ASSUME State, RunStep
  PROVE  Effect
<1>1. CASE Execute
  <2>1. Plus(pc, 1) \in Address
    BY Wraps DEF State
  <2>. QED
    BY <1>1, <2>1, SingleByteEffect, ImmediateEffect DEF Execute
<1>2. CASE Interrupt
  BY <1>2, SingleByteEffect DEF Interrupt, State
<1>3. CASE Reset
  BY <1>3, MemorySize DEF Reset, Effect, Stores, State
<1>. QED
  BY <1>1, <1>2, <1>3 DEF RunStep

-----------------------------------------------------------------------------
(* Words that have been stored.                                            *)

(* The history in one formula: a word it holds is in memory, both bytes.   *)
WordsInMemory ==
  /\ words \in [Address -> Address \cup {NoWord}]
  /\ \A a \in Address :
       words[a] # NoWord => a + 1 \in Address /\ Word(memory[a], memory[a + 1]) = words[a]

LEMMA StoresKeepWords ==
  ASSUME State, WordsInMemory, Stores
  PROVE  WordsInMemory'
<1>1. CASE NoStore
  BY <1>1 DEF NoStore, WordsInMemory
<1>2. ASSUME NEW x \in Address, NEW v \in Byte, StoreByte(x, v)
      PROVE  WordsInMemory'
  <2>1. /\ words' \in [Address -> Address \cup {NoWord}]
        /\ \A a \in Address : words'[a] # NoWord =>
             words'[a] = words[a] /\ x # a /\ x # Plus(a, 1)
    BY <1>2 DEF StoreByte, Keeping, WordsInMemory
  <2>2. \A b \in Address : b # x => memory'[b] = memory[b]
    BY <1>2, Write8 DEF StoreByte, State
  <2>3. ASSUME NEW a \in Address, words'[a] # NoWord
        PROVE  a + 1 \in Address /\ Word(memory'[a], memory'[a + 1]) = words'[a]
    <3>1. words'[a] = words[a] /\ x # a /\ x # Plus(a, 1)
      BY <2>1, <2>3
    <3>2. a + 1 \in Address /\ Word(memory[a], memory[a + 1]) = words[a]
      BY <2>3, <3>1 DEF WordsInMemory
    <3>3. memory'[a] = memory[a] /\ memory'[a + 1] = memory[a + 1]
      BY <2>2, <3>1, <3>2, NextByte
    <3>. QED
      BY <3>1, <3>2, <3>3
  <2>. QED
    BY <2>1, <2>3 DEF WordsInMemory
<1>3. ASSUME NEW x \in Address, NEW w \in Address, StoreWord(x, w)
      PROVE  WordsInMemory'
  <2>. DEFINE stored == IF Writable(x) /\ x + 1 \in Address /\ Writable(x + 1)
                        THEN w ELSE NoWord
              kept == Keeping({x, Plus(x, 1)})
  <2>1. words' = [kept EXCEPT ![x] = stored] /\ memory' = write16(memory, x, w)
    BY <1>3 DEF StoreWord
  <2>2. /\ kept \in [Address -> Address \cup {NoWord}]
        /\ \A a \in Address : kept[a] # NoWord =>
             /\ kept[a] = words[a] /\ x # a /\ x # Plus(a, 1)
             /\ Plus(x, 1) # a /\ Plus(x, 1) # Plus(a, 1)
    BY DEF Keeping, WordsInMemory
  <2>3. stored \in Address \cup {NoWord}
    OBVIOUS
  <2>. HIDE DEF stored, kept
  <2>4. /\ words' \in [Address -> Address \cup {NoWord}]
        /\ words'[x] = stored
        /\ \A a \in Address : a # x => words'[a] = kept[a]
    BY <2>1, <2>2, <2>3
  <2>5. \A b \in Address : b # x /\ b # Plus(x, 1) => memory'[b] = memory[b]
    BY <2>1, Write16 DEF State
  <2>6. ASSUME NEW a \in Address, words'[a] # NoWord, a # x
        PROVE  a + 1 \in Address /\ Word(memory'[a], memory'[a + 1]) = words'[a]
    <3>1. /\ words'[a] = words[a] /\ x # a /\ x # Plus(a, 1)
          /\ Plus(x, 1) # a /\ Plus(x, 1) # Plus(a, 1)
      BY <2>2, <2>4, <2>6
    <3>2. a + 1 \in Address /\ Word(memory[a], memory[a + 1]) = words[a]
      BY <2>6, <3>1 DEF WordsInMemory
    <3>3. memory'[a] = memory[a] /\ memory'[a + 1] = memory[a + 1]
      BY <2>5, <3>1, <3>2, NextByte
    <3>. QED
      BY <3>1, <3>2, <3>3
  <2>7. ASSUME words'[x] # NoWord
        PROVE  x + 1 \in Address /\ Word(memory'[x], memory'[x + 1]) = words'[x]
    <3>1. Writable(x) /\ x + 1 \in Address /\ Writable(x + 1) /\ words'[x] = w
      BY <2>4, <2>7 DEF stored
    <3>2. Plus(x, 1) = x + 1 /\ x + 1 # x
      BY <3>1, NextByte, MemorySize DEF Address
    <3>3. memory'[x] = w % Radix /\ memory'[x + 1] = w \div Radix
      BY <2>1, <3>1, <3>2, Write16 DEF State
    <3>. QED
      BY <3>1, <3>3, BytesOfWord
  <2>. QED
    BY <2>4, <2>6, <2>7 DEF WordsInMemory
<1>. QED
  BY <1>1, <1>2, <1>3 DEF Stores

-----------------------------------------------------------------------------
(* The files.                                                              *)

PageCount(shift) == MAX_MEMORY \div 2^shift

LEMMA PageOf ==
  ASSUME NEW s \in 0 .. AddressBits
  PROVE  /\ PageCount(s) \in Nat \ {0} /\ Pages(s) = 0 .. PageCount(s) - 1
         /\ \A a \in Address : a \div 2^s \in Pages(s)
<1>. DEFINE size == 2^s
            count == MAX_MEMORY \div size
<1>1. size \in Nat \ {0} /\ MAX_MEMORY = size * count
  BY PagesAssumption
<1>2. Pages(s) = 0 .. count - 1 /\ PageCount(s) = count
  BY DEF Pages, PageCount
<1>. HIDE DEF size
<1>3. count \in Nat
  BY <1>1, MemorySize
<1>. HIDE DEF count
<1>4. count # 0
  BY <1>1, <1>3, MemorySize
<1>5. ASSUME NEW a \in Address
      PROVE  a \div size \in 0 .. count - 1
  <2>. DEFINE q == a \div size
  <2>1. a \in Nat /\ a < size * count
    BY <1>1, MemorySize DEF Address
  <2>2. q \in Nat /\ size * q <= a
    BY <1>1, <2>1
  <2>. HIDE DEF q
  <2>3. q < count
    <3>. SUFFICES ASSUME count <= q
                  PROVE  FALSE
      BY <1>3, <2>2
    <3>1. size * count <= size * q /\ size * count \in Nat /\ size * q \in Nat
      BY <1>1, <1>3, <2>2, ProductGrows
    <3>. QED
      BY <2>1, <2>2, <3>1
  <2>. QED
    BY <1>3, <2>2, <2>3 DEF q
<1>. QED
  BY <1>2, <1>3, <1>4, <1>5 DEF size

LEMMA Counts ==
  ASSUME NEW wanted \in Nat \ {0}, NEW left \in Nat, NEW n \in ReadCounts(wanted, left)
  PROVE  n \in Nat /\ n <= wanted /\ n <= left /\ (n = 0 => left = 0)
  BY DEF ReadCounts, Least

-----------------------------------------------------------------------------
(* The inductive invariant.                                                *)

Loaded == \A a \in Address : a < Len(rom) => memory[a] = rom[a + 1]

\* Pages of the mask below `count` have their values from the file.
MaskRead(count) ==
  /\ SizingByteRead => mask_shift = maskFile[1]
  /\ \A page \in Pages(mask_shift) :
       page < count /\ skipped + page + 1 <= Len(maskFile)
         => rom_mask[page] = maskFile[skipped + page + 1]

ReadingRom ==
  place = "read_rom" =>
    /\ filled <= Len(rom) /\ filled < MAX_MEMORY
    /\ \A a \in Address : a < filled => memory[a] = rom[a + 1]

ReadingMask ==
  place = "read_mask" /\ maskFile # Unreadable =>
    /\ maskFile # NoFile
    /\ skipped + filled <= Len(maskFile) /\ filled < PageCount(mask_shift)
    /\ MaskRead(filled)

MaskInPlace ==
  place = "run" =>
    maskFile # Unreadable /\ (maskFile # NoFile => MaskRead(PageCount(mask_shift)))

\* What the mask in place does not let be written is the ROM's.
RomKept ==
  place = "run" =>
    \A a \in Address : ~Writable(a) /\ a < Len(rom) => memory[a] = rom[a + 1]

IInv ==
  /\ TypeOK
  /\ ReadingRom /\ RomLoaded /\ ReadingMask /\ MaskInPlace /\ RomKept
  /\ WordsInMemory
  /\ place # "run" => \A a \in Address : words[a] = NoWord

(* What the mask file protects the mask protects, if it was read from its  *)
(* sizing byte on.                                                         *)
LEMMA ProtectedInMask ==
  ASSUME TypeOK, MaskInPlace, place = "run", SizingByteRead, NEW a \in Address, Protected(a)
  PROVE  ~Writable(a)
<1>. DEFINE page == a \div 2^mask_shift
<1>1. /\ maskFile \notin {NoFile, Unreadable}
      /\ a \div 2^maskFile[1] + 2 \in 1 .. Len(maskFile)
      /\ maskFile[a \div 2^maskFile[1] + 2] # 0
  BY DEF Protected
<1>2. MaskRead(PageCount(mask_shift))
  BY <1>1 DEF MaskInPlace
<1>3. mask_shift = maskFile[1]
  BY <1>2 DEF MaskRead
<1>4. /\ page \in Pages(mask_shift) /\ Pages(mask_shift) = 0 .. PageCount(mask_shift) - 1
      /\ PageCount(mask_shift) \in Nat
  BY PageOf DEF TypeOK
<1>5. page + 2 \in 1 .. Len(maskFile) /\ maskFile[page + 2] # 0
  BY <1>1, <1>3
<1>6. Writable(a) <=> rom_mask[page] = 0
  BY DEF Writable
<1>. HIDE DEF page
<1>7. page \in Nat /\ page < PageCount(mask_shift)
  BY <1>4
<1>8. Len(maskFile) \in Nat
  BY <1>1, FilesAssumption DEF TypeOK
<1>9. page + 2 <= Len(maskFile)
  BY <1>5, <1>7, <1>8
<1>10. rom_mask[page] = maskFile[page + 2]
  <2>1. skipped = 1 /\ skipped + page + 1 = page + 2
    BY <1>7 DEF SizingByteRead
  <2>. QED
    BY <1>2, <1>4, <1>7, <1>9, <2>1 DEF MaskRead
<1>. QED
  BY <1>5, <1>6, <1>10

LEMMA RunKeeps == IInv /\ RunStep => IInv'
<1>. SUFFICES ASSUME IInv, RunStep
              PROVE  IInv'
  OBVIOUS
<1>1. State /\ TypeOK /\ WordsInMemory /\ MaskInPlace /\ RomKept
  BY DEF IInv, TypeOK, State
<1>2. /\ place = "run" /\ place' = "run"
      /\ UNCHANGED <<rom, maskFile, mask_shift, rom_mask, skipped, filled>>
  BY DEF RunStep, Execute, Interrupt, Reset, Running, files
<1>3. Effect
  BY <1>1, RunEffect
<1>4. /\ memory' \in [Address -> Byte]
      /\ \A b \in Address : ~Writable(b) => memory'[b] = memory[b]
  BY <1>1, <1>3, StoresKeepBytes DEF Effect
<1>5. WordsInMemory'
  BY <1>1, <1>3, StoresKeepWords DEF Effect
<1>6. TypeOK'
  BY <1>1, <1>2, <1>3, <1>4, <1>5 DEF TypeOK, Effect, WordsInMemory
<1>7. MaskInPlace'
  BY <1>1, <1>2 DEF MaskInPlace, MaskRead, SizingByteRead
<1>8. RomKept'
  <2>1. \A a \in Address : Writable(a)' <=> Writable(a)
    BY <1>2 DEF Writable
  <2>. QED
    BY <1>1, <1>2, <1>4, <2>1 DEF RomKept
<1>. QED
  BY <1>2, <1>5, <1>6, <1>7, <1>8 DEF IInv, ReadingRom, RomLoaded, ReadingMask

LEMMA ReadRomKeeps == IInv /\ ReadRom /\ UNCHANGED <<reg, sp, pc, words>> => IInv'
<1>. SUFFICES ASSUME IInv, ReadRom, UNCHANGED <<reg, sp, pc, words>>
              PROVE  IInv'
  OBVIOUS
<1>1. TypeOK /\ place = "read_rom" /\ ReadingRom
  BY DEF IInv, ReadRom
<1>2. /\ rom \in Seq(Byte) /\ Len(rom) \in Nat /\ filled \in Nat /\ MAX_MEMORY \in Nat
      /\ filled <= Len(rom) /\ filled < MAX_MEMORY
      /\ \A a \in Address : a < filled => memory[a] = rom[a + 1]
  BY <1>1, FilesAssumption, MemorySize DEF TypeOK, ReadingRom
<1>3. PICK n \in ReadCounts(MAX_MEMORY - filled, Len(rom) - filled) :
        /\ memory' = [a \in Address |-> IF a \in filled .. filled + n - 1
                                        THEN rom[a + 1] ELSE memory[a]]
        /\ filled' = filled + n
        /\ place' = IF filled' = MAX_MEMORY \/ n = 0 THEN "open_mask" ELSE "read_rom"
  BY DEF ReadRom
<1>4. UNCHANGED <<rom, maskFile, mask_shift, rom_mask, skipped>>
  BY DEF ReadRom, files
<1>5. n \in Nat /\ n <= MAX_MEMORY - filled /\ n <= Len(rom) - filled
      /\ (n = 0 => Len(rom) - filled = 0)
  <2>1. MAX_MEMORY - filled \in Nat \ {0} /\ Len(rom) - filled \in Nat
    BY <1>2
  <2>. QED
    BY <2>1, Counts
<1>6. filled' \in Nat /\ filled' <= Len(rom) /\ filled' <= MAX_MEMORY
      /\ (place' = "read_rom" => filled' < MAX_MEMORY)
      /\ (place' # "read_rom" => filled' = MAX_MEMORY \/ filled' = Len(rom))
      /\ place' \in {"read_rom", "open_mask"}
  BY <1>2, <1>3, <1>5
<1>7. ASSUME NEW a \in Address
      PROVE  memory'[a] \in Byte /\ (a < filled' => memory'[a] = rom[a + 1])
  <2>1. a \in Nat /\ memory[a] \in Byte
    BY <1>1, MemorySize DEF Address, TypeOK
  <2>2. CASE a \in filled .. filled + n - 1
    <3>1. memory'[a] = rom[a + 1] /\ a + 1 \in 1 .. Len(rom)
      BY <1>2, <1>3, <1>5, <2>1, <2>2
    <3>. QED
      BY <1>2, <3>1
  <2>3. CASE a \notin filled .. filled + n - 1
    <3>1. memory'[a] = memory[a]
      BY <1>3, <2>3
    <3>2. a < filled' => a < filled
      BY <1>2, <1>3, <1>5, <2>1, <2>3
    <3>. QED
      BY <1>2, <2>1, <3>1, <3>2
  <2>. QED
    BY <2>2, <2>3
<1>8. memory' \in [Address -> Byte]
  BY <1>3, <1>7
<1>9. TypeOK'
  BY <1>1, <1>4, <1>6, <1>8 DEF TypeOK
<1>10. ReadingRom'
  BY <1>4, <1>6, <1>7 DEF ReadingRom
<1>11. RomLoaded'
  <2>. SUFFICES ASSUME place' # "read_rom", NEW a \in Address, a < Len(rom)
                PROVE  memory'[a] = rom[a + 1]
    BY <1>4 DEF RomLoaded
  <2>1. a \in Nat /\ a < MAX_MEMORY
    BY MemorySize DEF Address
  <2>2. a < filled'
    BY <1>2, <1>6, <2>1
  <2>. QED
    BY <1>7, <2>2
<1>12. WordsInMemory' /\ \A a \in Address : words'[a] = NoWord
  BY <1>1 DEF IInv, WordsInMemory
<1>. QED
  BY <1>6, <1>9, <1>10, <1>11, <1>12 DEF IInv, ReadingMask, MaskInPlace, RomKept

LEMMA ReadShiftKeeps == IInv /\ ReadShift /\ UNCHANGED <<reg, sp, pc, words>> => IInv'
<1>. SUFFICES ASSUME IInv, ReadShift, UNCHANGED <<reg, sp, pc, words>>
              PROVE  IInv'
  OBVIOUS
<1>1. /\ TypeOK /\ RomLoaded /\ WordsInMemory
      /\ place = "open_mask" /\ place' = "read_mask" /\ maskFile # NoFile /\ filled' = 0
      /\ UNCHANGED <<rom, maskFile, memory>>
  BY DEF IInv, ReadShift, files
<1>2. PICK fails \in BOOLEAN :
        /\ mask_shift' \in ShiftsRead(fails) /\ mask_shift' < AddressBits
        /\ skipped' = IF fails THEN 0 ELSE 1
  BY DEF ReadShift
<1>3. /\ maskFile # Unreadable => maskFile \in Seq(Nat) /\ Len(maskFile) \in Nat
      /\ ~fails => maskFile # Unreadable /\ maskFile # <<>> /\ mask_shift' = maskFile[1]
  BY <1>1, <1>2, FilesAssumption DEF TypeOK, ShiftsRead
<1>4. mask_shift' \in 0 .. AddressBits /\ skipped' \in 0 .. 1
  <2>1. CASE fails
    BY <1>2, <2>1 DEF ShiftsRead
  <2>2. CASE ~fails
    <3>1. Len(maskFile) \in Nat /\ 1 <= Len(maskFile) /\ maskFile[1] \in Nat
      BY <1>3, <2>2
    <3>. QED
      BY <1>2, <1>3, <2>2, <3>1, AddressBitsAssumption
  <2>. QED
    BY <2>1, <2>2
<1>5. rom_mask' \in [Pages(mask_shift') -> Nat]
  BY DEF ReadShift
<1>6. PageCount(mask_shift') \in Nat \ {0} /\ Pages(mask_shift') = 0 .. PageCount(mask_shift') - 1
  BY <1>4, PageOf
<1>7. TypeOK'
  BY <1>1, <1>4, <1>5 DEF TypeOK
<1>8. ReadingMask'
  <2>. SUFFICES ASSUME maskFile # Unreadable
                PROVE  /\ maskFile # NoFile
                       /\ skipped' + filled' <= Len(maskFile) /\ filled' < PageCount(mask_shift')
                       /\ MaskRead(filled)'
    BY <1>1 DEF ReadingMask, PageCount
  <2>1. \A page \in Pages(mask_shift') : ~(page < 0)
    BY <1>6
  <2>2. SizingByteRead' => mask_shift' = maskFile[1]
    BY <1>2, <1>3 DEF SizingByteRead
  <2>3. skipped' <= Len(maskFile)
    <3>1. ~fails => 1 <= Len(maskFile)
      BY <1>3
    <3>. QED
      BY <1>2, <1>3, <3>1
  <2>. QED
    BY <1>1, <1>3, <1>4, <1>6, <2>1, <2>2, <2>3 DEF MaskRead
<1>9. RomLoaded'
  BY <1>1 DEF RomLoaded
<1>10. WordsInMemory' /\ \A a \in Address : words'[a] = NoWord
  BY <1>1 DEF IInv, WordsInMemory
<1>. QED
  BY <1>1, <1>7, <1>8, <1>9, <1>10 DEF IInv, ReadingRom, MaskInPlace, RomKept

LEMMA LastPage ==
  ASSUME NEW page \in Nat, NEW read \in Nat, NEW count \in Nat, NEW length \in Nat,
         NEW before \in 0 .. 1,
         page < count, before + page + 1 <= length, read = count \/ before + read = length
  PROVE  page < read
  OBVIOUS

LEMMA ReadMaskKeeps == IInv /\ ReadMask /\ UNCHANGED <<reg, sp, pc, words>> => IInv'
<1>. SUFFICES ASSUME IInv, ReadMask, UNCHANGED <<reg, sp, pc, words>>
              PROVE  IInv'
  OBVIOUS
<1>1. /\ TypeOK /\ RomLoaded /\ ReadingMask /\ WordsInMemory
      /\ place = "read_mask" /\ maskFile # Unreadable
      /\ UNCHANGED <<rom, maskFile, memory, mask_shift, skipped>>
  BY DEF IInv, ReadMask, files
<1>. DEFINE pages == PageCount(mask_shift)
<1>2. /\ pages \in Nat \ {0} /\ Pages(mask_shift) = 0 .. pages - 1
      /\ rom_mask \in [Pages(mask_shift) -> Nat] /\ filled \in Nat /\ skipped \in 0 .. 1
  BY <1>1, PageOf DEF TypeOK
<1>3. /\ skipped + filled <= Len(maskFile) /\ filled < pages
      /\ \A page \in Pages(mask_shift) :
           page < filled /\ skipped + page + 1 <= Len(maskFile)
             => rom_mask[page] = maskFile[skipped + page + 1]
  BY <1>1 DEF ReadingMask, MaskRead
<1>4. maskFile # NoFile => maskFile \in Seq(Nat) /\ Len(maskFile) \in Nat
  BY <1>1, FilesAssumption DEF TypeOK
<1>5. maskFile # NoFile /\ (SizingByteRead' => mask_shift' = maskFile'[1])
  BY <1>1 DEF ReadingMask, MaskRead, SizingByteRead
<1>6. PICK n \in ReadCounts(pages - filled, Len(maskFile) - skipped - filled) :
        /\ rom_mask' = [page \in Pages(mask_shift) |->
                          IF page \in filled .. filled + n - 1
                          THEN maskFile[skipped + page + 1] ELSE rom_mask[page]]
        /\ filled' = filled + n
        /\ place' = IF filled' = pages \/ n = 0 THEN "run" ELSE "read_mask"
  BY DEF ReadMask, PageCount
<1>. HIDE DEF pages
<1>7. /\ n \in Nat /\ n <= pages - filled /\ n <= Len(maskFile) - skipped - filled
      /\ (n = 0 => Len(maskFile) - skipped - filled = 0)
  <2>1. pages - filled \in Nat \ {0} /\ Len(maskFile) - skipped - filled \in Nat
    BY <1>2, <1>3, <1>4, <1>5
  <2>. QED
    BY <2>1, Counts
<1>8. /\ filled' \in Nat /\ skipped + filled' <= Len(maskFile) /\ filled' <= pages
      /\ place' \in {"read_mask", "run"}
      /\ (place' = "read_mask" => filled' < pages)
      /\ (place' = "run" => filled' = pages \/ skipped + filled' = Len(maskFile))
  BY <1>2, <1>3, <1>4, <1>5, <1>6, <1>7
<1>9. ASSUME NEW page \in Pages(mask_shift)
      PROVE  /\ rom_mask'[page] \in Nat
             /\ page < filled' /\ skipped + page + 1 <= Len(maskFile)
                  => rom_mask'[page] = maskFile[skipped + page + 1]
  <2>1. page \in Nat /\ rom_mask[page] \in Nat
    BY <1>2
  <2>2. CASE page \in filled .. filled + n - 1
    <3>1. rom_mask'[page] = maskFile[skipped + page + 1] /\ skipped + page + 1 \in 1 .. Len(maskFile)
      BY <1>2, <1>4, <1>5, <1>6, <1>7, <2>1, <2>2
    <3>. QED
      BY <1>4, <1>5, <3>1
  <2>3. CASE page \notin filled .. filled + n - 1
    <3>1. rom_mask'[page] = rom_mask[page]
      BY <1>6, <2>3
    <3>2. page < filled' => page < filled
      BY <1>2, <1>6, <1>7, <2>1, <2>3
    <3>. QED
      BY <1>3, <2>1, <3>1, <3>2
  <2>. QED
    BY <2>2, <2>3
<1>10. rom_mask' \in [Pages(mask_shift) -> Nat]
  BY <1>6, <1>9
<1>11. TypeOK'
  BY <1>1, <1>8, <1>10 DEF TypeOK
<1>12. MaskRead(filled)'
  BY <1>1, <1>3, <1>5, <1>9 DEF MaskRead
<1>13. ReadingMask'
  BY <1>1, <1>8, <1>12 DEF ReadingMask, PageCount, pages
<1>14. MaskInPlace'
  <2>. SUFFICES ASSUME place' = "run"
                PROVE  MaskRead(PageCount(mask_shift))'
    BY <1>1 DEF MaskInPlace
  <2>. SUFFICES ASSUME NEW page \in Pages(mask_shift), skipped + page + 1 <= Len(maskFile)
                PROVE  rom_mask'[page] = maskFile[skipped + page + 1]
    BY <1>1, <1>5 DEF MaskRead
  <2>1. page \in Nat /\ page < pages
    BY <1>2
  <2>2. filled' = pages \/ skipped + filled' = Len(maskFile)
    BY <1>8
  <2>3. Len(maskFile) \in Nat /\ filled' \in Nat
    BY <1>4, <1>5, <1>8
  <2>4. page < filled'
    BY <1>2, <2>1, <2>2, <2>3, LastPage
  <2>. QED
    BY <1>9, <2>4
<1>15. RomLoaded' /\ RomKept'
  BY <1>1, <1>8 DEF RomLoaded, RomKept
<1>16. WordsInMemory' /\ \A a \in Address : words'[a] = NoWord
  BY <1>1 DEF IInv, WordsInMemory
<1>. QED
  BY <1>8, <1>11, <1>13, <1>14, <1>15, <1>16 DEF IInv, ReadingRom

LEMMA OtherLoading ==
  IInv /\ (ReadFails \/ NoMask \/ RejectMask) /\ UNCHANGED <<reg, sp, pc, words>> => IInv'
<1>. SUFFICES ASSUME IInv, ReadFails \/ NoMask \/ RejectMask, UNCHANGED <<reg, sp, pc, words>>
              PROVE  IInv'
  OBVIOUS
<1>1. /\ TypeOK /\ RomLoaded /\ WordsInMemory /\ place # "run"
      /\ UNCHANGED <<rom, maskFile, memory, skipped, filled>>
  BY DEF IInv, ReadFails, NoMask, RejectMask, files
<1>2. WordsInMemory' /\ \A a \in Address : words'[a] = NoWord
  BY <1>1 DEF IInv, WordsInMemory
<1>3. CASE ReadFails \/ RejectMask
  <2>1. place' = "stopped" /\ UNCHANGED <<mask_shift, rom_mask>>
    BY <1>3 DEF ReadFails, RejectMask
  <2>2. TypeOK'
    BY <1>1, <2>1 DEF TypeOK
  <2>. QED
    BY <1>2, <2>1, <2>2 DEF IInv, ReadingRom, RomLoaded, ReadingMask, MaskInPlace, RomKept
<1>4. CASE NoMask
  <2>1. /\ place = "open_mask" /\ place' = "run" /\ maskFile = NoFile
        /\ mask_shift' = AddressBits /\ rom_mask' = [page \in {0} |-> 0]
    BY <1>4 DEF NoMask
  <2>2. Pages(AddressBits) = {0}
    <3>1. MAX_MEMORY \div MAX_MEMORY = 1
      BY MemorySize
    <3>2. Pages(AddressBits) = 0 .. 1 - 1
      BY <3>1, PagesAssumption DEF Pages
    <3>. QED
      BY <3>2
  <2>3. rom_mask' \in [Pages(mask_shift') -> Nat]
    BY <2>1, <2>2
  <2>4. mask_shift' \in 0 .. AddressBits
    BY <2>1, AddressBitsAssumption
  <2>5. TypeOK'
    BY <1>1, <2>1, <2>3, <2>4 DEF TypeOK
  <2>6. RomKept'
    BY <1>1, <2>1 DEF RomLoaded, RomKept
  <2>7. MaskInPlace'
    BY <1>1, <2>1, FilesAssumption DEF MaskInPlace
  <2>. QED
    BY <1>2, <2>1, <2>5, <2>6, <2>7 DEF IInv, ReadingRom, RomLoaded, ReadingMask
<1>. QED
  BY <1>3, <1>4

LEMMA InitHolds == Init => IInv
<1>. SUFFICES ASSUME Init
              PROVE  IInv
  OBVIOUS
<1>1. /\ place = "read_rom" /\ rom \in Roms /\ maskFile \in MaskFiles \cup {NoFile, Unreadable}
      /\ memory \in [Address -> Byte] /\ mask_shift = 0 /\ skipped = 0 /\ filled = 0
      /\ reg = [r \in Registers |-> 0] /\ sp = 0 /\ pc = 0
      /\ words = [a \in Address |-> NoWord]
  BY DEF Init, LoaderInit
<1>2. 0 \in Byte /\ 0 \in Address /\ 0 \in 0 .. AddressBits
  BY RadixAssumption, MemorySize, AddressBitsAssumption DEF Byte
<1>3. TypeOK
  BY <1>1, <1>2 DEF TypeOK
<1>4. ReadingRom
  <2>1. rom \in Seq(Byte)
    BY <1>1, FilesAssumption
  <2>2. \A a \in Address : ~(a < 0)
    BY MemorySize DEF Address
  <2>. QED
    BY <1>1, <2>1, <2>2, MemorySize DEF ReadingRom
<1>5. WordsInMemory
  BY <1>1 DEF WordsInMemory
<1>. QED
  BY <1>1, <1>3, <1>4, <1>5 DEF IInv, RomLoaded, ReadingMask, MaskInPlace, RomKept

LEMMA Inductive ==
  /\ Init => IInv
  /\ IInv /\ [Next]_vars => IInv'
<1>1. IInv /\ UNCHANGED vars => IInv'
  <2>. SUFFICES ASSUME IInv, UNCHANGED vars
                PROVE  IInv'
    OBVIOUS
  <2>1. UNCHANGED <<place, rom, maskFile, memory, mask_shift, rom_mask, skipped, filled,
                    reg, sp, pc, words>>
    BY DEF vars, loaderVars, files
  <2>. QED
    BY <2>1 DEF IInv, TypeOK, ReadingRom, RomLoaded, ReadingMask, MaskInPlace, MaskRead,
                RomKept, SizingByteRead, Writable, WordsInMemory
<1>2. IInv /\ Load => IInv'
  BY ReadRomKeeps, ReadShiftKeeps, ReadMaskKeeps, OtherLoading DEF Load, LoaderNext
<1>3. IInv /\ Next => IInv'
  BY <1>1, <1>2, RunKeeps DEF Next, RunStep, Stopped
<1>. QED
  BY <1>1, <1>3, InitHolds

-----------------------------------------------------------------------------
(* The registers and the memory keep to their ranges.                      *)
THEOREM TypeCorrect == Spec => []TypeOK
<1>1. IInv => TypeOK
  BY DEF IInv
<1>. QED
  BY <1>1, Inductive, PTL DEF Spec

(* The ROM is read whole, in however many pieces.                          *)
THEOREM RomReadWhole == Spec => []RomLoaded
<1>1. IInv => RomLoaded
  BY DEF IInv
<1>. QED
  BY <1>1, Inductive, PTL DEF Spec

(* No program changes a byte of the ROM that the mask in place protects,   *)
(* and what the mask file protects the mask in place protects unless the   *)
(* read of the sizing byte failed.                                         *)
THEOREM RomNeverChanges == Spec => []RomProtected
<1>1. IInv => RomProtected
  BY ProtectedInMask DEF IInv, RomKept, RomProtected
<1>. QED
  BY <1>1, Inductive, PTL DEF Spec

(* What is pushed, called from or stored as a word is read back.           *)
THEOREM WordsReadBack == Spec => []StoredWordsKept
<1>1. IInv => StoredWordsKept
  <2>. SUFFICES ASSUME IInv, NEW a \in Address, words[a] # NoWord
                PROVE  Word16(memory, a) = {words[a]}
    BY DEF StoredWordsKept
  <2>1. a + 1 \in Address /\ Word(memory[a], memory[a + 1]) = words[a]
    BY DEF IInv, WordsInMemory
  <2>2. Peek(memory, a) = {memory[a]} /\ Peek(memory, a + 1) = {memory[a + 1]}
    BY <2>1 DEF Peek
  <2>. QED
    BY <2>1, <2>2 DEF Word16
<1>. QED
  BY <1>1, Inductive, PTL DEF Spec
=============================================================================
