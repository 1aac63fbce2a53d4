------------------------ MODULE InterruptSendersProofs ------------------------
(***************************************************************************)
(* What TLAPS proves of InterruptSenders, for any set of senders, any      *)
(* chunk and any costs: the discipline of the interrupt mutex, the states  *)
(* of the interrupt flag, and that a poll is never overdue.                *)
(***************************************************************************)
EXTENDS InterruptSenders, TLAPS

(* What is used of the assumptions on the constants.                       *)
LEMMA SenderConstants ==
  /\ {0, 8, 16} \subseteq Addresses
  /\ CycleChunk \in Nat /\ 0 < CycleChunk
  /\ \A c \in Costs : c \in Nat
  /\ \A s \in Senders : s # Cpu /\ s # Free
  BY CpuAssumption, SendersAssumption

(* Between the CPU's places: what the switch and interrupt_execution have  *)
(* made of the two flags when an opcode is about to run.                   *)
FlagsInPlace ==
  /\ PendingNeverHalted
  /\ cpuAt = "exec" => halt = 0 /\ ie # 2
  /\ cpuAt = "int_check" => ie = 1
  /\ cpuAt = "hook" => halt = 0 /\ ie = 0

SafeInv == IntLockHeldExactly /\ FlagsInPlace /\ PollNeverOverdue

-----------------------------------------------------------------------------
(* A sender's step keeps the types and the invariant.                      *)
LEMMA SenderStep ==
  ASSUME TypeOK, SafeInv, NEW s \in Senders, SenderNext(s)
  PROVE  TypeOK' /\ SafeInv'
<1> USE DEF TypeOK, SafeInv, IntLockHeldExactly, FlagsInPlace, PendingNeverHalted,
        PollNeverOverdue, HoldsIntLock, PollPlaces, Cpu, Free, Lock, Unlock,
        senderUnchanged, cpuRegs, cpuShared, cpuVars
<1>1. CASE CallSend(s)
  BY <1>1, SenderConstants DEF CallSend
<1>2. CASE SendLock(s)
  BY <1>2, SenderConstants DEF SendLock
<1>3. CASE SendWait(s)
  BY <1>3, SenderConstants DEF SendWait
<1>4. CASE SendWrite(s)
  BY <1>4, SenderConstants DEF SendWrite, Instructions
<1>. QED
  BY <1>1, <1>2, <1>3, <1>4 DEF SenderNext

(* A step of cycle_wait's poll keeps the types and the invariant.          *)
LEMMA PollStep ==
  ASSUME TypeOK, SafeInv, CycleWaitNext, UNCHANGED senderAt
  PROVE  TypeOK' /\ SafeInv'
<1> USE DEF TypeOK, SafeInv, IntLockHeldExactly, FlagsInPlace, PendingNeverHalted,
        PollNeverOverdue, HoldsIntLock, PollPlaces, CpuPlaces, Cpu, Free, Lock, Unlock,
        cpuRegs, cpuShared
<1>1. CASE PollLock
  BY <1>1, SenderConstants DEF PollLock
<1>2. CASE PollReset
  BY <1>2, SenderConstants DEF PollReset
<1>3. CASE PollClear
  BY <1>3, SenderConstants DEF PollClear
<1>4. CASE PollQuit
  BY <1>4, SenderConstants DEF PollQuit
<1>. QED
  BY <1>1, <1>2, <1>3, <1>4 DEF CycleWaitNext

(* A call of cycle_wait counts the cycles and goes on, or polls.           *)
LEMMA CycleWaitCounts ==
  ASSUME count \in Nat, NEW c \in Nat, NEW k, CycleWait(c, k)
  PROVE  /\ count' \in Nat /\ resume' = k
         /\ cpuAt' = "poll" \/ (cpuAt' = k /\ count' < CycleChunk)
  BY SenderConstants DEF CycleWait

(* A step of the fetch loop keeps the types and the invariant.             *)
LEMMA FetchStep ==
  ASSUME TypeOK, SafeInv, FetchNext, UNCHANGED senderAt
  PROVE  TypeOK' /\ SafeInv'
<1> USE DEF TypeOK, SafeInv, IntLockHeldExactly, FlagsInPlace, PendingNeverHalted,
        PollNeverOverdue, HoldsIntLock, PollPlaces, CpuPlaces, Cpu, Free, Lock, Unlock,
        cpuRegs, cpuShared
<1>1. CASE FetchDisabled
  BY <1>1, SenderConstants DEF FetchDisabled
<1>2. CASE FetchHalted
  <2>1. /\ count' \in Nat /\ resume' = "fetch"
        /\ cpuAt' = "poll" \/ (cpuAt' = "fetch" /\ count' < CycleChunk)
    BY <1>2, SenderConstants, CycleWaitCounts DEF FetchHalted
  <2>. QED
    BY <1>2, <2>1, SenderConstants DEF FetchHalted
<1>3. CASE FetchEnabled
  BY <1>3, SenderConstants DEF FetchEnabled
<1>4. CASE NoInterrupt
  BY <1>4, SenderConstants DEF NoInterrupt, InterruptTaken
<1>5. CASE DiscardInterrupt
  BY <1>5, SenderConstants DEF DiscardInterrupt, Empty, Instructions, SingleByte
<1>6. CASE BeginInterrupt
  BY <1>6, SenderConstants DEF BeginInterrupt
<1>7. CASE FinishInterrupt
  BY <1>7, SenderConstants DEF FinishInterrupt, Empty, Instructions, SingleByte
<1>8. CASE ExecuteInstruction
  <2>1. PICK op \in Instructions :
           /\ ie' = EnableAfter(op, ie) /\ halt' = HaltAfter(op, halt)
           /\ IF op \in {"RST1", "RST2"} THEN pc' = Vector(op) ELSE pc' \in Addresses
    BY <1>8 DEF ExecuteInstruction
  <2>2. /\ ie' \in 0 .. 2 /\ halt' \in 0 .. 1 /\ pc' \in Addresses
        /\ ~(ie' = 2 /\ halt' = 1)
    BY <1>8, <2>1, SenderConstants DEF ExecuteInstruction, EnableAfter, HaltAfter, Vector
  <2>3. /\ count' \in Nat /\ resume' = "fetch"
        /\ cpuAt' = "poll" \/ (cpuAt' = "fetch" /\ count' < CycleChunk)
    BY <1>8, SenderConstants, CycleWaitCounts DEF ExecuteInstruction
  <2>. QED
    BY <1>8, <2>2, <2>3, SenderConstants DEF ExecuteInstruction
<1>. QED
  BY <1>1, <1>2, <1>3, <1>4, <1>5, <1>6, <1>7, <1>8 DEF FetchNext

(* A step of the hardware library keeps the types and the invariant.       *)
LEMMA HardwareStep ==
  ASSUME TypeOK, SafeInv, Hook \/ ExecuteIn \/ Signal
  PROVE  TypeOK' /\ SafeInv'
<1> USE DEF TypeOK, SafeInv, IntLockHeldExactly, FlagsInPlace, PendingNeverHalted,
        PollNeverOverdue, HoldsIntLock, PollPlaces, CpuPlaces, Cpu, Free,
        cpuRegs, cpuShared
<1>1. CASE Hook
  <2>1. /\ ie' \in 0 .. 2 /\ halt' \in 0 .. 1 /\ pc' \in Addresses
        /\ ~(ie' = 2 /\ halt' = 1)
    BY <1>1, SenderConstants DEF Hook, RunInterruptOpcode, EnableAfter, HaltAfter, Vector
  <2>2. /\ count' \in Nat /\ resume' = "int_done"
        /\ cpuAt' = "poll" \/ (cpuAt' = "int_done" /\ count' < CycleChunk)
    BY <1>1, SenderConstants, CycleWaitCounts DEF Hook, RunInterruptOpcode
  <2>. QED
    BY <1>1, <2>1, <2>2, SenderConstants DEF Hook, RunInterruptOpcode
<1>2. CASE ExecuteIn
  <2>1. /\ count' \in Nat /\ resume' = "fetch"
        /\ cpuAt' = "poll" \/ (cpuAt' = "fetch" /\ count' < CycleChunk)
    BY <1>2, SenderConstants, CycleWaitCounts DEF ExecuteIn
  <2>. QED
    BY <1>2, <2>1, SenderConstants DEF ExecuteIn
<1>3. CASE Signal
  <2>1. senderAt' = senderAt
        \/ \E s \in Senders : senderAt[s] = "wait" /\ senderAt' = [senderAt EXCEPT ![s] = "relock"]
    BY <1>3 DEF Signal
  <2>. QED
    BY <1>3, <2>1, SenderConstants DEF Signal, SignalInterrupt
<1>. QED
  BY <1>1, <1>2, <1>3

-----------------------------------------------------------------------------
(* The types and the invariant hold at the start and after every step.     *)
LEMMA SafeInductive ==
  /\ Init => TypeOK /\ SafeInv
  /\ TypeOK /\ SafeInv /\ [Next]_vars => (TypeOK /\ SafeInv)'
<1>1. Init => TypeOK /\ SafeInv
  BY SenderConstants
     DEF Init, CpuInit, TypeOK, SafeInv, IntLockHeldExactly, FlagsInPlace, PendingNeverHalted,
         PollNeverOverdue, HoldsIntLock, PollPlaces, CpuPlaces, Cpu, Free, Empty,
         Instructions, SingleByte
<1>2. TypeOK /\ SafeInv /\ UNCHANGED vars => (TypeOK /\ SafeInv)'
  BY DEF vars, cpuVars, cpuRegs, cpuShared, TypeOK, SafeInv, IntLockHeldExactly, FlagsInPlace,
         PendingNeverHalted, PollNeverOverdue, HoldsIntLock
<1>. QED
  BY <1>1, <1>2, SenderStep, PollStep, FetchStep, HardwareStep
     DEF Next, CpuNext, Finished

(* Every variable keeps its type, whatever the senders post.               *)
THEOREM SendersTypeCorrect == Spec => []TypeOK
  BY SafeInductive, PTL DEF Spec

(* The interrupt mutex is held exactly where the buffer is used, whatever  *)
(* the number of senders.                                                  *)
THEOREM IntLockDiscipline == Spec => []IntLockHeldExactly
<1>1. SafeInv => IntLockHeldExactly
  BY DEF SafeInv
<1>. QED
  BY <1>1, SafeInductive, PTL DEF Spec

(* No program halts the CPU with the enabling of interrupts pending.       *)
THEOREM NeverPendingHalted == Spec => []PendingNeverHalted
<1>1. SafeInv => PendingNeverHalted
  BY DEF SafeInv, FlagsInPlace
<1>. QED
  BY <1>1, SafeInductive, PTL DEF Spec

(* No program, whatever its opcodes cost, gets to a fetch with a poll due. *)
THEOREM PollInTime == Spec => []PollNeverOverdue
<1>1. SafeInv => PollNeverOverdue
  BY DEF SafeInv
<1>. QED
  BY <1>1, SafeInductive, PTL DEF Spec
=============================================================================
