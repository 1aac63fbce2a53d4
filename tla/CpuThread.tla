------------------------------ MODULE CpuThread ------------------------------
(***************************************************************************)
(* The CPU thread of the emulator: the fetch loop of src/cpu_thread.c, the *)
(* cycle_wait of src/cycle_timer.c that polls the reset and quit flags     *)
(* once per chunk of cycles, and the instructions that touch the interrupt *)
(* state.  The thread shares with the hardware library, through struct     *)
(* system_resources, two mutexes, a one-byte interrupt buffer and two      *)
(* flags.                                                                  *)
(*                                                                         *)
(* This module has the CPU's state and actions only.  InterruptSenders and *)
(* TaitoSystem add the hardware library, whose interrupt hook, IN and OUT  *)
(* run on this thread, and the threads of its front end.                   *)
(*                                                                         *)
(* A step is one access to shared state or one blocking call.  Registers   *)
(* and memory are private to the thread; of them the model keeps pc,       *)
(* interrupt_enable_flag and halt_flag.  The program in memory is          *)
(* arbitrary: any instruction may be fetched at any pc.                    *)
(***************************************************************************)
EXTENDS Naturals, Mutex

CONSTANTS
  CycleChunk,  \* CYCLE_CHUNK, the cycles after which cycle_wait polls
  Costs,       \* the cycle counts an opcode function can return
  Addresses    \* the values of pc that are told apart

ASSUME CpuAssumption ==
  /\ CycleChunk \in Nat \ {0}
  /\ Costs \subseteq Nat \ {0}
  /\ Costs # {}
  /\ \A a \in Addresses : a \in Nat /\ a < 65536
  /\ {0, 8, 16} \subseteq Addresses

VARIABLES
  cpuAt,             \* the CPU thread's place in its code
  resume,            \* where cycle_wait returns to
  pc,                \* cpu.pc
  ie,                \* cpu.interrupt_enable_flag: 0 off, 1 on, 2 on after one more opcode
  halt,              \* cpu.halt_flag
  count,             \* cycle_wait's static count of cycles since the last poll
  int_lock,          \* holder of the interrupt mutex
  reset_quit_lock,   \* holder of the mutex cycle_wait takes around the two flags
  interrupt_buffer,  \* the pending interrupt's opcode
  reset_flag,
  quit_flag

cpuRegs == <<pc, ie, halt>>
cpuShared == <<int_lock, reset_quit_lock, interrupt_buffer, reset_flag, quit_flag>>
cpuVars == <<cpuAt, resume, cpuRegs, count, cpuShared>>

-----------------------------------------------------------------------------
(* Instructions, by what the CPU thread tells apart.  "NOP" is the opcode  *)
(* 0x00, the value of an empty interrupt buffer; as a fetched instruction  *)
(* it stands for every one that only moves pc.  "JMP" is any opcode of     *)
(* more than one byte.                                                     *)

Empty == "NOP"
SingleByte == {"NOP", "EI", "DI", "HLT", "RST1", "RST2"}
Instructions == SingleByte \cup {"JMP"}

\* get_opcode_size(op) > 1
MultiByte(op) == op \notin SingleByte

\* interrupt_enable_flag after the opcode function of op, from i
EnableAfter(op, i) ==
  IF op = "EI" /\ i = 0 THEN 2 ELSE IF op = "DI" THEN 0 ELSE i

\* halt_flag after the opcode function of op, from h
HaltAfter(op, h) == IF op = "HLT" THEN 1 ELSE h

Vector(op) == IF op = "RST1" THEN 8 ELSE 16

-----------------------------------------------------------------------------
(* cycle_wait(cycles), called last by a step whose caller goes on at k.    *)
CycleWait(cycles, k) ==
  /\ count' = count + cycles
  /\ resume' = k
  /\ cpuAt' = IF count' >= CycleChunk THEN "poll" ELSE k

PollLock ==
  /\ cpuAt = "poll"
  /\ Lock(reset_quit_lock, Cpu)
  /\ cpuAt' = "poll_reset"
  /\ UNCHANGED <<resume, cpuRegs, count, int_lock, interrupt_buffer, reset_flag, quit_flag>>

\* if (*cpu->reset_flag)
PollReset ==
  /\ cpuAt = "poll_reset"
  /\ cpuAt' = IF reset_flag = 1 THEN "poll_clear" ELSE "poll_quit"
  /\ UNCHANGED <<resume, cpuRegs, count, cpuShared>>

\* Mutant of PollClear: *cpu->reset_flag = 0 is forgotten.
PollClearKeepingFlag ==
  /\ cpuAt = "poll_clear"
  /\ pc' = 0 /\ halt' = 0 /\ ie' = 0
  /\ cpuAt' = "poll_quit"
  /\ UNCHANGED <<resume, count, cpuShared>>

PollClear ==
  /\ cpuAt = "poll_clear"
  /\ pc' = 0
  /\ reset_flag' = 0
  /\ halt' = 0
  /\ ie' = 0
  /\ cpuAt' = "poll_quit"
  /\ UNCHANGED <<resume, count, int_lock, reset_quit_lock, interrupt_buffer, quit_flag>>

\* Mutant of PollQuit: count = 0 is forgotten.
PollQuitKeepingCount ==
  /\ cpuAt = "poll_quit"
  /\ Unlock(reset_quit_lock)
  /\ cpuAt' = IF quit_flag = 1 THEN "exited" ELSE resume
  /\ UNCHANGED <<resume, cpuRegs, count, int_lock, interrupt_buffer, reset_flag, quit_flag>>

\* if (*cpu->quit_flag): the CPU thread returns from wherever it called.
PollQuit ==
  /\ cpuAt = "poll_quit"
  /\ Unlock(reset_quit_lock)
  /\ \/ quit_flag = 1 /\ cpuAt' = "exited" /\ UNCHANGED count
     \/ quit_flag = 0 /\ cpuAt' = resume /\ count' = 0
  /\ UNCHANGED <<resume, cpuRegs, int_lock, interrupt_buffer, reset_flag, quit_flag>>

CycleWaitNext == PollLock \/ PollReset \/ PollClear \/ PollQuit

-----------------------------------------------------------------------------
(* The fetch loop, by interrupt_enable_flag << 1 | halt_flag.              *)

\* Mutants of FetchDisabled: case 0 also decrements, or case 4 does not.
FetchDisabledWrapping ==
  /\ cpuAt = "fetch" /\ halt = 0 /\ ie \in {0, 2}
  /\ ie' = (ie + 255) % 256
  /\ cpuAt' = "exec"
  /\ UNCHANGED <<resume, pc, halt, count, cpuShared>>

FetchDisabledForEver ==
  /\ cpuAt = "fetch" /\ halt = 0 /\ ie \in {0, 2}
  /\ cpuAt' = "exec"
  /\ UNCHANGED <<resume, cpuRegs, count, cpuShared>>

\* Cases 4 and 0: not halted, interrupts pending or off.
FetchDisabled ==
  /\ cpuAt = "fetch" /\ halt = 0 /\ ie \in {0, 2}
  /\ ie' = IF ie = 2 THEN 1 ELSE 0
  /\ cpuAt' = "exec"
  /\ UNCHANGED <<resume, pc, halt, count, cpuShared>>

\* Mutant of FetchHalted: a halted CPU waits for no cycles.
FetchHaltedIdle ==
  /\ cpuAt = "fetch" /\ halt = 1 /\ ie = 0
  /\ CycleWait(0, "fetch")
  /\ UNCHANGED <<cpuRegs, cpuShared>>

\* Case 1: halted with interrupts off.
FetchHalted ==
  /\ cpuAt = "fetch" /\ halt = 1 /\ ie = 0
  /\ CycleWait(CycleChunk, "fetch")
  /\ UNCHANGED <<cpuRegs, cpuShared>>

\* Cases 2, 3 and 5: lock the interrupt mutex to look at the buffer.
FetchEnabled ==
  /\ cpuAt = "fetch"
  /\ ie = 1 \/ (ie = 2 /\ halt = 1)
  /\ ie' = 1
  /\ Lock(int_lock, Cpu)
  /\ cpuAt' = "int_check"
  /\ UNCHANGED <<resume, pc, halt, count, reset_quit_lock, interrupt_buffer, reset_flag, quit_flag>>

(* Whether the thread goes on to interrupt_execution.  Not halted, it      *)
(* tests the buffer's byte; halted, it tests the pointer to the buffer,    *)
(* which is never null.                                                    *)
InterruptTaken == halt = 1 \/ interrupt_buffer # Empty

\* Mutant of NoInterrupt: the mutex is not released.
NoInterruptKeepingLock ==
  /\ cpuAt = "int_check" /\ ~InterruptTaken
  /\ cpuAt' = "exec"
  /\ UNCHANGED <<resume, cpuRegs, count, cpuShared>>

NoInterrupt ==
  /\ cpuAt = "int_check" /\ ~InterruptTaken
  /\ Unlock(int_lock)
  /\ cpuAt' = "exec"
  /\ UNCHANGED <<resume, cpuRegs, count, reset_quit_lock, interrupt_buffer, reset_flag, quit_flag>>

\* A multi-byte opcode is cleared and not executed.
DiscardInterrupt ==
  /\ cpuAt = "int_check" /\ InterruptTaken /\ MultiByte(interrupt_buffer)
  /\ interrupt_buffer' = Empty
  /\ Unlock(int_lock)
  /\ cpuAt' = "int_signal"
  /\ UNCHANGED <<resume, cpuRegs, count, reset_quit_lock, reset_flag, quit_flag>>

BeginInterrupt ==
  /\ cpuAt = "int_check" /\ InterruptTaken /\ ~MultiByte(interrupt_buffer)
  /\ halt' = 0
  /\ ie' = 0
  /\ cpuAt' = "hook"
  /\ UNCHANGED <<resume, pc, count, cpuShared>>

(* The hook's last call, op_func(opcode, cpu), and the cycle_wait on what  *)
(* it returns, from the place `at` of the hook's code.  pc is not advanced *)
(* over the opcode; RST jumps.                                             *)
RunInterruptOpcode(at) ==
  /\ cpuAt = at
  /\ LET op == interrupt_buffer IN
       /\ ie' = EnableAfter(op, ie)
       /\ halt' = HaltAfter(op, halt)
       /\ pc' = IF op \in {"RST1", "RST2"} THEN Vector(op) ELSE pc
  /\ \E c \in Costs : CycleWait(c, "int_done")
  /\ UNCHANGED cpuShared

\* Mutants of FinishInterrupt: nobody is signalled, or the buffer is not cleared.
FinishInterruptSilently ==
  /\ cpuAt = "int_done"
  /\ interrupt_buffer' = Empty
  /\ Unlock(int_lock)
  /\ cpuAt' = "fetch"
  /\ UNCHANGED <<resume, cpuRegs, count, reset_quit_lock, reset_flag, quit_flag>>

FinishInterruptUncleared ==
  /\ cpuAt = "int_done"
  /\ Unlock(int_lock)
  /\ cpuAt' = "int_signal"
  /\ UNCHANGED <<resume, cpuRegs, count, reset_quit_lock, interrupt_buffer, reset_flag, quit_flag>>

FinishInterrupt ==
  /\ cpuAt = "int_done"
  /\ interrupt_buffer' = Empty
  /\ Unlock(int_lock)
  /\ cpuAt' = "int_signal"
  /\ UNCHANGED <<resume, cpuRegs, count, reset_quit_lock, reset_flag, quit_flag>>

(* pthread_cond_signal(cpu.int_cond), after the mutex is released.  The    *)
(* modules that have waiters conjoin which of them wakes.                  *)
SignalInterrupt ==
  /\ cpuAt = "int_signal"
  /\ cpuAt' = "fetch"
  /\ UNCHANGED <<resume, cpuRegs, count, cpuShared>>

(* normal_execution for the instructions that leave shared state alone.    *)
ExecuteInstruction ==
  /\ cpuAt = "exec"
  /\ \E op \in Instructions :
       /\ ie' = EnableAfter(op, ie)
       /\ halt' = HaltAfter(op, halt)
       /\ IF op \in {"RST1", "RST2"} THEN pc' = Vector(op) ELSE pc' \in Addresses
  /\ \E c \in Costs : CycleWait(c, "fetch")
  /\ UNCHANGED cpuShared

FetchNext ==
  \/ FetchDisabled \/ FetchHalted \/ FetchEnabled
  \/ NoInterrupt \/ DiscardInterrupt \/ BeginInterrupt \/ FinishInterrupt
  \/ ExecuteInstruction

-----------------------------------------------------------------------------
CpuInit ==
  /\ cpuAt = "fetch" /\ resume = "fetch"
  /\ pc = 0 /\ ie = 0 /\ halt = 0
  /\ count = 0
  /\ int_lock = Free /\ reset_quit_lock = Free
  /\ interrupt_buffer = Empty
  /\ reset_flag = 0 /\ quit_flag = 0

PollPlaces == {"poll", "poll_reset", "poll_clear", "poll_quit"}
CpuPlaces ==
  PollPlaces \cup {"fetch", "int_check", "hook", "int_done", "int_signal", "exec", "exited"}

(* The CPU holds the interrupt mutex exactly from the check of the buffer  *)
(* to its clearing, the wait after the interrupt's opcode included; a quit *)
(* seen in that wait leaves it held.                                       *)
HoldsIntLock(hookPlaces) ==
  \/ cpuAt \in {"int_check", "int_done"} \cup hookPlaces
  \/ cpuAt \in PollPlaces \cup {"exited", "terminated"} /\ resume = "int_done"
=============================================================================
