--------------------------- MODULE InterruptSenders ---------------------------
(***************************************************************************)
(* The CPU thread with a hardware library whose interrupt hook only runs   *)
(* the opcode (the none, cpudiag and basic libraries), and a front end of  *)
(* threads that post interrupts.  A sender runs the one protocol for that  *)
(* in the repository, the part of TaitoScreen::sendInterrupt that uses the *)
(* interrupt mutex and condition, with any opcode: hardware/README.md has  *)
(* authors of hardware libraries use the shared interrupt buffer so, and   *)
(* src/include/cpu.h wants several threads able to.                        *)
(*                                                                         *)
(* With Senders = {} this is the machine of the three shipped libraries    *)
(* that have no front end.                                                 *)
(***************************************************************************)
EXTENDS CpuThread

CONSTANT Senders  \* the front end's threads

ASSUME SendersAssumption == Senders \cap {Cpu, Free} = {}

VARIABLE senderAt  \* each sender's place in sendInterrupt

vars == <<cpuVars, senderAt>>

-----------------------------------------------------------------------------
(* The hardware library on the CPU thread.                                 *)

\* hw_interrupt_hook: return op_func(opcode, cpu)
Hook == RunInterruptOpcode("hook") /\ UNCHANGED senderAt

\* basic's hw_in, which sets the quit flag on ^D, ^\ or ESC without a lock.
ExecuteIn ==
  /\ cpuAt = "exec"
  /\ pc' \in Addresses
  /\ quit_flag' \in {quit_flag, 1}
  /\ \E c \in Costs : CycleWait(c, "fetch")
  /\ UNCHANGED <<ie, halt, int_lock, reset_quit_lock, interrupt_buffer, reset_flag, senderAt>>

\* pthread_cond_signal wakes one waiting sender, and nobody if none waits.
Signal ==
  /\ SignalInterrupt
  /\ LET waiting == {s \in Senders : senderAt[s] = "wait"} IN
       IF waiting = {} THEN UNCHANGED senderAt
       ELSE \E s \in waiting : senderAt' = [senderAt EXCEPT ![s] = "relock"]

CpuNext ==
  \/ (CycleWaitNext \/ FetchNext) /\ UNCHANGED senderAt
  \/ Hook \/ ExecuteIn \/ Signal

-----------------------------------------------------------------------------
(* The senders.                                                            *)

senderUnchanged == <<cpuAt, resume, cpuRegs, count, reset_quit_lock, reset_flag, quit_flag>>

CallSend(s) ==
  /\ senderAt[s] = "idle"
  /\ senderAt' = [senderAt EXCEPT ![s] = "lock"]
  /\ UNCHANGED cpuVars

\* pthread_mutex_lock, on entry or as pthread_cond_wait returns
SendLock(s) ==
  /\ senderAt[s] \in {"lock", "relock"}
  /\ Lock(int_lock, s)
  /\ senderAt' = [senderAt EXCEPT ![s] = IF @ = "lock" THEN "check" ELSE "write"]
  /\ UNCHANGED <<senderUnchanged, interrupt_buffer>>

\* The buffer is tested once, before the wait and not after it.
SendWait(s) ==
  /\ senderAt[s] = "check" /\ interrupt_buffer # Empty
  /\ Unlock(int_lock)
  /\ senderAt' = [senderAt EXCEPT ![s] = "wait"]
  /\ UNCHANGED <<senderUnchanged, interrupt_buffer>>

SendWrite(s) ==
  /\ senderAt[s] = "write" \/ (senderAt[s] = "check" /\ interrupt_buffer = Empty)
  /\ interrupt_buffer' \in Instructions \ {Empty}
  /\ Unlock(int_lock)
  /\ senderAt' = [senderAt EXCEPT ![s] = "idle"]
  /\ UNCHANGED senderUnchanged

SenderNext(s) == CallSend(s) \/ SendLock(s) \/ SendWait(s) \/ SendWrite(s)

-----------------------------------------------------------------------------
Init == CpuInit /\ senderAt = [s \in Senders |-> "idle"]

\* The CPU thread has returned; its process ends when the front end does.
Finished == cpuAt = "exited" /\ UNCHANGED vars

Next == CpuNext \/ (\E s \in Senders : SenderNext(s)) \/ Finished

(* Every thread that can run does.  Threads that contend for the interrupt *)
(* mutex all get it in the end: each holds it for a few instructions, and  *)
(* the CPU sleeps without it once per chunk.  Nothing makes a sender call. *)
Fairness ==
  /\ WF_vars(CpuNext)
  /\ SF_vars(FetchEnabled /\ UNCHANGED senderAt)
  /\ \A s \in Senders : SF_vars(SendLock(s)) /\ WF_vars(SendWait(s) \/ SendWrite(s))

Spec == Init /\ [][Next]_vars
FairSpec == Spec /\ Fairness

-----------------------------------------------------------------------------
TypeOK ==
  /\ cpuAt \in CpuPlaces
  /\ resume \in {"fetch", "int_done"}
  /\ pc \in Addresses /\ ie \in 0 .. 2 /\ halt \in 0 .. 1
  /\ count \in Nat
  /\ int_lock \in Senders \cup {Cpu, Free}
  /\ reset_quit_lock \in {Cpu, Free}
  /\ interrupt_buffer \in Instructions
  /\ reset_flag \in 0 .. 1 /\ quit_flag \in 0 .. 1
  /\ senderAt \in [Senders -> {"idle", "lock", "check", "wait", "relock", "write"}]

(* The interrupt mutex is held by the CPU exactly while it looks at and    *)
(* runs an interrupt, and by a sender exactly while it tests or writes the *)
(* buffer: nobody touches interrupt_buffer without it, no path forgets to  *)
(* release it, and only a quit seen inside an interrupt's cycle_wait       *)
(* leaves it held (cpu_thread.c:81-134, taitoScreen.cpp:189-193).          *)
IntLockHeldExactly ==
  /\ int_lock = Cpu <=> HoldsIntLock({"hook"})
  /\ \A s \in Senders : int_lock = s <=> senderAt[s] \in {"check", "write"}

(* Case 5 of the switch never happens: the CPU cannot be halted with the   *)
(* enabling of interrupts still pending, whatever it fetches after an EI,  *)
(* since the flag is moved from 2 to 1 before the next opcode runs         *)
(* (cpu_thread.c:72-79, other_opcodes.c:113).                              *)
PendingNeverHalted == ~(ie = 2 /\ halt = 1)

(* A chunk of cycles is never overdue when the loop fetches, so a reset or *)
(* quit request is looked at within a chunk and one opcode of being made   *)
(* (cycle_timer.c:48-75).                                                  *)
PollNeverOverdue == cpuAt \notin PollPlaces \cup {"exited"} => count < CycleChunk

(* A posted interrupt stays in the buffer until the CPU clears it: no      *)
(* sender replaces another's (cpu.h:47-53).                                *)
PostedNotOverwritten ==
  [][interrupt_buffer # Empty => interrupt_buffer' \in {interrupt_buffer, Empty}]_vars

(* The hook runs only for an interrupt in the buffer (hw_func_pointers.h:  *)
(* 12-15, cpu_thread.c:80-82).                                             *)
HookOnlyWhenPopulated == cpuAt = "hook" => interrupt_buffer # Empty

(* As long as the program keeps coming back to a fetch with interrupts on, *)
(* and the emulator is not quit, a sender that calls sendInterrupt gets    *)
(* its interrupt into the buffer and returns, provided that the others do  *)
(* not call for ever: pthread_cond_signal may pick the same sender again   *)
(* and again, but the signal after the release of the mutex                *)
(* (cpu_thread.c:115-116, 132-133) is never lost, and no wait is left over *)
(* when several senders wait.                                              *)
Interruptible == []<>(cpuAt = "fetch" /\ ie = 1)
CallsEnd(s) == <>[](senderAt[s] # "lock")
SendReturns ==
  \A s \in Senders :
    Interruptible /\ (\A t \in Senders \ {s} : CallsEnd(t))
      => (senderAt[s] = "lock" ~> senderAt[s] = "idle")

(* A posted interrupt is taken, or cleared as multi-byte, by a program     *)
(* that keeps coming back to a fetch with interrupts on.                   *)
PostedIsConsumed == Interruptible => (interrupt_buffer # Empty ~> interrupt_buffer = Empty)

(* Once the quit flag is set the CPU thread returns, also from a halt, and *)
(* from a program that never enables interrupts (cycle_timer.c:59-63),     *)
(* unless multi-byte interrupts keep arriving: clearing one counts no      *)
(* cycles (cpu_thread.c:112-118), so a sender that posts nothing else can  *)
(* keep the CPU from ever polling again.                                   *)
QuitIsHonoured ==
  <>[](~MultiByte(interrupt_buffer)) => (quit_flag = 1 ~> cpuAt = "exited")
=============================================================================
