----------------------------- MODULE TaitoSystem -----------------------------
(***************************************************************************)
(* The emulator with the si hardware library on the taito library: the CPU *)
(* thread, whose interrupt hook copies half of video memory to a shared    *)
(* buffer, and the front end thread, which draws from that buffer, sends   *)
(* the two interrupts of a frame, handles the keyboard and plays sounds.   *)
(*                                                                         *)
(* The front end holds vbuffer_lock from its constructor to its exit,      *)
(* except while it waits, inside sendInterrupt, for the hook to copy the   *)
(* half it has just asked for.  The two threads take the interrupt and     *)
(* video mutexes in opposite orders, so this handshake is what keeps them  *)
(* from blocking each other.                                               *)
(*                                                                         *)
(* The content of the two picture buffers is a stamp for each band of rows *)
(* (module Screen): the frame in which it was copied from video memory.    *)
(***************************************************************************)
EXTENDS CpuThread, Screen

CONSTANT SpuriousWakeups  \* whether pthread_cond_wait may return unsignalled

ASSUME TaitoAssumption == SpuriousWakeups \in BOOLEAN

VARIABLES
  feAt,        \* the front end's place in its loop
  half,        \* the half of the screen the front end is at, TOP or BOTTOM
  quitting,    \* handleInput's local quit
  events,      \* the keys waiting in SDL's event queue
  frame,       \* the frames rendered, modulo 3
  vbuffer,     \* the stamp of each band in the shared video buffer
  display,     \* the stamp of each band in the front end's display buffer
  vbuffer_lock, keystate_lock, sound_lock,
  fe_reset_quit_lock  \* the taito library's reset_quit_lock

screenVars == <<frame, vbuffer, display>>
feLocks == <<vbuffer_lock, keystate_lock, sound_lock, fe_reset_quit_lock>>
inputVars == <<quitting, events>>
feVars == <<feAt, half, inputVars, screenVars, feLocks>>
vars == <<cpuVars, feVars>>

Keys == {"esc", "r"}

-----------------------------------------------------------------------------
(* The interrupts of a frame.                                              *)

InterruptOf(h) == IF h = "TOP" THEN "RST1" ELSE "RST2"
VideoInterrupts == {"RST1", "RST2"}
HalfOf(op) == IF op = "RST1" THEN "TOP" ELSE "BOTTOM"

-----------------------------------------------------------------------------
(* hw_interrupt_hook, on the CPU thread with the interrupt mutex held.     *)

HookLock ==
  /\ cpuAt = "hook" /\ interrupt_buffer \in VideoInterrupts
  /\ Lock(vbuffer_lock, Cpu)
  /\ cpuAt' = "hook_copy"
  /\ UNCHANGED <<resume, cpuRegs, count, cpuShared, feAt, half, inputVars, screenVars,
                 keystate_lock, sound_lock, fe_reset_quit_lock>>

HookCopy ==
  /\ cpuAt = "hook_copy"
  /\ vbuffer' = Refresh(vbuffer, CopiedWith(HalfOf(interrupt_buffer)),
                        [b \in Bands |-> frame])
  /\ Unlock(vbuffer_lock)
  /\ cpuAt' = "hook_signal"
  /\ UNCHANGED <<resume, cpuRegs, count, cpuShared, feAt, half, inputVars, frame, display,
                 keystate_lock, sound_lock, fe_reset_quit_lock>>

\* Mutant of HookSignal: the condition is not signalled.
HookSignalForgotten ==
  /\ cpuAt = "hook_signal"
  /\ cpuAt' = "hook_op"
  /\ UNCHANGED <<resume, cpuRegs, count, cpuShared, feVars>>

\* pthread_cond_signal(vbuffer_cond): lost when the front end is not waiting
HookSignal ==
  /\ cpuAt = "hook_signal"
  /\ feAt' = IF feAt = "vid_wait" THEN "vid_relock" ELSE feAt
  /\ cpuAt' = "hook_op"
  /\ UNCHANGED <<resume, cpuRegs, count, cpuShared, half, inputVars, screenVars, feLocks>>

\* Any other opcode goes straight to op_func.
HookRun ==
  /\ \/ RunInterruptOpcode("hook_op")
     \/ interrupt_buffer \notin VideoInterrupts /\ RunInterruptOpcode("hook")
  /\ UNCHANGED feVars

\* pthread_cond_signal(int_cond)
CpuSignal ==
  /\ SignalInterrupt
  /\ feAt' = IF feAt = "int_wait" THEN "int_relock" ELSE feAt
  /\ UNCHANGED <<half, inputVars, screenVars, feLocks>>

-----------------------------------------------------------------------------
(* hw_in and hw_out of the si library, as the CPU thread executes IN and   *)
(* OUT: ports 1 and 2 are read under keystate_lock, ports 3 and 5 written  *)
(* under sound_lock.  The other ports are the CPU's own.                   *)

ReadKeys ==
  /\ cpuAt = "exec"
  /\ Lock(keystate_lock, Cpu)
  /\ cpuAt' = "io_keys"
  /\ UNCHANGED <<resume, cpuRegs, count, cpuShared, feAt, half, inputVars, screenVars,
                 vbuffer_lock, sound_lock, fe_reset_quit_lock>>

WriteSound ==
  /\ cpuAt = "exec"
  /\ Lock(sound_lock, Cpu)
  /\ cpuAt' = "io_sound"
  /\ UNCHANGED <<resume, cpuRegs, count, cpuShared, feAt, half, inputVars, screenVars,
                 vbuffer_lock, keystate_lock, fe_reset_quit_lock>>

FinishIo ==
  /\ \/ cpuAt = "io_keys" /\ Unlock(keystate_lock) /\ UNCHANGED sound_lock
     \/ cpuAt = "io_sound" /\ Unlock(sound_lock) /\ UNCHANGED keystate_lock
  /\ pc' \in Addresses
  /\ \E c \in Costs : CycleWait(c, "fetch")
  /\ UNCHANGED <<ie, halt, cpuShared, feAt, half, inputVars, screenVars,
                 vbuffer_lock, fe_reset_quit_lock>>

-----------------------------------------------------------------------------
(* The main thread, which is the CPU thread: it joins the front end, frees *)
(* everything and exits.                                                   *)
Join ==
  /\ cpuAt = "exited" /\ feAt = "exited"
  /\ cpuAt' = "terminated"
  /\ UNCHANGED <<resume, cpuRegs, count, cpuShared, feVars>>

CpuNext ==
  \/ (CycleWaitNext \/ FetchNext) /\ UNCHANGED feVars
  \/ HookLock \/ HookCopy \/ HookSignal \/ HookRun \/ CpuSignal
  \/ ReadKeys \/ WriteSound \/ FinishIo
  \/ Join

-----------------------------------------------------------------------------
(* The front end thread.                                                   *)

feKeepsCpu == <<cpuAt, resume, cpuRegs, count, reset_quit_lock>>
feKeepsShared == <<feKeepsCpu, int_lock, interrupt_buffer, reset_flag, quit_flag>>

\* The constructor of TaitoScreen.
FeStart ==
  /\ feAt = "start"
  /\ Lock(vbuffer_lock, FrontEnd)
  /\ feAt' = "draw"
  /\ UNCHANGED <<feKeepsShared, half, inputVars, screenVars,
                 keystate_lock, sound_lock, fe_reset_quit_lock>>

\* videoRamToTaitoBuffer(half)
FeDraw ==
  /\ feAt = "draw"
  /\ display' = Refresh(display, DrawnWith(half), vbuffer)
  /\ feAt' = IF half = "TOP" THEN "send" ELSE "keys"
  /\ UNCHANGED <<feKeepsShared, half, inputVars, frame, vbuffer, feLocks>>

\* handleInput
FeLockKeys ==
  /\ feAt = "keys"
  /\ Lock(keystate_lock, FrontEnd)
  /\ feAt' = "reset_quit"
  /\ UNCHANGED <<feKeepsShared, half, inputVars, screenVars,
                 vbuffer_lock, sound_lock, fe_reset_quit_lock>>

FeLockResetQuit ==
  /\ feAt = "reset_quit"
  /\ Lock(fe_reset_quit_lock, FrontEnd)
  /\ feAt' = "events"
  /\ UNCHANGED <<feKeepsShared, half, inputVars, screenVars,
                 vbuffer_lock, keystate_lock, sound_lock>>

\* Mutant of FeHandleEvent: Esc ends the front end and does not set the quit flag.
FeHandleEventLocally ==
  /\ feAt = "events"
  /\ \E k \in events :
       /\ events' = events \ {k}
       /\ \/ k = "esc" /\ quitting' = TRUE /\ UNCHANGED reset_flag
          \/ k = "r" /\ reset_flag' = 1 /\ UNCHANGED quitting
  /\ UNCHANGED <<feKeepsCpu, int_lock, interrupt_buffer, quit_flag, feAt, half, screenVars, feLocks>>

FeHandleEvent ==
  /\ feAt = "events"
  /\ \E k \in events :
       /\ events' = events \ {k}
       /\ \/ k = "esc" /\ quit_flag' = 1 /\ quitting' = TRUE /\ UNCHANGED reset_flag
          \/ k = "r" /\ reset_flag' = 1 /\ UNCHANGED <<quit_flag, quitting>>
  /\ UNCHANGED <<feKeepsCpu, int_lock, interrupt_buffer, feAt, half, screenVars, feLocks>>

\* Mutant of FeEndEvents: taito_start ignores what handleInput returns.
FeEndEventsGoingOn ==
  /\ feAt = "events" /\ events = {}
  /\ Unlock(fe_reset_quit_lock) /\ Unlock(keystate_lock)
  /\ feAt' = "sound"
  /\ UNCHANGED <<feKeepsShared, half, inputVars, screenVars, vbuffer_lock, sound_lock>>

\* SDL_PollEvent found nothing: unlock, and return 0 from taito_start on a quit.
FeEndEvents ==
  /\ feAt = "events" /\ events = {}
  /\ Unlock(fe_reset_quit_lock) /\ Unlock(keystate_lock)
  /\ feAt' = IF quitting THEN "exited" ELSE "sound"
  /\ UNCHANGED <<feKeepsShared, half, inputVars, screenVars, vbuffer_lock, sound_lock>>

FeLockSound ==
  /\ feAt = "sound"
  /\ Lock(sound_lock, FrontEnd)
  /\ feAt' = "play"
  /\ UNCHANGED <<feKeepsShared, half, inputVars, screenVars,
                 vbuffer_lock, keystate_lock, fe_reset_quit_lock>>

FePlaySound ==
  /\ feAt = "play"
  /\ Unlock(sound_lock)
  /\ feAt' = "send"
  /\ UNCHANGED <<feKeepsShared, half, inputVars, screenVars,
                 vbuffer_lock, keystate_lock, fe_reset_quit_lock>>

\* sendInterrupt: the mutex is taken on entry, and again as a wait for it returns.
FeLockInt ==
  /\ feAt \in {"send", "int_relock"}
  /\ Lock(int_lock, FrontEnd)
  /\ feAt' = IF feAt = "send" THEN "check" ELSE "post"
  /\ UNCHANGED <<feKeepsCpu, interrupt_buffer, reset_flag, quit_flag,
                 half, inputVars, screenVars, feLocks>>

FeWaitInt ==
  /\ feAt = "check" /\ interrupt_buffer # Empty
  /\ Unlock(int_lock)
  /\ feAt' = "int_wait"
  /\ UNCHANGED <<feKeepsCpu, interrupt_buffer, reset_flag, quit_flag,
                 half, inputVars, screenVars, feLocks>>

\* Mutant of FePost: the video mutex is released with the interrupt mutex, before the wait.
FePostUnlocking ==
  /\ feAt = "post" \/ (feAt = "check" /\ interrupt_buffer = Empty)
  /\ interrupt_buffer' = InterruptOf(half)
  /\ Unlock(int_lock) /\ Unlock(vbuffer_lock)
  /\ feAt' = "posted"
  /\ UNCHANGED <<feKeepsCpu, reset_flag, quit_flag, half, inputVars, screenVars,
                 keystate_lock, sound_lock, fe_reset_quit_lock>>

FePost ==
  /\ feAt = "post" \/ (feAt = "check" /\ interrupt_buffer = Empty)
  /\ interrupt_buffer' = InterruptOf(half)
  /\ Unlock(int_lock)
  /\ feAt' = "posted"
  /\ UNCHANGED <<feKeepsCpu, reset_flag, quit_flag, half, inputVars, screenVars, feLocks>>

\* Mutant of FeWaitVideo: the mutex is released and taken again without a wait.
FeYieldVideo ==
  /\ feAt = "posted"
  /\ Unlock(vbuffer_lock)
  /\ feAt' = "vid_relock"
  /\ UNCHANGED <<feKeepsShared, half, inputVars, screenVars,
                 keystate_lock, sound_lock, fe_reset_quit_lock>>

\* pthread_cond_wait(vidBufferCond, vidBufferLock) releases the mutex and waits,
FeWaitVideo ==
  /\ feAt = "posted"
  /\ Unlock(vbuffer_lock)
  /\ feAt' = "vid_wait"
  /\ UNCHANGED <<feKeepsShared, half, inputVars, screenVars,
                 keystate_lock, sound_lock, fe_reset_quit_lock>>

\* and takes it again once signalled.  After the bottom half, renderFrame.
FeLockVideo ==
  /\ feAt = "vid_relock"
  /\ Lock(vbuffer_lock, FrontEnd)
  /\ feAt' = IF half = "TOP" THEN "draw" ELSE "render"
  /\ half' = "BOTTOM"
  /\ UNCHANGED <<feKeepsShared, inputVars, screenVars,
                 keystate_lock, sound_lock, fe_reset_quit_lock>>

\* POSIX lets pthread_cond_wait return without a signal; neither wait is in a loop.
FeSpuriousWakeup ==
  /\ SpuriousWakeups
  /\ \/ feAt = "vid_wait" /\ feAt' = "vid_relock"
     \/ feAt = "int_wait" /\ feAt' = "int_relock"
  /\ UNCHANGED <<feKeepsShared, half, inputVars, screenVars, feLocks>>

FeRender ==
  /\ feAt = "render"
  /\ frame' = Following(frame)
  /\ half' = "TOP"
  /\ feAt' = "draw"
  /\ UNCHANGED <<feKeepsShared, inputVars, vbuffer, display, feLocks>>

FeNext ==
  \/ FeStart \/ FeDraw
  \/ FeLockKeys \/ FeLockResetQuit \/ FeHandleEvent \/ FeEndEvents
  \/ FeLockSound \/ FePlaySound
  \/ FeLockInt \/ FeWaitInt \/ FePost \/ FeWaitVideo \/ FeLockVideo
  \/ FeRender

-----------------------------------------------------------------------------
(* The player presses a key while the window is open.                      *)
Press ==
  /\ feAt # "exited"
  /\ \E k \in Keys \ events : events' = events \cup {k}
  /\ UNCHANGED <<cpuVars, feAt, half, quitting, screenVars, feLocks>>

Init ==
  /\ CpuInit
  /\ feAt = "start" /\ half = "TOP" /\ quitting = FALSE /\ events = {}
  /\ frame = 0
  /\ vbuffer = [b \in Bands |-> Preceding(0)] /\ display = [b \in Bands |-> Preceding(0)]
  /\ vbuffer_lock = Free /\ keystate_lock = Free /\ sound_lock = Free
  /\ fe_reset_quit_lock = Free

Finished == cpuAt = "terminated" /\ UNCHANGED vars

Next == CpuNext \/ FeNext \/ FeSpuriousWakeup \/ Press \/ Finished

(* Both threads run whenever they can.  The front end gets the mutexes the *)
(* CPU takes again and again: the CPU holds them for a few instructions    *)
(* and sleeps without them once per chunk (cpu.h:60-62).  The CPU needs no *)
(* such assumption, since the front end stops at sendInterrupt until it    *)
(* has run.  The player need not press any key.                            *)
Fairness ==
  /\ WF_vars(CpuNext) /\ WF_vars(FeNext)
  /\ SF_vars(FeLockInt) /\ SF_vars(FeLockKeys) /\ SF_vars(FeLockSound)

Spec == Init /\ [][Next]_vars
FairSpec == Spec /\ Fairness

-----------------------------------------------------------------------------
HookPlaces == {"hook", "hook_copy", "hook_signal", "hook_op"}
FePlaces ==
  {"start", "draw", "keys", "reset_quit", "events", "sound", "play", "send", "check",
   "int_wait", "int_relock", "post", "posted", "vid_wait", "vid_relock", "render", "exited"}

TypeOK ==
  /\ cpuAt \in CpuPlaces \cup HookPlaces \cup {"io_keys", "io_sound", "terminated"}
  /\ resume \in {"fetch", "int_done"}
  /\ pc \in Addresses /\ ie \in 0 .. 2 /\ halt \in 0 .. 1
  /\ count \in Nat
  /\ int_lock \in {Cpu, FrontEnd, Free} /\ reset_quit_lock \in {Cpu, Free}
  /\ interrupt_buffer \in {Empty} \cup VideoInterrupts
  /\ reset_flag \in 0 .. 1 /\ quit_flag \in 0 .. 1
  /\ feAt \in FePlaces /\ half \in Halves
  /\ quitting \in BOOLEAN /\ events \subseteq Keys
  /\ frame \in Frames /\ vbuffer \in [Bands -> Frames] /\ display \in [Bands -> Frames]
  /\ vbuffer_lock \in {Cpu, FrontEnd, Free} /\ keystate_lock \in {Cpu, FrontEnd, Free}
  /\ sound_lock \in {Cpu, FrontEnd, Free} /\ fe_reset_quit_lock \in {FrontEnd, Free}

(* Each mutex is held exactly in the code between its lock and its unlock; *)
(* in particular the video mutex is the front end's from its constructor   *)
(* on, except while it waits for the hook.                                 *)
FeHoldsVideo == feAt \notin {"start", "vid_wait", "vid_relock"}
LocksHeldExactly ==
  /\ int_lock = Cpu <=> HoldsIntLock(HookPlaces)
  /\ int_lock = FrontEnd <=> feAt \in {"check", "post"}
  /\ vbuffer_lock = Cpu <=> cpuAt = "hook_copy"
  /\ vbuffer_lock = FrontEnd <=> FeHoldsVideo
  /\ keystate_lock = Cpu <=> cpuAt = "io_keys"
  /\ keystate_lock = FrontEnd <=> feAt \in {"reset_quit", "events"}
  /\ sound_lock = Cpu <=> cpuAt = "io_sound"
  /\ sound_lock = FrontEnd <=> feAt = "play"
  /\ reset_quit_lock = Cpu <=> cpuAt \in PollPlaces \ {"poll"}
  /\ fe_reset_quit_lock = FrontEnd <=> feAt = "events"

\* A mutex, a condition or the other thread's end is waited for.
CpuWaits ==
  \/ cpuAt = "poll" /\ reset_quit_lock # Free
  \/ cpuAt = "fetch" /\ (ie = 1 \/ (ie = 2 /\ halt = 1)) /\ int_lock # Free
  \/ cpuAt = "hook" /\ interrupt_buffer \in VideoInterrupts /\ vbuffer_lock # Free
  \/ cpuAt = "exec" /\ ~(keystate_lock = Free /\ sound_lock = Free)
  \/ cpuAt = "exited" /\ feAt # "exited"
FeWaits ==
  \/ feAt \in {"start", "vid_relock"} /\ vbuffer_lock # Free
  \/ feAt = "keys" /\ keystate_lock # Free
  \/ feAt = "reset_quit" /\ fe_reset_quit_lock # Free
  \/ feAt = "sound" /\ sound_lock # Free
  \/ feAt \in {"send", "int_relock"} /\ int_lock # Free
  \/ feAt \in {"int_wait", "vid_wait", "exited"}

(* The two threads never wait at the same time, an IN or OUT counted as    *)
(* waiting if it might.  The hook takes the video mutex holding the        *)
(* interrupt mutex (interrupt_hook.c:28, 41), the front end takes the      *)
(* interrupt mutex holding the video mutex (taitoScreen.cpp:189), and each *)
(* may return with one of them held; no lock order protects them.          *)
SomeThreadRuns == ~(CpuWaits /\ FeWaits)

(* The hook's signal finds the front end waiting (interrupt_hook.c:33, 47, *)
(* taitoScreen.cpp:194): were the signal sent between the front end's      *)
(* unlock of the interrupt mutex and its wait, it would be lost, and the   *)
(* front end would wait for ever with the machine running on.              *)
VideoSignalNotLost == cpuAt = "hook_signal" => feAt = "vid_wait"

(* sendInterrupt never finds the last interrupt still in the buffer, so    *)
(* its wait for the buffer, which does not test it again afterwards, is    *)
(* never used (taitoScreen.cpp:190-191).                                   *)
BufferEmptyWhenSent == feAt \in {"check", "post"} => interrupt_buffer = Empty

(* A rendered frame is one picture: every band of it was copied from video *)
(* memory during the frame before, the row that is drawn with the top half *)
(* and copied with the bottom one included (taitoScreen.cpp:481-490,       *)
(* interrupt_hook.c:29-45).                                                *)
RenderedFrameIsWhole ==
  feAt = "render" => \A b \in Bands : display[b] = Preceding(frame)

(* A thread of a machine that has been quit needs no mutex the other has   *)
(* left locked: the CPU may return with the interrupt mutex held           *)
(* (cpu_thread.c:126-130) and the front end always returns with the video  *)
(* mutex held (taitoScreen.cpp:16, 194).                                   *)
NoLockNeededAfterQuit ==
  /\ cpuAt = "exited" /\ int_lock = Cpu => feAt \in {"events", "exited"}
  /\ feAt = "exited" => ~(cpuAt = "hook" /\ interrupt_buffer \in VideoInterrupts)

(* handleInput's comment (taitoScreen.cpp:525-526): with the reset/quit    *)
(* mutex taken, both threads do not use the two flags at the same time.    *)
FlagsUsedByOneThread ==
  ~(feAt = "events" /\ cpuAt \in {"poll_reset", "poll_clear", "poll_quit"})

-----------------------------------------------------------------------------
(* Why the properties above hold, when no wakeup is spurious: the          *)
(* inductive invariant.  The interrupt a front end has asked for and not   *)
(* yet been signalled for is in the buffer, and the CPU is not past the    *)
(* signal; in the rest of its loop there is nothing in the buffer but what *)
(* the CPU is done with, interrupt mutex held, and about to clear.         *)

\* The CPU holds the interrupt mutex and its hook has no signal left to send.
PastSignal ==
  \/ cpuAt \in {"hook_op", "int_done"}
  \/ cpuAt \in PollPlaces \cup {"exited", "terminated"} /\ resume = "int_done"

RequestPending ==
  feAt \in {"posted", "vid_wait"} => interrupt_buffer = InterruptOf(half) /\ ~PastSignal
NothingElsePending ==
  feAt \notin {"posted", "vid_wait"} => interrupt_buffer = Empty \/ PastSignal
CopyWhileWaiting ==
  cpuAt \in {"hook_copy", "hook_signal"} =>
    feAt = "vid_wait" /\ interrupt_buffer \in VideoInterrupts
NeverWaitsForBuffer == feAt \notin {"int_wait", "int_relock", "post"}
InputAtBottom ==
  /\ feAt \in {"keys", "reset_quit", "events", "sound", "play", "render", "exited"} =>
       half = "BOTTOM"
  /\ feAt = "start" => half = "TOP"
QuitByFrontEnd ==
  /\ quit_flag = 1 => quitting /\ feAt \in {"events", "exited"}
  /\ cpuAt \in {"exited", "terminated"} => quit_flag = 1

(* The front end and the CPU agree on whose turn it is (taitoScreen.cpp:   *)
(* 187-195, interrupt_hook.c:26-48, cpu_thread.c:119-133).                 *)
HandshakeInv ==
  /\ RequestPending
  /\ NothingElsePending
  /\ CopyWhileWaiting
  /\ NeverWaitsForBuffer
  /\ InputAtBottom
  /\ QuitByFrontEnd

(* An interrupt is never overwritten, and leaves the buffer only when the  *)
(* half it asks for has been copied and the front end told so: what cpu.h: *)
(* 47-59 asks of any library, the taito library achieves.                  *)
EveryInterruptServed ==
  [][interrupt_buffer # Empty /\ interrupt_buffer' # interrupt_buffer =>
       /\ interrupt_buffer' = Empty
       /\ feAt \notin {"posted", "vid_wait"}]_vars

-----------------------------------------------------------------------------
(* The abstract handshake, seen in the two threads' places.                *)
handshakePhase ==
  IF feAt \in {"start", "draw"} THEN "draw"
  ELSE IF feAt = "posted" \/ (feAt = "vid_wait" /\ cpuAt # "hook_signal") THEN "copy"
  ELSE IF feAt \in {"vid_wait", "vid_relock"} THEN "copied"
  ELSE IF feAt = "render" THEN "render"
  ELSE IF feAt = "exited" THEN "closed"
  ELSE "ask"

Handshake == INSTANCE VideoHandshake WITH phase <- handshakePhase

(* The threads implement the handshake: the buffer is copied once, whole,  *)
(* and only between the front end's request and its going on               *)
(* (taitoScreen.cpp:187-195, interrupt_hook.c:26-48).                      *)
ImplementsHandshake == Handshake!Spec

-----------------------------------------------------------------------------
(* The program lets interrupts in: it keeps coming back to a fetch with    *)
(* interrupts enabled, for as long as the CPU runs.                        *)
Interruptible ==
  []<>(cpuAt \in {"exited", "terminated"} \/ (cpuAt = "fetch" /\ ie = 1))

\* The player does not press keys so fast that handleInput's loop never ends.
PlayerPauses == []<>(feAt # "events")

(* With such a program the picture keeps being rendered until the game is  *)
(* quit (taito_start.cpp:14-31).                                           *)
FramesKeepComing ==
  Interruptible /\ PlayerPauses => []<>(feAt \in {"render", "exited"})

(* With such a program, Esc ends the process (README.md:84): the front end *)
(* returns, the CPU sees the quit flag and main joins both.                *)
EscQuits ==
  Interruptible /\ PlayerPauses => ("esc" \in events ~> cpuAt = "terminated")

(* A reset request the front end has made is honoured by any program, from *)
(* a halt or with interrupts disabled too, unless the game is quit         *)
(* (cycle_timer.c:52-58).                                                  *)
ResetIsHonoured ==
  PlayerPauses =>
    (reset_flag = 1 ~> (reset_flag = 0 /\ pc = 0 /\ halt = 0 /\ ie = 0)
                       \/ cpuAt = "terminated")
=============================================================================
