------------------------------- MODULE Timers -------------------------------
(***************************************************************************)
(* The two clocks of the emulator: cycle_wait, which holds the CPU thread  *)
(* to two million cycles a second, and screen_timer, which tells the front *)
(* end when the beam has passed line 96 and line 224.  Both keep a target  *)
(* time of their own, move it on by a fixed amount and sleep until then    *)
(* with clock_nanosleep.                                                   *)
(*                                                                         *)
(* Time is counted in nanoseconds of the monotonic clock.  A tick comes    *)
(* whenever it likes, so a thread may be late by any amount.               *)
(***************************************************************************)
EXTENDS Integers

CONSTANTS
  NsPerSec,      \* 1000000000
  CycleTime,     \* CYCLE_TIME, 500 ns unless overridden
  CycleChunk,    \* CYCLE_CHUNK, 512 cycles unless overridden
  Costs,         \* the cycles cycle_wait is called with: an opcode's, or 10 or
                 \* CYCLE_CHUNK for a halted CPU
  NsPerLine,     \* NS_PER_LINE
  TopLines,      \* TOP_LINES, the lines before RST 1
  BottomLines,   \* BOTTOM_LINES, the lines before RST 2
  Horizon,       \* bound: no target is set past this time
  MaxSignals     \* bound: the signals that interrupt a sleep

MaxChunk == CycleChunk + (CHOOSE c \in Costs : \A d \in Costs : d <= c) - 1

ASSUME TimersAssumption ==
  /\ NsPerSec \in Nat \ {0} /\ CycleTime \in Nat \ {0} /\ CycleChunk \in Nat \ {0}
  /\ Costs \subseteq Nat \ {0} /\ \E c \in Costs : \A d \in Costs : d <= c
  /\ NsPerLine \in Nat \ {0} /\ TopLines \in Nat \ {0} /\ BottomLines \in Nat \ {0}
  /\ Horizon \in Nat /\ MaxSignals \in Nat

(* A chunk and an interval are shorter than a second, as one carry needs.  *)
ASSUME IntervalsAssumption ==
  /\ MaxChunk * CycleTime < NsPerSec
  /\ TopLines * NsPerLine < NsPerSec /\ BottomLines * NsPerLine < NsPerSec

VARIABLES
  now,         \* CLOCK_MONOTONIC
  signals,     \* history: the signals that have interrupted a sleep
  cpuAt,       \* "run" or "sleep", in cycle_wait
  count,       \* cycle_wait's static count
  cpuTarget,   \* its static target
  cpuEintr,    \* errno is EINTR in the CPU thread
  cpuStart,    \* history: the first value of cpuTarget
  cycles,      \* history: the cycles of the chunks counted so far
  feAt,        \* "run" or "sleep", in screen_timer
  feTarget,    \* its static target
  feEintr,     \* errno is EINTR in the front end
  is_bottom,   \* its static flag
  feStart,     \* history: the first value of feTarget
  sent         \* history: the interrupts sent so far

cpuVars == <<cpuAt, count, cpuTarget, cpuEintr, cpuStart, cycles>>
feVars == <<feAt, feTarget, feEintr, is_bottom, feStart, sent>>
vars == <<now, signals, cpuVars, feVars>>

-----------------------------------------------------------------------------
\* struct timespec
Unset == [sec |-> 0, nsec |-> 0]
Timespec(t) == [sec |-> t \div NsPerSec, nsec |-> t % NsPerSec]
Ns(spec) == spec.sec * NsPerSec + spec.nsec

\* Mutants of CycleTarget: the second is not counted, or there is no carry.
CycleTargetStuck(spec, n) ==
  LET nsec == spec.nsec + n IN
    [spec EXCEPT !.nsec = IF nsec > NsPerSec THEN nsec - NsPerSec ELSE nsec]

CycleTargetUncarried(spec, n) == [spec EXCEPT !.nsec = @ + n]

(* target.tv_nsec += n, with the carry of cycle_wait: a full second is     *)
(* left in tv_nsec.                                                        *)
CycleTarget(spec, n) ==
  LET nsec == spec.nsec + n IN
    IF nsec > NsPerSec
    THEN [sec |-> spec.sec + 1, nsec |-> nsec - NsPerSec]
    ELSE [spec EXCEPT !.nsec = nsec]

\* Mutant of ScreenTarget: the carry of cycle_wait.
ScreenTargetLate(spec, n) ==
  LET nsec == spec.nsec + n IN
    IF nsec > NsPerSec
    THEN [sec |-> spec.sec + 1, nsec |-> nsec - NsPerSec]
    ELSE [spec EXCEPT !.nsec = nsec]

\* The carry of screen_timer.
ScreenTarget(spec, n) ==
  LET nsec == spec.nsec + n IN
    IF nsec >= NsPerSec
    THEN [sec |-> spec.sec + 1, nsec |-> nsec - NsPerSec]
    ELSE [spec EXCEPT !.nsec = nsec]

(* clock_nanosleep to an absolute time: EINVAL at once for a tv_nsec out   *)
(* of range, 0 when the time has come, EINTR when a signal is handled      *)
(* before.                                                                 *)
Refused(spec) == spec.nsec \notin 0 .. NsPerSec - 1
Elapsed(spec) == ~Refused(spec) /\ now >= Ns(spec)
Asleep(spec) == ~Refused(spec) /\ now < Ns(spec)

\* Mutant of Over: the loop goes on for any error.
OverOnlyElapsed(spec, eintr) == Elapsed(spec)

(* The loop around it may end.  clock_nanosleep returns the error and      *)
(* leaves errno alone, so the loops, which look for EINTR in errno, go by  *)
(* what an earlier call left there: with EINTR in it they make a refused   *)
(* call again, and again.                                                  *)
Over(spec, eintr) == Elapsed(spec) \/ (Refused(spec) /\ ~eintr)

-----------------------------------------------------------------------------
(* cycle_wait, on the CPU thread.                                          *)

\* The first target is the time of the first call.
CpuBase == IF cpuTarget = Unset THEN Timespec(now) ELSE cpuTarget

(* An opcode has run, and may have set errno.  A chunk of cycles sends the *)
(* thread to sleep, after the poll of the flags that CpuThread has.        *)
CycleWait ==
  /\ cpuAt = "run"
  /\ Ns(CpuBase) + MaxChunk * CycleTime <= Horizon
  /\ cpuEintr' \in BOOLEAN
  /\ cpuStart' = IF cpuTarget = Unset THEN now ELSE cpuStart
  /\ \E c \in Costs :
       \/ /\ count + c < CycleChunk
          /\ count' = count + c
          /\ cpuTarget' = CpuBase
          /\ UNCHANGED <<cpuAt, cycles>>
       \/ /\ count + c >= CycleChunk
          /\ count' = 0
          /\ cycles' = cycles + count + c
          /\ cpuTarget' = CycleTarget(CpuBase, (count + c) * CycleTime)
          /\ cpuAt' = "sleep"
  /\ UNCHANGED <<now, signals, feVars>>

CpuWakes ==
  /\ cpuAt = "sleep" /\ Over(cpuTarget, cpuEintr)
  /\ cpuAt' = "run"
  /\ UNCHANGED <<now, signals, count, cpuTarget, cpuEintr, cpuStart, cycles, feVars>>

(* A signal ends the loop too, unless errno is EINTR: then the sleep goes  *)
(* on.  curses, which the basic library uses, handles SIGWINCH.            *)
CpuInterrupted ==
  /\ cpuAt = "sleep" /\ Asleep(cpuTarget) /\ ~cpuEintr
  /\ signals < MaxSignals
  /\ signals' = signals + 1
  /\ cpuAt' = "run"
  /\ UNCHANGED <<now, count, cpuTarget, cpuEintr, cpuStart, cycles, feVars>>

-----------------------------------------------------------------------------
(* screen_timer, on the front end's thread.                                *)

Interval == (IF is_bottom THEN BottomLines ELSE TopLines) * NsPerLine

\* The first call sets the baseline and does not sleep.
ScreenTimerFirst ==
  /\ feAt = "run" /\ feTarget = Unset
  /\ feTarget' = Timespec(now)
  /\ feStart' = now
  /\ is_bottom' = TRUE
  /\ sent' = 1
  /\ UNCHANGED <<now, signals, cpuVars, feAt, feEintr>>

\* Mutant of ScreenTimer: the next interval starts at the clock, not at the target.
ScreenTimerRelative ==
  /\ feAt = "run" /\ feTarget # Unset
  /\ Ns(feTarget) + Interval <= Horizon
  /\ feTarget' = ScreenTarget(Timespec(now), Interval)
  /\ feEintr' \in BOOLEAN
  /\ feAt' = "sleep"
  /\ UNCHANGED <<now, signals, cpuVars, is_bottom, feStart, sent>>

ScreenTimer ==
  /\ feAt = "run" /\ feTarget # Unset
  /\ Ns(feTarget) + Interval <= Horizon
  /\ feTarget' = ScreenTarget(feTarget, Interval)
  /\ feEintr' \in BOOLEAN
  /\ feAt' = "sleep"
  /\ UNCHANGED <<now, signals, cpuVars, is_bottom, feStart, sent>>

\* The sleep is over and the interrupt is sent.
FeReturns ==
  /\ feAt' = "run"
  /\ is_bottom' = ~is_bottom
  /\ sent' = sent + 1
  /\ UNCHANGED <<now, cpuVars, feTarget, feEintr, feStart>>

FeWakes ==
  /\ feAt = "sleep" /\ Over(feTarget, feEintr)
  /\ FeReturns /\ UNCHANGED signals

FeInterrupted ==
  /\ feAt = "sleep" /\ Asleep(feTarget) /\ ~feEintr
  /\ signals < MaxSignals
  /\ signals' = signals + 1
  /\ FeReturns

-----------------------------------------------------------------------------
Tick ==
  /\ now < Horizon
  /\ now' = now + 1
  /\ UNCHANGED <<signals, cpuVars, feVars>>

Init ==
  /\ now \in 1 .. NsPerSec
  /\ signals = 0
  /\ cpuAt = "run" /\ count = 0 /\ cpuTarget = Unset /\ cpuEintr \in BOOLEAN
  /\ cpuStart = 0 /\ cycles = 0
  /\ feAt = "run" /\ feTarget = Unset /\ feEintr \in BOOLEAN
  /\ is_bottom = FALSE /\ feStart = 0 /\ sent = 0

CpuNext == CycleWait \/ CpuWakes \/ CpuInterrupted
FeNext == ScreenTimerFirst \/ ScreenTimer \/ FeWakes \/ FeInterrupted

\* The bound is reached.
AtHorizon == now = Horizon /\ UNCHANGED vars

Next == CpuNext \/ FeNext \/ Tick \/ AtHorizon

(* The clock goes on, and a thread whose sleep is over runs.               *)
Fairness == WF_vars(Tick) /\ WF_vars(CpuWakes) /\ WF_vars(FeWakes)

Spec == Init /\ [][Next]_vars /\ Fairness

-----------------------------------------------------------------------------
TypeOK ==
  /\ now \in Nat /\ signals \in 0 .. MaxSignals
  /\ cpuAt \in {"run", "sleep"} /\ feAt \in {"run", "sleep"}
  /\ count \in 0 .. CycleChunk - 1
  /\ cpuTarget \in [sec : Nat, nsec : 0 .. NsPerSec]
  /\ feTarget \in [sec : Nat, nsec : 0 .. NsPerSec - 1]
  /\ cpuEintr \in BOOLEAN /\ feEintr \in BOOLEAN /\ is_bottom \in BOOLEAN
  /\ cpuStart \in Nat /\ cycles \in Nat /\ feStart \in Nat /\ sent \in Nat

(* The target of cycle_wait is the time of its first call plus what all    *)
(* the chunks since should have taken: rounding, lateness, signals and     *)
(* refused sleeps leave no drift (cycle_timer.c:66-75).                    *)
CyclesKeepTime == cpuTarget # Unset => Ns(cpuTarget) = cpuStart + cycles * CycleTime

(* The CPU is never ahead of the clock by more than the chunk it has just  *)
(* run and those whose sleeps were cut short: a signal cuts one short, and *)
(* a full second left in tv_nsec (cycle_timer.c:70) another, but never two *)
(* in a row.                                                               *)
CpuWaitsForClock ==
  cpuAt = "run" /\ cpuTarget # Unset =>
    cycles * CycleTime <= (now - cpuStart) + (2 * signals + 1) * MaxChunk * CycleTime

(* Interrupt number n, RST 1 for odd n and RST 2 for even n, is due        *)
(* TopLines after the one before, or BottomLines after it, counted from    *)
(* the first for ever: one frame is always TopLines + BottomLines long     *)
(* (screen_timer.c:15-27, 45-57).                                          *)
Due(n) ==
  feStart + ((n - 1) \div 2) * (TopLines + BottomLines) * NsPerLine
          + ((n - 1) % 2) * BottomLines * NsPerLine
InterruptsOnSchedule ==
  sent > 0 =>
    /\ Ns(feTarget) = Due(IF feAt = "sleep" THEN sent + 1 ELSE sent)
    /\ signals = 0 /\ feAt = "run" => now >= Due(sent)

(* A CPU thread that goes to sleep comes back, refused or not, unless an   *)
(* earlier call left EINTR in errno.                                       *)
CpuSleepEnds == cpuAt = "sleep" /\ ~cpuEintr ~> cpuAt = "run"

(* The front end always comes back: its tv_nsec is never out of range.     *)
FrontEndSleepEnds == feAt = "sleep" ~> feAt = "run"
=============================================================================
