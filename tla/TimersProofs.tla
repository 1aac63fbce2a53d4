----------------------------- MODULE TimersProofs -----------------------------
(***************************************************************************)
(* The two timers keep time for every length of a second, of a cycle and   *)
(* of a line, however late the threads are.                                *)
(***************************************************************************)
EXTENDS Timers, TLAPS

-----------------------------------------------------------------------------
(* Arithmetic.                                                             *)

LEMMA ProductGrows ==
  ASSUME NEW a \in Nat, NEW b \in Nat, NEW k \in Nat, a <= b
  PROVE  a * k <= b * k
  OBVIOUS

LEMMA ProductPositive ==
  ASSUME NEW a \in Nat \ {0}, NEW k \in Nat \ {0}
  PROVE  a * k \in Nat \ {0}
  OBVIOUS

LEMMA Distribute ==
  ASSUME NEW a \in Int, NEW b \in Int, NEW k \in Int
  PROVE  (a + b) * k = a * k + b * k
  OBVIOUS

(* A time and its timespec are the same.                                   *)
LEMMA NsOfTimespec ==
  ASSUME NEW t \in Nat
  PROVE  /\ Timespec(t) \in [sec : Nat, nsec : 0 .. NsPerSec - 1]
         /\ Ns(Timespec(t)) = t
  BY TimersAssumption DEF Timespec, Ns

(* The carry of cycle_wait neither gains nor loses, and leaves at most a   *)
(* full second in tv_nsec, and that only where there was less before.      *)
LEMMA CycleCarry ==
  ASSUME NEW spec \in [sec : Nat, nsec : 0 .. NsPerSec],
         NEW n \in Nat, 0 < n, n < NsPerSec
  PROVE  LET t == CycleTarget(spec, n) IN
           /\ t \in [sec : Nat, nsec : 0 .. NsPerSec]
           /\ Ns(t) = Ns(spec) + n
           /\ t.nsec = NsPerSec => spec.nsec # NsPerSec
<1>1. NsPerSec \in Nat \ {0}
  BY TimersAssumption
<1>2. CASE spec.nsec + n > NsPerSec
  <2>1. CycleTarget(spec, n) = [sec |-> spec.sec + 1, nsec |-> spec.nsec + n - NsPerSec]
    BY <1>1, <1>2 DEF CycleTarget
  <2>2. (spec.sec + 1) * NsPerSec = spec.sec * NsPerSec + NsPerSec
    BY <1>1
  <2>. QED
    BY <2>1, <2>2, <1>1, <1>2 DEF Ns
<1>3. CASE ~(spec.nsec + n > NsPerSec)
  <2>1. CycleTarget(spec, n) = [spec EXCEPT !.nsec = spec.nsec + n]
    BY <1>3 DEF CycleTarget
  <2>2. spec.nsec + n \in 0 .. NsPerSec /\ spec.sec \in Nat
    BY <1>1, <1>3
  <2>3. /\ CycleTarget(spec, n).sec = spec.sec
        /\ CycleTarget(spec, n).nsec = spec.nsec + n
        /\ CycleTarget(spec, n) = [sec |-> spec.sec, nsec |-> spec.nsec + n]
    BY <2>1
  <2>. QED
    BY <2>2, <2>3, <1>1 DEF Ns
<1>. QED
  BY <1>2, <1>3

(* The carry of screen_timer leaves less than a second.                    *)
LEMMA ScreenCarry ==
  ASSUME NEW spec \in [sec : Nat, nsec : 0 .. NsPerSec - 1], NEW n \in Nat, n < NsPerSec
  PROVE  LET t == ScreenTarget(spec, n) IN
           /\ t \in [sec : Nat, nsec : 0 .. NsPerSec - 1]
           /\ Ns(t) = Ns(spec) + n
<1>1. NsPerSec \in Nat \ {0}
  BY TimersAssumption
<1>2. CASE spec.nsec + n >= NsPerSec
  <2>1. ScreenTarget(spec, n) = [sec |-> spec.sec + 1, nsec |-> spec.nsec + n - NsPerSec]
    BY <1>1, <1>2 DEF ScreenTarget
  <2>2. (spec.sec + 1) * NsPerSec = spec.sec * NsPerSec + NsPerSec
    BY <1>1
  <2>. QED
    BY <2>1, <2>2, <1>1, <1>2 DEF Ns
<1>3. CASE ~(spec.nsec + n >= NsPerSec)
  <2>1. ScreenTarget(spec, n) = [spec EXCEPT !.nsec = spec.nsec + n]
    BY <1>3 DEF ScreenTarget
  <2>2. spec.nsec + n \in 0 .. NsPerSec - 1 /\ spec.sec \in Nat
    BY <1>1, <1>3
  <2>3. /\ ScreenTarget(spec, n).sec = spec.sec
        /\ ScreenTarget(spec, n).nsec = spec.nsec + n
        /\ ScreenTarget(spec, n) = [sec |-> spec.sec, nsec |-> spec.nsec + n]
    BY <2>1
  <2>. QED
    BY <2>2, <2>3, <1>1 DEF Ns
<1>. QED
  BY <1>2, <1>3

(* What a chunk may count, and that its time is less than a second.        *)
LEMMA ChunkTime ==
  ASSUME NEW k \in 0 .. CycleChunk - 1, NEW c \in Costs
  PROVE  /\ MaxChunk \in Nat /\ k + c \in Nat \ {0}
         /\ MaxChunk * CycleTime \in Nat
         /\ (k + c) * CycleTime \in Nat
         /\ 0 < (k + c) * CycleTime
         /\ (k + c) * CycleTime <= MaxChunk * CycleTime
         /\ (k + c) * CycleTime < NsPerSec
<1>. DEFINE most == CHOOSE d \in Costs : \A e \in Costs : e <= d
<1>1. most \in Costs /\ c <= most
  BY TimersAssumption
<1>2. most \in Nat /\ c \in Nat \ {0} /\ CycleChunk \in Nat \ {0} /\ CycleTime \in Nat \ {0}
      /\ NsPerSec \in Nat
  BY <1>1, TimersAssumption
<1>3. MaxChunk = CycleChunk + most - 1
  BY DEF MaxChunk
<1>. HIDE DEF most
<1>4. MaxChunk \in Nat /\ k + c \in Nat \ {0} /\ k + c <= MaxChunk
  BY <1>1, <1>2, <1>3
<1>5. (k + c) * CycleTime <= MaxChunk * CycleTime
  BY <1>2, <1>4, ProductGrows
<1>6. (k + c) * CycleTime \in Nat \ {0}
  BY <1>2, <1>4, ProductPositive
<1>7. MaxChunk * CycleTime \in Nat
  BY <1>2, <1>4
<1>8. (k + c) * CycleTime < NsPerSec
  BY <1>2, <1>5, <1>6, <1>7, IntervalsAssumption
<1>. QED
  BY <1>4, <1>5, <1>6, <1>7, <1>8

LEMMA IntervalTime ==
  ASSUME is_bottom \in BOOLEAN
  PROVE  Interval \in Nat \ {0} /\ Interval < NsPerSec
<1>1. /\ TopLines \in Nat \ {0} /\ BottomLines \in Nat \ {0} /\ NsPerLine \in Nat \ {0}
      /\ TopLines * NsPerLine < NsPerSec /\ BottomLines * NsPerLine < NsPerSec
  BY TimersAssumption, IntervalsAssumption
<1>2. TopLines * NsPerLine \in Nat \ {0} /\ BottomLines * NsPerLine \in Nat \ {0}
  BY <1>1, ProductPositive
<1>3. Interval \in {TopLines * NsPerLine, BottomLines * NsPerLine}
  BY DEF Interval
<1>. QED
  BY <1>1, <1>2, <1>3

-----------------------------------------------------------------------------
(* The inductive invariant.                                                *)

(* The clock has run for a while when the program starts, so a target that *)
(* has been set is never mistaken for the one that has not.                *)
TargetsSet ==
  /\ now > 0
  /\ cpuTarget = Unset => cycles = 0 /\ cpuAt = "run"
  /\ cpuTarget # Unset => cpuStart > 0 /\ cpuStart <= now
  /\ feTarget = Unset <=> sent = 0
  /\ feAt = "sleep" => sent > 0
  /\ sent > 0 => feStart > 0

IInv == TypeOK /\ TargetsSet /\ CyclesKeepTime

LEMMA NsOfUnset == Ns(Unset) = 0
  BY TimersAssumption DEF Ns, Unset

LEMMA BaseTime ==
  ASSUME IInv
  PROVE  /\ CpuBase \in [sec : Nat, nsec : 0 .. NsPerSec]
         /\ Ns(CpuBase) \in Nat
         /\ Ns(CpuBase) > 0
         /\ cpuTarget = Unset => Ns(CpuBase) = now /\ CpuBase.nsec # NsPerSec
         /\ cpuTarget # Unset => Ns(CpuBase) = cpuStart + cycles * CycleTime
<1>1. NsPerSec \in Nat \ {0} /\ CycleTime \in Nat \ {0} /\ now \in Nat /\ now > 0
      /\ cycles \in Nat /\ cpuStart \in Nat
      /\ cpuTarget \in [sec : Nat, nsec : 0 .. NsPerSec]
  BY TimersAssumption DEF IInv, TypeOK, TargetsSet
<1>2. CASE cpuTarget = Unset
  <2>1. CpuBase = Timespec(now)
    BY <1>2 DEF CpuBase
  <2>2. CpuBase \in [sec : Nat, nsec : 0 .. NsPerSec - 1] /\ Ns(CpuBase) = now
    BY <1>1, <2>1, NsOfTimespec
  <2>. QED
    BY <1>1, <1>2, <2>2
<1>3. CASE cpuTarget # Unset
  <2>1. CpuBase = cpuTarget
    BY <1>3 DEF CpuBase
  <2>2. Ns(CpuBase) = cpuStart + cycles * CycleTime /\ cpuStart > 0
    BY <1>3, <2>1 DEF IInv, CyclesKeepTime, TargetsSet
  <2>3. cycles * CycleTime \in Nat
    BY <1>1
  <2>. QED
    BY <1>1, <1>3, <2>1, <2>2, <2>3
<1>. QED
  BY <1>2, <1>3

LEMMA CycleWaitKeeps == IInv /\ CycleWait => IInv'
<1>. SUFFICES ASSUME IInv, CycleWait
              PROVE  IInv'
  OBVIOUS
<1>. DEFINE spec == CpuBase
<1>1. /\ spec \in [sec : Nat, nsec : 0 .. NsPerSec]
      /\ Ns(spec) \in Nat /\ Ns(spec) > 0
      /\ cpuTarget = Unset => Ns(spec) = now
      /\ cpuTarget # Unset => Ns(spec) = cpuStart + cycles * CycleTime
  BY BaseTime
<1>2. /\ now \in Nat /\ now > 0 /\ cycles \in Nat /\ cpuStart \in Nat /\ CycleTime \in Nat \ {0}
      /\ count \in 0 .. CycleChunk - 1 /\ CycleChunk \in Nat \ {0}
      /\ cpuTarget = Unset => cycles = 0
      /\ cpuTarget # Unset => cpuStart > 0 /\ cpuStart <= now
  BY TimersAssumption DEF IInv, TypeOK, TargetsSet
<1>3. Ns(spec) = cpuStart' + cycles * CycleTime /\ cpuStart' \in Nat \ {0} /\ cpuStart' <= now
  BY <1>1, <1>2 DEF CycleWait
<1>4. /\ now' = now /\ signals' = signals /\ feVars' = feVars
      /\ cpuEintr' \in BOOLEAN /\ cpuAt = "run"
  BY DEF CycleWait
<1>. HIDE DEF spec
<1>. SUFFICES /\ count' \in 0 .. CycleChunk - 1
              /\ cycles' \in Nat /\ cpuAt' \in {"run", "sleep"}
              /\ cpuTarget' \in [sec : Nat, nsec : 0 .. NsPerSec]
              /\ cpuTarget' # Unset
              /\ Ns(cpuTarget') = cpuStart' + cycles' * CycleTime
  BY <1>2, <1>3, <1>4 DEF IInv, TypeOK, TargetsSet, CyclesKeepTime, Ns, feVars
<1>5. PICK c \in Costs :
        \/ /\ count + c < CycleChunk
           /\ count' = count + c
           /\ cpuTarget' = spec
           /\ UNCHANGED <<cpuAt, cycles>>
        \/ /\ count + c >= CycleChunk
           /\ count' = 0
           /\ cycles' = cycles + count + c
           /\ cpuTarget' = CycleTarget(spec, (count + c) * CycleTime)
           /\ cpuAt' = "sleep"
  BY DEF CycleWait, spec
<1>6. c \in Nat \ {0}
  BY TimersAssumption
<1>7. CASE count + c < CycleChunk
  BY <1>1, <1>2, <1>3, <1>4, <1>5, <1>6, <1>7, NsOfUnset
<1>8. CASE count + c >= CycleChunk
  <2>. DEFINE n == (count + c) * CycleTime
              target == CycleTarget(spec, n)
  <2>1. n \in Nat /\ 0 < n /\ n < NsPerSec
    BY <1>2, ChunkTime
  <2>2. cycles' = cycles + (count + c) /\ cycles' \in Nat
    BY <1>2, <1>5, <1>6, <1>8
  <2>3. cycles' * CycleTime = cycles * CycleTime + n
    BY <1>2, <1>6, <2>2, Distribute
  <2>4. cpuTarget' = target /\ count' = 0 /\ cpuAt' = "sleep"
    BY <1>2, <1>5, <1>6, <1>8
  <2>. HIDE DEF n
  <2>5. target \in [sec : Nat, nsec : 0 .. NsPerSec] /\ Ns(target) = Ns(spec) + n
    BY <1>1, <2>1, CycleCarry
  <2>. HIDE DEF target
  <2>6. Ns(target) > 0
    BY <1>1, <2>1, <2>5
  <2>7. Ns(target) = cpuStart' + cycles' * CycleTime
    <3>. DEFINE before == cycles * CycleTime
                after == cycles' * CycleTime
    <3>1. before \in Nat
      BY <1>2
    <3>2. Ns(spec) = cpuStart' + before /\ after = before + n
      BY <1>3, <2>3
    <3>. HIDE DEF before, after
    <3>3. Ns(target) = cpuStart' + after
      BY <1>3, <2>1, <2>5, <3>1, <3>2
    <3>. QED
      BY <3>3 DEF after
  <2>. QED
    BY <1>2, <2>2, <2>4, <2>5, <2>6, <2>7, NsOfUnset
<1>. QED
  BY <1>2, <1>6, <1>7, <1>8

LEMMA CpuReturns == IInv /\ (CpuWakes \/ CpuInterrupted) => IInv'
<1>. SUFFICES ASSUME IInv, CpuWakes \/ CpuInterrupted
              PROVE  IInv'
  OBVIOUS
<1>1. /\ UNCHANGED <<now, count, cpuTarget, cpuEintr, cpuStart, cycles, feVars>>
      /\ cpuAt' = "run" /\ (signals' = signals \/ (signals' = signals + 1 /\ signals < MaxSignals))
  BY DEF CpuWakes, CpuInterrupted
<1>. QED
  BY <1>1, TimersAssumption DEF IInv, TypeOK, TargetsSet, CyclesKeepTime, Ns, feVars

LEMMA FrontEndKeeps == IInv /\ FeNext => IInv'
<1>. SUFFICES ASSUME IInv, FeNext
              PROVE  IInv'
  OBVIOUS
<1>. USE DEF IInv, TypeOK, TargetsSet, CyclesKeepTime
<1>1. CASE ScreenTimerFirst
  <2>1. Timespec(now) \in [sec : Nat, nsec : 0 .. NsPerSec - 1] /\ Ns(Timespec(now)) = now
    BY NsOfTimespec
  <2>2. feTarget' = Timespec(now) /\ feTarget' # Unset
    BY <1>1, <2>1, NsOfUnset DEF ScreenTimerFirst
  <2>. QED
    BY <1>1, <2>1, <2>2 DEF ScreenTimerFirst, cpuVars, Ns
<1>2. CASE ScreenTimer
  <2>1. Interval \in Nat /\ 0 < Interval /\ Interval < NsPerSec
    BY IntervalTime
  <2>2. /\ ScreenTarget(feTarget, Interval) \in [sec : Nat, nsec : 0 .. NsPerSec - 1]
        /\ Ns(ScreenTarget(feTarget, Interval)) = Ns(feTarget) + Interval
    BY <2>1, ScreenCarry
  <2>3. Ns(feTarget) \in Nat
    BY TimersAssumption DEF Ns
  <2>4. ScreenTarget(feTarget, Interval) # Unset
    BY <2>1, <2>2, <2>3, NsOfUnset
  <2>. QED
    BY <1>2, <2>2, <2>4 DEF ScreenTimer, cpuVars, Ns
<1>3. CASE FeWakes \/ FeInterrupted
  <2>1. /\ UNCHANGED <<now, cpuVars, feTarget, feEintr, feStart>>
        /\ feAt' = "run" /\ is_bottom' = ~is_bottom /\ sent' = sent + 1
        /\ signals' = signals \/ (signals' = signals + 1 /\ signals < MaxSignals)
    BY <1>3 DEF FeWakes, FeInterrupted, FeReturns
  <2>2. /\ UNCHANGED <<now, feTarget, feEintr, feStart>>
        /\ UNCHANGED <<cpuAt, count, cpuTarget, cpuEintr, cpuStart, cycles>>
    BY <2>1 DEF cpuVars
  <2>3. signals' \in 0 .. MaxSignals /\ sent' \in Nat
    BY <2>1, TimersAssumption
  <2>4. is_bottom' \in BOOLEAN
    BY <2>1
  <2>5. TypeOK'
    BY <2>1, <2>2, <2>3, <2>4
  <2>6. sent > 0
    BY <1>3 DEF FeWakes, FeInterrupted
  <2>7. TargetsSet'
    BY <2>1, <2>2, <2>6
  <2>8. CyclesKeepTime'
    BY <2>2 DEF Ns
  <2>. QED
    BY <2>5, <2>7, <2>8 DEF IInv
<1>. QED
  BY <1>1, <1>2, <1>3 DEF FeNext

(* Time passes, or nothing does.                                           *)
LEMMA ClockKeeps == IInv /\ (Tick \/ UNCHANGED vars) => IInv'
<1>. SUFFICES ASSUME IInv, Tick \/ UNCHANGED vars
              PROVE  IInv'
  OBVIOUS
<1>1. /\ UNCHANGED <<signals, cpuAt, count, cpuTarget, cpuEintr, cpuStart, cycles>>
      /\ UNCHANGED <<feAt, feTarget, feEintr, is_bottom, feStart, sent>>
      /\ now' = now \/ now' = now + 1
  BY DEF Tick, vars, cpuVars, feVars
<1>2. now' \in Nat /\ now <= now'
  BY <1>1 DEF IInv, TypeOK
<1>3. TypeOK'
  BY <1>1, <1>2 DEF IInv, TypeOK
<1>4. TargetsSet'
  BY <1>1, <1>2 DEF IInv, TypeOK, TargetsSet, Ns
<1>5. CyclesKeepTime'
  BY <1>1 DEF IInv, CyclesKeepTime, Ns
<1>. QED
  BY <1>3, <1>4, <1>5 DEF IInv

LEMMA Inductive ==
  /\ Init => IInv
  /\ IInv /\ [Next]_vars => IInv'
<1>1. Init => IInv
  <2>. SUFFICES ASSUME Init PROVE IInv
    OBVIOUS
  <2>1. now \in Nat \ {0} /\ Unset \in [sec : Nat, nsec : 0 .. NsPerSec - 1]
    BY TimersAssumption DEF Init, Unset
  <2>2. [sec : Nat, nsec : 0 .. NsPerSec - 1] \subseteq [sec : Nat, nsec : 0 .. NsPerSec]
    BY TimersAssumption
  <2>3. 0 \in 0 .. MaxSignals /\ 0 \in 0 .. CycleChunk - 1
    BY TimersAssumption
  <2>4. TypeOK
    BY <2>1, <2>2, <2>3 DEF Init, TypeOK
  <2>5. TargetsSet /\ CyclesKeepTime
    BY <2>1 DEF Init, TargetsSet, CyclesKeepTime
  <2>. QED
    BY <2>4, <2>5 DEF IInv
<1>2. IInv /\ [Next]_vars => IInv'
  BY CycleWaitKeeps, CpuReturns, FrontEndKeeps, ClockKeeps DEF Next, CpuNext, AtHorizon
<1>. QED
  BY <1>1, <1>2

-----------------------------------------------------------------------------
(* The nanoseconds of a target never exceed a second, by however much it   *)
(* has been moved on, and those of the front end never reach one.          *)
THEOREM TypeCorrect == Spec => []TypeOK
<1>1. IInv => TypeOK
  BY DEF IInv
<1>. QED
  BY <1>1, Inductive, PTL DEF Spec

(* cycle_wait's target never drifts from the cycles that have been run.    *)
THEOREM NoDrift == Spec => []CyclesKeepTime
<1>1. IInv => CyclesKeepTime
  BY DEF IInv
<1>. QED
  BY <1>1, Inductive, PTL DEF Spec

-----------------------------------------------------------------------------
(* How far ahead of the clock the CPU runs.  A tv_nsec of a full second is *)
(* refused, so the next chunk is run without waiting; the one after that   *)
(* is not, because its tv_nsec is in range again.                          *)
Chunk == MaxChunk * CycleTime
Full == cpuTarget.nsec = NsPerSec

ChunksAhead ==
  cpuTarget # Unset =>
    /\ cpuAt = "run" /\ ~Full => Ns(cpuTarget) <= now + (2 * signals) * Chunk
    /\ Full => Ns(cpuTarget) <= now + (2 * signals + 1) * Chunk
    /\ ~Full => Ns(cpuTarget) <= now + (2 * signals + 2) * Chunk

LEMMA Multiples ==
  ASSUME NEW s \in Nat
  PROVE  /\ Chunk \in Nat
         /\ (2 * s) * Chunk \in Nat
         /\ (2 * s + 1) * Chunk = (2 * s) * Chunk + Chunk
         /\ (2 * s + 2) * Chunk = (2 * s) * Chunk + Chunk + Chunk
         /\ (2 * (s + 1)) * Chunk = (2 * s) * Chunk + Chunk + Chunk
<1>1. Chunk \in Nat
  <2>1. PICK c \in Costs : TRUE
    BY TimersAssumption
  <2>2. 0 \in 0 .. CycleChunk - 1
    BY TimersAssumption
  <2>. QED
    BY <2>1, <2>2, ChunkTime DEF Chunk
<1>2. (2 * s) * Chunk \in Nat
  BY <1>1
<1>3. (2 * s + 1) * Chunk = (2 * s) * Chunk + Chunk
  BY <1>1, Distribute
<1>4. (2 * s + 2) * Chunk = (2 * s) * Chunk + Chunk + Chunk
  BY <1>1, Distribute
<1>5. 2 * (s + 1) = 2 * s + 2
  OBVIOUS
<1>. QED
  BY <1>1, <1>2, <1>3, <1>4, <1>5

LEMMA CycleWaitAhead == IInv /\ ChunksAhead /\ CycleWait => ChunksAhead'
<1>. SUFFICES ASSUME IInv, ChunksAhead, CycleWait
              PROVE  ChunksAhead'
  OBVIOUS
<1>. DEFINE spec == CpuBase
            none == (2 * signals) * Chunk
<1>1. /\ spec \in [sec : Nat, nsec : 0 .. NsPerSec] /\ Ns(spec) \in Nat
      /\ cpuTarget = Unset => Ns(spec) = now /\ spec.nsec # NsPerSec
  BY BaseTime
<1>2. /\ now \in Nat /\ signals \in Nat /\ now' = now /\ signals' = signals /\ cpuAt = "run"
      /\ count \in 0 .. CycleChunk - 1 /\ CycleChunk \in Nat /\ cycles \in Nat
  BY TimersAssumption DEF IInv, TypeOK, CycleWait
<1>3. /\ Chunk \in Nat /\ none \in Nat
      /\ (2 * signals + 1) * Chunk = none + Chunk
      /\ (2 * signals + 2) * Chunk = none + Chunk + Chunk
  BY <1>2, Multiples
<1>4. /\ spec.nsec # NsPerSec => Ns(spec) <= now + none
      /\ Ns(spec) <= now + none + Chunk
  <2>1. CASE cpuTarget = Unset
    BY <1>1, <1>2, <1>3, <2>1
  <2>2. CASE cpuTarget # Unset
    <3>1. spec = cpuTarget
      BY <2>2 DEF CpuBase
    <3>. HIDE DEF none
    <3>2. /\ spec.nsec # NsPerSec => Ns(spec) <= now + none
          /\ spec.nsec = NsPerSec => Ns(spec) <= now + (2 * signals + 1) * Chunk
      BY <1>2, <2>2, <3>1 DEF ChunksAhead, Full, none
    <3>. QED
      BY <1>1, <1>2, <1>3, <3>2
  <2>. QED
    BY <2>1, <2>2
<1>. HIDE DEF spec, none
<1>5. SUFFICES /\ cpuAt' = "run" /\ cpuTarget'.nsec # NsPerSec => Ns(cpuTarget') <= now + none
               /\ cpuTarget'.nsec = NsPerSec => Ns(cpuTarget') <= now + none + Chunk
               /\ cpuTarget'.nsec # NsPerSec => Ns(cpuTarget') <= now + none + Chunk + Chunk
  BY <1>2, <1>3 DEF ChunksAhead, Full, none, Ns
<1>6. PICK c \in Costs :
        \/ /\ count + c < CycleChunk
           /\ cpuTarget' = spec
           /\ UNCHANGED cpuAt
        \/ /\ count + c >= CycleChunk
           /\ cpuTarget' = CycleTarget(spec, (count + c) * CycleTime)
           /\ cpuAt' = "sleep"
  BY DEF CycleWait, spec
<1>7. CASE cpuTarget' = spec
  BY <1>1, <1>2, <1>3, <1>4, <1>7
<1>8. CASE /\ cpuTarget' = CycleTarget(spec, (count + c) * CycleTime)
           /\ cpuAt' = "sleep"
  <2>. DEFINE n == (count + c) * CycleTime
              target == CycleTarget(spec, n)
  <2>1. n \in Nat /\ 0 < n /\ n < NsPerSec /\ n <= Chunk
    BY <1>2, ChunkTime DEF Chunk
  <2>. HIDE DEF n
  <2>2. Ns(target) = Ns(spec) + n /\ (target.nsec = NsPerSec => spec.nsec # NsPerSec)
    BY <1>1, <2>1, CycleCarry
  <2>3. cpuTarget' = target
    BY <1>8 DEF n
  <2>. HIDE DEF target
  <2>4. Ns(target) <= now + none + Chunk + Chunk
    BY <1>1, <1>2, <1>3, <1>4, <2>1, <2>2
  <2>5. target.nsec = NsPerSec => Ns(target) <= now + none + Chunk
    BY <1>1, <1>2, <1>3, <1>4, <2>1, <2>2
  <2>. QED
    BY <1>8, <2>3, <2>4, <2>5
<1>. QED
  BY <1>6, <1>7, <1>8

LEMMA CpuReturnsAhead == IInv /\ ChunksAhead /\ (CpuWakes \/ CpuInterrupted) => ChunksAhead'
<1>. SUFFICES ASSUME IInv, ChunksAhead, CpuWakes \/ CpuInterrupted
              PROVE  ChunksAhead'
  OBVIOUS
<1>1. /\ now \in Nat /\ signals \in Nat
      /\ cpuTarget \in [sec : Nat, nsec : 0 .. NsPerSec] /\ NsPerSec \in Nat \ {0}
  BY TimersAssumption DEF IInv, TypeOK
<1>2. UNCHANGED <<now, cpuTarget>> /\ cpuAt = "sleep" /\ cpuAt' = "run"
  BY DEF CpuWakes, CpuInterrupted
<1>3. Ns(cpuTarget) \in Nat
  BY <1>1 DEF Ns
<1>. DEFINE none == (2 * signals) * Chunk
<1>4. /\ Chunk \in Nat /\ none \in Nat
      /\ (2 * signals + 1) * Chunk = none + Chunk
      /\ (2 * signals + 2) * Chunk = none + Chunk + Chunk
      /\ (2 * (signals + 1)) * Chunk = none + Chunk + Chunk
      /\ (2 * (signals + 1) + 1) * Chunk = none + Chunk + Chunk + Chunk
      /\ (2 * (signals + 1) + 2) * Chunk = none + Chunk + Chunk + Chunk + Chunk
  BY <1>1, Multiples
<1>5. CASE cpuTarget = Unset
  BY <1>2, <1>5 DEF ChunksAhead
<1>6. CASE cpuTarget # Unset
  <2>1. /\ Full => Ns(cpuTarget) <= now + (2 * signals + 1) * Chunk
        /\ ~Full => Ns(cpuTarget) <= now + (2 * signals + 2) * Chunk
    BY <1>6 DEF ChunksAhead
  <2>2. CASE CpuWakes
    <3>1. signals' = signals
      BY <2>2 DEF CpuWakes
    <3>2. ~Full => Ns(cpuTarget) <= now
      BY <1>1, <2>2 DEF CpuWakes, Over, Elapsed, Refused, Full
    <3>3. ~Full => Ns(cpuTarget) <= now + (2 * signals) * Chunk
      BY <1>1, <1>3, <1>4, <3>2
    <3>. QED
      BY <1>2, <2>1, <3>1, <3>3 DEF ChunksAhead, Full, Ns
  <2>3. CASE CpuInterrupted
    <3>1. signals' = signals + 1
      BY <2>3 DEF CpuInterrupted
    <3>2. ~Full
      BY <1>1, <2>3 DEF CpuInterrupted, Asleep, Refused, Full
    <3>. HIDE DEF none
    <3>3. Ns(cpuTarget) <= now + (none + Chunk + Chunk)
      BY <1>1, <1>3, <1>4, <2>1, <3>2
    <3>4. Ns(cpuTarget) <= now + (none + Chunk + Chunk + Chunk + Chunk)
      BY <1>1, <1>3, <1>4, <3>3
    <3>5. /\ Ns(cpuTarget) <= now + (2 * (signals + 1)) * Chunk
          /\ Ns(cpuTarget) <= now + (2 * (signals + 1) + 2) * Chunk
      BY <1>4, <3>3, <3>4
    <3>. QED
      BY <1>2, <3>1, <3>2, <3>5 DEF ChunksAhead, Full, Ns
  <2>. QED
    BY <2>2, <2>3
<1>. QED
  BY <1>5, <1>6

(* A signal to the front end allows more, and so does time that passes.    *)
LEMMA OthersAhead ==
  IInv /\ ChunksAhead /\ (FeNext \/ Tick \/ UNCHANGED vars) => ChunksAhead'
<1>. SUFFICES ASSUME IInv, ChunksAhead, FeNext \/ Tick \/ UNCHANGED vars
              PROVE  ChunksAhead'
  OBVIOUS
<1>1. /\ UNCHANGED <<cpuAt, cpuTarget>>
      /\ now' = now \/ now' = now + 1
      /\ signals' = signals \/ signals' = signals + 1
  BY DEF FeNext, ScreenTimerFirst, ScreenTimer, FeWakes, FeInterrupted, FeReturns, Tick,
         vars, cpuVars, feVars
<1>2. /\ now \in Nat /\ signals \in Nat /\ Ns(cpuTarget) \in Nat
  BY TimersAssumption DEF IInv, TypeOK, Ns
<1>. DEFINE none == (2 * signals) * Chunk
            none1 == (2 * signals') * Chunk
<1>3. signals' \in Nat
  BY <1>1, <1>2
<1>4. /\ Chunk \in Nat /\ none \in Nat /\ none1 \in Nat
      /\ (2 * signals + 1) * Chunk = none + Chunk
      /\ (2 * signals + 2) * Chunk = none + Chunk + Chunk
      /\ (2 * signals' + 1) * Chunk = none1 + Chunk
      /\ (2 * signals' + 2) * Chunk = none1 + Chunk + Chunk
  BY <1>2, <1>3, Multiples
<1>5. none <= none1
  <2>1. (2 * (signals + 1)) * Chunk = none + Chunk + Chunk
    BY <1>2, Multiples
  <2>2. none1 = none \/ none1 = none + Chunk + Chunk
    BY <1>1, <2>1
  <2>. HIDE DEF none, none1
  <2>. QED
    BY <1>4, <2>2
<1>6. now' \in Nat /\ now <= now' /\ Ns(cpuTarget)' = Ns(cpuTarget) /\ Full' = Full
  BY <1>1, <1>2 DEF Ns, Full
<1>. SUFFICES ASSUME cpuTarget # Unset
              PROVE  /\ cpuAt = "run" /\ ~Full => Ns(cpuTarget) <= now' + none1
                     /\ Full => Ns(cpuTarget) <= now' + none1 + Chunk
                     /\ ~Full => Ns(cpuTarget) <= now' + none1 + Chunk + Chunk
  <2>. HIDE DEF none
  <2>. QED
    BY <1>1, <1>3, <1>4, <1>6 DEF ChunksAhead
<1>7. /\ cpuAt = "run" /\ ~Full => Ns(cpuTarget) <= now + none
      /\ Full => Ns(cpuTarget) <= now + none + Chunk
      /\ ~Full => Ns(cpuTarget) <= now + none + Chunk + Chunk
  BY <1>2, <1>4 DEF ChunksAhead
<1>. HIDE DEF none, none1
<1>. QED
  BY <1>2, <1>4, <1>5, <1>6, <1>7

(* The bound of the runs, for every length of chunk: one chunk more than   *)
(* twice the signals.                                                      *)
THEOREM NeverFarAhead == Spec => []CpuWaitsForClock
<1>1. Init => ChunksAhead
  BY DEF Init, ChunksAhead
<1>2. IInv /\ ChunksAhead /\ [Next]_vars => ChunksAhead'
  BY CycleWaitAhead, CpuReturnsAhead, OthersAhead DEF Next, CpuNext, AtHorizon
<1>3. IInv /\ ChunksAhead => CpuWaitsForClock
  <2>. SUFFICES ASSUME IInv, ChunksAhead, cpuAt = "run", cpuTarget # Unset
                PROVE  cycles * CycleTime
                         <= (now - cpuStart) + (2 * signals + 1) * MaxChunk * CycleTime
    BY DEF CpuWaitsForClock
  <2>1. /\ now \in Nat /\ signals \in Nat /\ cycles \in Nat /\ cpuStart \in Nat
        /\ CycleTime \in Nat /\ CycleChunk \in Nat \ {0}
    BY TimersAssumption DEF IInv, TypeOK
  <2>2. (2 * signals + 1) * MaxChunk * CycleTime = (2 * signals + 1) * Chunk
    <3>1. PICK c \in Costs : TRUE
      BY TimersAssumption
    <3>2. 0 \in 0 .. CycleChunk - 1
      BY <2>1
    <3>3. MaxChunk \in Nat
      BY <3>1, <3>2, ChunkTime
    <3>. QED
      BY <2>1, <3>3 DEF Chunk
  <2>. DEFINE none == (2 * signals) * Chunk
              run == cycles * CycleTime
  <2>3. /\ Chunk \in Nat /\ none \in Nat /\ run \in Nat
        /\ (2 * signals + 1) * Chunk = none + Chunk
    BY <2>1, Multiples
  <2>4. Ns(cpuTarget) = cpuStart + run
    BY DEF IInv, CyclesKeepTime
  <2>5. Ns(cpuTarget) <= now + none \/ Ns(cpuTarget) <= now + none + Chunk
    BY <2>1, <2>3 DEF ChunksAhead
  <2>. HIDE DEF none, run
  <2>6. run <= (now - cpuStart) + (none + Chunk)
    BY <2>1, <2>3, <2>4, <2>5
  <2>. QED
    BY <2>2, <2>3, <2>6 DEF run
<1>. QED
  BY <1>1, <1>2, <1>3, Inductive, PTL DEF Spec

-----------------------------------------------------------------------------
(* When the interrupts come: the flag goes by the parity of their number.  *)
Lines(n) == IF n % 2 = 1 THEN BottomLines * NsPerLine ELSE TopLines * NsPerLine

OnSchedule ==
  /\ is_bottom <=> sent % 2 = 1
  /\ InterruptsOnSchedule

LEMMA DueNext ==
  ASSUME NEW n \in Nat \ {0}, feStart \in Nat
  PROVE  Due(n) \in Nat /\ Due(n + 1) = Due(n) + Lines(n)
<1>. DEFINE bottom == BottomLines * NsPerLine
            frame(k) == k * (TopLines + BottomLines) * NsPerLine
            half == (n - 1) \div 2
<1>1. /\ TopLines \in Nat /\ BottomLines \in Nat /\ NsPerLine \in Nat
      /\ TopLines * NsPerLine \in Nat /\ bottom \in Nat
  BY TimersAssumption
<1>2. half \in Nat /\ frame(half) \in Nat
  BY <1>1
<1>3. frame(half + 1) = frame(half) + TopLines * NsPerLine + bottom
  <2>. DEFINE both == TopLines + BottomLines
  <2>1. both \in Nat /\ both * NsPerLine = TopLines * NsPerLine + bottom
    BY <1>1, Distribute
  <2>. HIDE DEF both
  <2>2. half * both \in Nat /\ (half + 1) * both = half * both + both
    BY <1>2, <2>1
  <2>3. ((half + 1) * both) * NsPerLine = (half * both) * NsPerLine + both * NsPerLine
    BY <1>1, <2>1, <2>2, Distribute
  <2>. QED
    BY <1>1, <1>2, <2>1, <2>3 DEF both
<1>4. 0 * bottom = 0 /\ 1 * bottom = bottom
  BY <1>1
<1>5. /\ Due(n) = feStart + frame(half) + ((n - 1) % 2) * BottomLines * NsPerLine
      /\ Due(n + 1) = feStart + frame((n + 1 - 1) \div 2)
                      + ((n + 1 - 1) % 2) * BottomLines * NsPerLine
  BY DEF Due
<1>6. /\ 0 * BottomLines * NsPerLine = 0
      /\ 1 * BottomLines * NsPerLine = bottom
  BY <1>1
<1>7. CASE n % 2 = 1
  <2>1. (n - 1) % 2 = 0 /\ (n + 1 - 1) \div 2 = half /\ (n + 1 - 1) % 2 = 1
    BY <1>7
  <2>2. Due(n) = feStart + frame(half) + 0 /\ Due(n + 1) = feStart + frame(half) + bottom
    BY <1>5, <1>6, <2>1
  <2>3. Lines(n) = bottom
    BY <1>7 DEF Lines
  <2>. HIDE DEF frame, bottom, half
  <2>. QED
    BY <1>1, <1>2, <2>2, <2>3
<1>8. CASE n % 2 # 1
  <2>1. (n - 1) % 2 = 1 /\ (n + 1 - 1) \div 2 = half + 1 /\ (n + 1 - 1) % 2 = 0
    BY <1>8
  <2>2. /\ Due(n) = feStart + frame(half) + bottom
        /\ Due(n + 1) = feStart + frame(half + 1) + 0
    BY <1>5, <1>6, <2>1
  <2>3. Lines(n) = TopLines * NsPerLine
    BY <1>8 DEF Lines
  <2>. DEFINE top == TopLines * NsPerLine
  <2>. HIDE DEF frame, bottom, half, top
  <2>4. top \in Nat /\ frame(half + 1) = frame(half) + top + bottom /\ Lines(n) = top
    BY <1>1, <1>3, <2>3 DEF top
  <2>. QED
    BY <1>1, <1>2, <2>2, <2>4
<1>. QED
  BY <1>7, <1>8

LEMMA FrontEndOnSchedule == IInv /\ OnSchedule /\ FeNext => OnSchedule'
<1>. SUFFICES ASSUME IInv, OnSchedule, FeNext
              PROVE  OnSchedule'
  OBVIOUS
<1>1. /\ now \in Nat /\ signals \in Nat /\ sent \in Nat /\ feStart \in Nat
      /\ is_bottom \in BOOLEAN /\ feTarget \in [sec : Nat, nsec : 0 .. NsPerSec - 1]
      /\ feAt \in {"run", "sleep"} /\ NsPerSec \in Nat \ {0}
      /\ (feTarget = Unset <=> sent = 0) /\ (feAt = "sleep" => sent > 0)
  BY TimersAssumption DEF IInv, TypeOK, TargetsSet
<1>2. CASE ScreenTimerFirst
  <2>1. /\ sent' = 1 /\ is_bottom' = TRUE /\ feStart' = now /\ now' = now
        /\ feTarget' = Timespec(now) /\ feAt' = "run"
    BY <1>2 DEF ScreenTimerFirst
  <2>2. Ns(feTarget') = now
    BY <1>1, <2>1, NsOfTimespec
  <2>3. Due(1)' = now
    <3>1. (1 - 1) \div 2 = 0 /\ (1 - 1) % 2 = 0
      OBVIOUS
    <3>2. Due(1)' = now + 0 * (TopLines + BottomLines) * NsPerLine
                        + 0 * BottomLines * NsPerLine
      BY <2>1, <3>1 DEF Due
    <3>3. 0 * (TopLines + BottomLines) * NsPerLine = 0 /\ 0 * BottomLines * NsPerLine = 0
      BY TimersAssumption
    <3>. QED
      BY <1>1, <3>2, <3>3
  <2>4. is_bottom' <=> sent' % 2 = 1
    BY <2>1
  <2>. QED
    BY <1>1, <2>1, <2>2, <2>3, <2>4 DEF OnSchedule, InterruptsOnSchedule, Ns
<1>3. CASE ScreenTimer
  <2>1. /\ UNCHANGED <<now, signals, is_bottom, feStart, sent>> /\ feAt = "run"
        /\ feTarget' = ScreenTarget(feTarget, Interval) /\ feAt' = "sleep" /\ sent > 0
    BY <1>1, <1>3 DEF ScreenTimer
  <2>2. Interval \in Nat /\ Interval < NsPerSec
    BY <1>1, IntervalTime
  <2>3. Ns(feTarget') = Ns(feTarget) + Interval
    BY <1>1, <2>1, <2>2, ScreenCarry
  <2>4. Interval = Lines(sent)
    BY <1>1 DEF Interval, Lines, OnSchedule
  <2>5. Ns(feTarget) = Due(sent)
    BY <2>1 DEF OnSchedule, InterruptsOnSchedule
  <2>6. Due(sent + 1) = Due(sent) + Lines(sent)
    BY <1>1, <2>1, DueNext
  <2>7. Ns(feTarget') = Due(sent + 1)
    BY <2>3, <2>4, <2>5, <2>6
  <2>8. Ns(feTarget)' = Ns(feTarget') /\ Due(sent + 1)' = Due(sent + 1)
    BY <2>1 DEF Ns, Due
  <2>9. is_bottom' <=> sent' % 2 = 1
    BY <2>1 DEF OnSchedule
  <2>. QED
    BY <2>1, <2>7, <2>8, <2>9 DEF OnSchedule, InterruptsOnSchedule
<1>4. CASE FeWakes \/ FeInterrupted
  <2>1. /\ UNCHANGED <<now, feTarget, feStart>> /\ feAt = "sleep" /\ feAt' = "run"
        /\ is_bottom' = ~is_bottom /\ sent' = sent + 1 /\ sent > 0
    BY <1>1, <1>4 DEF FeWakes, FeInterrupted, FeReturns
  <2>2. Ns(feTarget) = Due(sent + 1)
    BY <2>1 DEF OnSchedule, InterruptsOnSchedule
  <2>3. signals' = 0 => now >= Ns(feTarget)
    <3>1. CASE FeWakes
      BY <1>1, <3>1 DEF FeWakes, Over, Elapsed, Refused
    <3>2. CASE FeInterrupted
      BY <1>1, <3>2 DEF FeInterrupted
    <3>. QED
      BY <1>4, <3>1, <3>2
  <2>4. Ns(feTarget)' = Ns(feTarget) /\ Due(sent)' = Due(sent + 1)
    BY <2>1 DEF Ns, Due
  <2>5. is_bottom' <=> sent' % 2 = 1
    <3>1. sent' % 2 = 1 <=> ~(sent % 2 = 1)
      BY <1>1, <2>1
    <3>. QED
      BY <2>1, <3>1 DEF OnSchedule
  <2>6. feAt' # "sleep"
    BY <2>1
  <2>. QED
    BY <2>1, <2>2, <2>3, <2>4, <2>5, <2>6 DEF OnSchedule, InterruptsOnSchedule
<1>. QED
  BY <1>2, <1>3, <1>4 DEF FeNext

LEMMA OthersOnSchedule ==
  IInv /\ OnSchedule /\ (CpuNext \/ Tick \/ UNCHANGED vars) => OnSchedule'
<1>. SUFFICES ASSUME IInv, OnSchedule, CpuNext \/ Tick \/ UNCHANGED vars
              PROVE  OnSchedule'
  OBVIOUS
<1>1. /\ UNCHANGED <<feAt, feTarget, is_bottom, feStart, sent>>
      /\ now' = now \/ now' = now + 1
      /\ signals' = signals \/ signals' = signals + 1
  BY DEF CpuNext, CycleWait, CpuWakes, CpuInterrupted, Tick, vars, feVars
<1>2. now \in Nat /\ signals \in Nat /\ sent \in Nat /\ feStart \in Nat
  BY DEF IInv, TypeOK
<1>3. (is_bottom' <=> sent' % 2 = 1) /\ Ns(feTarget)' = Ns(feTarget)
  BY <1>1 DEF OnSchedule, Ns
<1>4. sent > 0 => Due(sent) \in Nat
  BY <1>2, DueNext
<1>5. Due(sent)' = Due(sent) /\ Due(sent + 1)' = Due(sent + 1)
  BY <1>1 DEF Due
<1>6. signals' = 0 => signals = 0
  BY <1>1, <1>2
<1>7. InterruptsOnSchedule
  BY DEF OnSchedule
<1>8. InterruptsOnSchedule'
  <2>. SUFFICES ASSUME sent' > 0
                PROVE  /\ Ns(feTarget)' = Due(IF feAt = "sleep" THEN sent + 1 ELSE sent)'
                       /\ signals' = 0 /\ feAt' = "run" => now' >= Due(sent)'
    BY DEF InterruptsOnSchedule
  <2>1. sent > 0
    BY <1>1
  <2>2. CASE feAt = "sleep"
    BY <1>1, <1>3, <1>5, <1>7, <2>1, <2>2 DEF InterruptsOnSchedule
  <2>3. CASE feAt # "sleep"
    <3>1. Ns(feTarget) = Due(sent)
      BY <1>7, <2>1, <2>3 DEF InterruptsOnSchedule
    <3>2. signals = 0 /\ feAt = "run" => now >= Due(sent)
      BY <1>7, <2>1 DEF InterruptsOnSchedule
    <3>3. signals' = 0 /\ feAt' = "run" => now' >= Due(sent)
      BY <1>1, <1>2, <1>4, <1>6, <2>1, <3>2
    <3>. QED
      BY <1>1, <1>3, <1>5, <2>3, <3>1, <3>3
  <2>. QED
    BY <2>2, <2>3
<1>. QED
  BY <1>3, <1>8 DEF OnSchedule

(* Every interrupt has its time, counted from the first one, and none is   *)
(* sent before it unless a signal has cut a sleep short.                   *)
THEOREM FramesNeverDrift == Spec => []InterruptsOnSchedule
<1>1. Init => OnSchedule
  BY DEF Init, OnSchedule, InterruptsOnSchedule
<1>2. IInv /\ OnSchedule /\ [Next]_vars => OnSchedule'
  BY FrontEndOnSchedule, OthersOnSchedule DEF Next, AtHorizon
<1>3. OnSchedule => InterruptsOnSchedule
  BY DEF OnSchedule
<1>. QED
  BY <1>1, <1>2, <1>3, Inductive, PTL DEF Spec
=============================================================================
