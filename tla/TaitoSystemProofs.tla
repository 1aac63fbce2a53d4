-------------------------- MODULE TaitoSystemProofs --------------------------
(***************************************************************************)
(* What TLAPS proves of TaitoSystem: its types and lock discipline, that   *)
(* the two threads never block each other or lose a signal, and that they  *)
(* implement VideoHandshake.                                               *)
(***************************************************************************)
EXTENDS TaitoSystem, TLAPS

Abstract == INSTANCE VideoHandshakeProofs WITH phase <- handshakePhase

(* The lemmas about frames and bands, for this module's copy of Screen.    *)
LEMMA FrameArithmetic ==
  ASSUME NEW f \in Frames
  PROVE  /\ Following(f) \in Frames /\ Preceding(f) \in Frames
         /\ Preceding(Following(f)) = f
         /\ Preceding(f) # f
  BY Abstract!FrameArithmetic DEF Frames, Following, Preceding, Abstract!Frames,
       Abstract!Following, Abstract!Preceding

LEMMA RefreshedBands ==
  ASSUME NEW to \in [Bands -> Frames], NEW from \in [Bands -> Frames],
         NEW bands \in SUBSET Bands
  PROVE  /\ Refresh(to, bands, from) \in [Bands -> Frames]
         /\ \A b \in Bands : Refresh(to, bands, from)[b] = IF b \in bands THEN from[b] ELSE to[b]
  BY DEF Refresh

(* What is used of the assumptions on the constants.                       *)
LEMMA ConstantFacts ==
  /\ {0, 8, 16} \subseteq Addresses
  /\ CycleChunk \in Nat
  /\ \A c \in Costs : c \in Nat
  BY CpuAssumption

(* Every step keeps every variable in its type.                            *)
LEMMA TypesPreserved == TypeOK /\ [Next]_vars => TypeOK'
<1> SUFFICES ASSUME TypeOK, [Next]_vars
             PROVE  TypeOK'
  OBVIOUS
<1> USE DEF TypeOK, CpuPlaces, PollPlaces, HookPlaces, FePlaces, VideoInterrupts, Halves,
        Empty, Cpu, Free, FrontEnd, Keys, Lock, Unlock, cpuRegs, cpuShared,
        feVars, inputVars, screenVars, feLocks, feKeepsCpu, feKeepsShared
<1>1. CASE PollLock /\ UNCHANGED feVars
  BY <1>1 DEF PollLock
<1>2. CASE PollReset /\ UNCHANGED feVars
  BY <1>2 DEF PollReset
<1>3. CASE PollClear /\ UNCHANGED feVars
  BY <1>3, ConstantFacts DEF PollClear
<1>4. CASE PollQuit /\ UNCHANGED feVars
  BY <1>4 DEF PollQuit
<1>5. CASE FetchDisabled /\ UNCHANGED feVars
  BY <1>5 DEF FetchDisabled
<1>6. CASE FetchHalted /\ UNCHANGED feVars
  BY <1>6, ConstantFacts DEF FetchHalted, CycleWait
<1>7. CASE FetchEnabled /\ UNCHANGED feVars
  BY <1>7 DEF FetchEnabled
<1>8. CASE NoInterrupt /\ UNCHANGED feVars
  BY <1>8 DEF NoInterrupt
<1>9. CASE DiscardInterrupt /\ UNCHANGED feVars
  BY <1>9 DEF DiscardInterrupt
<1>10. CASE BeginInterrupt /\ UNCHANGED feVars
  BY <1>10 DEF BeginInterrupt
<1>11. CASE FinishInterrupt /\ UNCHANGED feVars
  BY <1>11 DEF FinishInterrupt
<1>12. CASE ExecuteInstruction /\ UNCHANGED feVars
  BY <1>12, ConstantFacts DEF ExecuteInstruction, CycleWait, EnableAfter, HaltAfter, Vector
<1>13. CASE HookLock
  BY <1>13 DEF HookLock
<1>14. CASE HookCopy
  BY <1>14, RefreshedBands DEF HookCopy, CopiedWith, Bands
<1>15. CASE HookSignal
  BY <1>15 DEF HookSignal
<1>16. CASE HookRun
  BY <1>16, ConstantFacts DEF HookRun, RunInterruptOpcode, CycleWait, EnableAfter, HaltAfter, Vector
<1>17. CASE CpuSignal
  BY <1>17 DEF CpuSignal, SignalInterrupt
<1>18. CASE ReadKeys
  BY <1>18 DEF ReadKeys
<1>19. CASE WriteSound
  BY <1>19 DEF WriteSound
<1>20. CASE FinishIo
  BY <1>20, ConstantFacts DEF FinishIo, CycleWait
<1>21. CASE Join
  BY <1>21 DEF Join
<1>22. CASE FeStart
  BY <1>22 DEF FeStart
<1>23. CASE FeDraw
  BY <1>23, RefreshedBands DEF FeDraw, DrawnWith, Bands
<1>24. CASE FeLockKeys
  BY <1>24 DEF FeLockKeys
<1>25. CASE FeLockResetQuit
  BY <1>25 DEF FeLockResetQuit
<1>26. CASE FeHandleEvent
  <2>1. events' \subseteq Keys
    BY <1>26 DEF FeHandleEvent
  <2>2. quitting' \in BOOLEAN
    BY <1>26 DEF FeHandleEvent
  <2>3. reset_flag' \in 0 .. 1 /\ quit_flag' \in 0 .. 1
    BY <1>26 DEF FeHandleEvent
  <2>. QED
    BY <1>26, <2>1, <2>2, <2>3 DEF FeHandleEvent
<1>27. CASE FeEndEvents
  BY <1>27 DEF FeEndEvents
<1>28. CASE FeLockSound
  BY <1>28 DEF FeLockSound
<1>29. CASE FePlaySound
  BY <1>29 DEF FePlaySound
<1>30. CASE FeLockInt
  BY <1>30 DEF FeLockInt
<1>31. CASE FeWaitInt
  BY <1>31 DEF FeWaitInt
<1>32. CASE FePost
  BY <1>32 DEF FePost, InterruptOf
<1>33. CASE FeWaitVideo
  BY <1>33 DEF FeWaitVideo
<1>34. CASE FeLockVideo
  BY <1>34 DEF FeLockVideo
<1>35. CASE FeRender
  BY <1>35, FrameArithmetic DEF FeRender
<1>36. CASE FeSpuriousWakeup
  BY <1>36 DEF FeSpuriousWakeup
<1>37. CASE Press
  <2>1. events' \subseteq Keys
    BY <1>37 DEF Press
  <2>. QED
    BY <1>37, <2>1 DEF Press, cpuVars
<1>38. CASE UNCHANGED vars
  BY <1>38 DEF vars, cpuVars
<1>. QED
  BY <1>1, <1>2, <1>3, <1>4, <1>5, <1>6, <1>7, <1>8, <1>9, <1>10, <1>11, <1>12, <1>13, <1>14, <1>15, <1>16, <1>17, <1>18, <1>19, <1>20, <1>21, <1>22, <1>23, <1>24, <1>25, <1>26, <1>27, <1>28, <1>29, <1>30, <1>31, <1>32, <1>33, <1>34, <1>35, <1>36, <1>37, <1>38
     DEF Next, CpuNext, FeNext, CycleWaitNext, FetchNext, Finished

(* Every step keeps each mutex held exactly between its lock and unlock.   *)
LEMMA LocksPreserved == TypeOK /\ LocksHeldExactly /\ [Next]_vars => LocksHeldExactly'
<1> SUFFICES ASSUME TypeOK, LocksHeldExactly, [Next]_vars
             PROVE  LocksHeldExactly'
  OBVIOUS
<1> USE DEF TypeOK, LocksHeldExactly, HoldsIntLock, FeHoldsVideo, PollPlaces, HookPlaces,
        Cpu, Free, FrontEnd, Lock, Unlock, cpuRegs, cpuShared,
        feVars, inputVars, screenVars, feLocks, feKeepsCpu, feKeepsShared
<1>1. CASE PollLock /\ UNCHANGED feVars
  BY <1>1 DEF PollLock
<1>2. CASE PollReset /\ UNCHANGED feVars
  BY <1>2 DEF PollReset
<1>3. CASE PollClear /\ UNCHANGED feVars
  BY <1>3 DEF PollClear
<1>4. CASE PollQuit /\ UNCHANGED feVars
  BY <1>4 DEF PollQuit
<1>5. CASE FetchDisabled /\ UNCHANGED feVars
  BY <1>5 DEF FetchDisabled
<1>6. CASE FetchHalted /\ UNCHANGED feVars
  BY <1>6 DEF FetchHalted, CycleWait
<1>7. CASE FetchEnabled /\ UNCHANGED feVars
  BY <1>7 DEF FetchEnabled
<1>8. CASE NoInterrupt /\ UNCHANGED feVars
  BY <1>8 DEF NoInterrupt
<1>9. CASE DiscardInterrupt /\ UNCHANGED feVars
  BY <1>9 DEF DiscardInterrupt
<1>10. CASE BeginInterrupt /\ UNCHANGED feVars
  BY <1>10 DEF BeginInterrupt
<1>11. CASE FinishInterrupt /\ UNCHANGED feVars
  BY <1>11 DEF FinishInterrupt
<1>12. CASE ExecuteInstruction /\ UNCHANGED feVars
  BY <1>12 DEF ExecuteInstruction, CycleWait
<1>13. CASE HookLock
  BY <1>13 DEF HookLock
<1>14. CASE HookCopy
  BY <1>14 DEF HookCopy
<1>15. CASE HookSignal
  BY <1>15 DEF HookSignal
<1>16. CASE HookRun
  BY <1>16 DEF HookRun, RunInterruptOpcode, CycleWait
<1>17. CASE CpuSignal
  BY <1>17 DEF CpuSignal, SignalInterrupt
<1>18. CASE ReadKeys
  BY <1>18 DEF ReadKeys
<1>19. CASE WriteSound
  BY <1>19 DEF WriteSound
<1>20. CASE FinishIo
  BY <1>20 DEF FinishIo, CycleWait
<1>21. CASE Join
  BY <1>21 DEF Join
<1>22. CASE FeStart
  BY <1>22 DEF FeStart
<1>23. CASE FeDraw
  BY <1>23 DEF FeDraw
<1>24. CASE FeLockKeys
  BY <1>24 DEF FeLockKeys
<1>25. CASE FeLockResetQuit
  BY <1>25 DEF FeLockResetQuit
<1>26. CASE FeHandleEvent
  BY <1>26 DEF FeHandleEvent
<1>27. CASE FeEndEvents
  BY <1>27 DEF FeEndEvents
<1>28. CASE FeLockSound
  BY <1>28 DEF FeLockSound
<1>29. CASE FePlaySound
  BY <1>29 DEF FePlaySound
<1>30. CASE FeLockInt
  BY <1>30 DEF FeLockInt
<1>31. CASE FeWaitInt
  BY <1>31 DEF FeWaitInt
<1>32. CASE FePost
  BY <1>32 DEF FePost
<1>33. CASE FeWaitVideo
  BY <1>33 DEF FeWaitVideo
<1>34. CASE FeLockVideo
  BY <1>34 DEF FeLockVideo
<1>35. CASE FeRender
  BY <1>35 DEF FeRender
<1>36. CASE FeSpuriousWakeup
  BY <1>36 DEF FeSpuriousWakeup
<1>37. CASE Press
  BY <1>37 DEF Press, cpuVars
<1>38. CASE UNCHANGED vars
  BY <1>38 DEF vars, cpuVars
<1>. QED
  BY <1>1, <1>2, <1>3, <1>4, <1>5, <1>6, <1>7, <1>8, <1>9, <1>10, <1>11, <1>12, <1>13, <1>14, <1>15, <1>16, <1>17, <1>18, <1>19, <1>20, <1>21, <1>22, <1>23, <1>24, <1>25, <1>26, <1>27, <1>28, <1>29, <1>30, <1>31, <1>32, <1>33, <1>34, <1>35, <1>36, <1>37, <1>38
     DEF Next, CpuNext, FeNext, CycleWaitNext, FetchNext, Finished

(* Every step keeps the two threads agreed on whose turn it is.            *)
LEMMA HandshakePreserved ==
  ASSUME ~SpuriousWakeups
  PROVE  TypeOK /\ LocksHeldExactly /\ HandshakeInv /\ [Next]_vars => HandshakeInv'
<1> SUFFICES ASSUME TypeOK, LocksHeldExactly, HandshakeInv, [Next]_vars
             PROVE  HandshakeInv'
  OBVIOUS
<1> USE DEF TypeOK, LocksHeldExactly, HoldsIntLock, FeHoldsVideo, PollPlaces, HookPlaces,
        HandshakeInv, RequestPending, NothingElsePending, CopyWhileWaiting,
        NeverWaitsForBuffer, InputAtBottom, QuitByFrontEnd, PastSignal, InterruptOf,
        VideoInterrupts, Empty, Halves, Cpu, Free, FrontEnd, Lock, Unlock, cpuRegs, cpuShared,
        feVars, inputVars, screenVars, feLocks, feKeepsCpu, feKeepsShared
<1>1. CASE PollLock /\ UNCHANGED feVars
  BY <1>1 DEF PollLock
<1>2. CASE PollReset /\ UNCHANGED feVars
  BY <1>2 DEF PollReset
<1>3. CASE PollClear /\ UNCHANGED feVars
  BY <1>3 DEF PollClear
<1>4. CASE PollQuit /\ UNCHANGED feVars
  BY <1>4 DEF PollQuit
<1>5. CASE FetchDisabled /\ UNCHANGED feVars
  BY <1>5 DEF FetchDisabled
<1>6. CASE FetchHalted /\ UNCHANGED feVars
  BY <1>6 DEF FetchHalted, CycleWait
<1>7. CASE FetchEnabled /\ UNCHANGED feVars
  BY <1>7 DEF FetchEnabled
<1>8. CASE NoInterrupt /\ UNCHANGED feVars
  BY <1>8 DEF NoInterrupt
<1>9. CASE DiscardInterrupt /\ UNCHANGED feVars
  BY <1>9 DEF DiscardInterrupt, InterruptTaken, MultiByte, SingleByte
<1>10. CASE BeginInterrupt /\ UNCHANGED feVars
  BY <1>10 DEF BeginInterrupt
<1>11. CASE FinishInterrupt /\ UNCHANGED feVars
  BY <1>11 DEF FinishInterrupt
<1>12. CASE ExecuteInstruction /\ UNCHANGED feVars
  BY <1>12 DEF ExecuteInstruction, CycleWait
<1>13. CASE HookLock
  BY <1>13 DEF HookLock
<1>14. CASE HookCopy
  BY <1>14 DEF HookCopy
<1>15. CASE HookSignal
  BY <1>15 DEF HookSignal
<1>16. CASE HookRun
  BY <1>16 DEF HookRun, RunInterruptOpcode, CycleWait
<1>17. CASE CpuSignal
  BY <1>17 DEF CpuSignal, SignalInterrupt
<1>18. CASE ReadKeys
  BY <1>18 DEF ReadKeys
<1>19. CASE WriteSound
  BY <1>19 DEF WriteSound
<1>20. CASE FinishIo
  BY <1>20 DEF FinishIo, CycleWait
<1>21. CASE Join
  BY <1>21 DEF Join
<1>22. CASE FeStart
  BY <1>22 DEF FeStart
<1>23. CASE FeDraw
  BY <1>23 DEF FeDraw
<1>24. CASE FeLockKeys
  BY <1>24 DEF FeLockKeys
<1>25. CASE FeLockResetQuit
  BY <1>25 DEF FeLockResetQuit
<1>26. CASE FeHandleEvent
  BY <1>26 DEF FeHandleEvent
<1>27. CASE FeEndEvents
  BY <1>27 DEF FeEndEvents
<1>28. CASE FeLockSound
  BY <1>28 DEF FeLockSound
<1>29. CASE FePlaySound
  BY <1>29 DEF FePlaySound
<1>30. CASE FeLockInt
  BY <1>30 DEF FeLockInt
<1>31. CASE FeWaitInt
  BY <1>31 DEF FeWaitInt
<1>32. CASE FePost
  BY <1>32 DEF FePost
<1>33. CASE FeWaitVideo
  BY <1>33 DEF FeWaitVideo
<1>34. CASE FeLockVideo
  BY <1>34 DEF FeLockVideo
<1>35. CASE FeRender
  BY <1>35 DEF FeRender
<1>36. CASE FeSpuriousWakeup
  BY <1>36 DEF FeSpuriousWakeup
<1>37. CASE Press
  BY <1>37 DEF Press, cpuVars
<1>38. CASE UNCHANGED vars
  BY <1>38 DEF vars, cpuVars
<1>. QED
  BY <1>1, <1>2, <1>3, <1>4, <1>5, <1>6, <1>7, <1>8, <1>9, <1>10, <1>11, <1>12, <1>13, <1>14, <1>15, <1>16, <1>17, <1>18, <1>19, <1>20, <1>21, <1>22, <1>23, <1>24, <1>25, <1>26, <1>27, <1>28, <1>29, <1>30, <1>31, <1>32, <1>33, <1>34, <1>35, <1>36, <1>37, <1>38
     DEF Next, CpuNext, FeNext, CycleWaitNext, FetchNext, Finished

(* Every step is a step of the abstract handshake or leaves it alone.      *)
LEMMA HandshakeSimulated ==
  ASSUME ~SpuriousWakeups
  PROVE  TypeOK /\ LocksHeldExactly /\ HandshakeInv /\ [Next]_vars
           => [Handshake!Next]_(Handshake!vars)
<1> SUFFICES ASSUME TypeOK, LocksHeldExactly, HandshakeInv, [Next]_vars
             PROVE  Handshake!Next \/ UNCHANGED Handshake!vars
  OBVIOUS
<1> USE DEF TypeOK, LocksHeldExactly, HoldsIntLock, FeHoldsVideo, PollPlaces, HookPlaces,
        HandshakeInv, RequestPending, NothingElsePending, CopyWhileWaiting,
        NeverWaitsForBuffer, InputAtBottom, QuitByFrontEnd, PastSignal, InterruptOf,
        VideoInterrupts, Empty, Halves, Cpu, Free, FrontEnd, Lock, Unlock, cpuRegs, cpuShared,
        feVars, inputVars, screenVars, feLocks, feKeepsCpu, feKeepsShared,
        Handshake!vars, handshakePhase, Refresh, Handshake!Refresh, Bands, Handshake!Bands,
        CopiedWith, Handshake!CopiedWith, DrawnWith, Handshake!DrawnWith,
        Following, Handshake!Following
<1>1. CASE PollLock /\ UNCHANGED feVars
  BY <1>1 DEF PollLock
<1>2. CASE PollReset /\ UNCHANGED feVars
  BY <1>2 DEF PollReset
<1>3. CASE PollClear /\ UNCHANGED feVars
  BY <1>3 DEF PollClear
<1>4. CASE PollQuit /\ UNCHANGED feVars
  BY <1>4 DEF PollQuit
<1>5. CASE FetchDisabled /\ UNCHANGED feVars
  BY <1>5 DEF FetchDisabled
<1>6. CASE FetchHalted /\ UNCHANGED feVars
  BY <1>6 DEF FetchHalted, CycleWait
<1>7. CASE FetchEnabled /\ UNCHANGED feVars
  BY <1>7 DEF FetchEnabled
<1>8. CASE NoInterrupt /\ UNCHANGED feVars
  BY <1>8 DEF NoInterrupt
<1>9. CASE DiscardInterrupt /\ UNCHANGED feVars
  BY <1>9 DEF DiscardInterrupt, InterruptTaken, MultiByte, SingleByte
<1>10. CASE BeginInterrupt /\ UNCHANGED feVars
  BY <1>10 DEF BeginInterrupt
<1>11. CASE FinishInterrupt /\ UNCHANGED feVars
  BY <1>11 DEF FinishInterrupt
<1>12. CASE ExecuteInstruction /\ UNCHANGED feVars
  BY <1>12 DEF ExecuteInstruction, CycleWait
<1>13. CASE HookLock
  BY <1>13 DEF HookLock
<1>14. CASE HookCopy
  BY <1>14 DEF HookCopy, HalfOf, Handshake!Next, Handshake!Copy
<1>15. CASE HookSignal
  BY <1>15 DEF HookSignal
<1>16. CASE HookRun
  BY <1>16 DEF HookRun, RunInterruptOpcode, CycleWait
<1>17. CASE CpuSignal
  BY <1>17 DEF CpuSignal, SignalInterrupt
<1>18. CASE ReadKeys
  BY <1>18 DEF ReadKeys
<1>19. CASE WriteSound
  BY <1>19 DEF WriteSound
<1>20. CASE FinishIo
  BY <1>20 DEF FinishIo, CycleWait
<1>21. CASE Join
  BY <1>21 DEF Join
<1>22. CASE FeStart
  BY <1>22 DEF FeStart
<1>23. CASE FeDraw
  BY <1>23 DEF FeDraw, Handshake!Next, Handshake!Draw
<1>24. CASE FeLockKeys
  BY <1>24 DEF FeLockKeys
<1>25. CASE FeLockResetQuit
  BY <1>25 DEF FeLockResetQuit
<1>26. CASE FeHandleEvent
  BY <1>26 DEF FeHandleEvent
<1>27. CASE FeEndEvents
  BY <1>27 DEF FeEndEvents, Handshake!Next, Handshake!Close
<1>28. CASE FeLockSound
  BY <1>28 DEF FeLockSound
<1>29. CASE FePlaySound
  BY <1>29 DEF FePlaySound
<1>30. CASE FeLockInt
  BY <1>30 DEF FeLockInt
<1>31. CASE FeWaitInt
  BY <1>31 DEF FeWaitInt
<1>32. CASE FePost
  BY <1>32 DEF FePost, Handshake!Next, Handshake!Ask
<1>33. CASE FeWaitVideo
  BY <1>33 DEF FeWaitVideo
<1>34. CASE FeLockVideo
  BY <1>34 DEF FeLockVideo, Handshake!Next, Handshake!GoOn
<1>35. CASE FeRender
  BY <1>35 DEF FeRender, Handshake!Next, Handshake!Render
<1>36. CASE FeSpuriousWakeup
  BY <1>36 DEF FeSpuriousWakeup
<1>37. CASE Press
  BY <1>37 DEF Press, cpuVars
<1>38. CASE UNCHANGED vars
  BY <1>38 DEF vars, cpuVars
<1>. QED
  BY <1>1, <1>2, <1>3, <1>4, <1>5, <1>6, <1>7, <1>8, <1>9, <1>10, <1>11, <1>12, <1>13, <1>14, <1>15, <1>16, <1>17, <1>18, <1>19, <1>20, <1>21, <1>22, <1>23, <1>24, <1>25, <1>26, <1>27, <1>28, <1>29, <1>30, <1>31, <1>32, <1>33, <1>34, <1>35, <1>36, <1>37, <1>38
     DEF Next, CpuNext, FeNext, CycleWaitNext, FetchNext, Finished

-----------------------------------------------------------------------------
THEOREM InitHolds == Init => TypeOK /\ LocksHeldExactly /\ HandshakeInv /\ Handshake!Init
<1>. SUFFICES ASSUME Init PROVE TypeOK /\ LocksHeldExactly /\ HandshakeInv /\ Handshake!Init
  OBVIOUS
<1>1. Preceding(0) \in Frames /\ 0 \in Frames
  BY FrameArithmetic DEF Frames
<1>2. vbuffer \in [Bands -> Frames] /\ display \in [Bands -> Frames]
  BY <1>1 DEF Init
<1>3. 0 \in Addresses
  BY ConstantFacts
<1>4. events \subseteq Keys /\ quitting \in BOOLEAN
  BY DEF Init
<1>5. TypeOK
  BY <1>1, <1>2, <1>3, <1>4
     DEF Init, CpuInit, TypeOK, CpuPlaces, FePlaces, Halves, Empty, Cpu, Free, FrontEnd
<1>6. LocksHeldExactly
  BY DEF Init, CpuInit, LocksHeldExactly, HoldsIntLock, HookPlaces, PollPlaces, FeHoldsVideo,
         Cpu, Free, FrontEnd
<1>7. HandshakeInv
  BY DEF Init, CpuInit, HandshakeInv, RequestPending, NothingElsePending, CopyWhileWaiting,
         NeverWaitsForBuffer, InputAtBottom, QuitByFrontEnd, PastSignal, PollPlaces, Empty
<1>8. Handshake!Init
  BY DEF Init, CpuInit, Handshake!Init, handshakePhase, Bands, Handshake!Bands,
         Preceding, Handshake!Preceding
<1>. QED
  BY <1>5, <1>6, <1>7, <1>8

(* Every variable keeps its type, for any program, chunk and costs.        *)
THEOREM TypeCorrect == Spec => []TypeOK
  BY InitHolds, TypesPreserved, PTL DEF Spec

(* Each mutex is held exactly between its lock and its unlock, spurious    *)
(* wakeups or not.                                                         *)
THEOREM LockDiscipline == Spec => []LocksHeldExactly
  BY InitHolds, TypeCorrect, LocksPreserved, PTL DEF Spec

(* Without spurious wakeups the handshake invariant always holds.          *)
THEOREM HandshakeKept ==
  ASSUME ~SpuriousWakeups
  PROVE  Spec => []HandshakeInv
  BY InitHolds, TypeCorrect, LockDiscipline, HandshakePreserved, PTL DEF Spec

(* Without spurious wakeups one of the two threads can always go on: for   *)
(* each thing the front end waits for, the CPU has it and is not waiting,  *)
(* or is about to bring it.                                                *)
THEOREM NoDeadlock ==
  ASSUME ~SpuriousWakeups
  PROVE  Spec => []SomeThreadRuns
<1>1. TypeOK /\ LocksHeldExactly /\ HandshakeInv => SomeThreadRuns
  <2> SUFFICES ASSUME TypeOK, LocksHeldExactly, HandshakeInv, CpuWaits, FeWaits
               PROVE  FALSE
    BY DEF SomeThreadRuns
  <2> USE DEF TypeOK, LocksHeldExactly, FeHoldsVideo, Cpu, FrontEnd, Free
  <2>1. CASE feAt \in {"start", "vid_relock"} /\ vbuffer_lock # Free
    BY <2>1 DEF CpuWaits
  <2>2. CASE feAt = "keys" /\ keystate_lock # Free
    BY <2>2 DEF CpuWaits
  <2>3. CASE feAt = "reset_quit" /\ fe_reset_quit_lock # Free
    BY <2>3
  <2>4. CASE feAt = "sound" /\ sound_lock # Free
    BY <2>4 DEF CpuWaits
  <2>5. CASE feAt \in {"send", "int_relock"} /\ int_lock # Free
    BY <2>5 DEF CpuWaits, HoldsIntLock, HookPlaces, PollPlaces, HandshakeInv, NothingElsePending,
                PastSignal, QuitByFrontEnd, VideoInterrupts, Empty
  <2>6. CASE feAt \in {"int_wait", "vid_wait", "exited"}
    BY <2>6 DEF CpuWaits, HoldsIntLock, HookPlaces, PollPlaces, HandshakeInv, NothingElsePending,
                NeverWaitsForBuffer, PastSignal, QuitByFrontEnd, VideoInterrupts, Empty
  <2>. QED
    BY <2>1, <2>2, <2>3, <2>4, <2>5, <2>6 DEF FeWaits
<1>. QED
  BY <1>1, TypeCorrect, LockDiscipline, HandshakeKept, PTL

(* The hook never signals before the front end waits for it.               *)
THEOREM SignalNotLost ==
  ASSUME ~SpuriousWakeups
  PROVE  Spec => []VideoSignalNotLost
<1>1. HandshakeInv => VideoSignalNotLost
  BY DEF HandshakeInv, CopyWhileWaiting, VideoSignalNotLost
<1>. QED
  BY <1>1, HandshakeKept, PTL

(* The front end finds the interrupt buffer empty whenever it sends: here  *)
(* the mutexes count as well as the handshake.                             *)
THEOREM SendsIntoEmptyBuffer ==
  ASSUME ~SpuriousWakeups
  PROVE  Spec => []BufferEmptyWhenSent
<1>1. LocksHeldExactly /\ HandshakeInv => BufferEmptyWhenSent
  BY DEF LocksHeldExactly, HoldsIntLock, HookPlaces, HandshakeInv, NothingElsePending, PastSignal,
         BufferEmptyWhenSent, Cpu, FrontEnd
<1>. QED
  BY <1>1, LockDiscipline, HandshakeKept, PTL

(* Three actions change the interrupt buffer.                              *)
LEMMA BufferWriters ==
  [Next]_vars =>
    \/ DiscardInterrupt \/ FinishInterrupt \/ FePost
    \/ interrupt_buffer' = interrupt_buffer
<1> SUFFICES ASSUME [Next]_vars
             PROVE  \/ DiscardInterrupt \/ FinishInterrupt \/ FePost
                    \/ interrupt_buffer' = interrupt_buffer
  OBVIOUS
<1>1. CASE CycleWaitNext
  BY <1>1 DEF CycleWaitNext, PollLock, PollReset, PollClear, PollQuit, cpuShared
<1>2. CASE FetchNext
  BY <1>2 DEF FetchNext, FetchDisabled, FetchHalted, FetchEnabled, NoInterrupt, BeginInterrupt,
              ExecuteInstruction, cpuShared
<1>3. CASE HookLock \/ HookCopy \/ HookSignal \/ HookRun \/ CpuSignal
  BY <1>3 DEF HookLock, HookCopy, HookSignal, HookRun, RunInterruptOpcode, CpuSignal,
              SignalInterrupt, cpuShared
<1>4. CASE ReadKeys \/ WriteSound \/ FinishIo \/ Join
  BY <1>4 DEF ReadKeys, WriteSound, FinishIo, Join, cpuShared
<1>5. CASE FeNext
  BY <1>5 DEF FeNext, FeStart, FeDraw, FeLockKeys, FeLockResetQuit, FeHandleEvent, FeEndEvents,
              FeLockSound, FePlaySound, FeLockInt, FeWaitInt, FeWaitVideo, FeLockVideo,
              FeRender, feKeepsShared
<1>6. CASE FeSpuriousWakeup \/ Press \/ UNCHANGED vars
  BY <1>6 DEF FeSpuriousWakeup, Press, vars, cpuVars, feKeepsShared, cpuShared
<1>. QED
  BY <1>1, <1>2, <1>3, <1>4, <1>5, <1>6 DEF Next, CpuNext, Finished

(* No interrupt is overwritten or cleared before it has been served.       *)
THEOREM InterruptsServed ==
  ASSUME ~SpuriousWakeups
  PROVE  Spec => EveryInterruptServed
<1>1. /\ TypeOK /\ LocksHeldExactly /\ HandshakeInv /\ [Next]_vars
      /\ interrupt_buffer # Empty /\ interrupt_buffer' # interrupt_buffer
      => interrupt_buffer' = Empty /\ feAt \notin {"posted", "vid_wait"}
  <2> SUFFICES ASSUME TypeOK, LocksHeldExactly, HandshakeInv, [Next]_vars,
                      interrupt_buffer # Empty, interrupt_buffer' # interrupt_buffer
               PROVE  interrupt_buffer' = Empty /\ feAt \notin {"posted", "vid_wait"}
    OBVIOUS
  <2>1. CASE DiscardInterrupt
    <3>1. interrupt_buffer \in SingleByte
      BY DEF TypeOK, VideoInterrupts, Empty, SingleByte
    <3>. QED
      BY <2>1, <3>1 DEF DiscardInterrupt, MultiByte
  <2>2. CASE FinishInterrupt
    BY <2>2 DEF FinishInterrupt, HandshakeInv, RequestPending, PastSignal
  <2>3. CASE FePost
    <3>1. feAt \in {"check", "post"}
      BY <2>3 DEF FePost
    <3>2. int_lock = FrontEnd /\ int_lock # Cpu
      BY <3>1 DEF LocksHeldExactly, Cpu, FrontEnd
    <3>3. ~PastSignal
      BY <3>2 DEF LocksHeldExactly, HoldsIntLock, HookPlaces, PastSignal
    <3>. QED
      BY <3>1, <3>3 DEF HandshakeInv, NothingElsePending
  <2>. QED
    BY <2>1, <2>2, <2>3, BufferWriters
<1>2. TypeOK /\ LocksHeldExactly /\ HandshakeInv /\ [Next]_vars
      => [interrupt_buffer # Empty /\ interrupt_buffer' # interrupt_buffer =>
            /\ interrupt_buffer' = Empty
            /\ feAt \notin {"posted", "vid_wait"}]_vars
  BY <1>1
<1>. QED
  BY <1>2, TypeCorrect, LockDiscipline, HandshakeKept, PTL DEF Spec, EveryInterruptServed

(* A thread that has returned with a mutex held leaves the other nothing   *)
(* to take that mutex for.                                                 *)
THEOREM QuitNeedsNoLock ==
  ASSUME ~SpuriousWakeups
  PROVE  Spec => []NoLockNeededAfterQuit
<1>1. HandshakeInv => NoLockNeededAfterQuit
  BY DEF HandshakeInv, NothingElsePending, QuitByFrontEnd, PastSignal, PollPlaces,
         NoLockNeededAfterQuit, VideoInterrupts, Empty
<1>. QED
  BY <1>1, HandshakeKept, PTL

(* The two threads implement the abstract handshake.                       *)
THEOREM Implementation ==
  ASSUME ~SpuriousWakeups
  PROVE  Spec => ImplementsHandshake
<1>1. Init => Handshake!Init
  BY InitHolds
<1>. QED
  BY <1>1, TypeCorrect, LockDiscipline, HandshakeKept, HandshakeSimulated, PTL
     DEF Spec, ImplementsHandshake, Handshake!Spec

(* Handshake and Abstract instantiate the same abstract specification.     *)
LEMMA SameHandshake ==
  /\ Handshake!Init <=> Abstract!Init
  /\ [Handshake!Next]_(Handshake!vars) <=> [Abstract!Next]_(Abstract!vars)
  /\ Handshake!RenderedWhole <=> Abstract!RenderedWhole
<1> USE DEF Handshake!Bands, Abstract!Bands, Handshake!Preceding, Abstract!Preceding
<1>1. Handshake!Init <=> Abstract!Init
  BY DEF Handshake!Init, Abstract!Init
<1>2. Handshake!RenderedWhole <=> Abstract!RenderedWhole
  BY DEF Handshake!RenderedWhole, Abstract!RenderedWhole
<1>3. Handshake!Draw <=> Abstract!Draw
  BY DEF Handshake!Draw, Abstract!Draw, Handshake!Refresh, Abstract!Refresh,
         Handshake!DrawnWith, Abstract!DrawnWith
<1>4. Handshake!Copy <=> Abstract!Copy
  BY DEF Handshake!Copy, Abstract!Copy, Handshake!Refresh, Abstract!Refresh,
         Handshake!CopiedWith, Abstract!CopiedWith
<1>5. /\ Handshake!Ask <=> Abstract!Ask
      /\ Handshake!Close <=> Abstract!Close
      /\ Handshake!GoOn <=> Abstract!GoOn
  BY DEF Handshake!Ask, Abstract!Ask, Handshake!Close, Abstract!Close,
         Handshake!GoOn, Abstract!GoOn
<1>6. Handshake!Render <=> Abstract!Render
  BY DEF Handshake!Render, Abstract!Render, Handshake!Following, Abstract!Following
<1>. QED
  BY <1>1, <1>2, <1>3, <1>4, <1>5, <1>6
     DEF Handshake!Next, Abstract!Next, Handshake!vars, Abstract!vars

(* Every rendered frame is one picture, copied during the frame before:    *)
(* carried over from the abstract handshake.                               *)
THEOREM FramesWhole ==
  ASSUME ~SpuriousWakeups
  PROVE  Spec => []RenderedFrameIsWhole
<1>1. Handshake!Spec => Abstract!Spec
  BY SameHandshake, PTL DEF Handshake!Spec, Abstract!Spec
<1>2. Abstract!Spec => []Abstract!RenderedWhole
  BY Abstract!WholeFrames
<1>3. Abstract!RenderedWhole => RenderedFrameIsWhole
  BY DEF Abstract!RenderedWhole, RenderedFrameIsWhole, handshakePhase,
         Bands, Abstract!Bands, Preceding, Abstract!Preceding
<1>. QED
  BY <1>1, <1>2, <1>3, Implementation, PTL DEF ImplementsHandshake
=============================================================================
