-------------------------- MODULE SiHardwareProofs --------------------------
(***************************************************************************)
(* What TLAPS proves of SiHardware, whichever bits are watched: the types, *)
(* and that an IN sees the controls as a whole handleInput has left them.  *)
(***************************************************************************)
EXTENDS SiHardware, TLAPS

(* ControlsReadWhole is not inductive by itself: who holds keystate_lock   *)
(* has to be known, and that the controls are only half updated under it.  *)
KeystateLockHeld ==
  /\ keystate_lock = Cpu <=> cpuAt = "in"
  /\ keystate_lock = FrontEnd <=> feAt \in {"events", "switch_store"}
  /\ lower # settled => keystate_lock = FrontEnd

-----------------------------------------------------------------------------
\* The sounds that share a byte with the DIP switches are sounds of port 3 or 5.
LEMMA SwitchByteIsHigh == SwitchByte \subseteq High
  BY DEF SwitchByte, High, SharedSounds, Sounds, SoundsOf

\* Toggling a bit of a set of bits leaves a subset of it.
LEMMA ToggledSubset ==
  ASSUME NEW S, NEW bits \in SUBSET S, NEW b \in S
  PROVE  Toggled(bits, b) \subseteq S
  BY DEF Toggled

\* A step of the CPU thread keeps the types.
LEMMA CpuTypes ==
  ASSUME TypeOK, CpuNext
  PROVE  TypeOK'
<1> USE DEF TypeOK, feVars, Cpu, FrontEnd, Free, Lock, Unlock
<1>1. CASE InLock
  BY <1>1 DEF InLock
<1>2. CASE InUnlock
  BY <1>2 DEF InUnlock
<1>3. CASE OutLock
  BY <1>3 DEF OutLock
<1>4. CASE OutLoad
  BY <1>4 DEF OutLoad
<1>5. CASE OutStore
  <2>1. SoundsOf(port) \subseteq High
    BY DEF High, Sounds
  <2>2. upper' \subseteq High
    BY <1>5, <2>1 DEF OutStore
  <2>. QED
    BY <1>5, <2>2 DEF OutStore
<1>. QED
  BY <1>1, <1>2, <1>3, <1>4, <1>5 DEF CpuNext

\* A step of the front end keeps the types.
LEMMA FrontEndTypes ==
  ASSUME TypeOK, FeNext
  PROVE  TypeOK'
<1> USE DEF TypeOK, cpuVars, feVars, Cpu, FrontEnd, Free, Lock, Unlock
<1>1. CASE InputLock
  BY <1>1 DEF InputLock
<1>2. CASE KeyDown
  <2>1. \A k \in LowSwitches : Toggled(lower, k) \subseteq Low
    BY DEF Toggled, Low
  <2>2. lower' \subseteq Low
    BY <1>2, <2>1 DEF KeyDown, Low
  <2>. QED
    BY <1>2, <2>2 DEF KeyDown
<1>3. CASE KeyUp
  BY <1>3 DEF KeyUp, Low
<1>4. CASE SwitchLoad
  BY <1>4 DEF SwitchLoad
<1>5. CASE SwitchStore
  <2>1. Toggled(byte, switch) \subseteq SwitchByte
    BY ToggledSubset DEF SwitchByte
  <2>2. upper' \subseteq High
    BY <1>5, <2>1, SwitchByteIsHigh DEF SwitchStore
  <2>. QED
    BY <1>5, <2>2 DEF SwitchStore
<1>6. CASE InputUnlock
  BY <1>6 DEF InputUnlock
<1>7. CASE SoundLock
  BY <1>7 DEF SoundLock
<1>8. CASE PlaySound
  <2>1. \A s \in Sounds : AfterPlay(s) \in {"off", "on", "fading"}
    BY DEF AfterPlay
  <2>. QED
    BY <1>8, <2>1 DEF PlaySound
<1>. QED
  BY <1>1, <1>2, <1>3, <1>4, <1>5, <1>6, <1>7, <1>8 DEF FeNext

(* The type invariant: every bit stays in its halfword, each thread at a   *)
(* place of hw_in, hw_out, handleInput or play_sound.                      *)
THEOREM TypeCorrect == Spec => []TypeOK
<1>1. Init => TypeOK
  BY DEF Init, TypeOK, Low, High, Cpu, FrontEnd, Free
<1>2. TypeOK /\ [Next]_vars => TypeOK'
  <2> SUFFICES ASSUME TypeOK, [Next]_vars PROVE TypeOK'
    OBVIOUS
  <2>1. CASE CpuNext
    BY <2>1, CpuTypes
  <2>2. CASE FeNext
    BY <2>2, FrontEndTypes
  <2>3. ASSUME NEW s \in Sounds, SoundEnds(s) PROVE TypeOK'
    BY <2>3 DEF SoundEnds, TypeOK, cpuVars, feVars
  <2>4. CASE UNCHANGED vars
    BY <2>4 DEF vars, cpuVars, feVars, TypeOK
  <2>. QED
    BY <2>1, <2>2, <2>3, <2>4 DEF Next
<1>. QED
  BY <1>1, <1>2, PTL DEF Spec

-----------------------------------------------------------------------------
(* keystate_lock is held by the CPU exactly during an IN and by the front  *)
(* end exactly during handleInput, outside of which the controls are those *)
(* it has left.                                                            *)
THEOREM KeystateLocked == Spec => []KeystateLockHeld
<1>1. Init => KeystateLockHeld
  BY DEF Init, KeystateLockHeld, Cpu, FrontEnd, Free
<1>2. KeystateLockHeld /\ [Next]_vars => KeystateLockHeld'
  <2> SUFFICES ASSUME KeystateLockHeld, [Next]_vars PROVE KeystateLockHeld'
    OBVIOUS
  <2> USE DEF KeystateLockHeld, cpuVars, feVars, Cpu, FrontEnd, Free, Lock, Unlock
  <2>1. CASE InLock
    BY <2>1 DEF InLock
  <2>2. CASE InUnlock
    BY <2>2 DEF InUnlock
  <2>3. CASE OutLock \/ OutLoad \/ OutStore
    BY <2>3 DEF OutLock, OutLoad, OutStore
  <2>4. CASE InputLock
    BY <2>4 DEF InputLock
  <2>5. CASE KeyDown \/ KeyUp
    BY <2>5 DEF KeyDown, KeyUp
  <2>6. CASE SwitchLoad \/ SwitchStore
    BY <2>6 DEF SwitchLoad, SwitchStore
  <2>7. CASE InputUnlock
    BY <2>7 DEF InputUnlock
  <2>8. CASE SoundLock \/ PlaySound
    BY <2>8 DEF SoundLock, PlaySound
  <2>9. ASSUME NEW s \in Sounds, SoundEnds(s) PROVE KeystateLockHeld'
    BY <2>9 DEF SoundEnds
  <2>10. CASE UNCHANGED vars
    BY <2>10 DEF vars
  <2>. QED
    BY <2>1, <2>2, <2>3, <2>4, <2>5, <2>6, <2>7, <2>8, <2>9, <2>10 DEF Next, CpuNext, FeNext
<1>. QED
  BY <1>1, <1>2, PTL DEF Spec

(* An IN never sees the keys of half a batch of events.                    *)
THEOREM ControlsWhole == Spec => []ControlsReadWhole
<1>1. KeystateLockHeld => ControlsReadWhole
  BY DEF KeystateLockHeld, ControlsReadWhole, Cpu, FrontEnd
<1>. QED
  BY <1>1, KeystateLocked, PTL
=============================================================================
