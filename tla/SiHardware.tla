----------------------------- MODULE SiHardware -----------------------------
(***************************************************************************)
(* The bits of the si library's rom_struct: player controls and DIP        *)
(* switches, which the front end sets from the keyboard under              *)
(* keystate_lock and the CPU reads with IN, and sounds, which the CPU sets *)
(* with OUT under sound_lock and the front end plays.                      *)
(*                                                                         *)
(* All are bit-fields of one uint32_t, which C makes one memory location.  *)
(* The compiler sets a field by loading a unit that holds it, changing the *)
(* field's bits and storing the unit.  In a Release build an OUT to port 3 *)
(* or 5 does so once with the upper halfword, the one with the sounds and  *)
(* DIP switches 5 to 7, and a key does so with the byte of its bit; in a   *)
(* Debug build an OUT does so with a byte for each of its fields.  The     *)
(* lower halfword is stored by the front end only.                         *)
(***************************************************************************)
EXTENDS Mutex

CONSTANT Watched  \* the bits that are told apart; the rest are left out

Controls == {"p1_start", "p1_shoot", "p1_left", "p1_right",
             "p2_start", "p2_shoot", "p2_left", "p2_right", "tilt"} \cap Watched
Coin == {"coin"} \cap Watched
LowSwitches == {"dip0", "dip1", "dip2", "dip3", "dip4", "sound_off"} \cap Watched
HighSwitches == {"dip5", "dip6", "dip7"} \cap Watched

\* the sounds of an OUT to port 3 or 5
SoundsOf(port) ==
  Watched \cap
    IF port = 3 THEN {"ufo_sound", "shot_sound", "player_die_sound", "invader_killed_sound"}
    ELSE {"fast_invader1_sound", "fast_invader2_sound", "fast_invader3_sound",
          "fast_invader4_sound", "ufo_hit_sound"}
Sounds == SoundsOf(3) \cup SoundsOf(5)

\* the sounds in the byte of the high switches, bits 16 to 23
SharedSounds == {"ufo_sound", "player_die_sound", "invader_killed_sound",
                 "fast_invader1_sound", "fast_invader2_sound"} \cap Watched
SwitchByte == HighSwitches \cup SharedSounds

\* Mutant of Looping: every sound is played once.
LoopingNone == {}

\* the sounds played with loops = -1, which go on until they are faded out
Looping == {"ufo_sound", "shot_sound"} \cap Watched

VARIABLES
  lower,    \* the bits set in the lower halfword
  upper,    \* the bits set in the upper halfword
  cpuAt,    \* the CPU thread's place
  port,     \* the port of the OUT it executes
  word,     \* its copy of the upper halfword
  feAt,     \* the front end's place
  switch,   \* the DIP switch being toggled
  byte,     \* its copy of the high switches' byte
  settled,  \* the lower halfword as the last handleInput left it
  playing,  \* what SDL's mixer does with each sound's channel
  keystate_lock, sound_lock

cpuVars == <<cpuAt, port, word>>
feVars == <<feAt, switch, byte, settled>>
vars == <<lower, upper, cpuVars, feVars, playing, keystate_lock, sound_lock>>

-----------------------------------------------------------------------------
(* hw_in and hw_out on the CPU thread.                                     *)

\* Mutant of InLock: hw_in does not take the mutex.
InUnlocked ==
  /\ cpuAt = "run"
  /\ cpuAt' = "in"
  /\ UNCHANGED <<lower, upper, port, word, feVars, playing, keystate_lock, sound_lock>>

\* IN from port 1 or 2
InLock ==
  /\ cpuAt = "run"
  /\ Lock(keystate_lock, Cpu)
  /\ cpuAt' = "in"
  /\ UNCHANGED <<lower, upper, port, word, feVars, playing, sound_lock>>

InUnlock ==
  /\ cpuAt = "in"
  /\ Unlock(keystate_lock)
  /\ cpuAt' = "run"
  /\ UNCHANGED <<lower, upper, port, word, feVars, playing, sound_lock>>

\* OUT to port 3 or 5
OutLock ==
  /\ cpuAt = "run"
  /\ Lock(sound_lock, Cpu)
  /\ port' \in {3, 5}
  /\ cpuAt' = "out_load"
  /\ UNCHANGED <<lower, upper, word, feVars, playing, keystate_lock>>

OutLoad ==
  /\ cpuAt = "out_load"
  /\ word' = upper
  /\ cpuAt' = "out_store"
  /\ UNCHANGED <<lower, upper, port, feVars, playing, keystate_lock, sound_lock>>

OutStore ==
  /\ cpuAt = "out_store"
  /\ \E on \in SUBSET SoundsOf(port) : upper' = (word \ SoundsOf(port)) \cup on
  /\ word' = {}
  /\ Unlock(sound_lock)
  /\ cpuAt' = "run"
  /\ UNCHANGED <<lower, port, feVars, playing, keystate_lock>>

CpuNext == InLock \/ InUnlock \/ OutLock \/ OutLoad \/ OutStore

-----------------------------------------------------------------------------
(* handleInput and update_keystates on the front end.                      *)

Toggled(bits, b) == IF b \in bits THEN bits \ {b} ELSE bits \cup {b}

InputLock ==
  /\ feAt = "draw"
  /\ Lock(keystate_lock, FrontEnd)
  /\ feAt' = "events"
  /\ UNCHANGED <<lower, upper, cpuVars, switch, byte, settled, playing, sound_lock>>

\* Mutant of KeyDown: the bits of all switches are taken to be in the lower halfword.
KeyDownLow ==
  /\ feAt = "events"
  /\ \/ \E k \in Controls : lower' = lower \cup {k}
     \/ lower' = lower \ Coin
     \/ \E k \in LowSwitches \cup HighSwitches : lower' = Toggled(lower, k)
  /\ UNCHANGED <<upper, cpuVars, feVars, playing, keystate_lock, sound_lock>>

\* SDL_KEYDOWN; a key that is held repeats it, which nothing tests
KeyDown ==
  /\ feAt = "events"
  /\ \/ \E k \in Controls : lower' = lower \cup {k}
     \/ lower' = lower \ Coin
     \/ \E k \in LowSwitches : lower' = Toggled(lower, k)
  /\ UNCHANGED <<upper, cpuVars, feVars, playing, keystate_lock, sound_lock>>

\* SDL_KEYUP
KeyUp ==
  /\ feAt = "events"
  /\ \/ \E k \in Controls : lower' = lower \ {k}
     \/ lower' = lower \cup Coin
  /\ UNCHANGED <<upper, cpuVars, feVars, playing, keystate_lock, sound_lock>>

\* SDL_KEYDOWN of 5, 6 or 7: rStruct->dip5 = !rStruct->dip5
SwitchLoad ==
  /\ feAt = "events"
  /\ switch' \in HighSwitches
  /\ byte' = upper \cap SwitchByte
  /\ feAt' = "switch_store"
  /\ UNCHANGED <<lower, upper, cpuVars, settled, playing, keystate_lock, sound_lock>>

SwitchStore ==
  /\ feAt = "switch_store"
  /\ upper' = (upper \ SwitchByte) \cup Toggled(byte, switch)
  /\ byte' = {}
  /\ feAt' = "events"
  /\ UNCHANGED <<lower, cpuVars, switch, settled, playing, keystate_lock, sound_lock>>

InputUnlock ==
  /\ feAt = "events"
  /\ Unlock(keystate_lock)
  /\ settled' = lower
  /\ feAt' = "sound"
  /\ UNCHANGED <<lower, upper, cpuVars, switch, byte, playing, sound_lock>>

-----------------------------------------------------------------------------
(* play_sound on the front end, and SDL's mixer.                           *)

SoundLock ==
  /\ feAt = "sound"
  /\ Lock(sound_lock, FrontEnd)
  /\ feAt' = "play"
  /\ UNCHANGED <<lower, upper, cpuVars, switch, byte, settled, playing, keystate_lock>>

\* Mutant of AfterPlay: the else branches that fade a looping sound out are missing.
AfterPlayUnfaded(s) ==
  IF "sound_off" \in lower THEN "off"
  ELSE IF s \in upper /\ playing[s] = "off" THEN "on"
  ELSE playing[s]

\* the channel of sound s after play_sound
AfterPlay(s) ==
  IF "sound_off" \in lower THEN "off"
  ELSE IF s \in upper /\ playing[s] = "off" THEN "on"
  ELSE IF s \in Looping \ upper /\ playing[s] # "off" THEN "fading"
  ELSE playing[s]

PlaySound ==
  /\ feAt = "play"
  /\ playing' = [s \in Sounds |-> AfterPlay(s)]
  /\ Unlock(sound_lock)
  /\ feAt' = "draw"
  /\ UNCHANGED <<lower, upper, cpuVars, switch, byte, settled, keystate_lock>>

\* A sound that is not looped, or is fading out, ends by itself.
SoundEnds(s) ==
  /\ playing[s] = "fading" \/ (playing[s] = "on" /\ s \notin Looping)
  /\ playing' = [playing EXCEPT ![s] = "off"]
  /\ UNCHANGED <<lower, upper, cpuVars, feVars, keystate_lock, sound_lock>>

FeNext ==
  \/ InputLock \/ KeyDown \/ KeyUp \/ SwitchLoad \/ SwitchStore \/ InputUnlock
  \/ SoundLock \/ PlaySound

-----------------------------------------------------------------------------
\* hw_init_struct
Init ==
  /\ lower = (Coin \cup LowSwitches) \ {"sound_off"}
  /\ upper = HighSwitches
  /\ cpuAt = "run" /\ port = 3 /\ word = {}
  /\ feAt = "draw" /\ switch \in HighSwitches /\ byte = {}
  /\ settled = lower
  /\ playing = [s \in Sounds |-> "off"]
  /\ keystate_lock = Free /\ sound_lock = Free

Next == CpuNext \/ FeNext \/ \E s \in Sounds : SoundEnds(s)

(* The CPU finishes the IN or OUT it is in, and need not execute another;  *)
(* the front end runs, and gets a mutex the CPU takes again and again; a   *)
(* sound ends.                                                             *)
Fairness ==
  /\ WF_vars(InUnlock \/ OutLoad \/ OutStore)
  /\ WF_vars(FeNext) /\ SF_vars(InputLock) /\ SF_vars(SoundLock)
  /\ \A s \in Sounds : WF_vars(SoundEnds(s))

Spec == Init /\ [][Next]_vars
FairSpec == Spec /\ Fairness

-----------------------------------------------------------------------------
Low == Controls \cup Coin \cup LowSwitches
High == HighSwitches \cup Sounds

TypeOK ==
  /\ lower \subseteq Low /\ settled \subseteq Low
  /\ upper \subseteq High /\ word \subseteq High /\ byte \subseteq SwitchByte
  /\ cpuAt \in {"run", "in", "out_load", "out_store"} /\ port \in {3, 5}
  /\ feAt \in {"draw", "events", "switch_store", "sound", "play"}
  /\ switch \in HighSwitches
  /\ playing \in [Sounds -> {"off", "on", "fading"}]
  /\ keystate_lock \in {Cpu, FrontEnd, Free} /\ sound_lock \in {Cpu, FrontEnd, Free}

(* An IN sees the controls as a whole handleInput has left them, never the *)
(* keys of half a batch of events (hw_funcs.c:42-46, 49-54,                *)
(* taitoScreen.cpp:527-571).                                               *)
ControlsReadWhole == cpuAt = "in" => lower = settled

(* A field of the upper halfword changes only as its owner stores it:      *)
(* rom_struct.h:17 has the sounds toggled by hw_out, README.md:86 has the  *)
(* DIP switches set by the keys.                                           *)
ChangedByOwner ==
  [][/\ upper' \cap Sounds # upper \cap Sounds => cpuAt = "out_store"
     /\ upper' \cap HighSwitches # upper \cap HighSwitches => feAt = "switch_store"]_vars

\* The player does not press keys so fast that handleInput's loop never ends.
PlayerPauses == []<>(feAt = "sound")

(* A looping sound whose bit stays clear falls silent, also when the bit   *)
(* was set and cleared again while it was fading (play_sound.cpp:89-104).  *)
LoopingSoundStops ==
  PlayerPauses =>
    \A s \in {"ufo_sound", "shot_sound"} \cap Watched :
      <>[](s \notin upper) => <>[](playing[s] = "off")

(* One whose bit stays set, with the sound on, is heard and goes on.       *)
LoopingSoundPlays ==
  PlayerPauses =>
    \A s \in {"ufo_sound", "shot_sound"} \cap Watched :
      <>[](s \in upper /\ "sound_off" \notin lower) => <>[](playing[s] = "on")
=============================================================================
