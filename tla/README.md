# A TLA+ model of the 8080 emulator

The emulator interprets an Intel 8080 on one thread and, for the arcade games,
runs a front end (window, keyboard, sound) on a second one. What a test of the
repository reaches is one opcode function at a time on one thread. What decides
whether a game runs is elsewhere: a fetch loop with a three-state interrupt
flag, two threads that take two mutexes in opposite orders, two condition
variables waited for without a loop, and two flags that end or reset the
machine. This project models that part first; then the arithmetic, where tests
try a few operands and the tricks the code plays are right or wrong for all; the
way of a program from its file into protected memory and through every opcode
that stores, pushes or jumps; the two clocks; and the three tables that decide
what a byte means.

## 1. Inventory

| Part | State | Operations | Talks to | What must be right |
|---|---|---|---|---|
| CPU fetch loop, `src/cpu_thread.c` | pc, interrupt_enable_flag (0, 1, 2), halt_flag | the five cases of its switch, interrupt_execution | the interrupt buffer, mutex and condition; the hook and `hw_in`/`hw_out` of the hardware library | no unreachable case reached, the mutex released on every path, every waiter signalled |
| Cycle timer, `src/cycle_timer.c` | count, the target time | `cycle_wait`, after every opcode | reset and quit flags, their mutex, the clock | a reset or quit is seen within a chunk, from a halt too; the target time does not drift, and the CPU never runs ahead of it |
| taito front end, `hardware/taito/src/taitoScreen.cpp`, `taito_start.cpp` | half, display buffer, a local quit | draw, send interrupt, handle input, play sound, render | six mutexes, two conditions, the video buffer | never blocks for good, draws whole frames |
| taito interrupt hook, `interrupt_hook.c` | (the video buffer) | copy half of video memory, signal, run the opcode | runs on the CPU thread with the interrupt mutex held | copies while the front end waits, and is not lost |
| taito resources, `taito_struct_ops.c` | the mutexes and conditions | create, destroy | | both threads use the same mutex for the same data |
| frame timer, `screen_timer.c` | target time, is_bottom | sleep until the next half frame | the clock | unequal intervals alternate for ever without drift |
| si library, `hardware/si` | keys, DIP switches, sound and shift bits of `rom_struct` | `hw_in`, `hw_out`, `update_keystates`, `play_sound` | keystate and sound mutexes | a key or sound update is not lost; the shift register is one |
| basic, none, cpudiag libraries | the terminal | `hw_in`, `hw_out`, hook | quit flag | quit keys work |
| opcode functions, `src/*_opcodes.c`, `opcode_helpers.h` | registers, flags, memory | one per opcode | memory mask | flags, carries, wrap-around; masked memory never changes; what is pushed is popped |
| opcode tables, `opcode_array.c`, `opcode_size.h` | | decode | | size and function agree for all 256 opcodes |
| start-up, `src/main.c` | memory, mask, shared resources | read ROM and mask, load library, start and join threads | everything | files are read whole whatever `read` returns; no null function is left in the table |
| sound playback, colour PROMs, tests, CMake files | | | | |

The hard behaviours are interleavings: both threads around the interrupt and
video mutexes, the signals sent after a mutex was released, a poll of the flags
inside an interrupt, a quit with a mutex held. `PROJECT.json` lists each hazard
at its line, with the properties that would show it going wrong.

## 2. Modules

```
CpuThread            fetch loop, interrupt entry, cycle_wait      (no specification of its own)
 ├─ InterruptSenders CPU + libraries with a trivial hook + threads that post interrupts
 │    └─ InterruptSendersProofs
 └─ TaitoSystem      CPU + taito/si libraries + front end thread + player
      ├─ VideoHandshake       abstract: what the threads promise about the picture
      │    └─ VideoHandshakeProofs
      └─ TaitoSystemProofs
SiHardware           the bits of the si library: ports, keys, DIP switches, sounds
 └─ SiHardwareProofs
Screen               bands and stamps, used by TaitoSystem and VideoHandshake
 └─ Picture                   rows, pixels and colour masks, used by VideoHandshakeProofs
Alu8080              arithmetic and logical opcode functions, flags
 ├─ Manual8080                abstract: what the instructions are to compute
 └─ Alu8080Proofs
Bits                 bytes, words, C's bit operators; used by Alu8080 and Manual8080
Mutex                lock and unlock, used by CpuThread and SiHardware
Loader               the ROM and mask files read into memory       (no specification of its own)
 └─ Machine          registers, stack and masked memory under an arbitrary program
      └─ MachineProofs
Timers               the target times and sleeps of cycle_wait and screen_timer
 └─ TimersProofs
Decoder              the table, the sizes and the assertions of all 256 opcodes
 └─ Dispatch         lookup of the library's functions, calls through the table, IN and OUT
      ├─ ShiftRegister        abstract: the shift register programs rely on
      └─ DispatchProofs
MCInterruptSenders, MCTaitoSystem, MCSiHardware, MCAlu8080,
MCMachine, MCTimers, MCDispatch                               the instances TLC checks
```

**CpuThread.** A step is one access to shared state or one blocking call.
`cpuAt` is the thread's place; it is `fetch` at the top of the `for (;;)`.
`FetchDisabled`, `FetchEnabled` and `FetchHalted` are the switch on
`interrupt_enable_flag << 1 | halt_flag`, `int_check` is the code after
`pthread_mutex_lock(cpu.int_lock)`. `CycleWait(cycles, k)` is a call of
`cycle_wait` that returns to `k`; when a chunk is full the thread goes through
`PollLock`, `PollReset`, `PollClear` and `PollQuit` first. A mutex's value is
its holder. The program is arbitrary: any instruction can be fetched at any pc,
so what is proved is proved of every ROM. Instructions are told apart by what
they do to shared state and to the interrupt state: `NOP` stands for all that
only move pc, `JMP` for all of several bytes, which as an interrupt are cleared
and not run.

Deliberately as in the code: `InterruptTaken` tests the buffer's byte when the
CPU is running and the pointer (never null) when it is halted; the signal
follows the release of the mutex; a quit seen by the `cycle_wait` inside an
interrupt returns with the mutex held.

**InterruptSenders.** Adds the hook of the none, cpudiag and basic libraries
(`Hook`), basic's quit keys (`ExecuteIn`) and threads that post any opcode with
the protocol of `sendInterrupt`. `Senders = {}` is the machine of those three
libraries, which have no front end; with senders it is what `include/cpu.h:44-65`
and `hardware/README.md` offer to authors of further libraries.

**TaitoSystem.** Adds the taito hook (`HookLock`, `HookCopy`, `HookSignal`,
`HookRun`), the locked ports of the si library (`ReadKeys`, `WriteSound`,
`FinishIo`), the join in `main`, and the front end: `feAt` follows `taito_start`
through `videoRamToTaitoBuffer`, `handleInput`, `play_sound`, `sendInterrupt`
and `renderFrame`. A condition wait is three steps: release and wait, wake,
take the mutex again. The screen timer only sleeps and is no step here. `Press` is
the player; of the keys only Esc and R change what is modelled. The picture
is a stamp per band of rows: the frame (modulo 3) in which the band was copied
from video memory. The bands are rows 0-95, 96 and 97-223, because the hook
copies 96 rows as the top half and the front end draws 97.

**VideoHandshake.** The same exchange without threads, mutexes and conditions:
draw a half, ask for it, have it copied, go on; render after the second half.
`TaitoSystem!Handshake` is its instance under `handshakePhase`, which reads the
abstract phase off the places of the two threads.

**SiHardware.** `TaitoSystem` has the mutexes of the si library and not what they
guard; this module has the bits and, of the rest of the machine, only the calls
of `hw_in` and `hw_out`, `handleInput` and `play_sound`. `rom_struct` declares
its 28 bits as bit-fields of one `uint32_t`: keys and DIP switches, written
under `keystate_lock`, and sounds, written under `sound_lock`. In C these are one
memory location, and setting one of them rewrites its neighbours. How many is
the compiler's choice; the model takes what gcc 64-bit makes of the Release build,
one load and one store of the upper halfword for an OUT (`OutLoad`, `OutStore`)
and of one byte for a switch (`SwitchLoad`, `SwitchStore`). So `upper`, with
switches 5 to 7 and all sounds, is raced on, and `lower`, with every key, is the
front end's alone. `play_sound` runs as one step: it reads `upper` once for each
channel, but the CPU is kept out by `sound_lock` and switches are its own
thread's. A channel of the mixer is off, on, or fading out, which counts as
playing for `Mix_Playing`.

**Alu8080.** A step fetches an instruction or executes it. `op` names it,
`operand` is the register, memory byte or immediate it names: A itself or any
byte of `Operands`; the functions for immediates are those for registers but for
the cycles they return. The actions are the opcode functions and the operators
before them the macros and `_add` of `opcode_helpers.h`, translated literally: a
difference is the sum with a complement in a `uint16_t`, the half-carry three
exclusive ors, parity a folded byte. Flags are a set; the fixed bits of the flag
byte are nothing an instruction of this module reads. DAD is an operator, as it
has no other effect than its sum and carry. The cycles returned are left out;
where an operand is fetched from is Machine's.

**Manual8080** says in arithmetic what the instructions are to compute: a carry
is a sum above 255, a borrow a comparison, a rotation a multiplication modulo
255 or 511. It uses none of Alu8080's tricks. `Alu8080!Manual` is its instance;
the variables are the same.

**Loader and Machine.** `place` is how far `main` is. `ReadRom` and `ReadMask` are
one turn each of the loops over `read(2)`, which returns any count up to what
is left; `ReadFails` and `RejectMask` are the exits. Memory holds anything before
the ROM is read, since it comes from `malloc`. The read of the sizing byte is made
once, and `!read(...)` takes -1 for success: if it fails, of whichever file,
`mask_shift` has any value and the file is still at its start (`skipped` is 0), so
that its sizing byte becomes the first page's. If the file can be read after all,
the CPU runs with that mask. Machine goes on from the loader's end: `Execute` runs one opcode function
with the registers, `sp`, `pc` and memory, `Interrupt` one of a single byte whose
opcode is not in memory, `Reset` is what `cycle_wait` does to pc. All stores go through
`write8` and `write16`, which ask the mask for each byte; a 16-bit read is one
access that does not wrap, so at the last address its high byte is whatever lies
behind the memory. The opcode functions are grouped as in the code. Any
instruction may be at any pc, but its operands are read from memory where the
code reads them, for CALL after the push. `words` is a history of the words
stored whole. Flags are left to Alu8080: a condition may be met or not, and what
an accumulator function leaves is any byte.

**Timers.** Both threads move a target on and sleep until it. A `timespec` is a
record of seconds and nanoseconds; the two carries differ as they do in the code
(`>` in `cycle_timer.c:70`, `>=` in `screen_timer.c:48`), and `Refused`, `Elapsed` and
`Asleep` are the three answers of `clock_nanosleep`. The loops around it test
`errno`, which `clock_nanosleep` does not set: `cpuEintr` and `feEintr` say that an
earlier call left EINTR there. Time passes in `Tick`, independently of both
threads, so either may be late by any amount.

**Decoder** is three functions of a byte, written down as in the three places of
the code: the function called (`opcodes`), the size (`get_opcode_size`), and what
each function asserts of its opcode and reads behind it (`Asserted`,
`Immediates`). **Dispatch** looks up the library's symbols (`FindHwFuncs`, with
the wrong pointer tested after the last), then calls functions for arbitrary
bytes, fetched or posted as interrupts, and has what IN and OUT do to the shift
register of si (ports 2 to 4) and the console of basic. The register is as wide
as two bytes of `Width` bits; the code's 8 and its mask 0x07 are `Width` and
`Width - 1`. `Dispatch!Register` is the instance of **ShiftRegister**, one number that
is shifted as a whole.

Operators commented "Mutant of" are not part of any specification: they
are plausible bugs that the properties are tried against.

## 3. What the runs check

| Run | Instance | Shows |
|---|---|---|
| `senders` | 2 senders, chunk 3, costs 1 and 2, fair; 104,853 states | `TypeOK`; `IntLockHeldExactly`; `PendingNeverHalted` (case 5 of the switch cannot happen); `PollNeverOverdue`; `SendReturns`, `PostedIsConsumed`, `QuitIsHonoured` |
| `senders_overwrite` | 1 sender | violated: `PostedNotOverwritten` |
| `phantom` | no sender | violated: `HookOnlyWhenPopulated` |
| `taito` | chunk 2, cost 1, no spurious wakeup, fair; 71,836 states | `SomeThreadRuns`, `VideoSignalNotLost`, `BufferEmptyWhenSent`, `RenderedFrameIsWhole`, `NoLockNeededAfterQuit`, `ImplementsHandshake` (refinement); `FramesKeepComing`, `EscQuits`, `ResetIsHonoured` |
| `taito_spurious` | spurious wakeups; 1,733,772 states | `TypeOK` and `LocksHeldExactly` hold even then |
| `taito_flags` | as `taito` | violated: `FlagsUsedByOneThread` |
| `si` | six bits, fair; 158,720 states | `TypeOK`; `ControlsReadWhole`; `LoopingSoundStops`, `LoopingSoundPlays` |
| `si_shared_word` | the same | violated: `ChangedByOwner` |
| `alu` | ten operands; 642,641 states | `TypeOK`; `ImplementsManual` (refinement); `DecimalSums` by ADD/ADC and DAA; `WordArithmetic` by bytes |
| `machine` | one-bit bytes, four addresses; 160,091 states | `TypeOK`; `RomLoaded`; `RomProtected`; `StoredWordsKept` |
| `timers` | seconds of five ns, until 12 ns, one signal, fair; 477,573 states | `TypeOK`; `CyclesKeepTime`; `CpuWaitsForClock`; `InterruptsOnSchedule`; `CpuSleepEnds`, `FrontEndSleepEnds` |
| `dispatch` | all opcodes, every set of missing symbols, four-bit bytes in the shift register; 49,359 states | `NoAssertionFails`; `OperandsInPlace`; `OnlyTheHookMayBeNull`; `ImplementsShiftRegister` (refinement) |

Findings, that is, violations of what the repository says of itself:

* A pending interrupt can be overwritten, by one sender even: the CPU unlocks,
  then signals (`cpu_thread.c:132-133`; `cpu.h:57-59` says before), and
  `sendInterrupt` does not test the buffer again after its wait
  (`taitoScreen.cpp:190-191`). The taito front end itself is safe, since it
  waits for the hook before it can send again: `BufferEmptyWhenSent`.
* `cpu_thread.c:82` tests a pointer where line 88 tests the byte: a HLT with
  interrupts on ends at once, in an interrupt with opcode 0 that also turns
  interrupts off.
* `taito_struct_ops.c:28,48` gives the front end a reset/quit mutex of its own.
  The flags are raced on. `ResetIsHonoured` and `EscQuits` show that nothing
  worse than the race comes of it.
* `rom_struct.h:12-22`: a key that toggles DIP switch 5, 6 or 7 while the CPU is
  in an OUT to port 3 or 5 is undone by it, or puts back sounds the OUT has
  just set. The switch stays lost until it is pressed again; a sound is repaired
  by the program's next OUT, so what `play_sound` promises holds all the same.

Met while modelling, and not runs of their own:

* `cycle_timer.c:70` leaves a full second in `tv_nsec`, which `clock_nanosleep` refuses:
  that sleep is skipped. `CpuWaitsForClock` shows that it is never two in a row
  and `CyclesKeepTime` that the time is made up for.
* Both sleeps test `errno`, which `clock_nanosleep` does not set. A signal therefore
  cuts a sleep short, and if an old EINTR is in `errno` when the CPU's sleep is
  refused, its loop never ends: `CpuSleepEnds` has to exclude that. The front end
  is safe, since its target is never refused (`FrontEndSleepEnds`).
* `roms/README.md:12` says that the memory behind the ROM is zeroed; it is not
  (`main.c:38`). Line 34 describes a sizing byte of 0x10, which `main.c:317` rejects.
* `main.c:312` takes a failed read of the sizing byte for success. The mask in place
  is then not the file's: it is shifted by a page, or has pages of the wrong size, and
  protected bytes of the ROM are writable, against `roms/README.md:44`. `RomProtected`
  has `SizingByteRead` as the hypothesis of its part about the file; without it TLC
  finds the CPU running with such a mask after the loader's four steps. Of the mask
  in place, whichever it is, `RomProtected` says that what it protects is the ROM's.
* `main.c:278` tests `hw_destroy_struct` where `interrupt_hook` was looked up:
  `OnlyTheHookMayBeNull` is as strong as the code allows.
* A word stored at 0xffff wraps to address 0 and a word read there does not
  (`opcode_helpers.h:321-326`, `branch_opcodes.c:122`): `StoredWordsKept` is about
  all other addresses.
* `taitoScreen.cpp:492-496` says that the loop does not rotate the picture and SDL will,
  lines 506-509 that it does: it does (`PictureTurned`).
* R and Esc are looked at only between interrupts: with a program that lets none
  in, never. `EscQuits` and `ResetIsHonoured` have that as their hypothesis.

`alu` has no finding, but two comments of `arithmetic_opcodes.c` on the auxiliary
carry are not what the code computes nor what `Manual8080` asks for: INR sets it
when the low four bits of its operand are set, not three (lines 151-153), DCR
when its low four bits are not all reset (lines 175-177 have the opposite).

Deadlock is checked in every run but `taito_spurious`: there the two threads
really block each other (the front end, woken early, waits for the interrupt
mutex with the video mutex held, while the hook waits for the video mutex), as
neither `pthread_cond_wait` is in a loop. That is listed as a hazard; a run
with `SpuriousWakeups = TRUE` and `SomeThreadRuns` shows it in a few steps.

### Bounds

Two guards hold a bound, both in `Timers`: `Horizon` and `MaxSignals`. `CycleChunk` and `Costs` make the
cycle count finite: with a chunk of 2 or 3 and costs of 1 and 2 a poll falls
after the first, second or third opcode, inside an interrupt (with the mutex
held) and outside. `Addresses` = {0, 8, 16} are the reset vector and the
vectors of the two RSTs; pc matters for nothing else. Frames are numbered
modulo 3, which tells the frame at hand, the one before and an older one
apart. Two senders show contention for the buffer. As `pthread_cond_signal` may
wake the same one of two waiting senders for ever, `SendReturns` says of each that
its call returns if the other does not go on calling for ever. `SiHardware` is checked with six of the 28 bits: a key, the coin (which is active
low), the sound switch, a DIP switch of the shared byte, and in that byte a
looping sound of port 3 and a plain one of port 5. Bits of one kind are handled
alike, and the proofs are for any set of bits. SDL's queue holds at most one
press of each key, as a second one handled in the same call changes nothing
further. The ten operands of `alu` lie at the edges of the digits and of the sign
(0, 1, 9, 15, 16, 102, 127, 128, 153, 255); the accumulator takes all 256 values, as INR A
reaches each. The proofs have none of these bounds but the number of frames.

In `machine` a byte has one bit, an address two bits: words straddle two pages at
every second address and wrap at the last, and each file is shorter or longer than
what it is read into. Two register pairs are told apart, one of them HL; BC would
be another DE. The mask files have pages of one and of two bytes, give fewer or
more values than there are pages, are out of range or unreadable, and the read of
any sizing byte may fail. An empty file is left to the proofs: it stops `main`
or leaves a mask that is all zeroes, like no file, and doubles the states. In
`timers` a second has five nanoseconds, a chunk two or three and a half frame one
or two, so that targets fall before, on and after the turn of the second, on the
turn more than once; no target is set past `Horizon`, two seconds and more from the
start, and the clock stops there, which is a stuttering step and not a deadlock.
The second signal would only do what the first does. `dispatch` has the real
table; its shift register has bytes of four bits, the offset taken modulo 4.

### Fairness

`WF` of the CPU's next step and of the front end's: the scheduler runs a thread
that can run. `SF` for taking a mutex the other thread takes again and again:
the CPU holds each for a few instructions and sleeps without any of them once
per chunk, which is what `cpu.h:60-62` relies on as well. The player need not
press anything. In `SiHardware` the CPU finishes an IN or OUT but need not begin
one, and a sound that is played once or fades out ends (SDL's mixer thread). In `Timers`
the clock goes on and a thread whose sleep is over runs; no opcode has to be
executed and no frame begun. `Machine` and `Dispatch` have no liveness: their steps
are those of one thread that `CpuThread` schedules. What
the program must do is a hypothesis of the properties and
not fairness: `Interruptible` (it comes back to a fetch with interrupts on for
ever) and `PlayerPauses` (the queue is found empty again and again).
`QuitIsHonoured` has the hypothesis that in the end no more multi-byte opcodes
are posted: without it the property is false, since clearing one counts no
cycles and a sender can keep the loop from ever polling.

## 4. What is proved

All proofs are checked by TLAPS for every value of the constants that the named
assumptions allow: in the first two groups every chunk, every set of costs, every
set of addresses in 16 bits containing the vectors and every set of senders.

* `InterruptSendersProofs`: `Spec => []TypeOK`, `[]IntLockHeldExactly`,
  `[]PendingNeverHalted`, `[]PollNeverOverdue`. The last two need `FlagsInPlace`:
  an opcode runs only with halt off and the flag not pending, the buffer is only
  looked at with the flag at 1, the hook runs with both off. Without it a HLT
  run with the flag at 2 would not be excluded. One lemma per group of actions
  (`SenderStep`, `PollStep`, `FetchStep`, `HardwareStep`), put together in
  `SafeInductive`.
* `TaitoSystemProofs`: `TypeCorrect` and `LockDiscipline` hold with spurious
  wakeups too. `HandshakeKept` proves `HandshakeInv` from them when there are
  none. It says whose turn it is: while the front end waits for the hook its
  request is in the buffer and the CPU is not past the signal; at all other
  times the buffer holds nothing but an interrupt the CPU has signalled for
  and, interrupt mutex held, is about to clear. From it follow `SomeThreadRuns`
  (`NoDeadlock`, which goes through all six mutexes, both conditions and the join),
  `EveryInterruptServed` (`InterruptsServed`: no interrupt is overwritten, nor cleared
  before its half is copied; the promise of `cpu.h:47-59` that `senders_overwrite` shows
  broken elsewhere), `VideoSignalNotLost` (`SignalNotLost`), `BufferEmptyWhenSent`
  (`SendsIntoEmptyBuffer`, which needs the mutexes too) and `NoLockNeededAfterQuit`
  (`QuitNeedsNoLock`), none of which is inductive, and that every step is one of
  `VideoHandshake` or leaves it alone (`HandshakeSimulated`, `Implementation`).
* `VideoHandshakeProofs`: `WholeFrames`, with `Assembled`, the account of which
  band of which buffer is of which frame in each phase. `FramesWhole` carries it
  over to the two threads by the refinement. It also ties the bands to the buffers
  (`Picture`, in no run: four facts about pure functions). `PictureTurned`: whatever
  is in video memory and on the display, the two halves of a drawing leave the
  picture turned by a right angle. It rests on `PixelWrittenOnce`, that the index of
  `videoRamToTaitoBuffer` names a pixel's row, byte and bit without ambiguity and
  never leaves its buffer, and on `HalfDrawn`. `BandsOfRows`: a band is copied, or drawn,
  with a half exactly if each byte of its rows is, so the stamps of `VideoHandshake`
  stand for the bytes. `ColoursInPlace`: a cell of a colour mask covers the pixels of
  its entry in the PROM, and the entry's bits are its red, blue and green.
* `SiHardwareProofs`: `TypeCorrect` and `ControlsWhole`, for any set of watched
  bits. The second needs `KeystateLockHeld`: who holds the mutex where, and that
  the controls differ from what the last `handleInput` left only while the front
  end holds it.
* `Alu8080Proofs`, for every accumulator, operand and set of flags: the
  refinement of `Manual8080` (`Implementation`), with one lemma per opcode
  function on top of lemmas about the tricks (`HalfCarry`, `ParityByFolding`,
  `Borrow`, `Complement`, `AdjustSum`, `NineBits`). The inductive invariant is
  the type invariant: that A is a byte is what each of these lemmas needs, and
  what a function that forgot to truncate would break. `EveryWord` is
  `WordArithmetic` for all pairs of words. `DecimalAdjust` shows that DAA corrects
  a digit exactly if its decimal sum is above nine, hence `DecimalSumsHold`.

* `TimersProofs`, for every length of a second, cycle, chunk and line, any set of
  costs and any number of signals; that one carry is enough
  (`IntervalsAssumption`) is an assumption. `CycleCarry` and `ScreenCarry` say that a
  carry loses no time. `IInv` joins `TypeOK` and `CyclesKeepTime` with `TargetsSet`:
  a target that has been set is never taken for one that has not, since the clock
  is not at zero. On it rest `NeverFarAhead` and `FramesNeverDrift`. The bound of the
  first is not inductive: `ChunksAhead` tells a target that will be refused from one
  that will be waited for, and a full second in `tv_nsec` cannot come twice in a row
  because the carry starts from less. The second needs that the flag goes by the
  parity of the interrupts sent.
* `MachineProofs`, for every size of byte, every pair of files and any program: all
  four invariants of `machine`. `RunEffect` reduces each opcode function to registers in
  their ranges and at most one store of a byte or a word (`Stores`), so that memory
  has to be looked at only in `StoresKeepBytes` and `StoresKeepWords`. The inductive
  `IInv` carries what has been read so far through both loops of the loader
  (`ReadingRom`, `ReadingMask`), from the sizing byte on or, if its read failed, from
  the file's start, so that when the CPU starts the mask is what was read
  (`MaskInPlace`), and `RomKept`: what it protects is the ROM's. If the sizing byte was
  read, what the file protects is not writable (`ProtectedInMask`).
  `PagesAssumption` says of powers of two what holds for 0 to 16 bits.

* `DispatchProofs`: the table, the sizes and the assertions agree for each of the 256
  bytes (`TableAgrees`). The proof takes an opcode by its octal digits (`Digits`), as
  the assertions do: `Quarter0` to `Quarter3` go through the rows of the table, and
  `DataFunctions` and its like say once per function what it asserts and reads.
  On it rests `IInv`, which joins the three invariants with `Loaded`: the program runs
  only with a whole library, and then the two entries the compiler leaves null are
  `hw_in` and `hw_out`. `Implementation` is the refinement of `ShiftRegister` for bytes
  of any width: `WindowArithmetic` shows that the high byte's bits that stay and the
  low byte's bits that come in are, added, one quotient of the two-byte number, since
  the one is a multiple of `2^shift_offset` and the other less than it.
  `PowersAssumption` says of powers of two that exponents add up.

Only model-checked: the liveness properties, which need ENABLED and are out of the
prover's reach. Every other property of a passing run has its theorem.

## 5. Not modelled

The UNTHROTTLED build, in which `cycle_wait` returns at once and neither flag is
ever read (`README.md:119` of the repository says so), and BENCHMARK, which
prints. `parse_arguments`, which copies strings into fixed buffers. In
`SiHardware` a quit: the process ends and nothing is left to say of keys and
sounds. The window, and what SDL does with the two surfaces of a frame; `applyBlur`
is never called. The samples
and colour PROMs (`sound.c`, `mike_ufo.c`, `mike_laser.c`, `proms.c`) are tables of
numbers without control, and nine tenths of the lines of the repository; what
is played, and when it ends, is in `SiHardware`. What the libraries print. The unit
tests. `destroy_taito_struct` runs after both threads have ended.

## 6. Plan

1. The size of the colour PROMs (`proms.c`) against the loops that read them, and the
   mask that is selected (`setCurrColorMask`).
2. `destroy_taito_struct` and `destroy_rom_struct`, and what the start-up leaves behind
   when one of its steps fails.
