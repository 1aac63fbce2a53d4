------------------------------- MODULE Dispatch -------------------------------
(***************************************************************************)
(* From the opcode's byte to the function that runs: find_hw_funcs fills   *)
(* in the table, the fetch loop and the interrupt entry look functions up  *)
(* in it, and IN and OUT go to the hardware library that was loaded.  Of   *)
(* what IN and OUT do, here are the shift register of the si library and   *)
(* the console of the basic library; SiHardware has the other ports.       *)
(*                                                                         *)
(* The bytes fetched and the interrupts posted are arbitrary, and so is    *)
(* the accumulator that OUT finds.                                         *)
(***************************************************************************)
EXTENDS Decoder

CONSTANTS
  Width,     \* the bits of a byte of the shift register: 8
  Symbols,   \* what a library can define, of the names find_hw_funcs looks up
  Keys       \* the characters getch can return

Looked == {"hw_out", "hw_in", "hw_init_struct", "hw_destroy_struct", "hw_interrupt_hook"}
ASSUME DispatchAssumption ==
  /\ Width \in Nat \ {0}
  /\ Symbols \subseteq Looked
  /\ Keys \subseteq 0 .. 127

(* What is true of the powers of two up to that of two bytes.              *)
ASSUME PowersAssumption ==
  /\ \A k \in 0 .. Width : 2^k \in Nat \ {0} /\ 2^Width = 2^k * 2^(Width - k)
  /\ 2^(2 * Width) = 2^Width * 2^Width

VARIABLES
  place,         \* "start", "run", "exited", "aborted" by an assert, or "crashed"
  library,       \* the hardware library: si, basic, or one whose ports do nothing
  defined,       \* the symbols it defines
  table,         \* opcodes, as far as they depend on the library
  inPlace,       \* history: the last function read all of its instruction and no more
  shift_old, shift_new, shift_offset,  \* of struct rom_struct
  window,        \* history: what the last IN 3 read
  typed,         \* history: what the last IN 0x11 of the console gave the program
  quit_flag

shiftVars == <<shift_old, shift_new, shift_offset, window>>
consoleVars == <<typed, quit_flag>>
vars == <<place, library, defined, table, inPlace, shiftVars, consoleVars>>

Byte == 0 .. 2^Width - 1
Null == "NULL"
Called(op) == IF op \in DOMAIN table THEN table[op] ELSE opcodes[op]

-----------------------------------------------------------------------------
(* find_hw_funcs.                                                          *)

\* Mutant of FindHwFuncs: a missing hw_in is not looked at.
FindHwFuncsLax ==
  /\ place = "start"
  /\ place' = IF {"hw_out", "hw_init_struct", "hw_destroy_struct"} \subseteq defined
              THEN "run" ELSE "exited"
  /\ table' = [op \in {OpcodeIn, OpcodeOut} |->
                 LET f == IF op = OpcodeIn THEN "hw_in" ELSE "hw_out" IN
                   IF f \in defined THEN f ELSE Null]
  /\ UNCHANGED <<library, defined, inPlace, shiftVars, consoleVars>>

(* Each symbol that is missing ends the program, but for the interrupt     *)
(* hook, after whose lookup hw_destroy_struct is tested again.             *)
FindHwFuncs ==
  /\ place = "start"
  /\ place' = IF Looked \ {"hw_interrupt_hook"} \subseteq defined THEN "run" ELSE "exited"
  /\ table' = [op \in {OpcodeIn, OpcodeOut} |->
                 LET f == IF op = OpcodeIn THEN "hw_in" ELSE "hw_out" IN
                   IF f \in defined THEN f ELSE Null]
  /\ UNCHANGED <<library, defined, inPlace, shiftVars, consoleVars>>

-----------------------------------------------------------------------------
(* hw_in and hw_out; opcode[1] is the port.                                *)

Otherwise == UNCHANGED <<shiftVars, consoleVars>>

\* Mutant of ReadWindow: the old byte comes one bit too high.
ReadWindowShifted ==
  /\ window' = ((shift_new * 2^shift_offset) % 2^Width) + ((2 * shift_old) \div 2^(Width - shift_offset))
  /\ UNCHANGED <<shift_old, shift_new, shift_offset, consoleVars>>

(* a = new << offset, a |= old >> (8 - offset); the two have no bit in     *)
(* common.                                                                 *)
ReadWindow ==
  /\ window' = ((shift_new * 2^shift_offset) % 2^Width) + (shift_old \div 2^(Width - shift_offset))
  /\ UNCHANGED <<shift_old, shift_new, shift_offset, consoleVars>>

\* a & 0x07
SetShiftOffset(a) ==
  /\ shift_offset' = a % Width
  /\ UNCHANGED <<shift_old, shift_new, window, consoleVars>>

ShiftIn(a) ==
  /\ shift_old' = shift_new
  /\ shift_new' = a
  /\ UNCHANGED <<shift_offset, window, consoleVars>>

\* getch returns a key or nothing; ^D, ^\ and ESC quit and leave a as it was.
QuitKeys == {\h04, \h1C, \h1B}
ReadConsole ==
  /\ \/ typed' = 0 /\ UNCHANGED quit_flag
     \/ \E key \in Keys \cap QuitKeys : quit_flag' = 1 /\ UNCHANGED typed
     \/ \E key \in Keys \ QuitKeys :
          typed' = (IF key = \h0A THEN \h0D ELSE key) /\ UNCHANGED quit_flag
  /\ UNCHANGED shiftVars

hw_in ==
  \/ library = "si" /\ ReadWindow
  \/ library = "basic" /\ ReadConsole
  \/ Otherwise

hw_out ==
  \/ library = "si" /\ \E a \in Byte : SetShiftOffset(a) \/ ShiftIn(a)
  \/ Otherwise

-----------------------------------------------------------------------------
\* A call of f for op: through a null pointer, into a failing assert, or well.
Outcome(f, op) ==
  IF f = Null THEN "crashed" ELSE IF op \notin Asserted(f) THEN "aborted" ELSE "run"

(* opcodes[op](opcode, cpu), where opcode points to r readable bytes of    *)
(* the instruction.                                                        *)
Call(op, r) ==
  LET f == Called(op) IN
    /\ inPlace' = (1 + Immediates(f) = r)
    /\ place' = Outcome(f, op)
    /\ \/ f = "hw_in" /\ hw_in
       \/ f = "hw_out" /\ hw_out
       \/ f \notin {"hw_in", "hw_out"} /\ Otherwise
    /\ UNCHANGED <<library, defined, table>>

\* normal_execution
Execute == place = "run" /\ \E op \in Opcodes : Call(op, get_opcode_size(op))

\* interrupt_execution: opcode points to the one-byte interrupt buffer.
Interrupt ==
  /\ place = "run"
  /\ \E op \in Opcodes :
       /\ get_opcode_size(op) = 1
       /\ "hw_interrupt_hook" \in defined
       /\ Call(op, 1)

\* The hook is a null pointer.
InterruptNull ==
  /\ place = "run" /\ "hw_interrupt_hook" \notin defined
  /\ place' = "crashed"
  /\ UNCHANGED <<library, defined, table, inPlace, shiftVars, consoleVars>>

Ended == place \in {"exited", "aborted", "crashed"} /\ UNCHANGED vars

Init ==
  /\ place = "start"
  /\ library \in {"si", "basic", "none"}
  /\ \E missing \in SUBSET Symbols : defined = Looked \ missing
  /\ table = [op \in {OpcodeIn, OpcodeOut} |-> Null]
  /\ inPlace = TRUE
  /\ shift_old = 0 /\ shift_new = 0 /\ shift_offset = 0 /\ window = 0
  /\ typed = 0 /\ quit_flag = 0

Next == FindHwFuncs \/ Execute \/ Interrupt \/ InterruptNull \/ Ended

Spec == Init /\ [][Next]_vars

-----------------------------------------------------------------------------
(* The table and the assertions agree: no byte, fetched or posted as an    *)
(* interrupt, reaches a function that rejects it (opcode_array.c:39-296    *)
(* and the assert of every opcode function, hw_in and hw_out).             *)
NoAssertionFails == place # "aborted"

(* The table and the sizes agree: a function reads after the opcode        *)
(* exactly the bytes that pc is moved over, neither running into the next  *)
(* instruction nor leaving one of its own bytes to be executed; and no     *)
(* interrupt makes a function read past the one-byte buffer                *)
(* (opcode_size.h:6-62, cpu_thread.c:99, 112).                             *)
OperandsInPlace == inPlace

(* The only null function that a loaded library can make the CPU call is   *)
(* the interrupt hook, whose lookup is not tested (main.c:277-286): a      *)
(* library that lacks anything else is refused at the start.               *)
OnlyTheHookMayBeNull == place = "crashed" => "hw_interrupt_hook" \notin defined

(* The two bytes, the offset and the shifts of ports 2, 3 and 4 are the    *)
(* two-byte register that programs take them for (hw_funcs.c:57-60, 76,    *)
(* 86-89).                                                                 *)
Register == INSTANCE ShiftRegister WITH
  register <- shift_new * 2^Width + shift_old,
  offset <- shift_offset,
  value <- window
ImplementsShiftRegister == Register!Spec
=============================================================================
