---------------------------- MODULE ShiftRegister ----------------------------
(***************************************************************************)
(* The shift register of the Space Invaders board, as the programs use it: *)
(* a register of two bytes that takes a new byte at its high end, and a    *)
(* window of one byte that is read at a settable offset from that end.     *)
(***************************************************************************)
EXTENDS Naturals

CONSTANT Width  \* the bits of a byte

VARIABLES
  register,
  offset,
  value      \* the byte last read

Byte == 0 .. 2^Width - 1

Init == register = 0 /\ offset = 0 /\ value = 0

SetOffset(k) == offset' = k /\ UNCHANGED <<register, value>>
ShiftIn(v) == register' = (v * 2^(2 * Width) + register) \div 2^Width /\ UNCHANGED <<offset, value>>
Read == value' = ((register * 2^offset) \div 2^Width) % 2^Width /\ UNCHANGED <<register, offset>>

Next ==
  \/ \E k \in 0 .. Width - 1 : SetOffset(k)
  \/ \E v \in Byte : ShiftIn(v)
  \/ Read

Spec == Init /\ [][Next]_<<register, offset, value>>
=============================================================================
