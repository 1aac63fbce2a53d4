-------------------------- MODULE MCInterruptSenders --------------------------
(***************************************************************************)
(* InterruptSenders for TLC: a chunk of three cycles against opcodes of    *)
(* one or two, so that a poll falls after every second or third opcode,    *)
(* inside an interrupt or outside.                                         *)
(***************************************************************************)
EXTENDS InterruptSenders

MCCosts == {1, 2}
MCAddresses == {0, 8, 16}
=============================================================================
