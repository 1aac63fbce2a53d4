------------------------------ MODULE MCDispatch ------------------------------
(***************************************************************************)
(* Dispatch for TLC: all 256 opcodes and every set of missing symbols;     *)
(* bytes of four bits in the shift register, where offsets are taken       *)
(* modulo 4; a key that quits, a newline and another key.                  *)
(***************************************************************************)
EXTENDS Dispatch

MCKeys == {\h04, \h0A, \h41}
=============================================================================
