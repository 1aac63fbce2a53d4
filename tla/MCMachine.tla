------------------------------ MODULE MCMachine ------------------------------
(***************************************************************************)
(* Machine for TLC: bytes of one bit and four addresses, so that every     *)
(* second word store straddles two pages and every fourth one wraps.       *)
(***************************************************************************)
EXTENDS Machine

MCPairs == {"DE", "HL"}
MCVectors == {0}

\* Shorter than the memory, and longer.
MCRoms == {<<1, 0>>, <<1, 1, 0, 1, 0>>}

(* Pages of one byte, the last not given; pages of two bytes, with an      *)
(* excess value; a sizing byte out of range.  Read without their sizing    *)
(* byte, the first leaves a page writable that it protects and the second  *)
(* protects one that it does not.  An empty file stops main or, when its   *)
(* read fails, leaves all of memory writable as no file does; it is left   *)
(* to the proofs, since it doubles the number of states.                   *)
MCMaskFiles == {<<0, 1, 0, 1>>, <<1, 0, 1, 1>>, <<2, 1>>}
=============================================================================
