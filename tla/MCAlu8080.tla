----------------------------- MODULE MCAlu8080 -----------------------------
(***************************************************************************)
(* Alu8080 for TLC.  Every value of A and every reachable set of flags     *)
(* meets operands at the edges of the digits and of the sign.              *)
(***************************************************************************)
EXTENDS Alu8080

MCOperands == {0, 1, 9, 15, 16, 102, 127, 128, 153, 255}
=============================================================================
