---------------------------- MODULE MCTaitoSystem ----------------------------
(***************************************************************************)
(* TaitoSystem for TLC.                                                    *)
(***************************************************************************)
EXTENDS TaitoSystem

MCCosts == {1}
MCAddresses == {0, 8, 16}
=============================================================================
