------------------------------- MODULE MCTimers -------------------------------
(***************************************************************************)
(* Timers for TLC: seconds of five nanoseconds, chunks of two or three and *)
(* half frames of one or two, so that targets fall on, before and after    *)
(* the turn of each second.                                                *)
(***************************************************************************)
EXTENDS Timers

MCCosts == {1, 2}
=============================================================================
