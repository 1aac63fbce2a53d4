---------------------------- MODULE MCSiHardware ----------------------------
(***************************************************************************)
(* SiHardware for TLC: of each kind of bit one, and two sounds in the byte *)
(* of the DIP switches, one of each port and one of them looping.          *)
(***************************************************************************)
EXTENDS SiHardware

MCWatched == {"p1_left", "coin", "sound_off", "dip7", "ufo_sound", "fast_invader1_sound"}
=============================================================================
