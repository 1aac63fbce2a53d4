-------------------------------- MODULE Screen --------------------------------
(***************************************************************************)
(* The halves of the taito screen.  Rows 0-95 are "top", row 96 is         *)
(* "divide", rows 97-223 are "bottom": the interrupt hook copies 96 rows   *)
(* of video memory as the top half and the front end draws 97, so row 96   *)
(* is copied with one half and drawn with the other.                       *)
(***************************************************************************)
EXTENDS Naturals

Halves == {"TOP", "BOTTOM"}
Bands == {"top", "divide", "bottom"}

\* VIDEO_MEMORY_TOP_SIZE is 0xC00, 96 rows of 32 bytes
CopiedWith(half) == IF half = "TOP" THEN {"top"} ELSE {"divide", "bottom"}

\* Mutant of DrawnWith: the bottom half starts one row below the divide.
DrawnWithGap(half) == IF half = "TOP" THEN {"top"} ELSE {"bottom"}

\* SCREEN_DIVIDE_ROW is 97
DrawnWith(half) == IF half = "TOP" THEN {"top", "divide"} ELSE {"bottom"}

(* A frame is numbered modulo 3; a band's stamp is the frame it was copied *)
(* in.  Three numbers tell the frame at hand, the one before and an older  *)
(* one apart.                                                              *)
Frames == 0 .. 2
Following(frame) == (frame + 1) % 3
Preceding(frame) == (frame + 2) % 3

\* the stamps `to` once the bands in `bands` have taken those of `from`
Refresh(to, bands, from) == [b \in Bands |-> IF b \in bands THEN from[b] ELSE to[b]]
=============================================================================
