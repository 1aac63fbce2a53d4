---------------------------- MODULE VideoHandshake ----------------------------
(***************************************************************************)
(* What the front end and the interrupt hook of the taito library promise  *)
(* each other about the picture, without threads, mutexes or conditions:   *)
(* the front end draws a half from the shared video buffer, asks for that  *)
(* half to be copied anew and does nothing more with the buffer until it   *)
(* has been; when both halves are done it renders.  TaitoSystem implements *)
(* this.                                                                   *)
(***************************************************************************)
EXTENDS Screen

VARIABLES
  phase,    \* what is due next
  half,     \* for which half
  frame,    \* the frame being assembled
  vbuffer,  \* the stamps of the shared video buffer
  display   \* the stamps of the front end's own buffer

vars == <<phase, half, frame, vbuffer, display>>

Init ==
  /\ phase = "draw" /\ half = "TOP" /\ frame = 0
  /\ vbuffer = [b \in Bands |-> Preceding(0)]
  /\ display = [b \in Bands |-> Preceding(0)]

Draw ==
  /\ phase = "draw"
  /\ display' = Refresh(display, DrawnWith(half), vbuffer)
  /\ phase' = "ask"
  /\ UNCHANGED <<half, frame, vbuffer>>

Ask == phase = "ask" /\ phase' = "copy" /\ UNCHANGED <<half, frame, vbuffer, display>>

\* The player has quit; the keyboard is looked at once a frame.
Close ==
  /\ phase = "ask" /\ half = "BOTTOM" /\ phase' = "closed"
  /\ UNCHANGED <<half, frame, vbuffer, display>>

Copy ==
  /\ phase = "copy"
  /\ vbuffer' = Refresh(vbuffer, CopiedWith(half), [b \in Bands |-> frame])
  /\ phase' = "copied"
  /\ UNCHANGED <<half, frame, display>>

GoOn ==
  /\ phase = "copied"
  /\ phase' = IF half = "TOP" THEN "draw" ELSE "render"
  /\ half' = "BOTTOM"
  /\ UNCHANGED <<frame, vbuffer, display>>

Render ==
  /\ phase = "render"
  /\ frame' = Following(frame)
  /\ half' = "TOP"
  /\ phase' = "draw"
  /\ UNCHANGED <<vbuffer, display>>

Next == Draw \/ Ask \/ Close \/ Copy \/ GoOn \/ Render

Spec == Init /\ [][Next]_vars

(* A frame is rendered from one picture: every band of it was copied       *)
(* during the frame before (taito_start.cpp:14-31).                        *)
RenderedWhole == phase = "render" => \A b \in Bands : display[b] = Preceding(frame)

-----------------------------------------------------------------------------
(* The inductive invariant behind RenderedWhole: which bands of the two    *)
(* buffers are of the frame before, and which of the frame at hand, in     *)
(* each phase of each half.                                                *)
TypeOK ==
  /\ phase \in {"draw", "ask", "copy", "copied", "render", "closed"}
  /\ half \in Halves
  /\ frame \in Frames
  /\ vbuffer \in [Bands -> Frames]
  /\ display \in [Bands -> Frames]

TopCopied == half = "BOTTOM" \/ phase = "copied"
BottomCopied == half = "BOTTOM" /\ phase \in {"copied", "render"}
TopDrawn == half = "BOTTOM" \/ phase # "draw"
BottomDrawn == half = "BOTTOM" /\ phase # "draw"

Assembled ==
  /\ phase = "render" => half = "BOTTOM"
  /\ vbuffer["top"] = IF TopCopied THEN frame ELSE Preceding(frame)
  /\ \A b \in {"divide", "bottom"} :
       vbuffer[b] = IF BottomCopied THEN frame ELSE Preceding(frame)
  /\ TopDrawn => \A b \in {"top", "divide"} : display[b] = Preceding(frame)
  /\ BottomDrawn => display["bottom"] = Preceding(frame)
=============================================================================
