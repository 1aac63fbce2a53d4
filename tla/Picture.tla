-------------------------------- MODULE Picture --------------------------------
(***************************************************************************)
(* The picture on its way from video memory to the display: the copies of  *)
(* the interrupt hook, the rotation and widening of each bit to a pixel    *)
(* by videoRamToTaitoBuffer, and the colour masks that the picture is laid *)
(* over.  A byte of video memory is the set of its bits that are 1, and a  *)
(* pixel of the display is TRUE where it is transparent.                   *)
(***************************************************************************)
EXTENDS Screen

TAITO_SCREEN_WIDTH == 256
TAITO_SCREEN_HEIGHT == 224
SCREEN_DIVIDE_ROW == 97
VBUFFER_SIZE == 1024 * 7
VIDEO_MEMORY_TOP_SIZE == \hC00
VIDEO_MEMORY_BOTTOM_SIZE == \h1000

\* The rows of video memory are the columns of the display.
Rows == 0 .. TAITO_SCREEN_HEIGHT - 1
BytesOfRow == 0 .. (TAITO_SCREEN_WIDTH \div 8) - 1
BitsOfByte == 0 .. 7
Columns == 0 .. TAITO_SCREEN_WIDTH - 1
Pixels == 0 .. TAITO_SCREEN_WIDTH * TAITO_SCREEN_HEIGHT - 1
Video == [0 .. VBUFFER_SIZE - 1 -> SUBSET BitsOfByte]

-----------------------------------------------------------------------------
(* hw_interrupt_hook: the bytes of vbuffer that each memcpy writes.        *)
CopiedBytes(half) ==
  IF half = "TOP" THEN 0 .. VIDEO_MEMORY_TOP_SIZE - 1
  ELSE VIDEO_MEMORY_TOP_SIZE .. VIDEO_MEMORY_TOP_SIZE + VIDEO_MEMORY_BOTTOM_SIZE - 1

(* videoRamToTaitoBuffer: start_row to end_row, and the two indices.       *)
DrawnRows(half) ==
  IF half = "TOP" THEN 0 .. SCREEN_DIVIDE_ROW - 1
  ELSE SCREEN_DIVIDE_ROW .. TAITO_SCREEN_HEIGHT - 1

VideoIndex(i, j) == i * (TAITO_SCREEN_WIDTH \div 8) + j
DisplayIndex(i, j, k) == (TAITO_SCREEN_WIDTH - j * 8 - k - 1) * TAITO_SCREEN_HEIGHT + i

\* display after the loops: pixels are opaque where the bit is 0.
VideoRamToTaitoBuffer(display, video, half) ==
  [p \in DOMAIN display |->
     IF \E i \in DrawnRows(half), j \in BytesOfRow, k \in BitsOfByte : p = DisplayIndex(i, j, k)
     THEN \E i \in DrawnRows(half), j \in BytesOfRow, k \in BitsOfByte :
            p = DisplayIndex(i, j, k) /\ k \in video[VideoIndex(i, j)]
     ELSE display[p]]

(* getColorMaskFromProm: where an entry of the PROM goes in a mask with a  *)
(* cell for eight by eight pixels, and its colour as SDL's RGB332.         *)
MaskIndex(i, j) ==
  ((TAITO_SCREEN_WIDTH \div 8) - j - 1) * (TAITO_SCREEN_HEIGHT \div 8) + i

MaskColour(entry) ==
  CASE entry = 0 -> 0        \* black
    [] entry = 1 -> \hE0     \* red
    [] entry = 2 -> \h03     \* blue
    [] entry = 3 -> \hE3     \* magenta
    [] entry = 4 -> \h1C     \* green
    [] entry = 5 -> \hFC     \* yellow
    [] entry = 6 -> \h1F     \* cyan
    [] entry = 7 -> \hFF     \* white

-----------------------------------------------------------------------------
(* The bands of Screen as rows: which of them the copies and the drawing   *)
(* of a half are about.                                                    *)
BandOf(i) == IF i < 96 THEN "top" ELSE IF i = 96 THEN "divide" ELSE "bottom"

(* What a picture turned left by a right angle is: the display's pixel in  *)
(* column x and line y is the bit of row x that is y from the row's end.   *)
Rotated(display, video) ==
  \A x \in Rows, y \in Columns :
    LET c == TAITO_SCREEN_WIDTH - 1 - y IN
      display[y * TAITO_SCREEN_HEIGHT + x] <=> (c % 8) \in video[VideoIndex(x, c \div 8)]
=============================================================================
