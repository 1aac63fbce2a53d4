------------------------- MODULE VideoHandshakeProofs -------------------------
(***************************************************************************)
(* VideoHandshake renders whole frames, and what it draws in bands is what *)
(* the code draws pixel by pixel (Picture).                                *)
(***************************************************************************)
EXTENDS VideoHandshake, Picture, Integers, TLAPS

-----------------------------------------------------------------------------
(* Frame numbers modulo 3: the frame before the one that follows is the    *)
(* frame itself, and a frame, the one before and the one after differ.     *)
LEMMA FrameArithmetic ==
  ASSUME NEW f \in Frames
  PROVE  /\ Following(f) \in Frames /\ Preceding(f) \in Frames
         /\ Preceding(Following(f)) = f
         /\ Preceding(f) # f
<1>1. f = 0 \/ f = 1 \/ f = 2
  BY DEF Frames
<1>2. /\ (0 + 1) % 3 = 1 /\ (1 + 1) % 3 = 2 /\ (2 + 1) % 3 = 0
      /\ (0 + 2) % 3 = 2 /\ (1 + 2) % 3 = 0 /\ (2 + 2) % 3 = 1
  BY SMT
<1>. QED
  BY <1>1, <1>2 DEF Frames, Following, Preceding

(* Refresh replaces the stamps of the bands named, and no others.          *)
LEMMA RefreshedBands ==
  ASSUME NEW to \in [Bands -> Frames], NEW from \in [Bands -> Frames],
         NEW bands \in SUBSET Bands
  PROVE  /\ Refresh(to, bands, from) \in [Bands -> Frames]
         /\ \A b \in Bands : Refresh(to, bands, from)[b] = IF b \in bands THEN from[b] ELSE to[b]
  BY DEF Refresh

-----------------------------------------------------------------------------
(* The type invariant and Assembled are inductive.                         *)
LEMMA AssembledInductive == TypeOK /\ Assembled /\ [Next]_vars => (TypeOK /\ Assembled)'
<1> SUFFICES ASSUME TypeOK, Assembled, [Next]_vars
             PROVE  (TypeOK /\ Assembled)'
  OBVIOUS
<1>1. CASE Draw
  <2>1. /\ DrawnWith(half) \in SUBSET Bands
        /\ DrawnWith(half) = IF half = "TOP" THEN {"top", "divide"} ELSE {"bottom"}
    BY DEF DrawnWith, Bands
  <2>2. /\ display' \in [Bands -> Frames]
        /\ \A b \in Bands : display'[b] = IF b \in DrawnWith(half) THEN vbuffer[b] ELSE display[b]
    BY <1>1, <2>1, RefreshedBands DEF Draw, TypeOK
  <2>3. TypeOK'
    BY <1>1, <2>2 DEF Draw, TypeOK
  <2>4. Assembled'
    BY <1>1, <2>1, <2>2 DEF Draw, TypeOK, Assembled, TopCopied, BottomCopied, TopDrawn,
                            BottomDrawn, Bands, Halves
  <2>. QED
    BY <2>3, <2>4
<1>2. CASE Ask \/ Close
  BY <1>2 DEF Ask, Close, TypeOK, Assembled, TopCopied, BottomCopied, TopDrawn, BottomDrawn, Halves
<1>3. CASE Copy
  <2>1. /\ CopiedWith(half) \in SUBSET Bands
        /\ CopiedWith(half) = IF half = "TOP" THEN {"top"} ELSE {"divide", "bottom"}
    BY DEF CopiedWith, Bands
  <2>2. /\ vbuffer' \in [Bands -> Frames]
        /\ \A b \in Bands : vbuffer'[b] = IF b \in CopiedWith(half) THEN frame ELSE vbuffer[b]
    BY <1>3, <2>1, RefreshedBands DEF Copy, TypeOK
  <2>3. TypeOK'
    BY <1>3, <2>2 DEF Copy, TypeOK
  <2>4. Assembled'
    BY <1>3, <2>1, <2>2 DEF Copy, TypeOK, Assembled, TopCopied, BottomCopied, TopDrawn,
                            BottomDrawn, Bands, Halves
  <2>. QED
    BY <2>3, <2>4
<1>4. CASE GoOn
  BY <1>4 DEF GoOn, TypeOK, Assembled, TopCopied, BottomCopied, TopDrawn, BottomDrawn, Halves
<1>5. CASE Render
  <2>1. frame' \in Frames /\ Preceding(frame') = frame
    BY <1>5, FrameArithmetic DEF Render, TypeOK
  <2>2. TypeOK'
    BY <1>5, <2>1 DEF Render, TypeOK, Halves
  <2>3. Assembled'
    BY <1>5, <2>1 DEF Render, TypeOK, Assembled, TopCopied, BottomCopied, TopDrawn, BottomDrawn
  <2>. QED
    BY <2>2, <2>3
<1>6. CASE UNCHANGED vars
  BY <1>6 DEF vars, TypeOK, Assembled, TopCopied, BottomCopied, TopDrawn, BottomDrawn
<1>. QED
  BY <1>1, <1>2, <1>3, <1>4, <1>5, <1>6 DEF Next

(* Every frame the abstract handshake renders is one picture, copied       *)
(* during the frame before.                                                *)
THEOREM WholeFrames == Spec => []RenderedWhole
<1>1. Init => TypeOK /\ Assembled
  <2>1. Preceding(0) \in Frames
    BY FrameArithmetic DEF Frames
  <2>. QED
    BY <2>1 DEF Init, TypeOK, Assembled, TopCopied, BottomCopied, TopDrawn, BottomDrawn,
                Bands, Halves, Frames
<1>2. TypeOK /\ Assembled => RenderedWhole
  BY DEF TypeOK, Assembled, RenderedWhole, TopDrawn, BottomDrawn, Bands
<1>. QED
  BY <1>1, <1>2, AssembledInductive, PTL DEF Spec

-----------------------------------------------------------------------------
(* The buffers behind the bands.  The provers compare a number with a      *)
(* large literal only once the literal has a name, hence UpTo.             *)

LEMMA UpTo ==
  ASSUME NEW m \in Nat, NEW n \in Nat, NEW p \in Nat
  PROVE  p \in m .. n <=> m <= p /\ p <= n
  OBVIOUS

LEMMA PixelRange ==
  ASSUME NEW p \in Nat
  PROVE  p \in Pixels <=> p <= 57343
<1>1. PICK n \in Nat : n = 57343
  OBVIOUS
<1>2. Pixels = 0 .. n
  BY <1>1 DEF Pixels, TAITO_SCREEN_WIDTH, TAITO_SCREEN_HEIGHT
<1>3. p \in 0 .. n <=> 0 <= p /\ p <= n
  BY UpTo
<1>4. p \in Pixels <=> p <= n
  BY <1>2, <1>3
<1>. QED
  BY <1>1, <1>4

LEMMA Sizes ==
  /\ Rows = 0 .. 223 /\ BytesOfRow = 0 .. 31 /\ BitsOfByte = 0 .. 7
  BY DEF TAITO_SCREEN_WIDTH, TAITO_SCREEN_HEIGHT, Rows, BytesOfRow, BitsOfByte

LEMMA Numbers ==
  /\ TAITO_SCREEN_WIDTH = 256 /\ TAITO_SCREEN_HEIGHT = 224
  /\ TAITO_SCREEN_WIDTH \div 8 = 32 /\ TAITO_SCREEN_HEIGHT \div 8 = 28
  BY DEF TAITO_SCREEN_WIDTH, TAITO_SCREEN_HEIGHT

LEMMA Indices ==
  ASSUME NEW i \in Rows, NEW j \in BytesOfRow, NEW k \in BitsOfByte
  PROVE  /\ DisplayIndex(i, j, k) = (255 - (j * 8 + k)) * 224 + i
         /\ VideoIndex(i, j) = i * 32 + j
  BY Numbers, Sizes DEF DisplayIndex, VideoIndex

(* Bit k of byte j is in column 8j + k of its row, and the only one there. *)
LEMMA ColumnOfBit ==
  ASSUME NEW j \in 0 .. 31, NEW k \in 0 .. 7
  PROVE  j * 8 + k \in 0 .. 255 /\ (j * 8 + k) \div 8 = j /\ (j * 8 + k) % 8 = k
  OBVIOUS

LEMMA BitOfColumn ==
  ASSUME NEW c \in 0 .. 255
  PROVE  \E j \in 0 .. 31, k \in 0 .. 7 : c = j * 8 + k /\ j = c \div 8 /\ k = c % 8
  OBVIOUS

LEMMA LineOfPixel ==
  ASSUME NEW y \in 0 .. 255, NEW x \in 0 .. 223
  PROVE  (y * 224 + x) \div 224 = y
  OBVIOUS

LEMMA ColumnOfPixel ==
  ASSUME NEW y \in 0 .. 255, NEW x \in 0 .. 223
  PROVE  (y * 224 + x) % 224 = x
  OBVIOUS

LEMMA PixelInRange ==
  ASSUME NEW y \in 0 .. 255, NEW x \in 0 .. 223
  PROVE  y * 224 + x \in Nat /\ y * 224 + x <= 57343
  OBVIOUS

(* Whichever half is drawn, no index leaves its buffer and no pixel is     *)
(* written twice (taitoScreen.cpp:497-520).                                *)
THEOREM PixelWrittenOnce ==
  /\ \A i \in Rows, j \in BytesOfRow, k \in BitsOfByte :
       DisplayIndex(i, j, k) \in Pixels /\ VideoIndex(i, j) \in 0 .. VBUFFER_SIZE - 1
  /\ \A i, i2 \in Rows, j, j2 \in BytesOfRow, k, k2 \in BitsOfByte :
       DisplayIndex(i, j, k) = DisplayIndex(i2, j2, k2) => i = i2 /\ j = j2 /\ k = k2
<1>1. ASSUME NEW i \in Rows, NEW j \in BytesOfRow, NEW k \in BitsOfByte
      PROVE  /\ DisplayIndex(i, j, k) \in Pixels /\ VideoIndex(i, j) \in 0 .. VBUFFER_SIZE - 1
             /\ DisplayIndex(i, j, k) % 224 = i
             /\ 255 - (DisplayIndex(i, j, k) \div 224) = j * 8 + k
  <2>1. i \in 0 .. 223 /\ j \in 0 .. 31 /\ k \in 0 .. 7
    BY Sizes
  <2>2. PICK y \in 0 .. 255 : y = 255 - (j * 8 + k)
    BY <2>1
  <2>3. DisplayIndex(i, j, k) = y * 224 + i
    BY <2>2, Indices
  <2>4. DisplayIndex(i, j, k) \in Pixels
    <3>1. DisplayIndex(i, j, k) \in Nat /\ DisplayIndex(i, j, k) <= 57343
      BY <2>1, <2>3, PixelInRange
    <3>. QED
      BY <3>1, PixelRange
  <2>5. VideoIndex(i, j) \in 0 .. VBUFFER_SIZE - 1
    <3>1. i * 32 + j \in 0 .. 7168 - 1
      BY <2>1
    <3>2. VideoIndex(i, j) = i * 32 + j /\ VBUFFER_SIZE = 7168
      BY Indices DEF VBUFFER_SIZE
    <3>. QED
      BY <3>1, <3>2
  <2>6. DisplayIndex(i, j, k) % 224 = i
    BY <2>1, <2>3, ColumnOfPixel
  <2>7. 255 - (DisplayIndex(i, j, k) \div 224) = j * 8 + k
    <3>1. DisplayIndex(i, j, k) \div 224 = y
      BY <2>1, <2>3, LineOfPixel
    <3>. QED
      BY <2>1, <2>2, <3>1
  <2>. QED
    BY <2>4, <2>5, <2>6, <2>7
<1>2. ASSUME NEW i \in Rows, NEW i2 \in Rows, NEW j \in BytesOfRow, NEW j2 \in BytesOfRow,
             NEW k \in BitsOfByte, NEW k2 \in BitsOfByte,
             DisplayIndex(i, j, k) = DisplayIndex(i2, j2, k2)
      PROVE  i = i2 /\ j = j2 /\ k = k2
  <2>1. i = i2 /\ j * 8 + k = j2 * 8 + k2
    BY <1>1, <1>2
  <2>2. j \in 0 .. 31 /\ j2 \in 0 .. 31 /\ k \in 0 .. 7 /\ k2 \in 0 .. 7
    BY Sizes
  <2>. QED
    BY <2>1, <2>2
<1>. QED
  BY <1>1, <1>2

(* A call draws the rows of its half turned by a right angle, and leaves   *)
(* the others as they were.                                                *)
THEOREM HalfDrawn ==
  ASSUME NEW side \in Halves, NEW video \in Video, NEW before \in [Pixels -> BOOLEAN],
         NEW x \in Rows, NEW y \in Columns
  PROVE  LET result == VideoRamToTaitoBuffer(before, video, side)
             c == TAITO_SCREEN_WIDTH - 1 - y
             p == y * TAITO_SCREEN_HEIGHT + x
         IN  result[p] <=> IF x \in DrawnRows(side) THEN (c % 8) \in video[VideoIndex(x, c \div 8)]
                           ELSE before[p]
<1>. DEFINE result == VideoRamToTaitoBuffer(before, video, side)
            c == TAITO_SCREEN_WIDTH - 1 - y
            p == y * TAITO_SCREEN_HEIGHT + x
            j0 == c \div 8
            k0 == c % 8
<1>1. c \in 0 .. 255 /\ c = 255 - y /\ p = y * 224 + x /\ x \in 0 .. 223 /\ y \in 0 .. 255
  BY DEF Rows, Columns, TAITO_SCREEN_WIDTH, TAITO_SCREEN_HEIGHT
<1>. HIDE DEF c, p
<1>2. p \in Pixels
  <2>1. p \in Nat /\ p <= 57343
    BY <1>1, PixelInRange
  <2>. QED
    BY <2>1, PixelRange
<1>3. j0 \in BytesOfRow /\ k0 \in BitsOfByte /\ j0 * 8 + k0 = c
  <2>1. j0 \in 0 .. 31 /\ k0 \in 0 .. 7 /\ j0 * 8 + k0 = c
    BY <1>1, BitOfColumn
  <2>. QED
    BY <2>1, Sizes
<1>. HIDE DEF j0, k0
<1>4. p = DisplayIndex(x, j0, k0)
  <2>1. DisplayIndex(x, j0, k0) = (255 - c) * 224 + x
    BY <1>3, Indices
  <2>2. 255 - c = y
    BY <1>1
  <2>. QED
    BY <1>1, <2>1, <2>2
<1>5. DrawnRows(side) \subseteq Rows
  BY DEF DrawnRows, Rows, SCREEN_DIVIDE_ROW, TAITO_SCREEN_HEIGHT
<1>6. \A i \in DrawnRows(side), j \in BytesOfRow, k \in BitsOfByte :
        p = DisplayIndex(i, j, k) => i = x /\ j = j0 /\ k = k0
  <2>1. \A i \in Rows, j \in BytesOfRow, k \in BitsOfByte :
          DisplayIndex(i, j, k) = DisplayIndex(x, j0, k0) => i = x /\ j = j0 /\ k = k0
    BY <1>3, PixelWrittenOnce
  <2>. QED
    BY <1>4, <1>5, <2>1
<1>7. result[p] = IF \E i \in DrawnRows(side), j \in BytesOfRow, k \in BitsOfByte : p = DisplayIndex(i, j, k)
                  THEN \E i \in DrawnRows(side), j \in BytesOfRow, k \in BitsOfByte :
                         p = DisplayIndex(i, j, k) /\ k \in video[VideoIndex(i, j)]
                  ELSE before[p]
  BY <1>2 DEF VideoRamToTaitoBuffer
<1>. HIDE DEF result
<1>8. result[p] <=> IF x \in DrawnRows(side) THEN k0 \in video[VideoIndex(x, j0)] ELSE before[p]
  <2>1. CASE x \in DrawnRows(side)
    <3>1. \E i \in DrawnRows(side), j \in BytesOfRow, k \in BitsOfByte : p = DisplayIndex(i, j, k)
      BY <1>3, <1>4, <2>1
    <3>2. (\E i \in DrawnRows(side), j \in BytesOfRow, k \in BitsOfByte :
             p = DisplayIndex(i, j, k) /\ k \in video[VideoIndex(i, j)])
            <=> k0 \in video[VideoIndex(x, j0)]
      BY <1>3, <1>4, <1>6, <2>1
    <3>3. result[p] <=> \E i \in DrawnRows(side), j \in BytesOfRow, k \in BitsOfByte :
                        p = DisplayIndex(i, j, k) /\ k \in video[VideoIndex(i, j)]
      BY <1>7, <3>1, Zenon
    <3>. QED
      BY <2>1, <3>2, <3>3, Zenon
  <2>2. CASE x \notin DrawnRows(side)
    BY <1>6, <1>7, <2>2
  <2>. QED
    BY <2>1, <2>2
<1>. QED
  BY <1>8 DEF result, p, c, j0, k0

(* The two halves together are the whole picture, turned.                  *)
THEOREM PictureTurned ==
  ASSUME NEW video \in Video, NEW before \in [Pixels -> BOOLEAN]
  PROVE  Rotated(VideoRamToTaitoBuffer(VideoRamToTaitoBuffer(before, video, "TOP"), video, "BOTTOM"),
                 video)
<1>. DEFINE top == VideoRamToTaitoBuffer(before, video, "TOP")
            both == VideoRamToTaitoBuffer(top, video, "BOTTOM")
<1>1. top \in [Pixels -> BOOLEAN]
  BY DEF VideoRamToTaitoBuffer
<1>2. "TOP" \in Halves /\ "BOTTOM" \in Halves
  BY DEF Halves
<1>3. \A x \in Rows : x \notin DrawnRows("BOTTOM") => x \in DrawnRows("TOP")
  BY DEF DrawnRows, Rows, SCREEN_DIVIDE_ROW, TAITO_SCREEN_HEIGHT
<1>. HIDE DEF top, both
<1>4. ASSUME NEW x \in Rows, NEW y \in Columns
      PROVE  LET c == TAITO_SCREEN_WIDTH - 1 - y IN
               both[y * TAITO_SCREEN_HEIGHT + x] <=> (c % 8) \in video[VideoIndex(x, c \div 8)]
  <2>. DEFINE c == TAITO_SCREEN_WIDTH - 1 - y
              p == y * TAITO_SCREEN_HEIGHT + x
              bit == (c % 8) \in video[VideoIndex(x, c \div 8)]
  <2>1. both[p] <=> IF x \in DrawnRows("BOTTOM") THEN bit ELSE top[p]
    BY <1>1, <1>2, HalfDrawn DEF both
  <2>2. top[p] <=> IF x \in DrawnRows("TOP") THEN bit ELSE before[p]
    BY <1>2, HalfDrawn DEF top
  <2>. HIDE DEF c, p, bit
  <2>3. both[p] <=> bit
    BY <1>3, <2>1, <2>2
  <2>. QED
    BY <2>3 DEF c, p, bit
<1>. QED
  BY <1>4 DEF Rotated, both, top

(* The stamps stand for the buffers: a band is drawn, or copied, with a    *)
(* half exactly if each of its rows is, and a row is never copied in part  *)
(* (interrupt_hook.c:29-45, taitoScreen.cpp:481-490).                      *)
THEOREM BandsOfRows ==
  ASSUME NEW side \in Halves, NEW i \in Rows
  PROVE  /\ BandOf(i) \in Bands
         /\ BandOf(i) \in DrawnWith(side) <=> i \in DrawnRows(side)
         /\ \A j \in BytesOfRow :
              BandOf(i) \in CopiedWith(side) <=> VideoIndex(i, j) \in CopiedBytes(side)
<1>1. side = "TOP" \/ side = "BOTTOM"
  BY DEF Halves
<1>2. i \in 0 .. 223
  BY Sizes
<1>3. BandOf(i) \in Bands
  BY DEF BandOf, Bands
<1>4. BandOf(i) \in DrawnWith(side) <=> i \in DrawnRows(side)
  BY <1>1, <1>2 DEF BandOf, DrawnWith, DrawnRows, SCREEN_DIVIDE_ROW, TAITO_SCREEN_HEIGHT
<1>5. ASSUME NEW j \in BytesOfRow
      PROVE  BandOf(i) \in CopiedWith(side) <=> VideoIndex(i, j) \in CopiedBytes(side)
  <2>1. VideoIndex(i, j) = i * 32 + j /\ j \in 0 .. 31
    BY Numbers, Sizes DEF VideoIndex
  <2>2. CopiedBytes(side) = IF side = "TOP" THEN 0 .. 3071 ELSE 3072 .. 7167
    BY DEF CopiedBytes, VIDEO_MEMORY_TOP_SIZE, VIDEO_MEMORY_BOTTOM_SIZE
  <2>4. BandOf(i) \in CopiedWith(side) <=> IF side = "TOP" THEN i < 96 ELSE i >= 96
    BY <1>1, <1>2 DEF BandOf, CopiedWith
  <2>5. CASE side = "TOP"
    <3>. DEFINE v == VideoIndex(i, j)
    <3>1. v \in Nat /\ (v < 3072 <=> i < 96)
      BY <1>2, <2>1
    <3>. HIDE DEF v
    <3>2. v \in 0 .. 3071 <=> v < 3072
      BY <3>1
    <3>3. CopiedBytes(side) = 0 .. 3071
      BY <2>2, <2>5
    <3>4. v \in CopiedBytes(side) <=> i < 96
      BY <3>1, <3>2, <3>3
    <3>. QED
      BY <2>4, <2>5, <3>4 DEF v
  <2>6. CASE side = "BOTTOM"
    <3>. DEFINE v == VideoIndex(i, j)
    <3>1. v \in Nat /\ v < 7168 /\ (v >= 3072 <=> i >= 96)
      BY <1>2, <2>1
    <3>. HIDE DEF v
    <3>. DEFINE m == 3072
                n == 7167
    <3>3. CopiedBytes(side) = m .. n
      BY <2>2, <2>6
    <3>4. m \in Nat /\ n \in Nat /\ (v >= 3072 <=> m <= v) /\ v <= n
      BY <3>1
    <3>. HIDE DEF m, n
    <3>5. v \in m .. n <=> m <= v /\ v <= n
      BY <3>1, <3>4, UpTo
    <3>6. v \in CopiedBytes(side) <=> i >= 96
      BY <3>1, <3>3, <3>4, <3>5
    <3>. QED
      BY <2>4, <2>6, <3>6 DEF v
  <2>. QED
    BY <1>1, <2>5, <2>6
<1>. QED
  BY <1>3, <1>4, <1>5

(* A cell of the colour mask lies over the eight by eight pixels of the    *)
(* PROM's entry for them, and its colour is one bit of the entry each for  *)
(* red, blue and green (taitoScreen.cpp:128-173).                          *)
THEOREM ColoursInPlace ==
  /\ \A i \in Rows, j \in BytesOfRow, k \in BitsOfByte :
       LET p == DisplayIndex(i, j, k) IN
         MaskIndex(i \div 8, j) = ((p \div TAITO_SCREEN_HEIGHT) \div 8) * (TAITO_SCREEN_HEIGHT \div 8)
                                    + (p % TAITO_SCREEN_HEIGHT) \div 8
  /\ \A red, blue, green \in 0 .. 1 :
       MaskColour(red + 2 * blue + 4 * green) = red * \hE0 + blue * \h03 + green * \h1C
<1>1. ASSUME NEW i \in Rows, NEW j \in BytesOfRow, NEW k \in BitsOfByte
      PROVE  LET p == DisplayIndex(i, j, k) IN
               MaskIndex(i \div 8, j) = ((p \div TAITO_SCREEN_HEIGHT) \div 8) * (TAITO_SCREEN_HEIGHT \div 8)
                                          + (p % TAITO_SCREEN_HEIGHT) \div 8
  <2>. DEFINE p == DisplayIndex(i, j, k)
  <2>1. i \in 0 .. 223 /\ j \in 0 .. 31 /\ k \in 0 .. 7
    BY Sizes
  <2>2. PICK y \in 0 .. 255 : y = 255 - (j * 8 + k)
    BY <2>1
  <2>3. p = y * 224 + i
    BY <2>2, Indices
  <2>. HIDE DEF p
  <2>4. p \div 224 = y /\ p % 224 = i
    BY <2>1, <2>3, LineOfPixel, ColumnOfPixel
  <2>5. y \div 8 = 31 - j
    BY <2>1, <2>2
  <2>6. MaskIndex(i \div 8, j) = (31 - j) * 28 + i \div 8
    <3>1. 32 - j - 1 = 31 - j
      BY <2>1
    <3>. QED
      BY <3>1, Numbers DEF MaskIndex
  <2>7. MaskIndex(i \div 8, j) = ((p \div 224) \div 8) * 28 + (p % 224) \div 8
    BY <2>4, <2>5, <2>6
  <2>8. TAITO_SCREEN_HEIGHT = 224 /\ TAITO_SCREEN_HEIGHT \div 8 = 28
    BY DEF TAITO_SCREEN_HEIGHT
  <2>9. MaskIndex(i \div 8, j) = ((p \div TAITO_SCREEN_HEIGHT) \div 8) * (TAITO_SCREEN_HEIGHT \div 8)
                                  + (p % TAITO_SCREEN_HEIGHT) \div 8
    BY <2>7, <2>8
  <2>. QED
    BY <2>9 DEF p
<1>2. ASSUME NEW red \in 0 .. 1, NEW blue \in 0 .. 1, NEW green \in 0 .. 1
      PROVE  MaskColour(red + 2 * blue + 4 * green) = red * \hE0 + blue * \h03 + green * \h1C
  BY DEF MaskColour
<1>. QED
  BY <1>1, <1>2
=============================================================================
