-------------------------------- MODULE Loader --------------------------------
(***************************************************************************)
(* The part of main that reads the ROM file and its mask file into the     *)
(* memory and the write mask of the CPU.  Both files are read by a loop    *)
(* over read(2), which may return less than was asked for; when a read of  *)
(* these loops is interrupted (EINTR) it is made again and is no step      *)
(* here.  The read of the sizing byte is in no loop: whatever makes it     *)
(* fail, main goes on as if it had succeeded.                              *)
(*                                                                         *)
(* Bytes have Radix values and addresses two bytes: 256 and 65536 in the   *)
(* code, fewer for TLC.                                                    *)
(***************************************************************************)
EXTENDS Naturals, Sequences

CONSTANTS
  Radix,        \* the number of values of a byte
  AddressBits,  \* the bits of an address: 16
  Roms,         \* ROM files, sequences of bytes
  MaskFiles,    \* mask files: a sizing byte and one value per page
  NoFile,       \* there is no mask file
  Unreadable    \* it opens, but every read of it fails (a directory, say)

MAX_MEMORY == Radix * Radix
Byte == 0 .. Radix - 1
Address == 0 .. MAX_MEMORY - 1

ASSUME RadixAssumption == Radix \in Nat /\ Radix > 1
ASSUME AddressBitsAssumption == AddressBits \in Nat \ {0}

(* Pages of 2^0 to 2^16 bytes divide the memory, and the largest is all of *)
(* it.                                                                     *)
ASSUME PagesAssumption ==
  /\ \A s \in 0 .. AddressBits :
       /\ 2^s \in Nat \ {0}
       /\ MAX_MEMORY = 2^s * (MAX_MEMORY \div 2^s)
  /\ 2^AddressBits = MAX_MEMORY

ASSUME FilesAssumption ==
  /\ \A f \in Roms : f \in Seq(Byte)
  /\ \A f \in MaskFiles : f \in Seq(Nat)
  /\ NoFile # Unreadable
  /\ NoFile \notin Seq(Nat) /\ Unreadable \notin Seq(Nat)

VARIABLES
  place,       \* how far main is: reading a file, running the CPU, or exited
  rom,         \* the ROM file
  maskFile,    \* the mask file
  memory,      \* memory_space
  mask_shift,
  rom_mask,
  skipped,     \* bytes of the mask file read before its pages: its sizing byte, or none
  filled       \* bytes read so far of the ROM, or of the mask file's pages

files == <<rom, maskFile>>
loaderVars == <<place, files, memory, mask_shift, rom_mask, skipped, filled>>

Least(m, n) == IF m < n THEN m ELSE n
Pages(shift) == 0 .. (MAX_MEMORY \div 2^shift) - 1

\* The counts a read of `wanted` bytes can return when `left` are left.
ReadCounts(wanted, left) ==
  IF left = 0 THEN {0} ELSE 1 .. Least(wanted, left)

-----------------------------------------------------------------------------
\* Mutant of ReadRom: a short read is taken for the end of the file.
ReadRomOnce ==
  /\ place = "read_rom"
  /\ \E n \in ReadCounts(MAX_MEMORY - filled, Len(rom) - filled) :
       /\ memory' = [a \in Address |-> IF a \in filled .. filled + n - 1
                                       THEN rom[a + 1] ELSE memory[a]]
       /\ filled' = filled + n
  /\ place' = "open_mask"
  /\ UNCHANGED <<files, mask_shift, rom_mask, skipped>>

(* One turn of the loop over read(file, buffer, remaining_space), which    *)
(* ends when nothing remains or nothing was read.                          *)
ReadRom ==
  /\ place = "read_rom"
  /\ \E n \in ReadCounts(MAX_MEMORY - filled, Len(rom) - filled) :
       /\ memory' = [a \in Address |-> IF a \in filled .. filled + n - 1
                                       THEN rom[a + 1] ELSE memory[a]]
       /\ filled' = filled + n
       /\ place' = IF filled' = MAX_MEMORY \/ n = 0 THEN "open_mask" ELSE "read_rom"
  /\ UNCHANGED <<files, mask_shift, rom_mask, skipped>>

\* perror("Error reading input file"); exit(1)
ReadFails ==
  /\ \/ place = "read_rom"
     \/ place = "read_mask"
  /\ place' = "stopped"
  /\ UNCHANGED <<files, memory, mask_shift, rom_mask, skipped, filled>>

\* No mask file: one page, writable.
NoMask ==
  /\ place = "open_mask" /\ maskFile = NoFile
  /\ mask_shift' = AddressBits
  /\ rom_mask' = [page \in {0} |-> 0]
  /\ place' = "run"
  /\ UNCHANGED <<files, memory, skipped, filled>>

(* The values mask_shift can have after read(fd, mask_shift, 1), unless    *)
(* that is at the end of the file.  A failed read returns -1, which        *)
(* `!read(...)` takes for success: then mask_shift is an uninitialized     *)
(* variable of main, AddressBits standing for all that are too large.      *)
ShiftsRead(fails) ==
  IF fails THEN 0 .. AddressBits
  ELSE IF maskFile \in {Unreadable, <<>>} THEN {} ELSE {maskFile[1]}

\* *mask_shift > 15, or an empty mask file: exit(1)
RejectMask ==
  /\ place = "open_mask" /\ maskFile # NoFile
  /\ maskFile = <<>> \/ \E fails \in BOOLEAN : \E s \in ShiftsRead(fails) : s >= AddressBits
  /\ place' = "stopped"
  /\ UNCHANGED <<files, memory, mask_shift, rom_mask, skipped, filled>>

(* The sizing byte is read, or its read fails and the file is still at its *)
(* start.  The mask is allocated and zeroed.                               *)
ReadShift ==
  /\ place = "open_mask" /\ maskFile # NoFile
  /\ \E fails \in BOOLEAN :
       /\ mask_shift' \in {s \in ShiftsRead(fails) : s < AddressBits}
       /\ skipped' = IF fails THEN 0 ELSE 1
  /\ rom_mask' = [page \in Pages(mask_shift') |-> 0]
  /\ filled' = 0
  /\ place' = "read_mask"
  /\ UNCHANGED <<files, memory>>

\* One turn of the loop over read(fd, buffer, remaining_space).
ReadMask ==
  /\ place = "read_mask" /\ maskFile # Unreadable
  /\ LET pages == MAX_MEMORY \div 2^mask_shift IN
     \E n \in ReadCounts(pages - filled, Len(maskFile) - skipped - filled) :
       /\ rom_mask' = [page \in Pages(mask_shift) |->
                         IF page \in filled .. filled + n - 1
                         THEN maskFile[skipped + page + 1] ELSE rom_mask[page]]
       /\ filled' = filled + n
       /\ place' = IF filled' = pages \/ n = 0 THEN "run" ELSE "read_mask"
  /\ UNCHANGED <<files, memory, mask_shift, skipped>>

LoaderNext == ReadRom \/ ReadFails \/ NoMask \/ RejectMask \/ ReadShift \/ ReadMask

\* The memory comes from malloc and holds anything.
LoaderInit ==
  /\ place = "read_rom"
  /\ rom \in Roms /\ maskFile \in MaskFiles \cup {NoFile, Unreadable}
  /\ memory \in [Address -> Byte]
  /\ mask_shift = 0 /\ rom_mask = <<>>
  /\ skipped = 0 /\ filled = 0
=============================================================================
