SPECIFICATION Spec
CONSTANTS
  Radix = 2
  AddressBits = 2
  Roms <- MCRoms
  MaskFiles <- MCMaskFiles
  NoFile = NoFile
  Unreadable = Unreadable
  Pairs <- MCPairs
  Vectors <- MCVectors
INVARIANTS
  TypeOK
  RomProtected
  RomLoaded
  StoredWordsKept
