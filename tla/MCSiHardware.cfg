SPECIFICATION FairSpec
CONSTANT Watched <- MCWatched
INVARIANTS
  TypeOK
  ControlsReadWhole
PROPERTIES
  LoopingSoundStops
  LoopingSoundPlays
