SPECIFICATION Spec
CONSTANT Watched <- MCWatched
PROPERTIES
  ChangedByOwner
