\* Objects smaller than a pointer; three of them fill a chunk.
SPECIFICATION Spec
CONSTANTS
  SIZE = 3
  WORD = 4
  CHUNK = 12
  SIZE_MAX = 31
  Base = {10, 22, 40}
INVARIANT PlacesSound
PROPERTY ImplementsHeap
