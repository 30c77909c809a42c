\* Two threads, two buckets (1 cell: 1 page; 2 cells: 2 pages), one region of 3 pages.
SPECIFICATION Spec
CONSTANTS
  MAX_BYTES = 4
  MAX_MOVE = 2
  PAGE_BYTES = 2
  NPAGES = 4
  Thread = {t1, t2}
  Sizes = {1, 2}
  Base = {1}
  SpanId = {s1, s2, s3}
  MaxLive = 2
  NoThread = NoThread
  NoSpan = NoSpan
SYMMETRY Symmetry
INVARIANTS
  TypeOK
  ObjectsAccounted
  MapFindsOwner
  PagesAccounted
  CacheBounded
PROPERTY ImplementsHeap
