\* A bucket whose spans have NPAGES - 1 pages next to a 1-page bucket.
SPECIFICATION FairSpec
CONSTANTS
  MAX_BYTES = 4
  MAX_MOVE = 2
  PAGE_BYTES = 2
  NPAGES = 4
  Thread = {t1, t2}
  Sizes = {1, 3}
  Base = {1}
  SpanId = {s1, s2, s3}
  MaxLive = 1
  NoThread = NoThread
  NoSpan = NoSpan
PROPERTY SomeCallEnds
