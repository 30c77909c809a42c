SPECIFICATION WalkSpec
CONSTANTS
  MAX_BYTES = 262144
  MAX_MOVE = 512
  PAGE_BYTES = 4096
  NPAGES = 129
  NFREE_LIST = 208
INVARIANT RequestIsServed
PROPERTY BucketHoldsOneSize
CHECK_DEADLOCK FALSE
