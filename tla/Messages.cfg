\* A text and a file, one retry of a call, two faults.
SPECIFICATION Spec
CONSTANTS
  TextPost = {p1}
  FilePost = {p2}
  None = None
  MAX_RETRY = 1
  MAX_FAULTS = 2
INVARIANTS
  TypeOK
  StoresAgree
  AnswerIsTrue
PROPERTIES
  ImplementsDelivery
  Settles
CHECK_DEADLOCK FALSE
