\* Two users and two handlers, five requests.
SPECIFICATION Spec
CONSTANTS
  User = {u1, u2}
  Name = {a1, a2}
  Phone = {p1}
  Text = {t1}
  Handler = {h1, h2}
  None = None
  MAX_REQUESTS = 5
  MAX_RESTARTS = 1
SYMMETRY Symmetry
INVARIANTS
  RowsSound
  FieldsKept
  IndexFollowsTable
CHECK_DEADLOCK FALSE
