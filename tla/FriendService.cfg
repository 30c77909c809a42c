\* Two users, two workers, two sessions at a time.
SPECIFICATION Spec
CONSTANTS
  User = {u1, u2}
  Worker = {w1, w2}
  SessionId = {s1, s2}
  None = None
SYMMETRY Symmetry
INVARIANTS
  TypeOK
  SessionsWellFormed
  PairConsistent
  RemoveFindsSession
PROPERTY GroupsStay
