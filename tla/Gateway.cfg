\* Two users, two workers, one HTTP thread, two sessions and connections at a time.
SPECIFICATION Spec
CONSTANTS
  User = {u1, u2}
  Worker = {w1, w2}
  Thread = {t1}
  Ssid = {s1, s2}
  Conn = {c1, c2}
  None = None
  MAX_RESTARTS = 1
SYMMETRY Symmetry
INVARIANTS
  TypeOK
  ConnectionsAgree
  OneSession
  MarkIsOwned
CHECK_DEADLOCK FALSE
