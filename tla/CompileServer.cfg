\* Two handlers, three requests within two milliseconds.
SPECIFICATION Spec
CONSTANTS
  Handler = {h1, h2}
  MaxRequests = 3
  MaxClock = 2
INVARIANTS
  TypeOK
  RequestsApart
  NothingLeftBehind
