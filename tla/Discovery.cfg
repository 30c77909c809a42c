\* Two nodes of the followed service and one of another, three starts in all, two faults.
SPECIFICATION DiscoverySpec
CONSTANTS
  Node = {n1, n2}
  Stranger = {x1}
  NoNode = NoNode
  INDEX = 3
  MAX_STARTS = 3
  MAX_FAULTS = 2
INVARIANTS
  DiscoveryTypeOK
  ListFollowsRegistry
PROPERTIES
  CallsFollowNodes
CHECK_DEADLOCK FALSE
