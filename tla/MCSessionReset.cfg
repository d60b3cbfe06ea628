\* A child whose connection is reset: expected to be violated.
SPECIFICATION Spec
CONSTANTS
  MaxCalls = 2
  SockSize = 1
  RingRoom <- MCRingRoom
  MayDie = {}
  MayReset = TRUE
  MayTimeOut = FALSE
PROPERTIES
  ServerAlwaysEnds
