\* Three clients, two failed forks use up the descriptors.
SPECIFICATION Spec
CONSTANTS
  Client = {c1, c2, c3}
  Backlog = 2
  MaxHeld = 2
  MayFail = {"fork", "accept", "child"}
INVARIANTS
  TypeOK
  EndedMeansClosed
PROPERTIES
  EveryClientServed
