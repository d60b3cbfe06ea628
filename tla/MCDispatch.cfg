\* Four calls of every kind; every pair of calls; four calls with every fault.
SPECIFICATION Spec
CONSTANTS
  Applications <- MCApplications
INVARIANTS
  TypeOK
  OwnData
  OwnReply
  ReplyComes
  ExecutedInOrder
  FreedInTime
PROPERTIES
  CallsReturn
