\* Five strings fit, and one of them may be three times as long.
SPECIFICATION Spec
CONSTANTS
  InitialSize = 5
  LongSize = 3
  MayBeLong = {"VENDOR", "EXTENSIONS"}
  MaxLong = 1
INVARIANTS
  TypeOK
  LastErrorReported
  CopiesIntact
  NotEndedByStaleWord
