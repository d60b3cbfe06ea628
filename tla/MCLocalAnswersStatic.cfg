\* Strings beyond the first allocation: expected to be violated.
SPECIFICATION Spec
CONSTANTS
  InitialSize = 5
  LongSize = 3
  MayBeLong = {"VENDOR", "EXTENSIONS"}
  MaxLong = 1
INVARIANT
  StringsStatic
