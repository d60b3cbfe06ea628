\* A reply looked for before it came: expected to be violated.
SPECIFICATION SafeSpec
CONSTANTS
  Applications <- MCStaleApplications
INVARIANTS
  OwnReply
