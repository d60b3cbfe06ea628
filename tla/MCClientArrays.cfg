\* Two attributes, memory written once, one buffer of the application.
SPECIFICATION Spec
CONSTANTS
  NAttribs = 2
  NNames = 3
  MaxOwned = 1
  MaxLen = 2
  MaxVersion = 1
INVARIANTS
  TypeOK
  MirrorAgrees
PROPERTIES
  RefinesVertexArrays
