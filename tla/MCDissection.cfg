\* A file of one large frame, or of several small ones.
CONSTANTS
  FileSize = 133
  MaxRecord = 117
  Number <- MCNumber
  Nibble = {4, 5, 6}
SPECIFICATION Spec
INVARIANTS
  TypeOK
  NoOverread
  HostInside
  PayloadAgreed
  WalkEnds
