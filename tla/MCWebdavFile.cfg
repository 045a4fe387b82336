SPECIFICATION Spec
CONSTANTS
  Base <- MCBase
  FileSize = 21
  ReadSizes = {1, 5, 16, 32}
  Offsets <- MCOffsets
INVARIANTS
  TypeOK
  DeliversPlain
