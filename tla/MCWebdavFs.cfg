SPECIFICATION Spec
CONSTANTS
  Path = {1, 2, 3}
  Chunk <- MCChunk
  PlainSize <- MCPlainSize
  ComprSize <- MCComprSize
  PartSize = 10
  MaxFileSizeForCompression = 8
  MaxFileSizeToBundle = 9
  Versions <- MCVersions
  Handle = {h1}
  InitTries = 2
INVARIANTS
  TypeOK
  DbMatchesId
  ServedIsComplete
  FreshReadIsRight
PROPERTIES
  NeverOlder
  EventuallyCurrent
