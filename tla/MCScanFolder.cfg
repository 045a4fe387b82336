SPECIFICATION MCSpec
CONSTANTS
  Path = {1, 2}
  Chunk <- MCChunk
  PlainSize <- MCPlainSize
  ComprSize <- MCComprSize
  PartSize = 10
  MaxFileSizeForCompression = 8
  MaxFileSizeToBundle = 9
  Root = 0
  Dir = Dir
  Contents <- MCContents
  MaxEdits = 2
  MaxClock = 2
INVARIANTS
  TypeOK
  ScanIsExact
  UnchangedIsCurrent
PROPERTIES
  EventuallyDescribed
