SPECIFICATION MCSpec
CONSTANTS
  Path = {1, 2}
  Chunk <- MCChunk
  PlainSize <- MCPlainSize
  ComprSize <- MCComprSize
  PartSize = 10
  MaxFileSizeForCompression = 8
  MaxFileSizeToBundle = 9
  Contents <- MCContents
  EditsDuringRun = TRUE
  Root = 0
  MaxRuns = 4
  MaxEdits = 1
  MaxDeaths = 1
  MaxForced = 1
INVARIANTS
  IndexComplete
  UnchangedIsPublished
PROPERTIES
  MirrorSpec
  EventuallyPublished
CHECK_DEADLOCK FALSE
