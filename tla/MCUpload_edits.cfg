SPECIFICATION Spec
CONSTANTS
  Path = {1, 2}
  Chunk <- MCChunk
  PlainSize <- MCPlainSize
  ComprSize <- MCComprSize
  PartSize = 10
  MaxFileSizeForCompression = 8
  MaxFileSizeToBundle = 9
  Contents <- MCContents
  EditsDuringRun = TRUE
  MaxRuns = 2
  MaxEdits = 2
INVARIANTS
  TypeOK
  IndexComplete
  NoDoubleUpload
  AtMostOneIndex
  IInv
PROPERTY
  CallEnds
CHECK_DEADLOCK FALSE
