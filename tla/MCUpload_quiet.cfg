SPECIFICATION MCSpecCopies
CONSTANTS
  Path = {1, 2, 3, 4}
  Chunk <- MCChunk
  PlainSize <- MCPlainSize
  ComprSize <- MCComprSize
  PartSize = 10
  MaxFileSizeForCompression = 8
  MaxFileSizeToBundle = 9
  Contents <- MCContentsPair
  EditsDuringRun = FALSE
  MaxRuns = 2
  MaxEdits = 1
INVARIANTS
  ReadsWhatWasScanned
  ExistsIsTrue
CHECK_DEADLOCK FALSE
