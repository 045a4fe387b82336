SPECIFICATION MCSpec
CONSTANTS
  Path = {1, 2}
  Chunk <- MCChunk
  PlainSize <- MCPlainSize
  ComprSize <- MCComprSize
  PartSize = 10
  MaxFileSizeForCompression = 8
  MaxFileSizeToBundle = 9
  Try = FALSE
  Dbs <- MCDbs
  MaxFiles = 5
INVARIANTS
  CleanTypeOK
  ReferencedStays
  
  RestKeepsACopy
  IndexSurvives
CHECK_DEADLOCK FALSE
