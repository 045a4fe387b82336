SPECIFICATION BundleSpec
CONSTANTS
  Path = {1, 2, 3, 4, 5}
  Chunk <- MCChunk
  PlainSize <- MCPlainSize
  ComprSize <- MCComprSize
  PartSize = 10
  MaxFileSizeForCompression = 9
  MaxFileSizeToBundle = 10
  Folders <- MCFolders
  RelPath <- MCRelPath
  SmallSize = 2
INVARIANTS
  BundleTypeOK
  EachFileOnce
  KeepsPromise
  BundleSizes
  NobodyForgotten
CHECK_DEADLOCK FALSE
