CONSTANTS
  Bytes = {0, 1}
  MaxBytes = 13
  MinChunk = 3
  MaxChunk = 6
  WindowBytes = 2
  RabinP = 3
  RabinMBits = 4
  LowerBits = 2
  MagicVal = 1
  PageSize = 4
  MaxFingerprints = 3
SPECIFICATION Spec
CHECK_DEADLOCK FALSE
INVARIANTS
  ChunksCoverMessage
  ReadsInBounds
  ChunkSizesBounded
  BuffersSuffice
  ContentDefined
