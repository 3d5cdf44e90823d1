SPECIFICATION MCSpec
CONSTANTS
  Alphabet = {0, 2, 211, 36, 71, 78, 98, 181}
  CrcSize = 1
  Checksum <- MCChecksum
  Capacity = 1027
  MaxTypes = 2
  MaxInput = 12
  MaxFrameInput = 12
  MaxMarkerInput = 7
INVARIANTS
  TypeOK
  BufferNeverFills
  CountedFramesAreReal
  CandidatesCutTheInput
  TypesAreThoseOfFrames
  MarkersAreOccurrences
