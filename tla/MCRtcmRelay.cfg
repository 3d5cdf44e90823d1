SPECIFICATION FairSpec
CONSTANTS
  Alphabet = {0, 1, 211}
  CrcSize = 1
  Checksum <- MCChecksum
  MaxPayload = 1023
  TypeBytes = 1
  MaxChunk = 3
  MaxInput = 10
INVARIANTS
  TypeOK
  EveryByteAccountedFor
  OutputIsFrames
  NoFrameLost
  NothingHeldBack
PROPERTY FeedEnds
CHECK_DEADLOCK FALSE
