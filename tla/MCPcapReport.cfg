SPECIFICATION Spec
CONSTANTS
  Alphabet = {0, 1, 5, 211}
  CrcSize = 1
  Checksum <- MCChecksum
  MaxPayload = 1023
  TypeBytes = 1
  Packets <- MCPackets
  Options <- MCOptions
  PadTo = 1
  MaxPackets = 3
INVARIANTS
  DirectionsAreAccounted
  FramesAreThoseOfTheFlow
CHECK_DEADLOCK FALSE
