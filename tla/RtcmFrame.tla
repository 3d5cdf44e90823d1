------------------------------ MODULE RtcmFrame ------------------------------
(***************************************************************************)
(* What RtcmParser of scripts/rtcm_pipeline.py takes for an RTCM3 frame:   *)
(* preamble, six reserved bits, ten bits of length, payload and checksum.  *)
(* The relay and the PCAP report share that parser.                        *)
(***************************************************************************)
EXTENDS Integers, Sequences

CONSTANTS
  Alphabet,     \* the bytes that may arrive
  CrcSize,      \* bytes of a checksum: 3 in the code
  Checksum(_),  \* crc24q of a sequence of bytes, as CrcSize bytes
  MaxPayload,   \* MAX_RTCM_PAYLOAD
  TypeBytes     \* payload bytes that a message type takes: 2 in the code

ASSUME FrameAssumption ==
  /\ Alphabet \subseteq 0..255
  /\ CrcSize \in Nat \ {0} /\ TypeBytes \in Nat /\ MaxPayload = 1023

Preamble == 211  \* 0xD3

\* Of a sequence that begins with three bytes of a header.
ReservedBits(s) == s[2] \div 4
PayloadLength(s) == (s[2] % 4) * 256 + s[3]
FrameLength(s) == 3 + PayloadLength(s) + CrcSize
HeaderIsRight(s) == ReservedBits(s) = 0 /\ PayloadLength(s) <= MaxPayload

CrcIsRight(raw) ==
  SubSeq(raw, Len(raw) - CrcSize + 1, Len(raw)) = Checksum(SubSeq(raw, 1, Len(raw) - CrcSize))

\* What begins with a preamble and may become a frame when more bytes come.
Incomplete(s) == Len(s) < 3 \/ (HeaderIsRight(s) /\ Len(s) < FrameLength(s))

\* What RTCM3 calls a frame, stated on the bytes alone.
IsFrame(s) ==
  /\ Len(s) >= 3 + CrcSize /\ s[1] = Preamble /\ ReservedBits(s) = 0
  /\ Len(s) = FrameLength(s) /\ CrcIsRight(s)
=============================================================================
