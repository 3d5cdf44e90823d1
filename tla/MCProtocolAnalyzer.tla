------------------------- MODULE MCProtocolAnalyzer -------------------------
(* A one-byte checksum, and the inputs that TLC enumerates: a long one over   *)
(* few bytes for the frames, a shorter one over those of the markers.         *)
EXTENDS ProtocolAnalyzer, SequencesExt

\* One byte of the frame alphabet, the parity of the sum: small enough for
\* frames, wrong checksums and frames inside candidates all to occur.
MCChecksum(s) == <<IF FoldLeft(LAMBDA sum, b : sum + b, 0, s) % 2 = 0 THEN 0 ELSE 2>>

FrameBytes == {0, 2, 211}
MarkerBytes == {36, 71, 78, 98, 181}

CONSTANTS MaxFrameInput, MaxMarkerInput  \* bounds: length of either input

MCNext ==
  /\ Next
  /\ \/ Range(input') \subseteq FrameBytes /\ Len(input') <= MaxFrameInput
     \/ Range(input') \subseteq MarkerBytes /\ Len(input') <= MaxMarkerInput

MCSpec == Init /\ [][MCNext]_vars
=============================================================================
