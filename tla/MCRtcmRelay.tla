----------------------------- MODULE MCRtcmRelay -----------------------------
(* RtcmRelay with a one-byte checksum, the parity of the sum, so that frames, *)
(* wrong checksums and frames inside candidates all occur in a short stream.  *)
EXTENDS RtcmRelay, SequencesExt

MCChecksum(s) == <<IF FoldLeft(LAMBDA sum, b : sum + b, 0, s) % 2 = 0 THEN 0 ELSE 1>>
=============================================================================
