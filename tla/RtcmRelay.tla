------------------------------ MODULE RtcmRelay ------------------------------
(***************************************************************************)
(* scripts/rtcm_pipeline.py: the incremental RTCM3 parser and the relay    *)
(* around it.  The source delivers the stream in chunks cut anywhere; the  *)
(* parser looks for frames in its buffer and resumes one byte after a      *)
(* preamble that led nowhere; the relay writes the frames of a chunk when  *)
(* feed() has returned all of them.  One turn of feed's loop is one step.  *)
(***************************************************************************)
EXTENDS RtcmFrame

CONSTANTS
  MaxChunk,     \* bound: bytes of one chunk (4096 in the code)
  MaxInput      \* bound: bytes of the whole stream

ASSUME RelayAssumption == {MaxChunk, MaxInput} \subseteq Nat

VARIABLES
  phase,      \* where the relay is: waiting for input, parsing, writing, over
  buffer,     \* _buffer
  discarded,  \* discarded_bytes
  crcErrors,  \* crc_errors
  frames,     \* the list that feed() will return, then what is left to write
  valid,      \* valid_frames and valid_bytes of StreamStats
  forwarded,  \* forwarded_frames
  input,      \* history: every byte fed, so that bytes_seen is its length
  accepted,   \* history: the frames cut out of the buffer, as [from, to]
  output      \* history: what was written to the destination

vars == <<phase, buffer, discarded, crcErrors, frames, valid, forwarded,
          input, accepted, output>>

\* Positions in the input of the first `n` bytes of the buffer.
Start == Len(input) - Len(buffer)
Here(n) == [from |-> Start + 1, to |-> Start + n]

Init ==
  /\ phase = "read" /\ buffer = <<>> /\ discarded = 0 /\ crcErrors = 0
  /\ frames = <<>> /\ valid = [frames |-> 0, bytes |-> 0] /\ forwarded = 0
  /\ input = <<>> /\ accepted = <<>> /\ output = <<>>

-----------------------------------------------------------------------------
(* feed *)

Chunks == UNION {[1..n -> Alphabet] : n \in 1..MaxChunk}

Feed(chunk) ==
  /\ phase = "read" /\ Len(input) + Len(chunk) <= MaxInput
  /\ input' = input \o chunk /\ buffer' = buffer \o chunk
  /\ phase' = "parse"
  /\ UNCHANGED <<discarded, crcErrors, frames, valid, forwarded, accepted, output>>

\* The first byte of the buffer is a preamble and its header is there.
HeaderReady == phase = "parse" /\ Len(buffer) >= 3 /\ buffer[1] = Preamble

\* Everything before the first preamble is noise.
SkipNoise ==
  /\ phase = "parse" /\ buffer # <<>> /\ buffer[1] # Preamble
  /\ \E n \in 1..Len(buffer) :
       /\ \A i \in 1..n : buffer[i] # Preamble
       /\ n < Len(buffer) => buffer[n + 1] = Preamble
       /\ discarded' = discarded + n
       /\ buffer' = SubSeq(buffer, n + 1, Len(buffer))
  /\ UNCHANGED <<phase, crcErrors, frames, valid, forwarded, input, accepted, output>>

\* Mutant: the whole header is dropped.
ResumeAfterHeader == SubSeq(buffer, 4, Len(buffer))

\* Only the preamble is dropped, so that a frame behind it can be found.
ResumeAfterPreamble == SubSeq(buffer, 2, Len(buffer))

\* Mutant: the dropped preamble is not counted.
PreambleUncounted == discarded

PreambleDiscarded == discarded + 1

RejectHeader ==
  /\ HeaderReady
  /\ ReservedBits(buffer) # 0 \/ PayloadLength(buffer) > MaxPayload
  /\ discarded' = PreambleDiscarded /\ buffer' = ResumeAfterPreamble
  /\ UNCHANGED <<phase, crcErrors, frames, valid, forwarded, input, accepted, output>>

CandidateReady ==
  HeaderReady /\ ReservedBits(buffer) = 0 /\ Len(buffer) >= FrameLength(buffer)

Raw == SubSeq(buffer, 1, FrameLength(buffer))

RejectCrc ==
  /\ CandidateReady /\ ~CrcIsRight(Raw)
  /\ crcErrors' = crcErrors + 1
  /\ discarded' = PreambleDiscarded /\ buffer' = ResumeAfterPreamble
  /\ UNCHANGED <<phase, frames, valid, forwarded, input, accepted, output>>

\* Mutant: a frame without a type is dropped but not counted.
UntypedUncounted(length) == discarded

UntypedDiscarded(length) == discarded + length

\* A frame too short for a message type is dropped, another is returned.
TakeFrame ==
  /\ CandidateReady /\ CrcIsRight(Raw)
  /\ buffer' = SubSeq(buffer, Len(Raw) + 1, Len(buffer))
  /\ accepted' = Append(accepted, Here(Len(Raw)))
  /\ \/ /\ PayloadLength(buffer) < TypeBytes
        /\ discarded' = UntypedDiscarded(Len(Raw)) /\ frames' = frames
     \/ /\ PayloadLength(buffer) >= TypeBytes
        /\ discarded' = discarded /\ frames' = Append(frames, Here(Len(Raw)))
  /\ UNCHANGED <<phase, crcErrors, valid, forwarded, input, output>>

\* Mutants: an off-by-one in what feed() waits for.
HeaderMissingTwo == buffer # <<>> /\ buffer[1] = Preamble /\ Len(buffer) < 2
BodyMissingOne ==
  HeaderReady /\ ReservedBits(buffer) = 0 /\ Len(buffer) <= FrameLength(buffer)

HeaderMissing == buffer # <<>> /\ buffer[1] = Preamble /\ Len(buffer) < 3
BodyMissing ==
  HeaderReady /\ ReservedBits(buffer) = 0 /\ Len(buffer) < FrameLength(buffer)

\* feed() returns: nothing is left, or what is left may be the head of a frame.
FeedReturns ==
  /\ phase = "parse"
  /\ buffer = <<>> \/ HeaderMissing \/ BodyMissing
  /\ phase' = "write"
  /\ UNCHANGED <<buffer, discarded, crcErrors, frames, valid, forwarded, input,
                 accepted, output>>

-----------------------------------------------------------------------------
(* The relay *)

Size(f) == f.to - f.from + 1

\* Mutant: the error of a write is swallowed.
CarryOn == "write"

AfterFailedWrite == "broken"

\* observe, write, flush.  The destination may fail: the exception ends the
\* relay, and only then may a part of the frame have gone out.
WriteFrame ==
  /\ phase = "write" /\ frames # <<>>
  /\ LET f == Head(frames)
     IN /\ valid' = [frames |-> valid.frames + 1, bytes |-> valid.bytes + Size(f)]
        /\ frames' = Tail(frames)
        /\ \/ /\ output' = Append(output, f) /\ forwarded' = forwarded + 1
              /\ phase' = "write"
           \/ /\ \E n \in 0 .. Size(f) :
                   output' = IF n = 0 THEN output
                             ELSE Append(output, [f EXCEPT !.to = f.from + n - 1])
              /\ forwarded' = forwarded
              /\ phase' = AfterFailedWrite
  /\ UNCHANGED <<buffer, discarded, crcErrors, input, accepted>>

NextChunk ==
  /\ phase = "write" /\ frames = <<>>
  /\ phase' = "read"
  /\ UNCHANGED <<buffer, discarded, crcErrors, frames, valid, forwarded, input,
                 accepted, output>>

\* End of the source, or its failure.
SourceEnds ==
  /\ phase = "read"
  /\ phase' \in {"end", "broken"}
  /\ UNCHANGED <<buffer, discarded, crcErrors, frames, valid, forwarded, input,
                 accepted, output>>

Parse == SkipNoise \/ RejectHeader \/ RejectCrc \/ TakeFrame \/ FeedReturns

Next ==
  \/ \E chunk \in Chunks : Feed(chunk)
  \/ Parse \/ WriteFrame \/ NextChunk \/ SourceEnds

Spec == Init /\ [][Next]_vars

\* feed() computes: nothing but its own steps can keep it.
FairSpec == Spec /\ WF_vars(Parse)

-----------------------------------------------------------------------------
(* Properties *)

Intervals == [from : 1..MaxInput, to : 1..MaxInput]

TypeOK ==
  /\ phase \in {"read", "parse", "write", "end", "broken"}
  /\ input \in Seq(Alphabet) /\ Len(input) <= MaxInput
  /\ buffer \in Seq(Alphabet) /\ Len(buffer) <= Len(input)
  /\ discarded \in 0..Len(input) /\ crcErrors \in 0..discarded
  /\ valid \in [frames : 0..MaxInput, bytes : 0..MaxInput]
  /\ forwarded \in 0..valid.frames
  /\ {frames, accepted, output} \subseteq Seq(Intervals)

Total(fs) == LET sum[k \in 0..Len(fs)] == IF k = 0 THEN 0 ELSE sum[k - 1] + Size(fs[k])
             IN sum[Len(fs)]

\* Every byte the parser has seen is discarded, part of a returned frame, or
\* pending: the report accounts for the whole input.
EveryByteAccountedFor ==
  /\ Len(input) = discarded + valid.bytes + Total(frames) + Len(buffer)
  /\ buffer = SubSeq(input, Start + 1, Len(input))

\* Where the valid frames of a sequence of bytes are.
FramesOf(s) ==
  {f \in [from : 1..Len(s), to : 1..Len(s)] :
     f.from <= f.to /\ IsFrame(SubSeq(s, f.from, f.to))}

\* "Only complete frames with a valid CRC-24Q are emitted by the relay path":
\* whatever the chunks, everything that went out is a frame of the input, in
\* the order of the input and without overlap, except for the part of a frame
\* that a failing destination took last.
OutputIsFrames ==
  /\ \A k \in 1..Len(output) :
       \/ IsFrame(SubSeq(input, output[k].from, output[k].to))
       \/ phase = "broken" /\ k = Len(output) /\ k = forwarded + 1
  /\ \A k \in 1..Len(output) - 1 : output[k].to < output[k + 1].from

\* Recovery: noise, bad headers and bad checksums hide no frame.  A frame that
\* begins before the pending bytes was accepted, or begins inside one that was:
\* what is accepted does not depend on how the stream was cut into chunks.
NoFrameLost ==
  \A f \in FramesOf(input) :
    f.from <= Start =>
      \E k \in 1..Len(accepted) : accepted[k].from <= f.from /\ f.from <= accepted[k].to

Typed(f) == PayloadLength(SubSeq(input, f.from, f.to)) >= TypeBytes

\* While the relay waits for input, and after a good end of its source, a valid
\* frame with a type is written, or it begins inside an accepted frame that
\* began before it, or behind the first of the pending bytes; and these are a
\* preamble for whose frame bytes are missing.  So a frame waits only for a
\* preamble before it to be filled or refuted; one that still waits at the end of
\* the source is not written, also where that preamble was noise.
NothingHeldBack ==
  phase \in {"read", "end"} =>
    /\ buffer # <<>> => buffer[1] = Preamble /\ Incomplete(buffer)
    /\ \A f \in FramesOf(input) :
         f.from <= Start /\ Typed(f) =>
           \/ \E k \in 1..Len(output) : output[k] = f
           \/ \E k \in 1..Len(accepted) : accepted[k].from < f.from /\ f.from <= accepted[k].to

\* feed() returns for every chunk: each turn of its loop consumes the buffer.
FeedEnds == phase = "parse" ~> phase # "parse"
=============================================================================
