-------------------------- MODULE ProtocolAnalyzer --------------------------
(***************************************************************************)
(* lib/ProtocolAnalyzer: what the firmware counts in a stream of bytes that *)
(* starts anywhere, holds anything, and comes one byte at a time.  Three   *)
(* recognisers look at the same bytes: a pair of sync bytes (UBX), a       *)
(* three-letter prefix (NMEA), and a frame with a length and a checksum    *)
(* (RTCM3).                                                                *)
(***************************************************************************)
EXTENDS Integers, Sequences, FiniteSets

CONSTANTS
  Alphabet,     \* the bytes that may arrive
  CrcSize,      \* bytes of a checksum: 3 in the code
  Checksum(_),  \* crc24q of a sequence of bytes, as CrcSize bytes
  Capacity,     \* size of rtcmBuffer_: 1029 in the code
  MaxTypes,     \* size of stats_.rtcmTypes: 16 in the code
  MaxInput      \* bound: bytes fed between two resets

ASSUME AnalyzerAssumption ==
  /\ Alphabet \subseteq 0..255
  /\ CrcSize \in Nat \ {0} /\ MaxTypes \in Nat /\ MaxInput \in Nat
  /\ Capacity = 3 + 1023 + CrcSize

Preamble == 211  \* 0xD3

VARIABLES
  stats,     \* struct ProtocolStats
  previous,  \* previousByte_
  nmea,      \* nmeaState_
  buffer,    \* the first rtcmSize_ bytes of rtcmBuffer_
  expected,  \* rtcmExpected_
  input,     \* history: every byte fed since reset()
  good,      \* history: the accepted frames, as [from, to] in the input
  bad        \* history: the candidates with a wrong checksum

vars == <<stats, previous, nmea, buffer, expected, input, good, bad>>

NoStats == [bytes |-> 0, printable |-> 0, frames |-> 0, crcErrors |-> 0,
            ubx |-> 0, nmea |-> 0, types |-> <<>>]

Fresh ==
  /\ stats = NoStats /\ previous = 0 /\ nmea = 0
  /\ buffer = <<>> /\ expected = 0
  /\ input = <<>> /\ good = <<>> /\ bad = <<>>

-----------------------------------------------------------------------------
(* The two marker recognisers *)

Printable(b) == b \in 32..126 \cup {9, 10, 13}

UbxSync(b) == previous = 181 /\ b = 98

Dollar == 36
LetterG == 71
TalkerLetters == {78, 80}  \* N and P

\* Mutant: after `$G` only a talker letter counts, a new `$` is forgotten.
NextNmeaForgetful(b) ==
  CASE nmea = 0 -> IF b = Dollar THEN 1 ELSE 0
    [] nmea = 1 -> IF b = LetterG THEN 2 ELSE IF b = Dollar THEN 1 ELSE 0
    [] OTHER -> 0

NextNmea(b) ==
  CASE nmea = 1 /\ b = LetterG -> 2
    [] nmea = 2 /\ b \in TalkerLetters -> 0
    [] OTHER -> IF b = Dollar THEN 1 ELSE 0

NmeaPrefix(b) == nmea = 2 /\ b \in TalkerLetters

-----------------------------------------------------------------------------
(* feedRtcm *)

\* Mutant: the high bits of the length are not masked.
PayloadLengthUnmasked(s) == s[2] * 256 + s[3]

\* The ten length bits; the six reserved bits above them are ignored.
PayloadLength(s) == (s[2] % 4) * 256 + s[3]

\* Mutant: the length of the checksum is miscounted.
CandidateSizeShort(s) == 3 + PayloadLength(s) + CrcSize - 1

\* rtcmExpected_: header, payload, checksum.
CandidateSize(s) == 3 + PayloadLength(s) + CrcSize

MessageType(s) == s[4] * 16 + s[5] \div 16

\* Mutant: no look for the type among those already there.
RememberAgain(types, t) == IF Len(types) < MaxTypes THEN Append(types, t) ELSE types

Remember(types, t) ==
  IF Len(types) < MaxTypes /\ \A k \in 1..Len(types) : types[k] # t
  THEN Append(types, t) ELSE types

\* Where the candidate that ends with the present byte lies in the input.
Here(s) == [from |-> Len(input) + 2 - Len(s), to |-> Len(input) + 1]

\* The statistics after the byte b as the marker recognisers leave them.
Counted(b) ==
  [stats EXCEPT !.bytes = @ + 1,
                !.printable = @ + IF Printable(b) THEN 1 ELSE 0,
                !.ubx = @ + IF UbxSync(b) THEN 1 ELSE 0,
                !.nmea = @ + IF NmeaPrefix(b) THEN 1 ELSE 0]

\* Every byte: the counters and the two marker recognisers.
Mark(b) ==
  /\ input' = Append(input, b)
  /\ previous' = b
  /\ nmea' = NextNmea(b)

\* No candidate is open, or one has filled the buffer and is given up: only a
\* preamble opens one.
Seek(b) ==
  /\ buffer = <<>> \/ Len(buffer) >= Capacity
  /\ buffer' = IF b = Preamble THEN <<b>> ELSE <<>>
  /\ expected' = 0
  /\ stats' = Counted(b)
  /\ UNCHANGED <<good, bad>>

\* The third byte settles the length of the candidate.
ReadLength(b) ==
  LET s == Append(buffer, b)
  IN /\ Len(buffer) = 2
     /\ IF PayloadLength(s) > 1023 \/ CandidateSize(s) > Capacity
        THEN buffer' = <<>> /\ expected' = 0
        ELSE buffer' = s /\ expected' = CandidateSize(s)
     /\ stats' = Counted(b)
     /\ UNCHANGED <<good, bad>>

\* A byte inside the candidate.
Collect(b) ==
  /\ buffer # <<>> /\ Len(buffer) # 2 /\ Len(buffer) < Capacity
  /\ expected = 0 \/ Len(buffer) + 1 < expected
  /\ buffer' = Append(buffer, b)
  /\ stats' = Counted(b)
  /\ UNCHANGED <<expected, good, bad>>

\* Mutant: a candidate with a wrong checksum is kept open.
CloseKeepsBad(b) ==
  LET s == Append(buffer, b)
      body == SubSeq(s, 1, expected - CrcSize)
  IN /\ Len(buffer) > 2 /\ Len(buffer) < Capacity
     /\ expected # 0 /\ Len(s) >= expected
     /\ IF SubSeq(s, expected - CrcSize + 1, expected) = Checksum(body)
        THEN /\ stats' = [Counted(b) EXCEPT !.frames = @ + 1]
             /\ good' = Append(good, Here(s)) /\ bad' = bad
             /\ buffer' = <<>> /\ expected' = 0
        ELSE /\ stats' = [Counted(b) EXCEPT !.crcErrors = @ + 1]
             /\ bad' = Append(bad, Here(s)) /\ good' = good
             /\ buffer' = s /\ expected' = 0

\* The last byte of the candidate: accept it or drop all of it.
Close(b) ==
  LET s == Append(buffer, b)
      body == SubSeq(s, 1, expected - CrcSize)
  IN /\ Len(buffer) > 2 /\ Len(buffer) < Capacity
     /\ expected # 0 /\ Len(s) >= expected
     /\ IF SubSeq(s, expected - CrcSize + 1, expected) = Checksum(body)
        THEN /\ stats' = [Counted(b) EXCEPT
                            !.frames = @ + 1,
                            !.types = IF Len(body) >= 5
                                      THEN Remember(@, MessageType(body)) ELSE @]
             /\ good' = Append(good, Here(s)) /\ bad' = bad
        ELSE /\ stats' = [Counted(b) EXCEPT !.crcErrors = @ + 1]
             /\ bad' = Append(bad, Here(s)) /\ good' = good
     /\ buffer' = <<>> /\ expected' = 0

Feed(b) ==
  /\ Len(input) < MaxInput
  /\ Mark(b)
  /\ Seek(b) \/ ReadLength(b) \/ Collect(b) \/ Close(b)

\* Mutant: the statistics survive.
ResetKeepsStats ==
  /\ stats' = stats /\ previous' = 0 /\ nmea' = 0
  /\ buffer' = <<>> /\ expected' = 0
  /\ input' = <<>> /\ good' = <<>> /\ bad' = <<>>

Reset ==
  /\ stats' = NoStats /\ previous' = 0 /\ nmea' = 0
  /\ buffer' = <<>> /\ expected' = 0
  /\ input' = <<>> /\ good' = <<>> /\ bad' = <<>>

Init == Fresh
Next == Reset \/ \E b \in Alphabet : Feed(b)
Spec == Init /\ [][Next]_vars

-----------------------------------------------------------------------------
(* Properties *)

Interval == [from : 1..MaxInput, to : 1..MaxInput]

TypeOK ==
  /\ input \in Seq(Alphabet) /\ Len(input) <= MaxInput
  /\ stats.bytes = Len(input) /\ stats.printable \in 0..stats.bytes
  /\ stats.frames = Len(good) /\ stats.crcErrors = Len(bad)
  /\ stats.types \in Seq(Nat)
  /\ previous \in Alphabet \cup {0} /\ nmea \in 0..2
  /\ buffer \in Seq(Alphabet) /\ expected \in 0..Capacity
  /\ good \in Seq(Interval) /\ bad \in Seq(Interval)

\* The rtcmBuffer_ array is never written out of bounds, and the branch of
\* feedRtcm for a full buffer never runs: a candidate always ends in time.
BufferNeverFills ==
  /\ Len(buffer) < Capacity
  /\ Len(buffer) > 2 => Len(buffer) < expected

Bytes(f) == SubSeq(input, f.from, f.to)

\* What RTCM3 calls a frame, stated on its bytes alone.
IsFrame(s) ==
  /\ Len(s) >= 3 + CrcSize /\ s[1] = Preamble
  /\ Len(s) = 3 + PayloadLength(s) + CrcSize
  /\ SubSeq(s, Len(s) - CrcSize + 1, Len(s)) = Checksum(SubSeq(s, 1, Len(s) - CrcSize))

\* rtcmFrames counts true frames of the input only, and rtcmCrcErrors whole
\* candidates that are not frames.
CountedFramesAreReal ==
  /\ \A k \in 1..Len(good) : IsFrame(Bytes(good[k]))
  /\ \A k \in 1..Len(bad) :
       LET s == Bytes(bad[k])
       IN ~IsFrame(s) /\ Len(s) = 3 + PayloadLength(s) + CrcSize

Candidates ==
  {good[k] : k \in 1..Len(good)} \cup {bad[k] : k \in 1..Len(bad)}
    \cup (IF buffer = <<>> THEN {}
          ELSE {[from |-> Len(input) - Len(buffer) + 1, to |-> Len(input)]})

\* The candidates cut the input: none overlaps another, each begins at a
\* preamble, and every preamble of the input lies in one.  So no byte is
\* counted in two frames, and a frame can be missed only inside a candidate.
CandidatesCutTheInput ==
  /\ \A f, g \in Candidates : f # g => f.to < g.from \/ g.to < f.from
  /\ \A f \in Candidates : f.from <= f.to /\ input[f.from] = Preamble
  /\ \A i \in 1..Len(input) :
       input[i] = Preamble => \E f \in Candidates : f.from <= i /\ i <= f.to
  /\ Len(good) + Len(bad) + (IF buffer = <<>> THEN 0 ELSE 1) = Cardinality(Candidates)

\* rtcmTypes lists, without repetition, the types of accepted frames that
\* carry one, and all of them as long as it has room.
TypesOfFrames ==
  {MessageType(Bytes(good[k])) : k \in
     {j \in 1..Len(good) : good[j].to - good[j].from + 1 >= 5 + CrcSize}}

TypesAreThoseOfFrames ==
  LET listed == {stats.types[k] : k \in 1..Len(stats.types)}
  IN /\ listed \subseteq TypesOfFrames
     /\ Cardinality(listed) = Len(stats.types) /\ Len(stats.types) <= MaxTypes
     /\ Len(stats.types) < MaxTypes => listed = TypesOfFrames

\* The marker counters are the numbers of occurrences of B5 62 and of `$GN` or
\* `$GP` in the input, wherever it is cut and whatever precedes them.
MarkersAreOccurrences ==
  /\ stats.ubx = Cardinality({i \in 1 .. Len(input) - 1 :
                                input[i] = 181 /\ input[i + 1] = 98})
  /\ stats.nmea = Cardinality({i \in 1 .. Len(input) - 2 :
                                 /\ input[i] = Dollar /\ input[i + 1] = LetterG
                                 /\ input[i + 2] \in TalkerLetters})
=============================================================================
