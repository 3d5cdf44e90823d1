--------------------------- MODULE RtcmRelay_proofs ---------------------------
(***************************************************************************)
(* RtcmParser.feed and the relay, for every alphabet, checksum, stream and *)
(* cut of the stream into chunks: the parser passes over a byte only if it *)
(* belongs to a frame or cannot begin one, whatever is still to come, and  *)
(* what is written are frames of the input in their order.  Every byte of  *)
(* the input is discarded, of a frame written or to be written, or still   *)
(* in the buffer: Total is a recursive function, and SetInduction over the *)
(* frames shows that what it chooses are the sums.                         *)
(***************************************************************************)
EXTENDS RtcmRelay, SequenceTheorems, FiniteSetTheorems, WellFoundedInduction, TLAPS

USE DEF Preamble

LEMMA ConstantTypes ==
  /\ \A b \in Alphabet : b \in 0..255
  /\ CrcSize \in Nat /\ CrcSize > 0
  /\ TypeBytes \in Nat /\ MaxChunk \in Nat /\ MaxInput \in Nat /\ MaxPayload = 1023
  BY FrameAssumption, RelayAssumption

-----------------------------------------------------------------------------
(* Frames in a sequence of bytes *)

\* Ten bits hold at most 1023.
LEMMA PayloadBound ==
  ASSUME NEW s \in Seq(Alphabet), Len(s) >= 3
  PROVE  PayloadLength(s) \in 0..1023 /\ FrameLength(s) \in Nat /\ FrameLength(s) > 3
<1>1. 2 \in 1..Len(s) /\ 3 \in 1..Len(s)
  OBVIOUS
<1> DEFINE high == s[2]
           low == s[3]
<1>2. high \in 0..255 /\ low \in 0..255
  BY <1>1, ElementOfSeq, ConstantTypes
<1>3. PayloadLength(s) = (high % 4) * 256 + low
  BY DEF PayloadLength
<1> HIDE DEF high, low
<1>4. high % 4 \in 0..3
  BY <1>2
<1>5. PayloadLength(s) \in 0..1023
  BY <1>2, <1>3, <1>4
<1>6. PICK n \in 0..1023 : n = PayloadLength(s)
  BY ZenonT(60), <1>5
<1>7. PICK c \in Nat : c = CrcSize /\ c > 0
  BY ConstantTypes
<1>8. FrameLength(s) = 3 + n + c
  BY <1>6, <1>7 DEF FrameLength
<1>9. FrameLength(s) \in Nat /\ FrameLength(s) > 3
  <2>1. 3 + n + c \in Nat /\ 3 + n + c > 3
    BY <1>7
  <2> QED
    BY <1>8, <2>1
<1> QED
  BY <1>5, <1>9

\* A part of a stream that begins in what is known of it agrees with that.
LEMMA PartOfStream ==
  ASSUME NEW s \in Seq(Alphabet), NEW t \in Seq(Alphabet),
         NEW p \in 1..Len(s), NEW q \in p .. Len(s) + Len(t)
  PROVE  LET w == SubSeq(s \o t, p, q)
         IN /\ w \in Seq(Alphabet) /\ Len(w) = q - p + 1
            /\ \A i \in 1 .. q - p + 1 : p + i - 1 <= Len(s) => w[i] = s[p + i - 1]
<1> DEFINE u == s \o t
<1>1. /\ u \in Seq(Alphabet) /\ Len(u) = Len(s) + Len(t)
      /\ \A i \in 1 .. Len(s) : u[i] = s[i]
  BY ConcatProperties
<1> HIDE DEF u
<1>2. \A i \in p .. q : u[i] \in Alphabet
  BY <1>1, ElementOfSeq
<1>3. /\ SubSeq(u, p, q) \in Seq(Alphabet) /\ Len(SubSeq(u, p, q)) = q - p + 1
      /\ \A i \in 1 .. q - p + 1 : SubSeq(u, p, q)[i] = u[p + i - 1]
  BY <1>2, SubSeqProperties
<1>4. \A i \in 1 .. q - p + 1 : p + i - 1 <= Len(s) => SubSeq(u, p, q)[i] = s[p + i - 1]
  BY SMTT(60), <1>1, <1>3
<1> QED
  BY <1>3, <1>4 DEF u

\* No frame begins at p, however the stream goes on.
Hopeless(s, p) ==
  \A t \in Seq(Alphabet) : \A q \in p .. Len(s) + Len(t) : ~IsFrame(SubSeq(s \o t, p, q))

\* A byte that is no preamble is hopeless.
LEMMA NoiseIsHopeless ==
  ASSUME NEW s \in Seq(Alphabet), NEW p \in 1..Len(s), s[p] # Preamble
  PROVE  Hopeless(s, p)
<1> SUFFICES ASSUME NEW t \in Seq(Alphabet), NEW q \in p .. Len(s) + Len(t),
                    IsFrame(SubSeq(s \o t, p, q))
             PROVE  FALSE
  BY DEF Hopeless
<1> DEFINE w == SubSeq(s \o t, p, q)
<1>1. 1 \in 1 .. q - p + 1 /\ p + 1 - 1 = p
  OBVIOUS
<1>2. w[1] = s[p]
  BY <1>1, PartOfStream
<1> QED
  BY <1>2 DEF IsFrame

\* What begins with a complete header has the length that the header says.
HeaderSays(s, p, b) ==
  \A t \in Seq(Alphabet) : \A q \in p .. Len(s) + Len(t) :
    IsFrame(SubSeq(s \o t, p, q)) => ReservedBits(b) = 0 /\ q - p + 1 = FrameLength(b)

LEMMA HeaderDecides ==
  ASSUME NEW s \in Seq(Alphabet), NEW p \in 1..Len(s), p + 2 <= Len(s),
         NEW b, b[2] = s[p + 1], b[3] = s[p + 2]
  PROVE  HeaderSays(s, p, b)
<1> SUFFICES ASSUME NEW t \in Seq(Alphabet), NEW q \in p .. Len(s) + Len(t),
                    IsFrame(SubSeq(s \o t, p, q))
             PROVE  ReservedBits(b) = 0 /\ q - p + 1 = FrameLength(b)
  BY DEF HeaderSays
<1> DEFINE w == SubSeq(s \o t, p, q)
<1>1. Len(w) = q - p + 1 /\ \A i \in 1 .. q - p + 1 : p + i - 1 <= Len(s) => w[i] = s[p + i - 1]
  BY PartOfStream
<1>2. Len(w) >= 3 + CrcSize /\ ReservedBits(w) = 0 /\ Len(w) = FrameLength(w)
  BY DEF IsFrame
<1> HIDE DEF w
<1>3. w[2] = b[2] /\ w[3] = b[3]
  <2>1. 2 \in 1 .. q - p + 1 /\ 3 \in 1 .. q - p + 1
    BY <1>1, <1>2, ConstantTypes
  <2>2. p + 2 - 1 <= Len(s) /\ p + 3 - 1 <= Len(s)
    OBVIOUS
  <2>3. w[2] = s[p + 2 - 1] /\ w[3] = s[p + 3 - 1]
    BY <1>1, <2>1, <2>2
  <2>4. p + 2 - 1 = p + 1 /\ p + 3 - 1 = p + 2
    OBVIOUS
  <2> QED
    BY <2>3, <2>4
<1>4. ReservedBits(w) = ReservedBits(b) /\ FrameLength(w) = FrameLength(b)
  BY <1>3 DEF ReservedBits, FrameLength, PayloadLength
<1> QED
  BY <1>1, <1>2, <1>4

\* More input makes no place less hopeless.
LEMMA HopelessStays ==
  ASSUME NEW s \in Seq(Alphabet), NEW more \in Seq(Alphabet), NEW p \in 1..Len(s),
         Hopeless(s, p)
  PROVE  Hopeless(s \o more, p)
<1> SUFFICES ASSUME NEW t \in Seq(Alphabet), NEW q \in p .. Len(s \o more) + Len(t)
             PROVE  ~IsFrame(SubSeq((s \o more) \o t, p, q))
  BY DEF Hopeless
<1>1. /\ more \o t \in Seq(Alphabet) /\ Len(more \o t) = Len(more) + Len(t)
      /\ Len(s \o more) = Len(s) + Len(more) /\ (s \o more) \o t = s \o (more \o t)
  BY SMTT(60), ConcatProperties, ConcatAssociative
<1>2. q \in p .. Len(s) + Len(more \o t)
  BY <1>1
<1> QED
  BY <1>1, <1>2 DEF Hopeless

-----------------------------------------------------------------------------
(* The buffer is the end of the input *)

BufferInv ==
  /\ phase \in {"read", "parse", "write", "end", "broken"}
  /\ input \in Seq(Alphabet) /\ Len(input) <= MaxInput
  /\ buffer \in Seq(Alphabet) /\ Len(buffer) <= Len(input)
  /\ \A i \in 1..Len(buffer) : buffer[i] = input[Start + i]
  /\ discarded \in 0..Start /\ crcErrors \in 0..discarded

\* feed() drops bytes of the buffer only in front.
Drops(n) ==
  /\ input' = input /\ n \in 1..Len(buffer)
  /\ buffer' = SubSeq(buffer, n + 1, Len(buffer))

LEMMA BufferLengths ==
  ASSUME BufferInv
  PROVE  /\ Len(buffer) \in Nat /\ Len(input) \in Nat
         /\ Start \in Nat /\ Start + Len(buffer) = Len(input)
  BY DEF BufferInv, Start

LEMMA DropsBytes ==
  ASSUME BufferInv, NEW n, Drops(n)
  PROVE  /\ buffer' \in Seq(Alphabet) /\ Len(buffer') = Len(buffer) - n
         /\ Start' = Start + n
         /\ \A i \in 1..Len(buffer') : buffer'[i] = input'[Start' + i]
<1>1. n \in 1..Len(buffer) /\ Len(buffer) \in Nat /\ Len(input) \in Nat /\ Start \in Nat
  BY BufferLengths DEF Drops
<1>2. \A i \in n + 1 .. Len(buffer) : buffer[i] \in Alphabet
  BY <1>1, ElementOfSeq DEF BufferInv
<1> DEFINE left == SubSeq(buffer, n + 1, Len(buffer))
<1>3. /\ left \in Seq(Alphabet)
      /\ Len(left) = IF n + 1 <= Len(buffer) THEN Len(buffer) - (n + 1) + 1 ELSE 0
      /\ \A i \in 1 .. Len(buffer) - (n + 1) + 1 : left[i] = buffer[n + 1 + i - 1]
  BY <1>1, <1>2, SubSeqProperties
<1>4. buffer' = left /\ input' = input
  BY DEF Drops
<1> HIDE DEF left
<1>5. buffer' \in Seq(Alphabet) /\ Len(buffer') = Len(buffer) - n
  BY <1>1, <1>3, <1>4
<1>6. Start' = Start + n
  BY <1>1, <1>4, <1>5 DEF Start
<1>7. ASSUME NEW i \in 1..Len(buffer') PROVE buffer'[i] = input'[Start' + i]
  <2>1. i \in 1 .. Len(buffer) - (n + 1) + 1 /\ n + 1 + i - 1 = n + i /\ n + i \in 1..Len(buffer)
    BY <1>1, <1>5
  <2>2. buffer'[i] = buffer[n + i]
    BY <1>3, <1>4, <2>1
  <2>3. buffer[n + i] = input[Start + (n + i)] /\ Start + (n + i) = Start' + i
    BY <1>1, <1>6, <2>1 DEF BufferInv
  <2> QED
    BY <1>4, <2>2, <2>3
<1> QED
  BY <1>5, <1>6, <1>7

\* The bytes at the head of the buffer are those of the input at their place.
LEMMA HeadOfBuffer ==
  ASSUME BufferInv, NEW n \in 1..Len(buffer)
  PROVE  SubSeq(buffer, 1, n) = SubSeq(input, Start + 1, Start + n)
<1>1. n \in Nat /\ Len(buffer) \in Nat /\ Len(input) \in Nat /\ Start \in Nat
      /\ Start + n <= Len(input)
  BY BufferLengths
<1> DEFINE x == SubSeq(buffer, 1, n)
           y == SubSeq(input, Start + 1, Start + n)
<1>2. \A i \in 1..n : buffer[i] \in Alphabet
  BY <1>1, ElementOfSeq DEF BufferInv
<1>3. \A i \in Start + 1 .. Start + n : input[i] \in Alphabet
  BY <1>1, ElementOfSeq DEF BufferInv
<1>4. /\ x \in Seq(Alphabet) /\ Len(x) = n
      /\ \A i \in 1 .. n - 1 + 1 : x[i] = buffer[1 + i - 1]
  BY <1>1, <1>2, SubSeqProperties
<1>5. /\ y \in Seq(Alphabet) /\ Len(y) = n
      /\ \A i \in 1 .. Start + n - (Start + 1) + 1 : y[i] = input[Start + 1 + i - 1]
  BY <1>1, <1>3, SubSeqProperties
<1> HIDE DEF x, y
<1>6. ASSUME NEW i \in 1..n PROVE x[i] = y[i]
  <2>1. i \in 1 .. n - 1 + 1 /\ 1 + i - 1 = i /\ i \in 1..Len(buffer)
        /\ i \in 1 .. Start + n - (Start + 1) + 1 /\ Start + 1 + i - 1 = Start + i
    BY <1>1
  <2> QED
    BY <1>4, <1>5, <2>1 DEF BufferInv
<1>7. x = y
  BY <1>4, <1>5, <1>6, SeqEqual
<1> QED
  BY <1>7 DEF x, y

\* What the parser knows of a candidate that is complete.
LEMMA RawFrame ==
  ASSUME BufferInv, CandidateReady
  PROVE  /\ FrameLength(buffer) \in 4..Len(buffer) /\ FrameLength(buffer) >= 3 + CrcSize
         /\ Raw = SubSeq(input, Start + 1, Start + FrameLength(buffer))
         /\ Len(Raw) = FrameLength(buffer)
         /\ IsFrame(Raw) <=> CrcIsRight(Raw)
<1> DEFINE n == FrameLength(buffer)
<1>1. Len(buffer) >= 3 /\ buffer[1] = Preamble /\ ReservedBits(buffer) = 0 /\ Len(buffer) >= n
  BY DEF CandidateReady, HeaderReady
<1>2. n \in Nat /\ n > 3 /\ PayloadLength(buffer) \in 0..1023
  BY <1>1, PayloadBound DEF BufferInv
<1>3. n \in 4..Len(buffer)
  BY <1>1, <1>2, BufferLengths
<1>4. n >= 3 + CrcSize
  <2>1. n = 3 + PayloadLength(buffer) + CrcSize
    BY DEF FrameLength
  <2>2. \A k \in 0..1023, c \in Nat : 3 + k + c >= 3 + c
    OBVIOUS
  <2> QED
    BY <1>2, <2>1, <2>2, ConstantTypes
<1>5. \A i \in 1..n : buffer[i] \in Alphabet
  BY <1>3, ElementOfSeq, BufferLengths DEF BufferInv
<1> HIDE DEF n
<1>6. /\ SubSeq(buffer, 1, n) \in Seq(Alphabet)
      /\ Len(SubSeq(buffer, 1, n)) = IF 1 <= n THEN n - 1 + 1 ELSE 0
      /\ \A i \in 1 .. n - 1 + 1 : SubSeq(buffer, 1, n)[i] = buffer[1 + i - 1]
  BY <1>3, <1>5, SubSeqProperties
<1>7. Raw = SubSeq(buffer, 1, n) /\ Len(Raw) = n
  BY <1>3, <1>6 DEF Raw, n
<1>8. Raw[1] = buffer[1] /\ Raw[2] = buffer[2] /\ Raw[3] = buffer[3]
  <2>1. 1 \in 1 .. n - 1 + 1 /\ 2 \in 1 .. n - 1 + 1 /\ 3 \in 1 .. n - 1 + 1
    BY <1>3
  <2> QED
    BY <1>6, <1>7, <2>1
<1>9. ReservedBits(Raw) = ReservedBits(buffer) /\ FrameLength(Raw) = FrameLength(buffer)
  BY <1>8 DEF ReservedBits, FrameLength, PayloadLength
<1>10. IsFrame(Raw) <=> CrcIsRight(Raw)
  BY <1>1, <1>3, <1>4, <1>7, <1>8, <1>9 DEF IsFrame, n
<1>11. Raw = SubSeq(input, Start + 1, Start + n)
  <2>1. n \in 1..Len(buffer)
    BY <1>3
  <2> QED
    BY <1>7, <2>1, HeadOfBuffer
<1> QED
  BY <1>3, <1>4, <1>7, <1>10, <1>11 DEF n

LEMMA FeedGrows ==
  ASSUME BufferInv, NEW chunk \in Chunks, Feed(chunk)
  PROVE  /\ chunk \in Seq(Alphabet) /\ input' = input \o chunk /\ Start' = Start
         /\ Len(input') >= Len(input)
         /\ BufferInv'
<1>1. chunk \in Seq(Alphabet)
  BY SeqDef, ConstantTypes DEF Chunks
<1>2. /\ input' = input \o chunk /\ buffer' = buffer \o chunk /\ phase' = "parse"
      /\ Len(input) + Len(chunk) <= MaxInput /\ UNCHANGED <<discarded, crcErrors>>
  BY DEF Feed
<1>3. Len(buffer) \in Nat /\ Len(input) \in Nat /\ Start \in Nat /\ Len(chunk) \in Nat
      /\ Len(input) = Start + Len(buffer)
  BY <1>1, BufferLengths, LenProperties
<1>4. /\ input \o chunk \in Seq(Alphabet) /\ Len(input \o chunk) = Len(input) + Len(chunk)
      /\ \A i \in 1 .. Len(input) + Len(chunk) :
           (input \o chunk)[i] = IF i <= Len(input) THEN input[i] ELSE chunk[i - Len(input)]
  BY <1>1, ConcatProperties DEF BufferInv
<1>5. /\ buffer \o chunk \in Seq(Alphabet) /\ Len(buffer \o chunk) = Len(buffer) + Len(chunk)
      /\ \A i \in 1 .. Len(buffer) + Len(chunk) :
           (buffer \o chunk)[i] = IF i <= Len(buffer) THEN buffer[i] ELSE chunk[i - Len(buffer)]
  BY <1>1, ConcatProperties DEF BufferInv
<1>6. Start' = Start
  BY <1>2, <1>3, <1>4, <1>5 DEF Start
<1>7. ASSUME NEW i \in 1..Len(buffer') PROVE buffer'[i] = input'[Start' + i]
  <2>1. i \in 1 .. Len(buffer) + Len(chunk) /\ Start + i \in 1 .. Len(input) + Len(chunk)
    BY <1>2, <1>3, <1>5
  <2>2. CASE i <= Len(buffer)
    <3>1. Start + i <= Len(input) /\ i \in 1..Len(buffer)
      BY <1>3, <2>1, <2>2
    <3>2. buffer'[i] = buffer[i] /\ input'[Start + i] = input[Start + i]
      BY <1>2, <1>4, <1>5, <2>1, <2>2, <3>1
    <3> QED
      BY <1>6, <3>1, <3>2 DEF BufferInv
  <2>3. CASE i > Len(buffer)
    <3>1. ~(i <= Len(buffer)) /\ ~(Start + i <= Len(input))
          /\ i - Len(buffer) = Start + i - Len(input)
      BY <1>3, <2>1, <2>3
    <3>2. (buffer \o chunk)[i] = chunk[i - Len(buffer)]
      BY <1>5, <2>1, <3>1
    <3> DEFINE j == Start + i
    <3>3. j \in 1 .. Len(input) + Len(chunk) /\ ~(j <= Len(input))
      BY <2>1, <3>1
    <3> HIDE DEF j
    <3>4. (input \o chunk)[j] = chunk[j - Len(input)]
      BY <1>4, <3>3
    <3>5. j - Len(input) = i - Len(buffer) /\ j = Start + i
      BY <1>3, <3>1 DEF j
    <3> QED
      BY <1>2, <1>6, <3>2, <3>4, <3>5
  <2> QED
    BY <1>3, <2>1, <2>2, <2>3
<1>8. Len(input') >= Len(input) /\ Len(input') <= MaxInput /\ Len(buffer') <= Len(input')
  BY <1>2, <1>3, <1>4, <1>5, ConstantTypes
<1>9. BufferInv'
  BY <1>2, <1>4, <1>5, <1>6, <1>7, <1>8 DEF BufferInv
<1> QED
  BY <1>1, <1>2, <1>6, <1>8, <1>9

LEMMA SkipNoiseDrops ==
  ASSUME BufferInv, SkipNoise
  PROVE  \E n \in 1..Len(buffer) :
           /\ Drops(n) /\ discarded' = discarded + n
           /\ \A i \in 1..n : buffer[i] # Preamble
  BY DEF SkipNoise, Drops

LEMMA RejectDrops ==
  ASSUME BufferInv, RejectHeader \/ RejectCrc
  PROVE  /\ Drops(1) /\ discarded' = discarded + 1
         /\ crcErrors' = crcErrors \/ crcErrors' = crcErrors + 1
<1>1. Len(buffer) >= 3
  BY DEF RejectHeader, RejectCrc, CandidateReady, HeaderReady
<1>2. 1 \in 1..Len(buffer) /\ 1 + 1 = 2
  BY <1>1, BufferLengths
<1>3. buffer' = SubSeq(buffer, 2, Len(buffer)) /\ input' = input
  BY DEF RejectHeader, RejectCrc, ResumeAfterPreamble
<1>4. Drops(1)
  BY <1>2, <1>3 DEF Drops
<1> QED
  BY <1>4 DEF RejectHeader, RejectCrc, PreambleDiscarded

LEMMA TakeDrops ==
  ASSUME BufferInv, TakeFrame
  PROVE  /\ FrameLength(buffer) \in 4..Len(buffer) /\ Drops(FrameLength(buffer))
         /\ Len(Raw) = FrameLength(buffer)
         /\ IsFrame(SubSeq(input, Start + 1, Start + FrameLength(buffer)))
         /\ discarded' = discarded \/ discarded' = discarded + FrameLength(buffer)
<1>1. CandidateReady /\ CrcIsRight(Raw)
  BY DEF TakeFrame
<1>2. /\ FrameLength(buffer) \in 4..Len(buffer) /\ Len(Raw) = FrameLength(buffer)
      /\ IsFrame(SubSeq(input, Start + 1, Start + FrameLength(buffer)))
  BY <1>1, RawFrame
<1>3. FrameLength(buffer) \in 1..Len(buffer)
  BY <1>2
<1> QED
  BY <1>2, <1>3 DEF TakeFrame, Drops, UntypedDiscarded

\* Nothing else touches the buffer and the input.
Still == WriteFrame \/ NextChunk \/ SourceEnds \/ FeedReturns \/ UNCHANGED vars

LEMMA StillBuffer ==
  ASSUME BufferInv, Still
  PROVE  UNCHANGED <<input, buffer, accepted>> /\ Start' = Start /\ BufferInv'
<1>1. UNCHANGED <<input, buffer, discarded, crcErrors, accepted>>
  BY DEF Still, WriteFrame, NextChunk, SourceEnds, FeedReturns, vars
<1>2. phase' \in {"read", "parse", "write", "end", "broken"}
  BY DEF Still, WriteFrame, NextChunk, SourceEnds, FeedReturns, vars, BufferInv,
     AfterFailedWrite
<1>3. Start' = Start
  BY <1>1 DEF Start
<1> QED
  BY <1>1, <1>2, <1>3 DEF BufferInv

LEMMA StepCases ==
  ASSUME [Next]_vars
  PROVE  \/ \E chunk \in Chunks : Feed(chunk)
         \/ SkipNoise \/ RejectHeader \/ RejectCrc \/ TakeFrame \/ Still
  BY DEF Next, Parse, Still

LEMMA InitBuffer == Init => BufferInv
<1> SUFFICES ASSUME Init PROVE BufferInv
  OBVIOUS
<1>1. buffer = <<>> /\ input = <<>> /\ Len(<<>>) = 0 /\ <<>> \in Seq(Alphabet)
  BY EmptySeq DEF Init
<1> QED
  BY <1>1, ConstantTypes DEF Init, BufferInv, Start

LEMMA BufferStep == ASSUME BufferInv, [Next]_vars PROVE BufferInv'
<1>1. ASSUME NEW n \in Nat, Drops(n), phase' = phase,
             discarded' = discarded \/ discarded' = discarded + n,
             \/ crcErrors' = crcErrors
             \/ crcErrors' = crcErrors + 1 /\ discarded' = discarded + n
      PROVE  BufferInv'
  <2>1. n \in 1..Len(buffer) /\ Start \in Nat /\ Len(buffer) \in Nat /\ Len(input) \in Nat
        /\ Len(buffer) <= Len(input)
    BY <1>1, BufferLengths DEF Drops, BufferInv
  <2>2. /\ buffer' \in Seq(Alphabet) /\ Len(buffer') = Len(buffer) - n /\ Start' = Start + n
        /\ \A i \in 1..Len(buffer') : buffer'[i] = input'[Start' + i]
    BY <1>1, DropsBytes
  <2>3. input' = input
    BY <1>1 DEF Drops
  <2>4. discarded' \in 0..Start' /\ crcErrors' \in 0..discarded'
    BY SMTT(60), <1>1, <2>1, <2>2 DEF BufferInv
  <2>5. Len(buffer') <= Len(input')
    BY <2>1, <2>2, <2>3
  <2> QED
    BY <1>1, <2>2, <2>3, <2>4, <2>5 DEF BufferInv
<1>2. ASSUME NEW chunk \in Chunks, Feed(chunk) PROVE BufferInv'
  BY <1>2, FeedGrows
<1>3. CASE SkipNoise
  <2>1. phase' = phase /\ crcErrors' = crcErrors
    BY <1>3 DEF SkipNoise
  <2>2. PICK n \in 1..Len(buffer) : Drops(n) /\ discarded' = discarded + n
    BY <1>3, SkipNoiseDrops
  <2>3. n \in Nat
    BY <2>2, BufferLengths
  <2> QED
    BY <1>1, <2>1, <2>2, <2>3
<1>4. CASE RejectHeader \/ RejectCrc
  <2>1. phase' = phase
    BY <1>4 DEF RejectHeader, RejectCrc
  <2>2. Drops(1) /\ discarded' = discarded + 1
        /\ (crcErrors' = crcErrors \/ crcErrors' = crcErrors + 1)
    BY <1>4, RejectDrops
  <2> QED
    BY <1>1, <2>1, <2>2
<1>5. CASE TakeFrame
  <2>1. phase' = phase /\ crcErrors' = crcErrors
    BY <1>5 DEF TakeFrame
  <2>2. FrameLength(buffer) \in Nat
    BY <1>5, TakeDrops, BufferLengths
  <2>3. \E n \in Nat : Drops(n) /\ (discarded' = discarded \/ discarded' = discarded + n)
    BY <1>5, <2>2, TakeDrops
  <2>4. PICK n \in Nat : Drops(n) /\ (discarded' = discarded \/ discarded' = discarded + n)
    BY <2>3
  <2> QED
    BY <1>1, <2>1, <2>4
<1>6. CASE Still
  BY <1>6, StillBuffer
<1> QED
  BY <1>2, <1>3, <1>4, <1>5, <1>6, StepCases

-----------------------------------------------------------------------------
(* Every byte the parser has passed is in a frame or begins none *)

Covers(f, p) == f.from <= p /\ p <= f.to

ParsedInv ==
  /\ accepted \in Seq(Intervals)
  /\ \A p \in 1..Start :
       \/ \E k \in 1..Len(accepted) : Covers(accepted[k], p)
       \/ Hopeless(input, p)

LEMMA ParsedPasses ==
  ASSUME BufferInv, ParsedInv, NEW n, Drops(n), accepted' = accepted,
         \A p \in Start + 1 .. Start + n : Hopeless(input, p)
  PROVE  ParsedInv'
<1>1. Start \in Nat /\ Start' = Start + n
  BY BufferLengths, DropsBytes
<1>2. n \in Nat /\ input' = input
  BY BufferLengths DEF Drops
<1>3. \A p \in 1..Start' : p \in 1..Start \/ p \in Start + 1 .. Start + n
  BY <1>1, <1>2
<1> QED
  BY <1>1, <1>2, <1>3 DEF ParsedInv

\* A complete candidate with a wrong header or checksum is no frame, nor is any
\* other piece of the stream that begins there.
LEMMA RejectedIsHopeless ==
  ASSUME BufferInv, RejectHeader \/ RejectCrc
  PROVE  Hopeless(input, Start + 1)
<1>1. HeaderReady
  BY DEF RejectHeader, RejectCrc, CandidateReady
<1>2. Len(buffer) >= 3 /\ Len(buffer) \in Nat /\ Len(input) \in Nat /\ Start \in Nat
      /\ Start + Len(buffer) = Len(input)
  BY <1>1, BufferLengths DEF HeaderReady
<1> DEFINE p == Start + 1
<1>3. p \in 1..Len(input) /\ p + 2 <= Len(input)
  BY <1>2
<1>4. buffer[2] = input[p + 1] /\ buffer[3] = input[p + 2]
  <2>1. 2 \in 1..Len(buffer) /\ 3 \in 1..Len(buffer) /\ Start + 2 = p + 1 /\ Start + 3 = p + 2
    BY <1>2
  <2> QED
    BY <2>1 DEF BufferInv
<1> SUFFICES ASSUME NEW t \in Seq(Alphabet), NEW q \in p .. Len(input) + Len(t),
                    IsFrame(SubSeq(input \o t, p, q))
             PROVE  FALSE
  BY DEF Hopeless
<1>5. input \in Seq(Alphabet) /\ buffer \in Seq(Alphabet)
  BY DEF BufferInv
<1> HIDE DEF p
<1>6. ReservedBits(buffer) = 0 /\ q - p + 1 = FrameLength(buffer)
  <2>1. HeaderSays(input, p, buffer)
    BY <1>3, <1>4, <1>5, HeaderDecides
  <2> QED
    BY <2>1 DEF HeaderSays
<1>7. ~(PayloadLength(buffer) > MaxPayload)
  <2>1. PayloadLength(buffer) \in 0..1023
    BY ZenonT(60), <1>2, <1>5, PayloadBound
  <2>2. \A n \in 0..1023 : ~(n > MaxPayload)
    BY ConstantTypes
  <2> QED
    BY ZenonT(60), <2>1, <2>2
<1>8. RejectCrc
  BY <1>6, <1>7 DEF RejectHeader
<1>9. /\ FrameLength(buffer) \in 4..Len(buffer)
      /\ ~IsFrame(SubSeq(input, p, Start + FrameLength(buffer)))
  BY <1>8, RawFrame DEF RejectCrc, p
<1>10. q = Start + FrameLength(buffer) /\ q \in 1..Len(input)
  BY <1>2, <1>6, <1>9 DEF p
<1>11. SubSeq(input \o t, p, q) = SubSeq(input, p, q)
  BY <1>3, <1>5, <1>10, SubSeqOfConcat1
<1> QED
  BY <1>9, <1>10, <1>11

LEMMA ParsedStep == ASSUME BufferInv, ParsedInv, [Next]_vars PROVE ParsedInv'
<1>1. ASSUME NEW chunk \in Chunks, Feed(chunk) PROVE ParsedInv'
  <2>1. chunk \in Seq(Alphabet) /\ input' = input \o chunk /\ Start' = Start
        /\ accepted' = accepted
    BY <1>1, FeedGrows DEF Feed
  <2>2. \A p \in 1..Start : p \in 1..Len(input)
    BY BufferLengths
  <2>3. \A p \in 1..Start : Hopeless(input, p) => Hopeless(input', p)
    BY <2>1, <2>2, HopelessStays DEF BufferInv
  <2> QED
    BY <2>1, <2>3 DEF ParsedInv
<1>2. CASE SkipNoise
  <2>1. PICK n \in 1..Len(buffer) : Drops(n) /\ \A i \in 1..n : buffer[i] # Preamble
    BY <1>2, SkipNoiseDrops
  <2>2. ASSUME NEW p \in Start + 1 .. Start + n PROVE Hopeless(input, p)
    <3>1. p - Start \in 1..n /\ p - Start \in 1..Len(buffer) /\ Start + (p - Start) = p
          /\ p \in 1..Len(input)
      BY <2>1, BufferLengths
    <3>2. input[p] # Preamble
      BY <2>1, <3>1 DEF BufferInv
    <3> QED
      BY <3>1, <3>2, NoiseIsHopeless DEF BufferInv
  <2>3. accepted' = accepted
    BY <1>2 DEF SkipNoise
  <2> QED
    BY <2>1, <2>2, <2>3, ParsedPasses
<1>3. CASE RejectHeader \/ RejectCrc
  <2>1. Drops(1) /\ accepted' = accepted
    BY <1>3, RejectDrops DEF RejectHeader, RejectCrc
  <2>2. \A p \in Start + 1 .. Start + 1 : p = Start + 1
    BY BufferLengths
  <2>3. \A p \in Start + 1 .. Start + 1 : Hopeless(input, p)
    BY <1>3, <2>2, RejectedIsHopeless
  <2> QED
    BY <2>1, <2>3, ParsedPasses
<1>4. CASE TakeFrame
  <2> DEFINE n == FrameLength(buffer)
             f == [from |-> Start + 1, to |-> Start + n]
  <2>1. n \in 4..Len(buffer) /\ Drops(n) /\ accepted' = Append(accepted, f)
    BY <1>4, TakeDrops DEF TakeFrame, Here
  <2> HIDE DEF n
  <2>2. /\ Start \in Nat /\ Start' = Start + n /\ input' = input
        /\ n \in Nat /\ Start + n <= Len(input) /\ Len(input) <= MaxInput /\ MaxInput \in Nat
    <3>1. Start' = Start + n
      BY <2>1, DropsBytes
    <3>2. input' = input /\ Len(input) <= MaxInput
      BY <2>1 DEF Drops, BufferInv
    <3>3. Start \in Nat /\ n \in Nat /\ Start + n <= Len(input)
      BY <2>1, BufferLengths
    <3> QED
      BY <3>1, <3>2, <3>3, ConstantTypes
  <2>3. f \in Intervals
    <3>1. Start + 1 \in 1..MaxInput /\ Start + n \in 1..MaxInput
      BY <2>1, <2>2, BufferLengths
    <3> QED
      BY <3>1 DEF Intervals
  <2>4. /\ accepted' \in Seq(Intervals) /\ Len(accepted') = Len(accepted) + 1
        /\ \A k \in 1..Len(accepted) : accepted'[k] = accepted[k]
        /\ accepted'[Len(accepted) + 1] = f /\ Len(accepted) \in Nat
    BY <2>1, <2>3, AppendProperties, LenProperties DEF ParsedInv
  <2>5. ASSUME NEW p \in 1..Start'
        PROVE  (\E k \in 1..Len(accepted') : Covers(accepted'[k], p)) \/ Hopeless(input, p)
    <3>1. CASE p \in 1..Start
      BY <2>4, <3>1 DEF ParsedInv
    <3>2. CASE p \notin 1..Start
      <4>1. Covers(f, p)
        BY <2>2, <3>2 DEF Covers
      <4>2. Len(accepted) + 1 \in 1..Len(accepted')
        BY <2>4
      <4> QED
        BY <2>4, <4>1, <4>2
    <3> QED
      BY <3>1, <3>2
  <2> QED
    BY <2>2, <2>4, <2>5 DEF ParsedInv
<1>5. CASE Still
  BY <1>5, StillBuffer DEF ParsedInv
<1> QED
  BY <1>1, <1>2, <1>3, <1>4, <1>5, StepCases

LEMMA InitParsed == Init => ParsedInv
<1> SUFFICES ASSUME Init PROVE ParsedInv
  OBVIOUS
<1>1. accepted = <<>> /\ <<>> \in Seq(Intervals) /\ Start = 0
  BY EmptySeq DEF Init, Start
<1> QED
  BY <1>1 DEF ParsedInv

-----------------------------------------------------------------------------
(* What is written *)

Whole(f) == f.from <= f.to /\ IsFrame(SubSeq(input, f.from, f.to))

\* Frames wait in the order of the input, behind what was written; what has been
\* observed fits into the input before them.
WaitingInv ==
  /\ frames \in Seq(Intervals)
  /\ \A k \in 1..Len(frames) : Whole(frames[k]) /\ frames[k].to <= Start
  /\ \A k \in 1 .. Len(frames) - 1 : frames[k].to < frames[k + 1].from

WrittenInv ==
  /\ output \in Seq(Intervals)
  /\ \A k \in 1..Len(output) : output[k].to <= Start
  /\ \A k \in 1 .. Len(output) - 1 : output[k].to < output[k + 1].from
  /\ output # <<>> /\ frames # <<>> => output[Len(output)].to < frames[1].from

CountInv ==
  /\ valid \in [frames : Nat, bytes : Nat] /\ forwarded \in Nat
  /\ valid.frames <= valid.bytes
  /\ valid.bytes <= Start /\ (frames # <<>> => valid.bytes < frames[1].from)
  /\ \A k \in 1..forwarded : Whole(output[k])
  /\ phase # "broken" => forwarded = valid.frames /\ forwarded = Len(output)
  /\ phase = "broken" => /\ forwarded <= valid.frames
                         /\ Len(output) \in {forwarded, forwarded + 1}

OutputInv == WaitingInv /\ WrittenInv /\ CountInv

\* Steps that leave frames and output alone, while the input may grow and bytes
\* may be dropped.
LEMMA OutputStays ==
  ASSUME BufferInv, OutputInv, UNCHANGED <<frames, output, valid, forwarded>>,
         Start' \in Nat, Start' >= Start,
         input' = input \/ \E more \in Seq(Alphabet) : input' = input \o more,
         phase' = phase \/ phase # "broken"
  PROVE  OutputInv'
<1>1. ASSUME NEW f \in Intervals, f.to <= Start, Whole(f) PROVE Whole(f)'
  <2>1. CASE input' = input
    BY <1>1, <2>1 DEF Whole
  <2>2. ASSUME NEW more \in Seq(Alphabet), input' = input \o more PROVE Whole(f)'
    <3>1. f.from \in 1..Len(input) /\ f.to \in 1..Len(input)
      BY <1>1, BufferLengths, ConstantTypes DEF Intervals, Whole
    <3>2. SubSeq(input \o more, f.from, f.to) = SubSeq(input, f.from, f.to)
      BY <2>2, <3>1, SubSeqOfConcat1 DEF BufferInv
    <3> QED
      BY <1>1, <2>2, <3>2 DEF Whole
  <2> QED
    BY <2>1, <2>2
<1>2. \A k \in 1..Len(frames) : frames[k] \in Intervals
  BY ElementOfSeq DEF OutputInv, WaitingInv
<1>3. \A k \in 1..Len(output) : output[k] \in Intervals
  BY ElementOfSeq DEF OutputInv, WrittenInv
<1>4. Start \in Nat /\ MaxInput \in Nat
  BY BufferLengths, ConstantTypes
<1>5. ASSUME NEW f \in Intervals, f.to <= Start PROVE f.to <= Start'
  BY <1>4, <1>5 DEF Intervals
<1>6. WaitingInv'
  BY <1>1, <1>2, <1>5 DEF OutputInv, WaitingInv
<1>7. WrittenInv'
  BY <1>3, <1>5 DEF OutputInv, WrittenInv
<1>8. CountInv'
  <2>1. \A k \in 1..forwarded : k \in 1..Len(output)
    BY LenProperties DEF OutputInv, WrittenInv, CountInv
  <2>2. \A k \in 1..forwarded' : Whole(output[k])'
    BY <1>1, <1>3, <2>1 DEF OutputInv, WrittenInv, CountInv
  <2>3. valid'.bytes <= Start'
    BY <1>4 DEF OutputInv, CountInv
  <2> QED
    BY <2>2, <2>3 DEF OutputInv, CountInv
<1> QED
  BY <1>6, <1>7, <1>8 DEF OutputInv

\* A frame is added behind those that wait.
LEMMA OutputTakes ==
  ASSUME BufferInv, OutputInv, NEW f \in Intervals, frames' = Append(frames, f),
         f.from = Start + 1, f.to = Start', Start' \in Nat, Start' >= Start, Whole(f),
         UNCHANGED <<phase, input, output, valid, forwarded>>
  PROVE  OutputInv'
<1>1. /\ frames' \in Seq(Intervals) /\ Len(frames') = Len(frames) + 1 /\ Len(frames) \in Nat
      /\ \A k \in 1..Len(frames) : frames'[k] = frames[k]
      /\ frames'[Len(frames) + 1] = f /\ frames' # <<>>
  BY AppendProperties, LenProperties DEF OutputInv, WaitingInv
<1>2. \A k \in 1..Len(frames) : frames[k] \in Intervals
  BY ElementOfSeq DEF OutputInv, WaitingInv
<1>3. \A k \in 1..Len(output) : output[k] \in Intervals
  BY ElementOfSeq DEF OutputInv, WrittenInv
<1>4. Start \in Nat /\ MaxInput \in Nat
  BY BufferLengths, ConstantTypes
<1>5. \A g \in Intervals : g.to <= Start => g.to <= Start' /\ g.to < f.from
  BY <1>4 DEF Intervals
<1>6. WaitingInv'
  <2>1. \A k \in 1..Len(frames') : Whole(frames[k])' /\ frames'[k].to <= Start'
    <3> SUFFICES ASSUME NEW k \in 1..Len(frames')
                 PROVE  Whole(frames[k])' /\ frames'[k].to <= Start'
      OBVIOUS
    <3>1. CASE k \in 1..Len(frames)
      BY <1>1, <1>2, <1>5, <3>1 DEF OutputInv, WaitingInv, Whole
    <3>2. CASE k = Len(frames) + 1
      BY <1>1, <3>2 DEF Whole
    <3> QED
      BY <1>1, <3>1, <3>2
  <2>2. \A k \in 1 .. Len(frames') - 1 : frames'[k].to < frames'[k + 1].from
    <3> SUFFICES ASSUME NEW k \in 1 .. Len(frames') - 1
                 PROVE  frames'[k].to < frames'[k + 1].from
      OBVIOUS
    <3>1. k \in 1..Len(frames)
      BY <1>1
    <3>2. CASE k = Len(frames)
      BY <1>1, <1>2, <1>5, <3>1, <3>2 DEF OutputInv, WaitingInv
    <3>3. CASE k # Len(frames)
      <4>1. k \in 1 .. Len(frames) - 1 /\ k + 1 \in 1..Len(frames)
        BY <1>1, <3>1, <3>3
      <4> QED
        BY <1>1, <3>1, <4>1 DEF OutputInv, WaitingInv
    <3> QED
      BY <3>2, <3>3
  <2> QED
    BY <1>1, <2>1, <2>2 DEF WaitingInv
<1>7. frames'[1] = IF frames = <<>> THEN f ELSE frames[1]
  <2>1. CASE frames = <<>>
    BY <1>1, <2>1, EmptySeq
  <2>2. CASE frames # <<>>
    <3>1. 1 \in 1..Len(frames)
      BY <1>1, <2>2, EmptySeq DEF OutputInv, WaitingInv
    <3> QED
      BY <1>1, <2>2, <3>1
  <2> QED
    BY <2>1, <2>2
<1>8. WrittenInv'
  <2>1. output # <<>> => Len(output) \in 1..Len(output)
    BY EmptySeq, LenProperties DEF OutputInv, WrittenInv
  <2>2. output # <<>> => output[Len(output)].to < frames'[1].from
    BY <1>3, <1>5, <1>7, <2>1 DEF OutputInv, WrittenInv
  <2>3. \A k \in 1..Len(output) : output[k].to <= Start'
    BY <1>3, <1>5 DEF OutputInv, WrittenInv
  <2> QED
    BY <2>2, <2>3 DEF OutputInv, WrittenInv
<1>9. CountInv'
  <2>1. valid.bytes <= Start' /\ valid.bytes < f.from
    BY <1>4 DEF OutputInv, CountInv
  <2>2. valid.bytes < frames'[1].from
    BY <1>7, <2>1 DEF OutputInv, CountInv
  <2> QED
    BY <2>1, <2>2 DEF OutputInv, CountInv, Whole
<1> QED
  BY <1>6, <1>8, <1>9 DEF OutputInv

\* The first of the waiting frames.
LEMMA FirstWaits ==
  ASSUME BufferInv, OutputInv, frames # <<>>
  PROVE  /\ Head(frames) = frames[1] /\ frames[1] \in Intervals
         /\ Whole(frames[1]) /\ frames[1].to <= Start
         /\ Size(frames[1]) \in Nat /\ Size(frames[1]) > 0
         /\ frames[1].from + Size(frames[1]) = frames[1].to + 1
<1>1. 1 \in 1..Len(frames) /\ Head(frames) = frames[1]
  BY EmptySeq DEF OutputInv, WaitingInv
<1>2. frames[1] \in Intervals /\ Whole(frames[1]) /\ frames[1].to <= Start
  BY <1>1, ElementOfSeq DEF OutputInv, WaitingInv
<1>3. frames[1].from \in Nat /\ frames[1].to \in Nat /\ frames[1].from <= frames[1].to
  BY <1>2, ConstantTypes DEF Intervals, Whole
<1> QED
  BY <1>1, <1>2, <1>3 DEF Size

LEMMA RestWaits ==
  ASSUME BufferInv, OutputInv, frames # <<>>, frames' = Tail(frames),
         UNCHANGED input, Start' = Start
  PROVE  /\ WaitingInv'
         /\ frames' # <<>> => /\ 2 \in 1..Len(frames) /\ frames'[1] = frames[2]
                              /\ frames[2] \in Intervals /\ frames[1].to < frames[2].from
<1>1. /\ frames' \in Seq(Intervals) /\ Len(frames') = Len(frames) - 1 /\ Len(frames) \in Nat
      /\ \A k \in 1..Len(frames') : frames'[k] = frames[k + 1]
  BY HeadTailProperties, LenProperties DEF OutputInv, WaitingInv
<1>2. \A k \in 1..Len(frames') : Whole(frames[k])' /\ frames'[k].to <= Start'
  <2> SUFFICES ASSUME NEW k \in 1..Len(frames')
               PROVE  Whole(frames[k])' /\ frames'[k].to <= Start'
    OBVIOUS
  <2>1. k + 1 \in 1..Len(frames) /\ frames'[k] = frames[k + 1]
    BY <1>1
  <2> QED
    BY <2>1 DEF OutputInv, WaitingInv, Whole
<1>3. \A k \in 1 .. Len(frames') - 1 : frames'[k].to < frames'[k + 1].from
  <2> SUFFICES ASSUME NEW k \in 1 .. Len(frames') - 1
               PROVE  frames'[k].to < frames'[k + 1].from
    OBVIOUS
  <2>1. /\ k + 1 \in 1 .. Len(frames) - 1
        /\ frames'[k] = frames[k + 1] /\ frames'[k + 1] = frames[k + 1 + 1]
    BY <1>1
  <2> QED
    BY <2>1 DEF OutputInv, WaitingInv
<1>4. frames' # <<>> => /\ 2 \in 1..Len(frames) /\ frames'[1] = frames[2]
                       /\ frames[2] \in Intervals /\ frames[1].to < frames[2].from
  <2> SUFFICES ASSUME frames' # <<>>
               PROVE  /\ 2 \in 1..Len(frames) /\ frames'[1] = frames[2]
                      /\ frames[2] \in Intervals /\ frames[1].to < frames[2].from
    OBVIOUS
  <2>1. Len(frames') > 0
    BY <1>1, EmptySeq
  <2>2. 1 \in 1..Len(frames') /\ 2 \in 1..Len(frames) /\ 1 \in 1 .. Len(frames) - 1 /\ 1 + 1 = 2
    BY <1>1, <2>1
  <2>3. frames'[1] = frames[2] /\ frames[2] \in Intervals
    BY <1>1, <2>2, ElementOfSeq DEF OutputInv, WaitingInv
  <2> QED
    BY <2>2, <2>3 DEF OutputInv, WaitingInv
<1> QED
  BY <1>1, <1>2, <1>3, <1>4 DEF WaitingInv

\* The first frame, or a part of it, is written.
LEMMA OutputGrows ==
  ASSUME BufferInv, OutputInv, frames # <<>>, frames' = Tail(frames),
         UNCHANGED input, Start' = Start,
         NEW g \in Intervals, g.from = frames[1].from, g.to <= frames[1].to,
         output' = Append(output, g)
  PROVE  WrittenInv' /\ Len(output') = Len(output) + 1 /\ output'[Len(output) + 1] = g
         /\ \A k \in 1..Len(output) : output'[k] = output[k]
<1>1. /\ output' \in Seq(Intervals) /\ Len(output') = Len(output) + 1 /\ Len(output) \in Nat
      /\ \A k \in 1..Len(output) : output'[k] = output[k]
      /\ output'[Len(output) + 1] = g /\ output' # <<>>
  BY AppendProperties, LenProperties DEF OutputInv, WrittenInv
<1>2. frames[1] \in Intervals /\ frames[1].to <= Start /\ Start \in Nat /\ MaxInput \in Nat
  BY FirstWaits, BufferLengths, ConstantTypes
<1>3. \A f \in Intervals : f.from \in Nat /\ f.to \in Nat
  BY <1>2 DEF Intervals
<1>4. g.to <= Start'
  BY <1>2, <1>3
<1>5. \A k \in 1..Len(output') : output'[k].to <= Start'
  BY <1>1, <1>4 DEF OutputInv, WrittenInv
<1>6. \A k \in 1 .. Len(output') - 1 : output'[k].to < output'[k + 1].from
  <2> SUFFICES ASSUME NEW k \in 1 .. Len(output') - 1
               PROVE  output'[k].to < output'[k + 1].from
    OBVIOUS
  <2>1. k \in 1..Len(output)
    BY <1>1
  <2>2. CASE k = Len(output)
    <3>1. output # <<>>
      BY <2>1, EmptySeq
    <3> QED
      BY <1>1, <2>1, <2>2, <3>1 DEF OutputInv, WrittenInv
  <2>3. CASE k # Len(output)
    <3>1. k \in 1 .. Len(output) - 1 /\ k + 1 \in 1..Len(output)
      BY <1>1, <2>1, <2>3
    <3> QED
      BY <1>1, <2>1, <3>1 DEF OutputInv, WrittenInv
  <2> QED
    BY <2>2, <2>3
<1>7. frames' # <<>> => g.to < frames'[1].from
  BY SMTT(60), <1>2, <1>3, RestWaits
<1>8. frames' # <<>> => output'[Len(output')].to < frames'[1].from
  BY <1>1, <1>7
<1> QED
  BY <1>1, <1>5, <1>6, <1>8 DEF WrittenInv

LEMMA WriteOutput == ASSUME BufferInv, OutputInv, WriteFrame PROVE OutputInv'
<1> DEFINE f == frames[1]
<1>1. /\ phase = "write" /\ frames # <<>> /\ frames' = Tail(frames) /\ input' = input
      /\ Start' = Start
  BY StillBuffer DEF WriteFrame, Still
<1>2. /\ Head(frames) = f /\ f \in Intervals /\ Whole(f) /\ f.to <= Start
      /\ Size(f) \in Nat /\ Size(f) > 0 /\ f.from + Size(f) = f.to + 1
  BY <1>1, FirstWaits
<1>3. WaitingInv' /\ (frames' # <<>> => f.to < frames'[1].from /\ frames'[1] \in Intervals)
  BY <1>1, RestWaits
<1>4. f.from \in Nat /\ f.to \in Nat /\ Start \in Nat
      /\ \A g \in Intervals : g.from \in Nat /\ g.to \in Nat
  BY SMTT(60), <1>2, BufferLengths, ConstantTypes DEF Intervals
<1>5. /\ valid \in [frames : Nat, bytes : Nat] /\ valid.frames <= valid.bytes
      /\ valid.bytes < f.from /\ forwarded = valid.frames /\ forwarded = Len(output)
      /\ \A k \in 1..forwarded : Whole(output[k])
  BY <1>1 DEF OutputInv, CountInv
<1>6. valid' = [frames |-> valid.frames + 1, bytes |-> valid.bytes + Size(f)]
  BY <1>2 DEF WriteFrame
<1> HIDE DEF f
<1>7. /\ valid' \in [frames : Nat, bytes : Nat]
      /\ valid'.frames = valid.frames + 1 /\ valid'.bytes = valid.bytes + Size(f)
  <2>1. valid.frames \in Nat /\ valid.bytes \in Nat
    BY <1>5
  <2>2. valid.frames + 1 \in Nat /\ valid.bytes + Size(f) \in Nat
    BY <1>2, <2>1
  <2> QED
    BY <1>6, <2>2
<1>8. /\ valid'.frames <= valid'.bytes /\ valid'.bytes <= Start'
      /\ frames' # <<>> => valid'.bytes < frames'[1].from
  <2>1. valid.frames \in Nat /\ valid.bytes \in Nat
    BY <1>5
  <2> DEFINE size == Size(f)
  <2>2. size \in Nat /\ size > 0 /\ f.from + size = f.to + 1
        /\ valid'.frames = valid.frames + 1 /\ valid'.bytes = valid.bytes + size
    BY <1>2, <1>7
  <2> HIDE DEF size
  <2>3. valid'.frames <= valid'.bytes /\ valid'.bytes <= f.to
    <3>1. \A a, b, from, to, n \in Nat :
            a <= b /\ b < from /\ n > 0 /\ from + n = to + 1 => a + 1 <= b + n /\ b + n <= to
      OBVIOUS
    <3>2. valid.frames + 1 <= valid.bytes + size /\ valid.bytes + size <= f.to
      BY <1>4, <1>5, <2>1, <2>2, <3>1
    <3> QED
      BY <2>2, <3>2
  <2>4. valid'.bytes \in Nat
    BY <1>7
  <2> QED
    BY SMTT(60), <1>1, <1>2, <1>3, <1>4, <2>3, <2>4
<1>9. CASE output' = Append(output, f) /\ forwarded' = forwarded + 1 /\ phase' = "write"
  <2>1. f.to <= f.to
    BY <1>4
  <2>2. /\ WrittenInv' /\ Len(output') = Len(output) + 1 /\ output'[Len(output) + 1] = f
        /\ \A k \in 1..Len(output) : output'[k] = output[k]
    BY <1>1, <1>2, <1>9, <2>1, OutputGrows DEF f
  <2>3. \A k \in 1..forwarded' : Whole(output[k])'
    <3> SUFFICES ASSUME NEW k \in 1..forwarded' PROVE Whole(output[k])'
      OBVIOUS
    <3>1. k \in 1..Len(output) \/ k = Len(output) + 1
      BY <1>5, <1>9
    <3> QED
      BY <1>1, <1>2, <1>5, <2>2, <3>1 DEF Whole
  <2>4. forwarded' \in Nat /\ forwarded' = valid'.frames /\ forwarded' = Len(output')
    BY <1>5, <1>7, <1>9, <2>2
  <2>5. CountInv'
    BY <1>7, <1>8, <1>9, <2>3, <2>4 DEF CountInv
  <2> QED
    BY <1>3, <2>2, <2>5 DEF OutputInv
<1>10. CASE /\ \E n \in 0 .. Size(f) :
                 output' = IF n = 0 THEN output
                           ELSE Append(output, [f EXCEPT !.to = f.from + n - 1])
            /\ forwarded' = forwarded /\ phase' = "broken"
  <2>1. PICK n \in 0 .. Size(f) :
          output' = IF n = 0 THEN output ELSE Append(output, [f EXCEPT !.to = f.from + n - 1])
    BY <1>10
  <2>2. /\ WrittenInv' /\ Len(output') \in {forwarded, forwarded + 1}
        /\ \A k \in 1..Len(output) : output'[k] = output[k]
    <3>1. CASE n = 0
      <4>1. output # <<>> => Len(output) \in 1..Len(output)
        BY EmptySeq, LenProperties DEF OutputInv, WrittenInv
      <4>2. output # <<>> => output[Len(output)] \in Intervals
        BY <4>1, ElementOfSeq DEF OutputInv, WrittenInv
      <4>3. f.from <= f.to /\ (output # <<>> => output[Len(output)].to < f.from)
        BY <1>1, <1>2 DEF OutputInv, WrittenInv, f, Whole
      <4>4. output # <<>> /\ frames' # <<>> => output[Len(output)].to < frames'[1].from
        BY <1>3, <1>4, <4>2, <4>3
      <4> QED
        BY <1>1, <1>5, <2>1, <3>1, <4>4 DEF OutputInv, WrittenInv
    <3>2. CASE n # 0
      <4> DEFINE g == [f EXCEPT !.to = f.from + n - 1]
      <4>1. n \in Nat /\ n >= 1 /\ f.from + n - 1 >= f.from /\ f.from + n - 1 <= f.to
        BY <1>2, <1>4, <3>2
      <4>2. g \in Intervals /\ g.from = f.from /\ g.to <= f.to
        BY <1>2, <1>4, <4>1, ConstantTypes DEF Intervals
      <4>3. output' = Append(output, g)
        BY <2>1, <3>2
      <4> HIDE DEF g
      <4> QED
        BY <1>1, <1>5, <4>2, <4>3, OutputGrows DEF f
    <3> QED
      BY <3>1, <3>2
  <2>3. \A k \in 1..forwarded' : Whole(output[k])'
    BY <1>1, <1>5, <1>10, <2>2 DEF Whole
  <2>4. forwarded' \in Nat /\ forwarded' <= valid'.frames
        /\ Len(output') \in {forwarded', forwarded' + 1}
    <3>1. valid.frames \in Nat /\ forwarded' = valid.frames
      BY <1>5, <1>10
    <3> QED
      BY <1>5, <1>7, <1>10, <2>2, <3>1
  <2>5. CountInv'
    BY <1>7, <1>8, <1>10, <2>3, <2>4 DEF CountInv
  <2> QED
    BY <1>3, <2>2, <2>5 DEF OutputInv
<1> QED
  BY <1>2, <1>9, <1>10 DEF WriteFrame, AfterFailedWrite, f

LEMMA OutputStep == ASSUME BufferInv, OutputInv, [Next]_vars PROVE OutputInv'
<1> USE DEF BufferInv
<1>1. ASSUME NEW n, Drops(n), UNCHANGED <<phase, frames, output, valid, forwarded>>
      PROVE  OutputInv'
  <2>1. Start \in Nat /\ Start' = Start + n
    BY <1>1, BufferLengths, DropsBytes
  <2>2. n \in Nat /\ input' = input
    BY <1>1, BufferLengths DEF Drops
  <2>3. Start' \in Nat /\ Start' >= Start
    BY <2>1, <2>2
  <2> QED
    BY <1>1, <2>2, <2>3, OutputStays
<1>2. ASSUME NEW chunk \in Chunks, Feed(chunk) PROVE OutputInv'
  <2>1. /\ chunk \in Seq(Alphabet) /\ input' = input \o chunk /\ Start' = Start
        /\ Start \in Nat
    BY <1>2, FeedGrows, BufferLengths
  <2>2. UNCHANGED <<frames, output, valid, forwarded>> /\ phase = "read"
    BY <1>2 DEF Feed
  <2>3. Start' \in Nat /\ Start' >= Start
    BY <2>1
  <2> QED
    BY <2>1, <2>2, <2>3, OutputStays
<1>3. CASE SkipNoise
  <2>1. UNCHANGED <<phase, frames, output, valid, forwarded>>
    BY <1>3 DEF SkipNoise
  <2>2. PICK n \in 1..Len(buffer) : Drops(n)
    BY <1>3, SkipNoiseDrops
  <2> QED
    BY <1>1, <2>1, <2>2
<1>4. CASE RejectHeader \/ RejectCrc
  <2>1. UNCHANGED <<phase, frames, output, valid, forwarded>>
    BY <1>4 DEF RejectHeader, RejectCrc
  <2>2. Drops(1)
    BY <1>4, RejectDrops
  <2> QED
    BY <1>1, <2>1, <2>2
<1>5. CASE TakeFrame
  <2> DEFINE n == FrameLength(buffer)
             f == [from |-> Start + 1, to |-> Start + n]
  <2>1. /\ n \in 4..Len(buffer) /\ Drops(n) /\ UNCHANGED <<phase, output, valid, forwarded>>
        /\ frames' = frames \/ frames' = Append(frames, f)
        /\ IsFrame(SubSeq(input, f.from, f.to))
    BY <1>5, TakeDrops DEF TakeFrame, Here
  <2> HIDE DEF n
  <2>2. Start' = Start + n
    BY <2>1, DropsBytes
  <2>3. /\ Start \in Nat /\ n \in Nat /\ n > 0 /\ input' = input
        /\ Start + n <= Len(input) /\ Len(input) <= MaxInput
        /\ MaxInput \in Nat /\ Len(input) \in Nat
    BY <2>1, BufferLengths, ConstantTypes DEF Drops
  <2>4. f \in Intervals /\ f.from = Start + 1 /\ f.to = Start' /\ f.from <= f.to
    <3>1. Start + 1 \in 1..MaxInput /\ Start + n \in 1..MaxInput /\ Start + 1 <= Start + n
      BY <2>3
    <3> QED
      BY <2>2, <3>1 DEF Intervals
  <2>5. Whole(f)
    BY <2>1, <2>4 DEF Whole
  <2>6. Start' \in Nat /\ Start' >= Start
    BY <2>2, <2>3
  <2> HIDE DEF f
  <2>7. CASE frames' = frames
    BY <1>1, <2>1, <2>7
  <2>8. CASE frames' = Append(frames, f)
    BY <2>1, <2>3, <2>4, <2>5, <2>6, <2>8, OutputTakes
  <2> QED
    BY <2>1, <2>7, <2>8
<1>6. CASE Still
  <2>1. input' = input /\ Start' = Start /\ Start \in Nat
    BY <1>6, StillBuffer, BufferLengths
  <2>2. CASE NextChunk \/ SourceEnds \/ FeedReturns \/ UNCHANGED vars
    <3>1. /\ UNCHANGED <<frames, output, valid, forwarded>>
          /\ phase' = phase \/ phase # "broken"
      BY <2>2 DEF NextChunk, SourceEnds, FeedReturns, vars
    <3> QED
      BY <2>1, <3>1, OutputStays
  <2> QED
    BY <1>6, <2>2, WriteOutput DEF Still
<1> QED
  BY <1>2, <1>3, <1>4, <1>5, <1>6, StepCases

LEMMA InitOutput == Init => OutputInv
<1> SUFFICES ASSUME Init PROVE OutputInv
  OBVIOUS
<1>1. /\ frames = <<>> /\ output = <<>> /\ <<>> \in Seq(Intervals) /\ Len(<<>>) = 0
      /\ Start = 0 /\ valid = [frames |-> 0, bytes |-> 0] /\ forwarded = 0 /\ phase = "read"
  BY EmptySeq DEF Init, Start
<1>2. valid \in [frames : Nat, bytes : Nat] /\ valid.frames = 0 /\ valid.bytes = 0
  BY <1>1
<1>3. WaitingInv /\ WrittenInv
  BY <1>1 DEF WaitingInv, WrittenInv
<1>4. CountInv
  BY <1>1, <1>2 DEF CountInv
<1> QED
  BY <1>3, <1>4 DEF OutputInv

RelayInv == BufferInv /\ ParsedInv /\ OutputInv

LEMMA RelayInvariant == Spec => []RelayInv
<1>1. Init => RelayInv
  BY InitBuffer, InitParsed, InitOutput DEF RelayInv
<1>2. RelayInv /\ [Next]_vars => RelayInv'
  BY BufferStep, ParsedStep, OutputStep DEF RelayInv
<1> QED
  BY <1>1, <1>2, PTL DEF Spec

\* Counters, buffer and lists stay in their types and below the bytes fed.
THEOREM TypeCorrect == Spec => []TypeOK
<1>1. RelayInv => TypeOK
  <2> SUFFICES ASSUME RelayInv PROVE TypeOK
    OBVIOUS
  <2>1. BufferInv /\ ParsedInv /\ WaitingInv /\ WrittenInv /\ CountInv
    BY DEF RelayInv, OutputInv
  <2>2. Start \in Nat /\ Start <= Len(input) /\ Len(input) <= MaxInput
        /\ Len(input) \in Nat /\ MaxInput \in Nat
    BY <2>1, BufferLengths, ConstantTypes DEF BufferInv
  <2>3. discarded \in 0..Len(input) /\ crcErrors \in 0..discarded
    BY <2>1, <2>2 DEF BufferInv
  <2>4. valid.frames \in 0..MaxInput /\ valid.bytes \in 0..MaxInput
        /\ forwarded \in 0..valid.frames
    <3>1. valid.frames \in Nat /\ valid.bytes \in Nat /\ forwarded \in Nat
      BY <2>1 DEF CountInv
    <3>2. forwarded <= valid.frames
      BY <2>1, <3>1 DEF CountInv
    <3> QED
      BY <2>1, <2>2, <3>1, <3>2 DEF CountInv
  <2>5. valid \in [frames : 0..MaxInput, bytes : 0..MaxInput]
    BY <2>1, <2>4 DEF CountInv
  <2> QED
    BY <2>1, <2>3, <2>4, <2>5 DEF TypeOK, BufferInv, ParsedInv, WaitingInv, WrittenInv
<1> QED
  BY <1>1, RelayInvariant, PTL

\* Whatever arrives, only whole valid frames of it are written, in their order and
\* without overlap, up to the part that a failing destination took last.
THEOREM OutputIsOfFrames == Spec => []OutputIsFrames
<1>1. RelayInv => OutputIsFrames
  <2> SUFFICES ASSUME RelayInv PROVE OutputIsFrames
    OBVIOUS
  <2>1. WrittenInv /\ CountInv
    BY DEF RelayInv, OutputInv
  <2>2. ASSUME NEW k \in 1..Len(output)
        PROVE  \/ IsFrame(SubSeq(input, output[k].from, output[k].to))
               \/ phase = "broken" /\ k = Len(output) /\ k = forwarded + 1
    <3>1. Len(output) \in Nat /\ forwarded \in Nat
      BY <2>1, LenProperties DEF WrittenInv, CountInv
    <3>2. CASE k \in 1..forwarded
      BY <2>1, <3>2 DEF CountInv, Whole
    <3>3. CASE k \notin 1..forwarded
      BY <2>1, <3>1, <3>3 DEF CountInv
    <3> QED
      BY <3>2, <3>3
  <2> QED
    BY <2>1, <2>2 DEF OutputIsFrames, WrittenInv
<1> QED
  BY <1>1, RelayInvariant, PTL

\* A valid frame that begins before the pending bytes begins inside an accepted one.
LEMMA EveryParsedIsAccepted ==
  ASSUME RelayInv, NEW f \in FramesOf(input), f.from <= Start
  PROVE  \E k \in 1..Len(accepted) : Covers(accepted[k], f.from)
<1> USE DEF RelayInv
<1>1. f.from \in 1..Len(input) /\ f.to \in 1..Len(input) /\ f.from <= f.to
      /\ IsFrame(SubSeq(input, f.from, f.to))
  BY DEF FramesOf
<1>2. <<>> \in Seq(Alphabet) /\ Len(<<>>) = 0 /\ input \o <<>> = input
  BY EmptySeq, ConcatEmptySeq DEF BufferInv
<1>3. f.to \in f.from .. Len(input) + Len(<<>>)
  BY <1>1, <1>2, BufferLengths
<1>4. ~Hopeless(input, f.from)
  BY <1>1, <1>2, <1>3 DEF Hopeless
<1>5. f.from \in 1..Start
  BY <1>1, BufferLengths
<1> QED
  BY <1>4, <1>5 DEF ParsedInv

\* No valid frame of the stream is lost, whatever noise, false preambles and bad
\* checksums surround it and wherever the stream is cut into chunks.
THEOREM EveryFrameFound == Spec => []NoFrameLost
<1>1. RelayInv => NoFrameLost
  BY EveryParsedIsAccepted DEF NoFrameLost, Covers
<1> QED
  BY <1>1, RelayInvariant, PTL

-----------------------------------------------------------------------------
(* What is not yet written *)

\* When feed() has returned, its buffer is the head of a candidate.
HeadWaits == buffer # <<>> => buffer[1] = Preamble /\ Incomplete(buffer)

LEMMA FeedReturnsRight == ASSUME BufferInv, FeedReturns PROVE HeadWaits
<1> SUFFICES ASSUME buffer # <<>> PROVE buffer[1] = Preamble /\ Incomplete(buffer)
  BY DEF HeadWaits
<1>1. CASE HeaderMissing
  BY <1>1 DEF HeaderMissing, Incomplete
<1>2. CASE BodyMissing
  <2>1. /\ Len(buffer) >= 3 /\ buffer[1] = Preamble /\ ReservedBits(buffer) = 0
        /\ Len(buffer) < FrameLength(buffer)
    BY <1>2 DEF BodyMissing, HeaderReady
  <2>2. PayloadLength(buffer) \in 0..1023
    BY ZenonT(60), <2>1, PayloadBound DEF BufferInv
  <2>3. \A n \in 0..1023 : n <= MaxPayload
    BY ConstantTypes
  <2>4. HeaderIsRight(buffer)
    BY ZenonT(60), <2>1, <2>2, <2>3 DEF HeaderIsRight
  <2> QED
    BY <2>1, <2>4 DEF Incomplete
<1> QED
  BY <1>1, <1>2 DEF FeedReturns

HeldInv == phase \in {"read", "write", "end"} => HeadWaits

LEMMA HeldStep == ASSUME BufferInv, HeldInv, [Next]_vars PROVE HeldInv'
<1>1. ASSUME NEW chunk \in Chunks, Feed(chunk) PROVE HeldInv'
  BY <1>1 DEF Feed, HeldInv
<1>2. CASE SkipNoise \/ RejectHeader \/ RejectCrc \/ TakeFrame
  <2>1. phase' = "parse"
    BY <1>2 DEF SkipNoise, RejectHeader, RejectCrc, TakeFrame, CandidateReady, HeaderReady
  <2> QED
    BY <2>1 DEF HeldInv
<1>3. CASE Still
  <2>1. buffer' = buffer
    BY <1>3, StillBuffer
  <2>2. CASE FeedReturns
    BY <2>1, <2>2, FeedReturnsRight DEF HeldInv, HeadWaits
  <2>3. CASE NextChunk \/ SourceEnds \/ WriteFrame \/ UNCHANGED vars
    <3>1. phase' \in {"read", "write", "end"} => phase \in {"read", "write", "end"}
      BY <2>3 DEF NextChunk, SourceEnds, WriteFrame, vars
    <3> QED
      BY <2>1, <3>1 DEF HeldInv, HeadWaits
  <2> QED
    BY <1>3, <2>2, <2>3 DEF Still
<1> QED
  BY <1>1, <1>2, <1>3, StepCases

\* An accepted frame is whole, and if it has a type it was written or waits for it.
Written(f) == \E n \in 1..Len(output) : output[n] = f
Queued(f) == \E n \in 1..Len(frames) : frames[n] = f
Delivered(f) == phase # "broken" /\ Typed(f) => Written(f) \/ Queued(f)

DeliveredInv ==
  /\ \A k \in 1..Len(accepted) :
       Whole(accepted[k]) /\ accepted[k].to <= Start /\ Delivered(accepted[k])
  /\ phase \in {"read", "end"} => frames = <<>>

\* Steps that accept nothing and write nothing.
LEMMA DeliveredStays ==
  ASSUME BufferInv, ParsedInv, DeliveredInv, UNCHANGED <<accepted, frames, output>>,
         Start' \in Nat, Start' >= Start,
         input' = input \/ \E more \in Seq(Alphabet) : input' = input \o more,
         phase # "broken" \/ phase' = "broken",
         phase' \in {"read", "end"} => frames = <<>>
  PROVE  DeliveredInv'
<1>1. ASSUME NEW f \in Intervals, Whole(f), f.to <= Start, Delivered(f)
      PROVE  Whole(f)' /\ f.to <= Start' /\ Delivered(f)'
  <2>1. f.from \in 1..Len(input) /\ f.to \in 1..Len(input) /\ f.to <= Start'
    BY <1>1, BufferLengths, ConstantTypes DEF Intervals, Whole
  <2>2. SubSeq(input', f.from, f.to) = SubSeq(input, f.from, f.to)
    <3>1. CASE input' = input
      BY <3>1
    <3>2. ASSUME NEW more \in Seq(Alphabet), input' = input \o more
          PROVE  SubSeq(input', f.from, f.to) = SubSeq(input, f.from, f.to)
      BY <2>1, <3>2, SubSeqOfConcat1 DEF BufferInv
    <3> QED
      BY <3>1, <3>2
  <2>3. Whole(f)' /\ (Typed(f)' <=> Typed(f))
    BY <1>1, <2>2 DEF Whole, Typed
  <2> QED
    BY <1>1, <2>1, <2>3 DEF Delivered, Written, Queued
<1>2. \A k \in 1..Len(accepted) : accepted[k] \in Intervals
  BY ElementOfSeq DEF ParsedInv
<1> QED
  BY <1>1, <1>2 DEF DeliveredInv

LEMMA TakeDelivers ==
  ASSUME BufferInv, ParsedInv, OutputInv, DeliveredInv, TakeFrame
  PROVE  DeliveredInv'
<1> DEFINE n == FrameLength(buffer)
<1>0. PICK f : f = [from |-> Start + 1, to |-> Start + n]
  OBVIOUS
<1>1. /\ n \in 4..Len(buffer) /\ Drops(n) /\ accepted' = Append(accepted, f)
      /\ IsFrame(SubSeq(input, Start + 1, Start + n)) /\ phase = "parse"
      /\ UNCHANGED <<phase, output>>
      /\ \/ PayloadLength(buffer) < TypeBytes /\ frames' = frames
         \/ frames' = Append(frames, f)
  BY <1>0, TakeDrops DEF TakeFrame, Here, CandidateReady, HeaderReady
<1> HIDE DEF n
<1>2. /\ Start \in Nat /\ Start' = Start + n /\ input' = input /\ n \in Nat /\ n > 3
      /\ Start + n <= Len(input) /\ Len(input) <= MaxInput /\ MaxInput \in Nat
      /\ Len(input) \in Nat
  <2>1. Start' = Start + n /\ input' = input
    BY <1>1, DropsBytes DEF Drops
  <2>2. Start \in Nat /\ Len(buffer) \in Nat /\ Len(input) \in Nat
        /\ Start + Len(buffer) = Len(input) /\ Len(input) <= MaxInput
    BY BufferLengths DEF BufferInv
  <2> QED
    BY <1>1, <2>1, <2>2, ConstantTypes
<1>3. f \in Intervals /\ f.to <= Start' /\ f.from <= f.to
  <2>1. Start + 1 \in 1..MaxInput /\ Start + n \in 1..MaxInput /\ Start + 1 <= Start + n
    BY <1>2
  <2> QED
    BY <1>0, <1>2, <2>1 DEF Intervals
<1>4. Whole(f)
  BY <1>0, <1>1, <1>3 DEF Whole
<1>5. PayloadLength(SubSeq(input, f.from, f.to)) = PayloadLength(buffer)
  <2> DEFINE raw == SubSeq(buffer, 1, n)
  <2>1. n \in 1..Len(buffer) /\ 2 \in 1 .. n - 1 + 1 /\ 3 \in 1 .. n - 1 + 1
        /\ 1 + 2 - 1 = 2 /\ 1 + 3 - 1 = 3
    BY <1>1, BufferLengths
  <2>2. raw = SubSeq(input, f.from, f.to)
    BY <1>0, <2>1, HeadOfBuffer
  <2>3. \A i \in 1..n : buffer[i] \in Alphabet
    BY <1>1, ElementOfSeq, BufferLengths DEF BufferInv
  <2>4. \A i \in 1 .. n - 1 + 1 : raw[i] = buffer[1 + i - 1]
    BY <1>2, <2>3, SubSeqProperties
  <2>5. raw[2] = buffer[2] /\ raw[3] = buffer[3]
    BY <2>1, <2>4
  <2> HIDE DEF raw
  <2> QED
    BY <2>2, <2>5 DEF PayloadLength
<1>6. frames \in Seq(Intervals) /\ accepted \in Seq(Intervals)
      /\ Len(frames) \in Nat /\ Len(accepted) \in Nat
  BY LenProperties DEF OutputInv, WaitingInv, ParsedInv
<1>7. /\ Len(accepted') = Len(accepted) + 1 /\ accepted'[Len(accepted) + 1] = f
      /\ \A k \in 1..Len(accepted) : accepted'[k] = accepted[k]
  BY <1>1, <1>3, <1>6, AppendProperties
<1>8. frames' = Append(frames, f) =>
        /\ Len(frames') = Len(frames) + 1 /\ frames'[Len(frames) + 1] = f
        /\ \A k \in 1..Len(frames) : frames'[k] = frames[k]
  BY <1>3, <1>6, AppendProperties
<1>9. \A g : Queued(g) => Queued(g)'
  <2> SUFFICES ASSUME NEW g, NEW k \in 1..Len(frames), frames[k] = g
               PROVE  \E m \in 1..Len(frames') : frames'[m] = g
    BY DEF Queued
  <2>1. k \in 1..Len(frames') /\ frames'[k] = g
    BY <1>1, <1>6, <1>8
  <2> QED
    BY <2>1
<1>10. \A g : (Written(g) <=> Written(g)') /\ (Typed(g) <=> Typed(g)') /\ (Whole(g) <=> Whole(g)')
  BY <1>1, <1>2 DEF Written, Typed, Whole
<1>11. Delivered(f)'
  <2>1. CASE frames' = Append(frames, f)
    <3>1. Len(frames) + 1 \in 1..Len(frames') /\ frames'[Len(frames) + 1] = f
      BY <1>6, <1>8, <2>1
    <3>2. Queued(f)'
      BY <3>1 DEF Queued
    <3> QED
      BY <3>2 DEF Delivered
  <2>2. CASE PayloadLength(buffer) < TypeBytes
    <3>1. PayloadLength(buffer) \in Nat
      <4>1. Len(buffer) >= 3
        BY DEF TakeFrame, CandidateReady, HeaderReady
      <4>2. PayloadLength(buffer) \in 0..1023
        BY ZenonT(60), <4>1, PayloadBound DEF BufferInv
      <4> QED
        BY <4>2
    <3>2. ~(PayloadLength(buffer) >= TypeBytes)
      <4>1. \A a, b \in Nat : a < b => ~(a >= b)
        OBVIOUS
      <4> QED
        BY <2>2, <3>1, <4>1, ConstantTypes
    <3>3. ~Typed(f)
      BY <1>5, <3>2 DEF Typed
    <3>4. ~Typed(f)'
      BY <1>10, <3>3
    <3> QED
      BY <3>4 DEF Delivered
  <2> QED
    BY <1>1, <2>1, <2>2
<1>12. ASSUME NEW k \in 1..Len(accepted')
       PROVE  Whole(accepted[k])' /\ accepted'[k].to <= Start' /\ Delivered(accepted[k])'
  <2>1. CASE k \in 1..Len(accepted)
    <3>1. /\ accepted'[k] = accepted[k] /\ Whole(accepted[k]) /\ accepted[k].to <= Start
          /\ Delivered(accepted[k]) /\ accepted[k] \in Intervals
      BY <1>6, <1>7, <2>1, ElementOfSeq DEF DeliveredInv
    <3>2. accepted'[k].to <= Start'
      BY <1>2, <3>1 DEF Intervals
    <3> QED
      BY <1>1, <1>2, <1>9, <3>1, <3>2 DEF Delivered, Whole, Typed, Written
  <2>2. CASE k = Len(accepted) + 1
    <3>1. accepted'[k] = f /\ Whole(f)' /\ f.to <= Start' /\ Delivered(f)'
      BY <1>3, <1>4, <1>7, <1>10, <1>11, <2>2
    <3> QED
      BY <3>1 DEF Whole, Delivered, Typed, Queued, Written
  <2> QED
    BY <1>6, <1>7, <2>1, <2>2
<1> QED
  BY <1>1, <1>12 DEF DeliveredInv

LEMMA WriteDelivers ==
  ASSUME BufferInv, ParsedInv, OutputInv, DeliveredInv, WriteFrame
  PROVE  DeliveredInv'
<1>1. /\ phase = "write" /\ frames # <<>> /\ frames' = Tail(frames)
      /\ UNCHANGED <<input, buffer, accepted>>
      /\ \/ output' = Append(output, frames[1]) /\ phase' = "write"
         \/ phase' = "broken"
  BY FirstWaits DEF WriteFrame, AfterFailedWrite
<1>2. Start' = Start
  BY <1>1 DEF Start
<1>3. /\ frames \in Seq(Intervals) /\ output \in Seq(Intervals) /\ Len(frames) \in Nat
      /\ Len(output) \in Nat /\ frames[1] \in Intervals
  BY <1>1, LenProperties, FirstWaits DEF OutputInv, WaitingInv, WrittenInv
<1>4. Len(frames') = Len(frames) - 1 /\ \A k \in 1..Len(frames') : frames'[k] = frames[k + 1]
  BY <1>1, <1>3, HeadTailProperties
<1>5. CASE output' = Append(output, frames[1]) /\ phase' = "write"
  <2>1. /\ Len(output') = Len(output) + 1 /\ output'[Len(output) + 1] = frames[1]
        /\ \A k \in 1..Len(output) : output'[k] = output[k]
    BY <1>3, <1>5, AppendProperties
  <2>2. ASSUME NEW g, Written(g) PROVE Written(g)'
    <3>1. PICK k \in 1..Len(output) : output[k] = g
      BY <2>2 DEF Written
    <3>2. k \in 1..Len(output') /\ output'[k] = g
      BY <1>3, <2>1, <3>1
    <3> QED
      BY <3>2 DEF Written
  <2>3. ASSUME NEW g, Queued(g) PROVE Written(g)' \/ Queued(g)'
    <3>1. PICK k \in 1..Len(frames) : frames[k] = g
      BY <2>3 DEF Queued
    <3>2. CASE k = 1
      <4>1. Len(output) + 1 \in 1..Len(output') /\ output'[Len(output) + 1] = g
        BY <1>3, <2>1, <3>1, <3>2
      <4> QED
        BY <4>1 DEF Written
    <3>3. CASE k # 1
      <4>1. k - 1 \in 1..Len(frames') /\ k - 1 + 1 = k
        BY <1>3, <1>4, <3>1, <3>3
      <4>2. frames'[k - 1] = g
        BY <1>4, <3>1, <4>1
      <4> QED
        BY <4>1, <4>2 DEF Queued
    <3> QED
      BY <3>2, <3>3
  <2>4. \A k \in 1..Len(accepted) : Delivered(accepted[k])'
    BY <1>1, <1>5, <2>2, <2>3 DEF DeliveredInv, Delivered, Typed
  <2> QED
    BY <1>1, <1>2, <1>5, <2>4 DEF DeliveredInv, Whole
<1>6. CASE phase' = "broken"
  BY <1>1, <1>2, <1>6 DEF DeliveredInv, Delivered, Whole
<1> QED
  BY <1>1, <1>5, <1>6

LEMMA DeliveredStep ==
  ASSUME BufferInv, ParsedInv, OutputInv, DeliveredInv, [Next]_vars
  PROVE  DeliveredInv'
<1>1. ASSUME NEW n, Drops(n), UNCHANGED <<phase, frames, output, accepted>>
      PROVE  DeliveredInv'
  <2>1. Start \in Nat /\ Start' = Start + n /\ n \in Nat /\ input' = input
    <3>1. Start' = Start + n
      BY <1>1, DropsBytes
    <3>2. n \in Nat /\ input' = input
      BY <1>1, BufferLengths DEF Drops
    <3> QED
      BY <3>1, <3>2, BufferLengths
  <2>2. Start' \in Nat /\ Start' >= Start
    BY <2>1
  <2>3. phase' \in {"read", "end"} => frames = <<>>
    BY <1>1 DEF DeliveredInv
  <2> QED
    BY <1>1, <2>1, <2>2, <2>3, DeliveredStays
<1>2. ASSUME NEW chunk \in Chunks, Feed(chunk) PROVE DeliveredInv'
  <2>1. /\ chunk \in Seq(Alphabet) /\ input' = input \o chunk /\ Start' = Start
        /\ Start \in Nat
    BY <1>2, FeedGrows, BufferLengths
  <2>2. UNCHANGED <<frames, output, accepted>> /\ phase = "read" /\ phase' = "parse"
    BY <1>2 DEF Feed
  <2>3. Start' \in Nat /\ Start' >= Start
    BY <2>1
  <2> QED
    BY <2>1, <2>2, <2>3, DeliveredStays
<1>3. CASE SkipNoise \/ RejectHeader \/ RejectCrc
  <2>1. UNCHANGED <<phase, frames, output, accepted>>
    BY <1>3 DEF SkipNoise, RejectHeader, RejectCrc
  <2>2. \E n \in 1..Len(buffer) : Drops(n)
    <3>1. CASE SkipNoise
      BY <3>1, SkipNoiseDrops
    <3>2. CASE RejectHeader \/ RejectCrc
      BY <3>2, RejectDrops DEF Drops
    <3> QED
      BY <1>3, <3>1, <3>2
  <2> QED
    BY <1>1, <2>1, <2>2
<1>4. CASE Still
  <2>1. input' = input /\ Start' = Start /\ Start \in Nat /\ accepted' = accepted
    BY <1>4, StillBuffer, BufferLengths
  <2>2. CASE NextChunk \/ SourceEnds \/ FeedReturns \/ UNCHANGED vars
    <3>1. /\ UNCHANGED <<frames, output>>
          /\ phase # "broken" \/ phase' = "broken"
          /\ phase' \in {"read", "end"} => frames = <<>>
      BY <2>2 DEF NextChunk, SourceEnds, FeedReturns, vars, DeliveredInv
    <3> QED
      BY <2>1, <3>1, DeliveredStays
  <2> QED
    BY <1>4, <2>2, WriteDelivers DEF Still
<1> QED
  BY <1>2, <1>3, <1>4, TakeDelivers, StepCases

\* Two valid frames that begin at one place are one.
LEMMA OneFrameAt ==
  ASSUME BufferInv, NEW f \in FramesOf(input), NEW g \in Intervals, Whole(g),
         g.to <= Start, g.from = f.from
  PROVE  g = f
<1> DEFINE v == SubSeq(input, f.from, f.to)
           w == SubSeq(input, g.from, g.to)
<1>1. /\ f.from \in 1..Len(input) /\ f.to \in 1..Len(input) /\ f.from <= f.to /\ IsFrame(v)
      /\ f \in [from : 1..Len(input), to : 1..Len(input)]
  BY DEF FramesOf
<1>2. /\ g.from \in 1..Len(input) /\ g.to \in 1..Len(input) /\ g.from <= g.to /\ IsFrame(w)
      /\ Len(input) \in Nat
  BY BufferLengths, ConstantTypes DEF Intervals, Whole
<1>3. \A i \in 1..Len(input) : input[i] \in Alphabet
  BY ElementOfSeq DEF BufferInv
<1>4. /\ Len(v) = f.to - f.from + 1
      /\ \A i \in 1 .. f.to - f.from + 1 : v[i] = input[f.from + i - 1]
  BY <1>1, <1>2, <1>3, SubSeqProperties
<1>5. /\ Len(w) = g.to - g.from + 1
      /\ \A i \in 1 .. g.to - g.from + 1 : w[i] = input[g.from + i - 1]
  BY <1>2, <1>3, SubSeqProperties
<1> HIDE DEF v, w
<1>6. /\ Len(v) >= 3 /\ Len(v) = FrameLength(v)
      /\ Len(w) >= 3 /\ Len(w) = FrameLength(w)
  <2>1. \A k \in Int, c \in Nat : k >= 3 + c => k >= 3
    OBVIOUS
  <2>2. Len(v) \in Int /\ Len(w) \in Int
    BY <1>1, <1>2, <1>4, <1>5
  <2>3. /\ Len(v) >= 3 + CrcSize /\ Len(v) = FrameLength(v)
        /\ Len(w) >= 3 + CrcSize /\ Len(w) = FrameLength(w)
    BY <1>1, <1>2 DEF IsFrame
  <2> QED
    BY <2>1, <2>2, <2>3, ConstantTypes
<1>7. v[2] = w[2] /\ v[3] = w[3]
  <2>1. /\ 2 \in 1 .. f.to - f.from + 1 /\ 3 \in 1 .. f.to - f.from + 1
        /\ 2 \in 1 .. g.to - g.from + 1 /\ 3 \in 1 .. g.to - g.from + 1
    BY <1>1, <1>2, <1>4, <1>5, <1>6
  <2> QED
    BY <1>4, <1>5, <2>1
<1>8. Len(v) = Len(w)
  BY <1>6, <1>7 DEF FrameLength, PayloadLength
<1>9. f.to = g.to
  BY <1>1, <1>2, <1>4, <1>5, <1>8
<1> QED
  BY <1>1, <1>9 DEF Intervals

\* Every valid frame with a type was written, unless it begins inside an accepted
\* one or behind the first of the pending bytes, and these are the head of a
\* candidate that is not complete: nothing else holds a frame back or loses it.
THEOREM NothingWaits == Spec => []NothingHeldBack
<1>1. RelayInv /\ HeldInv /\ DeliveredInv => NothingHeldBack
  <2> SUFFICES ASSUME RelayInv, HeldInv, DeliveredInv, phase \in {"read", "end"}
               PROVE  /\ HeadWaits
                      /\ \A f \in FramesOf(input) :
                           f.from <= Start /\ Typed(f) =>
                             \/ \E k \in 1..Len(output) : output[k] = f
                             \/ \E k \in 1..Len(accepted) :
                                  accepted[k].from < f.from /\ f.from <= accepted[k].to
    BY DEF NothingHeldBack, HeadWaits
  <2>1. HeadWaits
    BY DEF HeldInv
  <2>2. ASSUME NEW f \in FramesOf(input), f.from <= Start, Typed(f)
        PROVE  \/ \E k \in 1..Len(output) : output[k] = f
               \/ \E k \in 1..Len(accepted) :
                    accepted[k].from < f.from /\ f.from <= accepted[k].to
    <3>1. PICK k \in 1..Len(accepted) : Covers(accepted[k], f.from)
      BY <2>2, EveryParsedIsAccepted
    <3> DEFINE g == accepted[k]
    <3>2. g \in Intervals /\ Whole(g) /\ g.to <= Start /\ Delivered(g)
      BY ElementOfSeq DEF RelayInv, ParsedInv, DeliveredInv
    <3>3. g.from <= f.from /\ f.from <= g.to /\ g.from \in Nat /\ f.from \in Nat
      BY <3>1, <3>2, ConstantTypes DEF Covers, Intervals, FramesOf
    <3>4. CASE g.from = f.from
      <4>1. g = f
        BY <3>2, <3>4, OneFrameAt DEF RelayInv
      <4>2. frames = <<>> /\ Len(<<>>) = 0
        BY EmptySeq DEF DeliveredInv
      <4>3. ~Queued(f)
        BY <4>2 DEF Queued
      <4>4. Written(f)
        BY <2>2, <3>2, <4>1, <4>3 DEF Delivered
      <4> QED
        BY <4>4 DEF Written
    <3>5. CASE g.from # f.from
      BY <3>3, <3>5
    <3> QED
      BY <3>4, <3>5
  <2> QED
    BY <2>1, <2>2
<1>2. Init => HeldInv /\ DeliveredInv
  <2> SUFFICES ASSUME Init PROVE HeldInv /\ DeliveredInv
    OBVIOUS
  <2>1. buffer = <<>> /\ accepted = <<>> /\ frames = <<>> /\ Len(<<>>) = 0
    BY EmptySeq DEF Init
  <2> QED
    BY <2>1 DEF HeldInv, HeadWaits, DeliveredInv
<1>3. RelayInv /\ HeldInv /\ DeliveredInv /\ [Next]_vars => HeldInv' /\ DeliveredInv'
  BY HeldStep, DeliveredStep DEF RelayInv
<1> QED
  BY <1>1, <1>2, <1>3, RelayInvariant, PTL DEF Spec

-----------------------------------------------------------------------------
(* Induction, by sets instead of predicates *)

\* Of the intervals from 0 to the members of a set of numbers one is the least.
LEMMA LeastNumber ==
  ASSUME NEW T, T \subseteq Nat, T # {}
  PROVE  \E x \in T : \A y \in T : ~(y < x)
<1> DEFINE I == {0..n : n \in T}
<1>1. I \subseteq FiniteSubsetsOf(Nat) /\ I # {}
  <2>1. \A n \in Nat : 0..n \in FiniteSubsetsOf(Nat)
    BY FS_Interval DEF FiniteSubsetsOf
  <2> QED
    BY <2>1
<1> HIDE DEF I
<1>2. PICK s \in I : \A t \in I : ~(<<t, s>> \in StrictSubsetOrdering(Nat))
  BY <1>1, FS_StrictSubsetOrderingWellFounded, WFMin
<1>3. PICK x \in T : s = 0..x
  BY DEF I
<1>4. ASSUME NEW y \in T, y < x PROVE FALSE
  <2>1. x \in Nat /\ y \in Nat
    OBVIOUS
  <2>2. 0..y \subseteq 0..x /\ x \in 0..x /\ x \notin 0..y
    BY <1>4, <2>1
  <2>3. 0..y \in SUBSET Nat /\ 0..x \in SUBSET Nat
    BY <2>1
  <2>4. <<0..y, 0..x>> \in StrictSubsetOrdering(Nat)
    BY <2>2, <2>3 DEF StrictSubsetOrdering
  <2> QED
    BY <1>2, <1>3, <2>4 DEF I
<1> QED
  BY <1>4

LEMMA SetInduction ==
  ASSUME NEW P, 0 \in P, \A n \in Nat : n \in P => n + 1 \in P
  PROVE  Nat \subseteq P
<1> SUFFICES ASSUME Nat \ P # {} PROVE FALSE
  OBVIOUS
<1>1. PICK x \in Nat \ P : \A y \in Nat \ P : ~(y < x)
  BY LeastNumber
<1>2. x - 1 \in Nat /\ x - 1 < x /\ x - 1 + 1 = x
  OBVIOUS
<1> QED
  BY <1>1, <1>2

-----------------------------------------------------------------------------
(* The bytes of a list of frames *)

Sums(s, fs) ==
  /\ s \in [0..Len(fs) -> Int] /\ s[0] = 0
  /\ \A k \in 1..Len(fs) : s[k] = s[k - 1] + Size(fs[k])

LEMMA SizeType == \A f \in Intervals : Size(f) \in Int /\ Size(f) = f.to - f.from + 1
<1>1. \A f \in Intervals : f.from \in Int /\ f.to \in Int
  BY ConstantTypes DEF Intervals
<1> QED
  BY <1>1 DEF Size

\* The partial sums of a list exist.
LEMMA SumsExist == ASSUME NEW fs \in Seq(Intervals) PROVE \E s : Sums(s, fs)
<1> DEFINE n == Len(fs)
           Upto(s, m) == /\ s \in [0..m -> Int] /\ s[0] = 0
                         /\ \A k \in 1..m : s[k] = s[k - 1] + Size(fs[k])
           P == {m \in Nat : m <= n => \E s : Upto(s, m)}
<1>1. n \in Nat /\ \A k \in 1..n : Size(fs[k]) \in Int
  BY SizeType, ElementOfSeq, LenProperties
<1> HIDE DEF n
<1>2. 0 \in P
  <2>1. Upto([k \in 0..0 |-> 0], 0)
    OBVIOUS
  <2> QED
    BY <2>1
<1>3. ASSUME NEW m \in Nat, m \in P PROVE m + 1 \in P
  <2> SUFFICES ASSUME m + 1 <= n PROVE \E s : Upto(s, m + 1)
    OBVIOUS
  <2>1. m <= n /\ m + 1 \in 1..n
    BY <1>1
  <2>2. PICK s : Upto(s, m)
    BY <1>3, <2>1
  <2>3. Size(fs[m + 1]) \in Int /\ s[m] \in Int
    BY <1>1, <2>1, <2>2
  <2> DEFINE t == [k \in 0 .. m + 1 |-> IF k <= m THEN s[k] ELSE s[m] + Size(fs[m + 1])]
  <2>4. t \in [0 .. m + 1 -> Int]
    BY <2>2, <2>3
  <2>5. t[0] = 0
    BY <2>2
  <2>6. ASSUME NEW k \in 1 .. m + 1 PROVE t[k] = t[k - 1] + Size(fs[k])
    <3>1. k - 1 \in 0 .. m + 1 /\ k \in 0 .. m + 1 /\ k - 1 <= m
      OBVIOUS
    <3>2. t[k - 1] = s[k - 1]
      BY <3>1
    <3>3. CASE k <= m
      <4>1. k \in 1..m /\ t[k] = s[k]
        BY <3>1, <3>3
      <4> QED
        BY <2>2, <3>2, <4>1
    <3>4. CASE ~(k <= m)
      <4>1. k = m + 1 /\ k - 1 = m
        BY <3>4
      <4>2. t[k] = s[m] + Size(fs[m + 1])
        BY <3>1, <3>4
      <4> QED
        BY <3>2, <4>1, <4>2
    <3> QED
      BY <3>3, <3>4
  <2> QED
    BY <2>4, <2>5, <2>6
<1> HIDE DEF P
<1>4. n \in P
  BY <1>1, <1>2, <1>3, SetInduction
<1>5. n <= n
  BY <1>1
<1>6. PICK s : Upto(s, n)
  BY <1>4, <1>5 DEF P
<1> QED
  BY <1>6 DEF Sums, n

\* Two lists that agree from the d-th frame of one on have the same sums there.
LEMMA SumsAgree ==
  ASSUME NEW fs \in Seq(Intervals), NEW gs \in Seq(Intervals), NEW s, NEW t,
         Sums(s, fs), Sums(t, gs), NEW d \in Nat, NEW m \in Nat,
         d + m <= Len(fs), m <= Len(gs), \A k \in 1..m : fs[d + k] = gs[k]
  PROVE  s[d + m] = s[d] + t[m]
<1> DEFINE P == {k \in Nat : k <= m => s[d + k] = s[d] + t[k]}
<1>1. Len(fs) \in Nat /\ Len(gs) \in Nat
  BY LenProperties
<1>2. /\ \A k \in 0..Len(fs) : s[k] \in Int
      /\ \A k \in 0..Len(gs) : t[k] \in Int
      /\ s[0] = 0 /\ t[0] = 0
  BY DEF Sums
<1>3. 0 \in P
  <2>1. s[d] \in Int
    BY <1>1, <1>2
  <2> QED
    BY <1>2, <2>1
<1>4. ASSUME NEW k \in Nat, k \in P PROVE k + 1 \in P
  <2> SUFFICES ASSUME k + 1 <= m PROVE s[d + (k + 1)] = s[d] + t[k + 1]
    OBVIOUS
  <2>1. k + 1 \in 1..m /\ k + 1 \in 1..Len(gs) /\ d + (k + 1) \in 1..Len(fs)
        /\ k + 1 - 1 = k /\ d + (k + 1) - 1 = d + k
    BY <1>1
  <2>2. s[d + (k + 1)] = s[d + k] + Size(fs[d + (k + 1)])
    BY <2>1 DEF Sums
  <2>3. t[k + 1] = t[k] + Size(gs[k + 1])
    <3>1. t[k + 1] = t[k + 1 - 1] + Size(gs[k + 1])
      BY <2>1 DEF Sums
    <3> QED
      BY <2>1, <3>1
  <2>4. fs[d + (k + 1)] = gs[k + 1] /\ Size(gs[k + 1]) \in Int
    BY <2>1, SizeType, ElementOfSeq
  <2>5. s[d + k] = s[d] + t[k]
    BY <1>4, <2>1
  <2>6. s[d] \in Int /\ t[k] \in Int
    <3>1. d \in 0..Len(fs) /\ k \in 0..Len(gs)
      BY <1>1, <2>1
    <3> QED
      BY <1>2, <3>1
  <2>7. \A a, b, c \in Int : a + b + c = a + (b + c)
    OBVIOUS
  <2> QED
    BY <2>2, <2>3, <2>4, <2>5, <2>6, <2>7
<1> HIDE DEF P
<1>5. m \in P
  BY <1>3, <1>4, SetInduction
<1> QED
  BY <1>5 DEF P

\* So what the definition of Total chooses are they.
LEMMA TotalIsTheSum ==
  ASSUME NEW fs \in Seq(Intervals)
  PROVE  \E s : Sums(s, fs) /\ Total(fs) = s[Len(fs)]
<1> DEFINE Right(s) == s = [k \in 0..Len(fs) |-> IF k = 0 THEN 0 ELSE s[k - 1] + Size(fs[k])]
           c == CHOOSE s : Right(s)
<1>1. Len(fs) \in Nat /\ \A k \in 1..Len(fs) : Size(fs[k]) \in Int
  BY SizeType, ElementOfSeq, LenProperties
<1>2. PICK s : Sums(s, fs)
  BY SumsExist
<1>3. Right(s)
  <2> DEFINE r == [k \in 0..Len(fs) |-> IF k = 0 THEN 0 ELSE s[k - 1] + Size(fs[k])]
  <2>1. \A k \in 0..Len(fs) : s[k] = r[k]
    BY <1>1, <1>2 DEF Sums
  <2>2. s \in [0..Len(fs) -> Int]
    BY <1>2 DEF Sums
  <2> QED
    BY <2>1, <2>2
<1>4. Right(c)
  BY <1>3
<1>5. Total(fs) = c[Len(fs)]
  BY DEF Total
<1> HIDE DEF c
<1> DEFINE P == {k \in Nat : k <= Len(fs) => c[k] \in Int}
<1>6. c[0] = 0
  BY <1>1, <1>4
<1>7. \A k \in 1..Len(fs) : c[k] = c[k - 1] + Size(fs[k])
  BY <1>1, <1>4
<1>8. ASSUME NEW k \in Nat, k \in P PROVE k + 1 \in P
  BY <1>1, <1>7, <1>8
<1>9. 0 \in P
  BY <1>6
<1> HIDE DEF P
<1>10. \A k \in 0..Len(fs) : c[k] \in Int
  <2>1. Nat \subseteq P
    BY <1>8, <1>9, SetInduction
  <2> QED
    BY <1>1, <2>1 DEF P
<1>11. c \in [0..Len(fs) -> Int]
  BY <1>4, <1>10
<1>12. Sums(c, fs)
  BY <1>6, <1>7, <1>11 DEF Sums
<1> QED
  BY <1>5, <1>12

LEMMA TotalOfNone == Total(<<>>) = 0
<1>1. <<>> \in Seq(Intervals) /\ Len(<<>>) = 0
  BY EmptySeq
<1> QED
  BY <1>1, TotalIsTheSum DEF Sums

LEMMA TotalOfMore ==
  ASSUME NEW fs \in Seq(Intervals), NEW f \in Intervals
  PROVE  Total(fs) \in Int /\ Total(Append(fs, f)) = Total(fs) + Size(f)
<1> DEFINE gs == Append(fs, f)
<1>1. /\ gs \in Seq(Intervals) /\ Len(gs) = Len(fs) + 1 /\ Len(fs) \in Nat
      /\ \A k \in 1..Len(fs) : gs[k] = fs[k]
      /\ gs[Len(fs) + 1] = f
  BY AppendProperties, LenProperties
<1> HIDE DEF gs
<1>2. PICK s : Sums(s, fs) /\ Total(fs) = s[Len(fs)]
  BY TotalIsTheSum
<1>3. PICK t : Sums(t, gs) /\ Total(gs) = t[Len(gs)]
  BY <1>1, TotalIsTheSum
<1>4. t[0 + Len(fs)] = t[0] + s[Len(fs)]
  <2>1. 0 + Len(fs) <= Len(gs) /\ \A k \in 1..Len(fs) : gs[0 + k] = fs[k]
    BY <1>1
  <2>2. PICK d \in Nat : d = 0
    OBVIOUS
  <2>3. PICK m \in Nat : m = Len(fs)
    BY <1>1
  <2>4. d + m <= Len(gs) /\ m <= Len(fs) /\ \A k \in 1..m : gs[d + k] = fs[k]
    BY <2>1, <2>2, <2>3
  <2>5. t[d + m] = t[d] + s[m]
    BY <1>1, <1>2, <1>3, <2>4, SumsAgree
  <2> QED
    BY <2>2, <2>3, <2>5
<1>5. t[0] = 0 /\ s[Len(fs)] \in Int
  BY <1>1, <1>2, <1>3 DEF Sums
<1>6. t[Len(gs)] = t[Len(fs)] + Size(f)
  <2>1. Len(gs) \in 1..Len(gs) /\ Len(gs) - 1 = Len(fs) /\ gs[Len(gs)] = f
    BY <1>1
  <2> QED
    BY <1>3, <2>1 DEF Sums
<1> QED
  BY <1>1, <1>2, <1>3, <1>4, <1>5, <1>6 DEF gs

LEMMA TotalOfRest ==
  ASSUME NEW fs \in Seq(Intervals), fs # <<>>
  PROVE  Total(fs) = Size(Head(fs)) + Total(Tail(fs)) /\ Total(Tail(fs)) \in Int
<1>1. PICK rest \in Seq(Intervals) : rest = Tail(fs)
  BY HeadTailProperties
<1>2. /\ Len(rest) = Len(fs) - 1 /\ Head(fs) = fs[1]
      /\ \A k \in 1..Len(rest) : rest[k] = fs[k + 1]
      /\ Len(fs) \in Nat /\ Len(fs) > 0 /\ Len(rest) \in Nat
  BY <1>1, HeadTailProperties, EmptySeq, LenProperties
<1>3. PICK s : Sums(s, fs) /\ Total(fs) = s[Len(fs)]
  BY TotalIsTheSum
<1>4. PICK t : Sums(t, rest) /\ Total(rest) = t[Len(rest)]
  BY TotalIsTheSum
<1>5. s[1 + Len(rest)] = s[1] + t[Len(rest)]
  <2>1. 1 + Len(rest) <= Len(fs) /\ Len(rest) <= Len(rest)
        /\ \A k \in 1..Len(rest) : fs[1 + k] = rest[k]
    BY <1>2
  <2>2. PICK d \in Nat : d = 1
    OBVIOUS
  <2>3. PICK m \in Nat : m = Len(rest)
    BY <1>2
  <2>4. d + m <= Len(fs) /\ m <= Len(rest) /\ \A k \in 1..m : fs[d + k] = rest[k]
    BY <2>1, <2>2, <2>3
  <2>5. s[d + m] = s[d] + t[m]
    BY <1>3, <1>4, <2>4, SumsAgree
  <2> QED
    BY <2>2, <2>3, <2>5
<1>6. s[1] = Size(Head(fs))
  <2>1. 1 \in 1..Len(fs) /\ 1 - 1 = 0 /\ Size(fs[1]) \in Int
    BY <1>2, SizeType, ElementOfSeq
  <2>2. s[1] = s[1 - 1] + Size(fs[1])
    BY <1>3, <2>1 DEF Sums
  <2> QED
    BY <1>2, <1>3, <2>1, <2>2 DEF Sums
<1>7. 1 + Len(rest) = Len(fs) /\ t[Len(rest)] \in Int
  BY <1>2, <1>4 DEF Sums
<1> QED
  BY <1>1, <1>3, <1>4, <1>5, <1>6, <1>7

-----------------------------------------------------------------------------
(* The account *)

AccountInv == Start = discarded + valid.bytes + Total(frames)

LEMMA AccountTypes ==
  ASSUME RelayInv
  PROVE  Start \in Nat /\ discarded \in Nat /\ valid.bytes \in Nat /\ Total(frames) \in Int
<1>1. frames \in Seq(Intervals)
  BY DEF RelayInv, OutputInv, WaitingInv
<1>2. Total(frames) \in Int
  <2>1. PICK s : Sums(s, frames) /\ Total(frames) = s[Len(frames)]
    BY <1>1, TotalIsTheSum
  <2> QED
    BY <1>1, <2>1, LenProperties DEF Sums
<1>3. Start \in Nat /\ discarded \in Nat
  BY BufferLengths DEF RelayInv, BufferInv
<1> QED
  BY <1>2, <1>3 DEF RelayInv, OutputInv, CountInv

LEMMA AccountStep == ASSUME RelayInv, AccountInv, [Next]_vars PROVE AccountInv'
<1> USE DEF AccountInv
<1>1. Start \in Nat /\ discarded \in Nat /\ valid.bytes \in Nat /\ Total(frames) \in Int
      /\ BufferInv /\ OutputInv /\ frames \in Seq(Intervals)
  BY AccountTypes DEF RelayInv, OutputInv, WaitingInv
\* Of what leaves the buffer, what is dropped is counted as discarded.
<1>2. ASSUME NEW n \in Nat, Drops(n), discarded' = discarded + n, UNCHANGED <<valid, frames>>
      PROVE  AccountInv'
  <2>1. Start' = Start + n
    BY <1>1, <1>2, DropsBytes
  <2> QED
    BY <1>1, <1>2, <2>1
<1>3. ASSUME Start' = Start, UNCHANGED <<discarded, valid, frames>> PROVE AccountInv'
  BY <1>3
<1>4. ASSUME NEW chunk \in Chunks, Feed(chunk) PROVE AccountInv'
  <2>1. Start' = Start
    BY <1>1, <1>4, FeedGrows
  <2> QED
    BY <1>3, <1>4, <2>1 DEF Feed
<1>5. CASE SkipNoise
  <2>1. PICK n \in 1..Len(buffer) : Drops(n) /\ discarded' = discarded + n
    BY <1>1, <1>5, SkipNoiseDrops
  <2>2. n \in Nat
    OBVIOUS
  <2> QED
    BY <1>2, <1>5, <2>1, <2>2 DEF SkipNoise
<1>6. CASE RejectHeader \/ RejectCrc
  <2>1. Drops(1) /\ discarded' = discarded + 1 /\ 1 \in Nat
    BY <1>1, <1>6, RejectDrops
  <2>2. UNCHANGED <<valid, frames>>
    BY <1>6 DEF RejectHeader, RejectCrc
  <2> QED
    BY <1>2, <2>1, <2>2
<1>7. CASE TakeFrame
  <2>1. PICK n \in Nat : n = FrameLength(buffer) /\ n > 0 /\ n <= Len(buffer) /\ Drops(n)
                        /\ Len(Raw) = n
    BY <1>1, <1>7, TakeDrops
  <2>2. Start' = Start + n /\ valid' = valid
    BY <1>1, <1>7, <2>1, DropsBytes DEF TakeFrame
  <2>3. CASE discarded' = UntypedDiscarded(Len(Raw)) /\ frames' = frames
    <3>1. UntypedDiscarded(Len(Raw)) = discarded + n
      BY <2>1 DEF UntypedDiscarded
    <3>2. discarded' = discarded + n /\ Total(frames') = Total(frames)
      BY <2>3, <3>1
    <3>3. \A a, b, c, e, k \in Int : a = b + c + e => a + k = b + k + c + e
      OBVIOUS
    <3>4. Start + n = discarded + n + valid.bytes + Total(frames)
      BY <1>1, <2>1, <3>3
    <3> QED
      BY <2>2, <3>2, <3>4
  <2>4. CASE discarded' = discarded /\ frames' = Append(frames, Here(Len(Raw)))
    <3>1. Start + 1 \in 1..MaxInput /\ Start + n \in 1..MaxInput
      <4>1. /\ Len(buffer) \in Nat /\ Len(input) \in Nat /\ Start + Len(buffer) = Len(input)
            /\ Len(input) <= MaxInput /\ MaxInput \in Nat
        BY <1>1, BufferLengths, ConstantTypes DEF BufferInv
      <4>2. \A a, b, c, m, k \in Nat :
              a + b = c /\ c <= m /\ k > 0 /\ k <= b => a + 1 \in 1..m /\ a + k \in 1..m
        OBVIOUS
      <4> QED
        BY <1>1, <2>1, <4>1, <4>2
    <3>2. Here(n) \in Intervals /\ Size(Here(n)) = n
      BY <1>1, <2>1, <3>1 DEF Here, Intervals, Size
    <3>3. Total(frames') = Total(frames) + n
      BY <1>1, <2>1, <2>4, <3>2, TotalOfMore
    <3> QED
      BY <1>1, <2>2, <2>4, <3>3
  <2> QED
    BY <1>7, <2>3, <2>4 DEF TakeFrame
<1>8. CASE Still
  <2>1. Start' = Start
    BY <1>1, <1>8, StillBuffer
  <2>2. CASE WriteFrame
    <3>1. /\ frames # <<>> /\ frames' = Tail(frames) /\ discarded' = discarded
          /\ valid'.bytes = valid.bytes + Size(Head(frames))
      BY <2>2 DEF WriteFrame
    <3>2. Size(Head(frames)) \in Nat
      BY <1>1, <3>1, FirstWaits
    <3>3. Total(frames) = Size(Head(frames)) + Total(Tail(frames))
          /\ Total(Tail(frames)) \in Int
      BY <1>1, <3>1, TotalOfRest
    <3> QED
      BY <1>1, <2>1, <3>1, <3>2, <3>3
  <2>3. CASE NextChunk \/ SourceEnds \/ FeedReturns \/ UNCHANGED vars
    BY <1>3, <2>1, <2>3 DEF NextChunk, SourceEnds, FeedReturns, vars
  <2> QED
    BY <1>8, <2>2, <2>3 DEF Still
<1> QED
  BY <1>4, <1>5, <1>6, <1>7, <1>8, StepCases

\* StreamStats and the parser account for every byte of the stream, however it was
\* cut: it was discarded, went out in a frame, waits in one, or is the rest of the
\* buffer, which is the end of what was fed.
THEOREM EveryByteIsAccountedFor == Spec => []EveryByteAccountedFor
<1>1. Init => AccountInv
  <2> SUFFICES ASSUME Init PROVE AccountInv
    OBVIOUS
  <2>1. Len(<<>>) = 0
    BY EmptySeq
  <2>2. Start = 0 /\ discarded = 0 /\ valid.bytes = 0 /\ frames = <<>>
    BY <2>1 DEF Init, Start
  <2> QED
    BY <2>2, TotalOfNone DEF AccountInv
<1>2. RelayInv /\ AccountInv => EveryByteAccountedFor
  <2> SUFFICES ASSUME RelayInv, AccountInv PROVE EveryByteAccountedFor
    OBVIOUS
  <2>1. BufferInv /\ Len(buffer) \in Nat /\ Len(input) \in Nat /\ Start \in Nat
        /\ Start + Len(buffer) = Len(input)
    BY BufferLengths DEF RelayInv
  <2>2. Len(input) = discarded + valid.bytes + Total(frames) + Len(buffer)
    BY <2>1 DEF AccountInv
  <2>3. \A i \in Start + 1 .. Len(input) : input[i] \in Alphabet
    BY <2>1, ElementOfSeq DEF BufferInv
  <2> DEFINE rest == SubSeq(input, Start + 1, Len(input))
  <2>4. /\ rest \in Seq(Alphabet)
        /\ Len(rest) = IF Start + 1 <= Len(input) THEN Len(input) - (Start + 1) + 1 ELSE 0
        /\ \A i \in 1 .. Len(input) - (Start + 1) + 1 : rest[i] = input[Start + 1 + i - 1]
    <3>1. Start + 1 \in Nat /\ input \in Seq(Alphabet)
      BY <2>1 DEF BufferInv
    <3> QED
      BY <2>1, <2>3, <3>1, SubSeqProperties
  <2> HIDE DEF rest
  <2>5. Len(rest) = Len(buffer)
    BY <2>1, <2>4
  <2>6. ASSUME NEW i \in 1..Len(buffer) PROVE buffer[i] = rest[i]
    <3>1. i \in 1 .. Len(input) - (Start + 1) + 1 /\ Start + 1 + i - 1 = Start + i
      BY <2>1
    <3> QED
      BY <2>1, <2>4, <3>1 DEF BufferInv
  <2>7. buffer = rest
    BY <2>1, <2>4, <2>5, <2>6, SeqEqual DEF BufferInv
  <2> QED
    BY <2>2, <2>7 DEF EveryByteAccountedFor, rest
<1>3. RelayInv /\ AccountInv /\ [Next]_vars => AccountInv'
  BY AccountStep
<1> QED
  BY <1>1, <1>2, <1>3, RelayInvariant, PTL DEF Spec
=============================================================================
