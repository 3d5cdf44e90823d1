---------------------- MODULE ProtocolAnalyzer_proofs ----------------------
(***************************************************************************)
(* What ProtocolAnalyzer counts, for every alphabet, checksum, size of the *)
(* type list and input: its buffer never fills, its candidates cut the     *)
(* input, the frames it counts are frames, the types it lists are theirs,  *)
(* and its marker counters are numbers of occurrences.                     *)
(***************************************************************************)
EXTENDS ProtocolAnalyzer, SequenceTheorems, FiniteSetTheorems, TLAPS

LEMMA ConstantTypes ==
  /\ \A b \in Alphabet : b \in 0..255
  /\ CrcSize \in Nat /\ CrcSize > 0
  /\ Capacity \in Nat /\ Capacity = 1026 + CrcSize /\ Capacity > 1026
  BY AnalyzerAssumption

\* The ten length bits never announce more than 1023 bytes, whatever the
\* reserved bits hold.
LEMMA PayloadBound ==
  ASSUME NEW s \in Seq(0..255), Len(s) >= 3
  PROVE  PayloadLength(s) \in 0..1023
<1>1. 2 \in 1..Len(s) /\ 3 \in 1..Len(s)
  OBVIOUS
<1> DEFINE high == s[2]
           low == s[3]
<1>2. high \in 0..255 /\ low \in 0..255
  BY SMTT(60), <1>1, ElementOfSeq
<1>3. PayloadLength(s) = (high % 4) * 256 + low
  BY DEF PayloadLength
<1> HIDE DEF high, low
<1>4. high % 4 \in 0..3
  BY <1>2
<1> QED
  BY <1>2, <1>3, <1>4

BufferInv ==
  /\ buffer \in Seq(0..255)
  /\ expected \in 0..Capacity
  /\ BufferNeverFills
  /\ Len(buffer) <= 2 => expected = 0

LEMMA InitBuffer == Init => BufferInv
<1> SUFFICES ASSUME Fresh PROVE BufferInv
  BY DEF Init
<1>1. buffer = <<>> /\ expected = 0 /\ Len(<<>>) = 0
  BY DEF Fresh
<1> QED
  BY <1>1, AnalyzerAssumption DEF BufferInv, BufferNeverFills

\* An empty buffer, or one with a lone preamble, is always fine.
LEMMA ShortBuffer ==
  ASSUME buffer' = <<>> \/ \E b \in 0..255 : buffer' = <<b>>, expected' = 0
  PROVE  BufferInv'
<1>1. CASE buffer' = <<>>
  <2>1. buffer' \in Seq(0..255) /\ Len(buffer') = 0
    BY <1>1
  <2> QED
    BY <2>1, ConstantTypes DEF BufferInv, BufferNeverFills
<1>2. CASE \E b \in 0..255 : buffer' = <<b>>
  <2>1. buffer' \in Seq(0..255) /\ Len(buffer') = 1
    BY <1>2
  <2> QED
    BY <2>1, ConstantTypes DEF BufferInv, BufferNeverFills
<1> QED
  BY <1>1, <1>2

LEMMA FeedBuffer ==
  ASSUME BufferInv, NEW b \in Alphabet, Feed(b)
  PROVE  BufferInv'
<1> DEFINE s == Append(buffer, b)
<1>1. b \in 0..255
  BY ConstantTypes
<1>2. /\ buffer \in Seq(0..255) /\ Len(buffer) \in Nat
      /\ s \in Seq(0..255) /\ Len(s) = Len(buffer) + 1
  BY <1>1 DEF BufferInv
<1>3. CASE Seek(b)
  BY <1>1, <1>3, ShortBuffer DEF Seek, Preamble
<1>4. CASE ReadLength(b)
  <2>1. Len(buffer) = 2 /\ Len(s) >= 3
    BY <1>2, <1>4 DEF ReadLength
  <2> HIDE DEF s
  <2>2. PayloadLength(s) \in 0..1023
    BY ZenonT(60), <1>2, <2>1, PayloadBound
  <2>3. CandidateSize(s) \in 4..Capacity
    BY SMTT(60), ConstantTypes, <2>2 DEF CandidateSize
  <2>4. buffer' = s /\ expected' = CandidateSize(s) /\ Len(s) = 3
    <3>1. IF PayloadLength(s) > 1023 \/ CandidateSize(s) > Capacity
          THEN buffer' = <<>> /\ expected' = 0
          ELSE buffer' = s /\ expected' = CandidateSize(s)
      BY <1>4 DEF ReadLength, s
    <3>2. ~(PayloadLength(s) > 1023 \/ CandidateSize(s) > Capacity)
      BY <2>2, <2>3, ConstantTypes
    <3> QED
      BY <1>2, <2>1, <3>1, <3>2
  <2> QED
    <3>1. buffer' \in Seq(0..255) /\ Len(buffer') = 3 /\ expected' \in 4..Capacity
      BY <1>2, <2>3, <2>4
    <3> QED
      BY <3>1, ConstantTypes DEF BufferInv, BufferNeverFills
<1>5. CASE Collect(b)
  <2>1. buffer' = s /\ expected' = expected /\ Len(buffer) # 2
        /\ (expected = 0 \/ Len(s) < expected)
    BY <1>2, <1>5 DEF Collect
  <2> HIDE DEF s
  <2>2. CASE Len(buffer) < 2
    BY <1>2, <2>1, <2>2, ConstantTypes DEF BufferInv, BufferNeverFills
  <2>3. CASE Len(buffer) > 2
    BY <1>2, <2>1, <2>3, ConstantTypes DEF BufferInv, BufferNeverFills
  <2> QED
    <3>1. Len(buffer) \in Nat /\ Len(buffer) # 2
      BY <1>2, <2>1
    <3>2. Len(buffer) < 2 \/ Len(buffer) > 2
      BY <3>1
    <3> QED
      BY <2>2, <2>3, <3>2
<1>6. CASE Close(b)
  BY <1>6, ShortBuffer DEF Close
<1> QED
  BY <1>3, <1>4, <1>5, <1>6 DEF Feed

LEMMA NextBuffer == BufferInv /\ [Next]_vars => BufferInv'
<1> SUFFICES ASSUME BufferInv, [Next]_vars PROVE BufferInv'
  OBVIOUS
<1>1. CASE UNCHANGED vars
  BY <1>1 DEF vars, BufferInv, BufferNeverFills
<1>2. CASE Reset
  BY <1>2, ShortBuffer DEF Reset
<1>3. CASE \E b \in Alphabet : Feed(b)
  BY <1>3, FeedBuffer
<1> QED
  BY <1>1, <1>2, <1>3 DEF Next

\* rtcmBuffer_ is never written out of bounds and never fills: the branch of the
\* code that gives up a full buffer is dead, and so is the one that refuses a
\* length.
THEOREM BufferIsBounded == Spec => []BufferNeverFills
<1>1. BufferInv => BufferNeverFills
  BY DEF BufferInv
<1> QED
  BY <1>1, InitBuffer, NextBuffer, PTL DEF Spec

-----------------------------------------------------------------------------
(* The open candidate and the input *)

\* Bytes of the input before the open candidate.
Left == Len(input) - Len(buffer)

\* The buffer is the end of the input from a preamble on, and the length that is
\* waited for is the one its header announces.
ParseInv ==
  /\ BufferInv
  /\ input \in Seq(Alphabet) /\ Len(input) <= MaxInput /\ buffer \in Seq(Alphabet)
  /\ Len(buffer) <= Len(input)
  /\ \A i \in 1..Len(buffer) : buffer[i] = input[Left + i]
  /\ buffer # <<>> => buffer[1] = Preamble
  /\ Len(buffer) > 2 => expected = CandidateSize(buffer)

LEMMA ParseLengths ==
  ASSUME ParseInv
  PROVE  /\ Len(input) \in Nat /\ Len(buffer) \in Nat /\ Left \in Nat
         /\ Left + Len(buffer) = Len(input)
         /\ buffer # <<>> => Len(buffer) > 0
         /\ buffer = <<>> => Len(buffer) = 0
BY EmptySeq DEF ParseInv, Left

LEMMA Appended ==
  ASSUME NEW S, NEW q \in Seq(S), NEW e \in S
  PROVE  /\ Append(q, e) \in Seq(S) /\ Len(Append(q, e)) = Len(q) + 1 /\ Len(q) \in Nat
         /\ \A i \in 1..Len(q) : Append(q, e)[i] = q[i]
         /\ Append(q, e)[Len(q) + 1] = e
OBVIOUS

\* What a byte does to the candidate: nothing is open and it opens none, the
\* candidate goes on, or it ends.
Skips(b) ==
  /\ buffer = <<>> /\ b # Preamble /\ buffer' = <<>>
  /\ stats' = Counted(b) /\ UNCHANGED <<good, bad>>

Extends(b) ==
  /\ buffer' = Append(buffer, b)
  /\ buffer = <<>> => b = Preamble
  /\ stats' = Counted(b) /\ UNCHANGED <<good, bad>>

Ends(b) ==
  LET s == Append(buffer, b)
  IN /\ buffer # <<>> /\ buffer' = <<>>
     /\ Len(s) = 3 + PayloadLength(s) + CrcSize /\ Len(s) >= 3 + CrcSize
     /\ \/ /\ IsFrame(s)
           /\ good' = Append(good, Here(s)) /\ bad' = bad
           /\ stats' = [Counted(b) EXCEPT
                          !.frames = @ + 1,
                          !.types = IF Len(s) >= 5 + CrcSize
                                    THEN Remember(@, MessageType(s)) ELSE @]
        \/ /\ ~IsFrame(s)
           /\ bad' = Append(bad, Here(s)) /\ good' = good
           /\ stats' = [Counted(b) EXCEPT !.crcErrors = @ + 1]

\* The header alone tells the size of a candidate.
LEMMA SizeOfHeader ==
  ASSUME NEW s \in Seq(Alphabet), NEW b \in Alphabet, Len(s) > 2
  PROVE  CandidateSize(Append(s, b)) = CandidateSize(s)
<1>1. 2 \in 1..Len(s) /\ 3 \in 1..Len(s)
  OBVIOUS
<1>2. Append(s, b)[2] = s[2] /\ Append(s, b)[3] = s[3]
  BY <1>1, Appended
<1> QED
  BY <1>2 DEF CandidateSize, PayloadLength

LEMMA BodyLength ==
  ASSUME NEW m \in 0..1023, NEW c \in Nat
  PROVE  /\ 3 + m + c - c \in 3 .. 3 + m + c /\ 3 + m + c >= 3 + c
         /\ 3 + m + c - c \in Nat
OBVIOUS

\* What the code computes of a candidate whose last byte is there.
LEMMA WholeCandidate ==
  ASSUME NEW s \in Seq(0..255), NEW n \in Nat, Len(s) = n, n >= 3,
         n = CandidateSize(s), s[1] = Preamble,
         NEW body, body = SubSeq(s, 1, n - CrcSize)
  PROVE  /\ n = 3 + PayloadLength(s) + CrcSize /\ n >= 3 + CrcSize
         /\ Len(body) >= 5 <=> n >= 5 + CrcSize
         /\ Len(body) >= 5 => MessageType(body) = MessageType(s)
         /\ IsFrame(s) <=> SubSeq(s, n - CrcSize + 1, n) = Checksum(body)
<1>1. PayloadLength(s) \in 0..1023
  BY ZenonT(60), PayloadBound
<1>2. n = 3 + PayloadLength(s) + CrcSize
  BY DEF CandidateSize
<1> DEFINE k == n - CrcSize
<1>3. k \in 3..n /\ n >= 3 + CrcSize /\ k \in Nat
  <2>1. \A m \in 0..1023 : n = 3 + m + CrcSize =>
          n - CrcSize \in 3..n /\ n >= 3 + CrcSize /\ n - CrcSize \in Nat
    BY BodyLength, ConstantTypes
  <2> QED
    BY ZenonT(60), <1>1, <1>2, <2>1
<1>4. \A i \in 1..k : s[i] \in 0..255
  <2>1. \A i \in 1..k : i \in 1..Len(s)
    BY <1>3
  <2> QED
    BY ZenonT(60), <2>1, ElementOfSeq
<1>5. Len(body) = k /\ \A i \in 1..k : body[i] = s[i]
  <2>1. 1..k \subseteq 1..Len(s) /\ k \in Nat
    BY <1>3
  <2> HIDE DEF k
  <2>2. Len(SubSeq(s, 1, k)) = k /\ \A i \in 1..k : SubSeq(s, 1, k)[i] = s[i]
    BY <2>1, <1>3, SubSeqProperties
  <2> QED
    BY <2>2 DEF k
<1>6. Len(body) >= 5 <=> n >= 5 + CrcSize
  BY SMTT(60), <1>3, <1>5, ConstantTypes
<1>7. ASSUME Len(body) >= 5 PROVE MessageType(body) = MessageType(s)
  <2>1. 4 \in 1..k /\ 5 \in 1..k
    BY <1>3, <1>5, <1>7
  <2> QED
    BY <1>5, <2>1 DEF MessageType
<1>8. IsFrame(s) <=> SubSeq(s, n - CrcSize + 1, n) = Checksum(body)
  BY <1>2, <1>3 DEF IsFrame
<1> QED
  BY <1>2, <1>3, <1>6, <1>7, <1>8

LEMMA CloseEnds == ASSUME ParseInv, NEW b \in Alphabet, Close(b) PROVE Ends(b)
<1>1. PICK s : s = Append(buffer, b)
  OBVIOUS
<1>2. PICK body : body = SubSeq(s, 1, expected - CrcSize)
  OBVIOUS
<1>3. /\ buffer \in Seq(Alphabet) /\ s \in Seq(Alphabet) /\ Len(s) = Len(buffer) + 1
      /\ \A i \in 1..Len(buffer) : s[i] = buffer[i]
  BY <1>1, Appended DEF ParseInv
<1>4. /\ Len(buffer) \in Nat /\ Len(buffer) > 2 /\ expected \in Nat
      /\ Len(buffer) < expected /\ Len(s) >= expected
  BY <1>1, <1>3, ConstantTypes DEF Close, ParseInv, BufferInv, BufferNeverFills
<1>5. Len(s) = expected /\ Len(s) \in Nat /\ Len(s) >= 3
  BY <1>3, <1>4
<1>6. Len(s) = CandidateSize(s)
  <2>1. expected = CandidateSize(buffer)
    BY <1>4 DEF ParseInv
  <2> QED
    BY <1>1, <1>3, <1>4, <1>5, <2>1, SizeOfHeader
<1>7. s[1] = Preamble /\ buffer # <<>>
  <2>1. buffer # <<>> /\ 1 \in 1..Len(buffer)
    BY <1>4, EmptySeq
  <2> QED
    BY <1>3, <2>1 DEF ParseInv
<1>8. s \in Seq(0..255)
  BY SMTT(60), <1>3, ConstantTypes
<1>9. /\ Len(s) = 3 + PayloadLength(s) + CrcSize /\ Len(s) >= 3 + CrcSize
      /\ Len(body) >= 5 <=> Len(s) >= 5 + CrcSize
      /\ Len(body) >= 5 => MessageType(body) = MessageType(s)
      /\ IsFrame(s) <=> SubSeq(s, expected - CrcSize + 1, expected) = Checksum(body)
  <2>1. SubSeq(s, expected - CrcSize + 1, expected)
          = SubSeq(s, Len(s) - CrcSize + 1, Len(s))
        /\ body = SubSeq(s, 1, Len(s) - CrcSize)
    BY <1>2, <1>5
  <2> QED
    BY ZenonT(60), <1>5, <1>6, <1>7, <1>8, <2>1, WholeCandidate
<1>10. /\ buffer' = <<>>
       /\ IF SubSeq(s, expected - CrcSize + 1, expected) = Checksum(body)
          THEN /\ stats' = [Counted(b) EXCEPT
                              !.frames = @ + 1,
                              !.types = IF Len(body) >= 5
                                        THEN Remember(@, MessageType(body)) ELSE @]
               /\ good' = Append(good, Here(s)) /\ bad' = bad
          ELSE /\ stats' = [Counted(b) EXCEPT !.crcErrors = @ + 1]
               /\ bad' = Append(bad, Here(s)) /\ good' = good
  BY <1>1, <1>2 DEF Close
<1>11. CASE IsFrame(s)
  <2>1. good' = Append(good, Here(s)) /\ bad' = bad
    BY <1>9, <1>10, <1>11
  <2>2. stats' = [Counted(b) EXCEPT
                    !.frames = @ + 1,
                    !.types = IF Len(s) >= 5 + CrcSize
                              THEN Remember(@, MessageType(s)) ELSE @]
    <3>1. CASE Len(s) >= 5 + CrcSize
      BY <1>9, <1>10, <1>11, <3>1
    <3>2. CASE ~(Len(s) >= 5 + CrcSize)
      BY <1>9, <1>10, <1>11, <3>2
    <3> QED
      BY <3>1, <3>2
  <2> QED
    BY <1>1, <1>7, <1>9, <1>10, <1>11, <2>1, <2>2 DEF Ends
<1>12. CASE ~IsFrame(s)
  BY <1>1, <1>7, <1>9, <1>10, <1>12 DEF Ends
<1> QED
  BY <1>11, <1>12

\* The refusal of a length never happens.
LEMMA LengthIsTaken ==
  ASSUME NEW s \in Seq(0..255), Len(s) = 3
  PROVE  ~(PayloadLength(s) > 1023 \/ CandidateSize(s) > Capacity)
<1>1. Len(s) >= 3
  OBVIOUS
<1>2. PayloadLength(s) \in 0..1023
  BY ZenonT(60), <1>1, PayloadBound
<1>3. \A m \in 0..1023 : ~(m > 1023 \/ 3 + m + CrcSize > Capacity)
  BY ConstantTypes
<1> QED
  BY ZenonT(60), <1>2, <1>3 DEF CandidateSize

LEMMA ByteCases ==
  ASSUME ParseInv, NEW b \in Alphabet, Feed(b)
  PROVE  /\ input' = Append(input, b)
         /\ Skips(b) \/ Extends(b) \/ Ends(b)
<1>1. buffer \in Seq(Alphabet) /\ Len(buffer) \in Nat /\ Len(buffer) < Capacity
      /\ buffer \in Seq(0..255) /\ b \in 0..255
  BY ConstantTypes DEF ParseInv, BufferInv, BufferNeverFills
<1>2. input' = Append(input, b)
  BY DEF Feed, Mark
<1>3. CASE Seek(b)
  <2>1. buffer = <<>>
    BY <1>1, <1>3, ConstantTypes DEF Seek
  <2>2. Append(<<>>, b) = <<b>>
    OBVIOUS
  <2> QED
    BY <1>2, <1>3, <2>1, <2>2 DEF Seek, Skips, Extends
<1>4. CASE ReadLength(b)
  <2>1. PICK s : s = Append(buffer, b)
    OBVIOUS
  <2>2. Len(buffer) = 2
    BY <1>4 DEF ReadLength
  <2>3. buffer # <<>> /\ s \in Seq(0..255) /\ Len(s) = 3
    <3>1. s \in Seq(0..255) /\ Len(s) = Len(buffer) + 1
      BY <1>1, <2>1, Appended
    <3>2. buffer # <<>>
      BY <2>2, EmptySeq
    <3> QED
      BY <2>2, <3>1, <3>2
  <2>4. ~(PayloadLength(s) > 1023 \/ CandidateSize(s) > Capacity)
    BY <2>3, LengthIsTaken
  <2>5. buffer' = s /\ stats' = Counted(b) /\ UNCHANGED <<good, bad>>
    BY <1>4, <2>1, <2>4 DEF ReadLength
  <2> QED
    BY <1>2, <2>1, <2>3, <2>5 DEF Extends
<1>5. CASE Collect(b)
  BY <1>2, <1>5 DEF Collect, Extends
<1>6. CASE Close(b)
  BY <1>2, <1>6, CloseEnds
<1> QED
  BY <1>2, <1>3, <1>4, <1>5, <1>6 DEF Feed

LEMMA InputGrows ==
  ASSUME ParseInv, NEW b \in Alphabet, Feed(b)
  PROVE  /\ input' \in Seq(Alphabet) /\ Len(input') = Len(input) + 1
         /\ \A i \in 1..Len(input) : input'[i] = input[i]
         /\ input'[Len(input) + 1] = b /\ Len(input') <= MaxInput
<1>1. input \in Seq(Alphabet) /\ Len(input) < MaxInput
  BY DEF ParseInv, Feed
<1>2. input' = Append(input, b)
  BY ByteCases
<1>3. /\ Len(input) \in Nat /\ input' \in Seq(Alphabet) /\ Len(input') = Len(input) + 1
      /\ \A i \in 1..Len(input) : input'[i] = input[i]
      /\ input'[Len(input) + 1] = b
  BY <1>1, <1>2, Appended
<1> QED
  BY <1>1, <1>3, AnalyzerAssumption

\* Where the bytes stand after each of the cases.
LEMMA LeftMoves ==
  ASSUME ParseInv, NEW b \in Alphabet, Feed(b)
  PROVE  /\ Extends(b) => Left' = Left
         /\ Skips(b) => Left' = Left + 1 /\ Left = Len(input)
         /\ Ends(b) => Left' = Len(input) + 1
<1>1. /\ Len(input') = Len(input) + 1 /\ Len(input) \in Nat /\ Len(buffer) \in Nat
      /\ Len(Append(buffer, b)) = Len(buffer) + 1
  BY InputGrows, Appended, ParseLengths DEF ParseInv
<1>2. Left = Len(input) - Len(buffer) /\ Left' = Len(input') - Len(buffer')
  BY DEF Left
<1>3. ASSUME Extends(b) PROVE Left' = Left
  <2>1. Len(buffer') = Len(buffer) + 1
    BY <1>1, <1>3 DEF Extends
  <2> QED
    BY <1>1, <1>2, <2>1
<1>4. ASSUME Skips(b) \/ Ends(b) PROVE Left' = Len(input) + 1
  <2>1. Len(buffer') = 0
    BY <1>4 DEF Skips, Ends
  <2> QED
    BY <1>1, <1>2, <2>1
<1>5. ASSUME Skips(b) PROVE Left = Len(input)
  BY <1>1, <1>2, <1>5, ParseLengths DEF Skips
<1> QED
  BY <1>3, <1>4, <1>5

LEMMA LengthWaitedFor ==
  ASSUME ParseInv, NEW b \in Alphabet, Feed(b), Extends(b), Len(buffer') > 2
  PROVE  expected' = CandidateSize(buffer')
<1>1. /\ Len(buffer) \in Nat /\ Len(buffer) < Capacity /\ buffer \in Seq(Alphabet)
      /\ Len(buffer') = Len(buffer) + 1 /\ buffer' = Append(buffer, b)
  BY ParseLengths, Appended DEF ParseInv, BufferInv, BufferNeverFills, Extends
<1>2. Len(buffer) >= 2 /\ buffer # <<>> /\ buffer' # <<>>
  BY <1>1, EmptySeq
<1>3. ~Seek(b) /\ ~Close(b)
  BY <1>1, <1>2, ConstantTypes DEF Seek, Close
<1>4. CASE ReadLength(b)
  BY <1>1, <1>2, <1>4 DEF ReadLength
<1>5. CASE Collect(b)
  <2>1. Len(buffer) # 2 /\ expected' = expected
    BY <1>5 DEF Collect
  <2>2. Len(buffer) > 2
    <3>1. \A n \in Nat : n >= 2 /\ n # 2 => n > 2
      OBVIOUS
    <3> QED
      BY <1>1, <1>2, <2>1, <3>1
  <2> QED
    BY <1>1, <2>1, <2>2, SizeOfHeader DEF ParseInv
<1> QED
  BY <1>3, <1>4, <1>5 DEF Feed

LEMMA ExtendParse ==
  ASSUME ParseInv, NEW b \in Alphabet, Feed(b), Extends(b), BufferInv'
  PROVE  ParseInv'
<1>1. /\ buffer' \in Seq(Alphabet) /\ Len(buffer') = Len(buffer) + 1
      /\ \A i \in 1..Len(buffer) : buffer'[i] = buffer[i]
      /\ buffer'[Len(buffer) + 1] = b
  BY Appended DEF ParseInv, Extends
<1>2. /\ Left' = Left /\ Left \in Nat /\ Len(buffer) \in Nat
      /\ Left + Len(buffer) = Len(input) /\ Len(input) \in Nat
  BY LeftMoves, ParseLengths
<1>3. \A i \in 1..Len(buffer') : buffer'[i] = input'[Left' + i]
  <2> SUFFICES ASSUME NEW i \in 1..Len(buffer') PROVE buffer'[i] = input'[Left + i]
    BY <1>2
  <2>1. CASE i \in 1..Len(buffer)
    <3>1. Left + i \in 1..Len(input) /\ buffer[i] = input[Left + i]
      BY <1>2, <2>1 DEF ParseInv
    <3> QED
      BY <1>1, <2>1, <3>1, InputGrows
  <2>2. CASE i = Len(buffer) + 1
    <3>1. Left + i = Len(input) + 1
      BY <1>2, <2>2
    <3> QED
      BY <1>1, <2>2, <3>1, InputGrows
  <2> QED
    BY <1>1, <1>2, <2>1, <2>2
<1>4. buffer'[1] = Preamble
  <2>1. CASE buffer = <<>>
    BY <1>1, <2>1, ParseLengths DEF Extends
  <2>2. CASE buffer # <<>>
    <3>1. 1 \in 1..Len(buffer) /\ buffer[1] = Preamble
      BY <1>2, <2>2, ParseLengths DEF ParseInv
    <3> QED
      BY <1>1, <3>1
  <2> QED
    BY <2>1, <2>2
<1>5. Len(buffer') <= Len(input')
  BY <1>1, <1>2, InputGrows
<1> QED
  BY <1>1, <1>3, <1>4, <1>5, InputGrows, LengthWaitedFor DEF ParseInv

LEMMA NextParse == ASSUME ParseInv, [Next]_vars PROVE ParseInv'
<1>1. BufferInv'
  BY NextBuffer DEF ParseInv
<1>2. CASE UNCHANGED vars
  BY <1>1, <1>2 DEF vars, ParseInv, Left
<1>3. CASE Reset
  <2>1. input' = <<>> /\ buffer' = <<>> /\ Len(<<>>) = 0 /\ <<>> \in Seq(Alphabet)
    BY <1>3 DEF Reset
  <2> QED
    BY <1>1, <2>1, AnalyzerAssumption DEF ParseInv, Left
<1>4. ASSUME NEW b \in Alphabet, Feed(b) PROVE ParseInv'
  <2>1. CASE Skips(b) \/ Ends(b)
    <3>1. buffer' = <<>> /\ Len(<<>>) = 0 /\ <<>> \in Seq(Alphabet)
      BY <2>1 DEF Skips, Ends
    <3>2. /\ input' \in Seq(Alphabet) /\ Len(input') <= MaxInput /\ 0 <= Len(input')
      BY <1>4, InputGrows, ParseLengths
    <3> QED
      BY <1>1, <3>1, <3>2 DEF ParseInv
  <2>2. CASE Extends(b)
    BY <1>1, <1>4, <2>2, ExtendParse
  <2> QED
    BY <1>4, <2>1, <2>2, ByteCases
<1> QED
  BY <1>2, <1>3, <1>4 DEF Next

LEMMA ParseInvariant == Spec => []ParseInv
<1>1. Init => ParseInv
  <2> SUFFICES ASSUME Init PROVE ParseInv
    OBVIOUS
  <2>1. input = <<>> /\ buffer = <<>> /\ Len(<<>>) = 0 /\ <<>> \in Seq(Alphabet)
    BY DEF Init, Fresh
  <2> QED
    BY <2>1, InitBuffer, AnalyzerAssumption DEF ParseInv, Left
<1>2. ParseInv /\ [Next]_vars => ParseInv'
  BY NextParse
<1> QED
  BY <1>1, <1>2, PTL DEF Spec

-----------------------------------------------------------------------------
(* Sequences and the sets of their elements *)

Elements(q) == {q[k] : k \in 1..Len(q)}

LEMMA ElementsGrow ==
  ASSUME NEW S, NEW q \in Seq(S), NEW e \in S
  PROVE  Elements(Append(q, e)) = Elements(q) \cup {e}
<1> DEFINE r == Append(q, e)
<1>1. /\ Len(r) = Len(q) + 1 /\ Len(q) \in Nat
      /\ \A i \in 1..Len(q) : r[i] = q[i]
      /\ r[Len(q) + 1] = e
  BY Appended
<1> HIDE DEF r
<1>2. \A i \in 1..Len(r) : i \in 1..Len(q) \/ i = Len(q) + 1
  BY <1>1
<1>3. \A i \in 1..Len(q) : i \in 1..Len(r)
  BY <1>1
<1>4. Len(q) + 1 \in 1..Len(r)
  BY <1>1
<1>5. Elements(r) \subseteq Elements(q) \cup {e}
  BY <1>1, <1>2 DEF Elements
<1>6. Elements(q) \cup {e} \subseteq Elements(r)
  BY <1>1, <1>3, <1>4 DEF Elements
<1>7. Elements(r) = Elements(q) \cup {e}
  BY <1>5, <1>6
<1> QED
  BY <1>7 DEF r

\* Parts of what was there before.
LEMMA PartKept ==
  ASSUME NEW S, NEW q \in Seq(S), NEW e \in S, NEW m \in 1..Len(q), NEW n \in m..Len(q)
  PROVE  /\ SubSeq(Append(q, e), m, n) = SubSeq(q, m, n)
         /\ Len(SubSeq(q, m, n)) = n - m + 1
         /\ SubSeq(q, m, n) \in Seq(S)
<1> DEFINE r == Append(q, e)
<1>1. /\ Len(q) \in Nat /\ r \in Seq(S) /\ Len(r) = Len(q) + 1
      /\ \A i \in 1..Len(q) : r[i] = q[i]
  BY Appended
<1> HIDE DEF r
<1>2. \A i \in m..n : i \in 1..Len(q)
  BY <1>1
<1>3. \A i \in m..n : q[i] \in S /\ r[i] = q[i] /\ r[i] \in S
  BY <1>1, <1>2, ElementOfSeq
<1>4. m <= n /\ m \in Int /\ n \in Int
  BY <1>1
<1>5. /\ SubSeq(q, m, n) \in Seq(S) /\ Len(SubSeq(q, m, n)) = n - m + 1
      /\ \A i \in 1 .. n - m + 1 : SubSeq(q, m, n)[i] = q[m + i - 1]
  BY <1>3, <1>4, SubSeqProperties
<1>6. /\ SubSeq(r, m, n) \in Seq(S) /\ Len(SubSeq(r, m, n)) = n - m + 1
      /\ \A i \in 1 .. n - m + 1 : SubSeq(r, m, n)[i] = r[m + i - 1]
  BY <1>3, <1>4, SubSeqProperties
<1>7. \A i \in 1 .. n - m + 1 : SubSeq(r, m, n)[i] = SubSeq(q, m, n)[i]
  <2> SUFFICES ASSUME NEW i \in 1 .. n - m + 1
               PROVE  SubSeq(r, m, n)[i] = SubSeq(q, m, n)[i]
    OBVIOUS
  <2>1. m + i - 1 \in m..n
    BY <1>4
  <2> QED
    BY <1>3, <1>5, <1>6, <2>1
<1>8. SubSeq(r, m, n) = SubSeq(q, m, n)
  BY <1>5, <1>6, <1>7, SeqEqual
<1> QED
  BY <1>5, <1>8 DEF r

\* The end of a sequence, as a part of it.
LEMMA TailPart ==
  ASSUME NEW S, NEW q \in Seq(S), NEW t \in Seq(S), NEW m \in Nat,
         m + Len(t) = Len(q), Len(t) > 0,
         \A i \in 1..Len(t) : t[i] = q[m + i]
  PROVE  SubSeq(q, m + 1, Len(q)) = t
<1>1. Len(q) \in Nat /\ Len(t) \in Nat
  OBVIOUS
<1>2. \A i \in m + 1 .. Len(q) : i \in 1..Len(q)
  BY <1>1
<1>3. \A i \in m + 1 .. Len(q) : q[i] \in S
  BY <1>2, ElementOfSeq
<1>4. PICK a \in Int : a = m + 1
  OBVIOUS
<1>5. PICK z \in Int : z = Len(q)
  BY <1>1
<1>6. a <= z /\ z - a + 1 = Len(t)
  BY <1>1, <1>4, <1>5
<1>7. \A i \in a..z : q[i] \in S
  BY <1>3, <1>4, <1>5
<1>8. /\ SubSeq(q, a, z) \in Seq(S)
      /\ Len(SubSeq(q, a, z)) = IF a <= z THEN z - a + 1 ELSE 0
      /\ \A i \in 1 .. z - a + 1 : SubSeq(q, a, z)[i] = q[a + i - 1]
  BY <1>7, SubSeqProperties
<1>9. \A i \in 1..Len(t) : a + i - 1 = m + i
  BY <1>1, <1>4
<1>10. /\ Len(SubSeq(q, a, z)) = Len(t)
       /\ \A i \in 1..Len(t) : SubSeq(q, a, z)[i] = t[i]
  BY <1>6, <1>8, <1>9
<1> QED
  BY <1>4, <1>5, <1>8, <1>10, SeqEqual

-----------------------------------------------------------------------------
(* The candidates that came to their end *)

Closed == Elements(good) \cup Elements(bad)

Apart(f, g) == f.to < g.from \/ g.to < f.from

\* They lie before the open one, one after the other, and no preamble before it
\* lies outside of them.
CutInv ==
  /\ good \in Seq(Interval) /\ bad \in Seq(Interval)
  /\ IsFiniteSet(Closed) /\ Cardinality(Closed) = Len(good) + Len(bad)
  /\ \A f \in Closed : f \in Interval /\ f.from <= f.to /\ f.to <= Left
                       /\ input[f.from] = Preamble
  /\ \A f, g \in Closed : f # g => Apart(f, g)
  /\ \A i \in 1..Left :
       input[i] = Preamble => \E f \in Closed : f.from <= i /\ i <= f.to

\* The candidate that a byte ends.
LEMMA EndedHere ==
  ASSUME ParseInv, NEW b \in Alphabet, Feed(b), Ends(b),
         NEW h, h = Here(Append(buffer, b))
  PROVE  /\ h \in Interval /\ h.from = Left + 1 /\ h.to = Left' /\ h.from <= h.to
         /\ Left' = Len(input) + 1 /\ Left <= Len(input) /\ Left \in Nat
         /\ input'[h.from] = Preamble
         /\ Bytes(h)' = Append(buffer, b)
<1>1. /\ Len(input) \in Nat /\ Len(buffer) \in Nat /\ Left \in Nat /\ Len(buffer) > 0
      /\ Left + Len(buffer) = Len(input) /\ Left' = Len(input) + 1
      /\ Len(input) + 1 <= MaxInput /\ MaxInput \in Nat
  BY ParseLengths, LeftMoves, InputGrows, AnalyzerAssumption DEF Ends
<1>2. /\ Append(buffer, b) \in Seq(Alphabet) /\ Len(Append(buffer, b)) = Len(buffer) + 1
      /\ \A i \in 1..Len(buffer) : Append(buffer, b)[i] = buffer[i]
      /\ Append(buffer, b)[Len(buffer) + 1] = b
  BY Appended DEF ParseInv
<1>3. h = [from |-> Left + 1, to |-> Len(input) + 1]
  <2>1. Len(input) + 2 - Len(Append(buffer, b)) = Left + 1
    BY <1>1, <1>2
  <2> QED
    BY <2>1 DEF Here
<1>4. h \in Interval /\ h.from <= h.to
  <2>1. Left + 1 \in 1..MaxInput /\ Len(input) + 1 \in 1..MaxInput /\ Left + 1 <= Len(input) + 1
    BY <1>1
  <2> QED
    BY <1>3, <2>1 DEF Interval
<1>5. input'[Left + 1] = Preamble
  <2>1. Left + 1 \in 1..Len(input) /\ 1 \in 1..Len(buffer)
    BY <1>1
  <2>2. buffer[1] = Preamble /\ buffer[1] = input[Left + 1]
    BY <2>1 DEF ParseInv, Ends
  <2> QED
    BY <2>1, <2>2, InputGrows
<1>6. Bytes(h)' = Append(buffer, b)
  <2>1. Bytes(h)' = SubSeq(input', Left + 1, Len(input) + 1)
    <3>1. Bytes(h)' = SubSeq(input', h.from, h.to)
      BY DEF Bytes
    <3>2. h.from = Left + 1 /\ h.to = Len(input) + 1
      BY <1>3
    <3> QED
      BY <3>1, <3>2
  <2>2. PICK t : t = Append(buffer, b)
    OBVIOUS
  <2>3. /\ t \in Seq(Alphabet) /\ Len(t) > 0 /\ input' \in Seq(Alphabet)
        /\ Len(input') = Len(input) + 1 /\ Left + Len(t) = Len(input')
    BY <1>1, <1>2, <2>2, InputGrows
  <2>4. \A i \in 1..Len(t) : t[i] = input'[Left + i]
    <3> SUFFICES ASSUME NEW i \in 1..Len(t) PROVE t[i] = input'[Left + i]
      OBVIOUS
    <3>1. CASE i \in 1..Len(buffer)
      <4>1. Left + i \in 1..Len(input) /\ buffer[i] = input[Left + i]
        BY <1>1, <3>1 DEF ParseInv
      <4> QED
        BY <1>2, <2>2, <3>1, <4>1, InputGrows
    <3>2. CASE i = Len(buffer) + 1
      <4>1. Left + i = Len(input) + 1
        BY <1>1, <3>2
      <4> QED
        BY <1>2, <2>2, <3>2, <4>1, InputGrows
    <3> QED
      BY <1>1, <1>2, <2>2, <3>1, <3>2
  <2>5. SubSeq(input', Left + 1, Len(input')) = t
    BY <1>1, <2>3, <2>4, TailPart
  <2> QED
    BY <2>1, <2>2, <2>3, <2>5
<1> QED
  BY <1>1, <1>3, <1>4, <1>5, <1>6

\* It joins one of the lists.
LEMMA ListsGrow ==
  ASSUME ParseInv, CutInv, NEW b \in Alphabet, Feed(b), Ends(b),
         NEW h \in Interval, h = Here(Append(buffer, b))
  PROVE  /\ good' \in Seq(Interval) /\ bad' \in Seq(Interval)
         /\ Closed' = Closed \cup {h}
         /\ Len(good') + Len(bad') = Len(good) + Len(bad) + 1
<1>1. good \in Seq(Interval) /\ bad \in Seq(Interval) /\ Len(good) \in Nat /\ Len(bad) \in Nat
  BY DEF CutInv
<1>2. CASE good' = Append(good, h) /\ bad' = bad
  <2>1. /\ good' \in Seq(Interval) /\ Len(good') = Len(good) + 1
        /\ Elements(good') = Elements(good) \cup {h}
    BY <1>1, <1>2, Appended, ElementsGrow
  <2>2. Closed' = Elements(good') \cup Elements(bad')
    BY DEF Closed, Elements
  <2>3. Closed' = Closed \cup {h}
    BY <1>2, <2>1, <2>2 DEF Closed
  <2> QED
    BY <1>1, <1>2, <2>1, <2>3
<1>3. CASE bad' = Append(bad, h) /\ good' = good
  <2>1. /\ bad' \in Seq(Interval) /\ Len(bad') = Len(bad) + 1
        /\ Elements(bad') = Elements(bad) \cup {h}
    BY <1>1, <1>3, Appended, ElementsGrow
  <2>2. Closed' = Elements(good') \cup Elements(bad')
    BY DEF Closed, Elements
  <2>3. Closed' = Closed \cup {h}
    BY <1>3, <2>1, <2>2 DEF Closed
  <2> QED
    BY <1>1, <1>3, <2>1, <2>3
<1> QED
  BY <1>2, <1>3 DEF Ends

\* A byte that ends no candidate.
LEMMA CutStays ==
  ASSUME ParseInv, CutInv, NEW b \in Alphabet, Feed(b), Skips(b) \/ Extends(b)
  PROVE  CutInv'
<1>1. UNCHANGED <<good, bad>> /\ Closed' = Closed
  BY DEF Skips, Extends, Closed, Elements
<1>2. /\ Len(input) \in Nat /\ Left \in Nat /\ Left <= Len(input) /\ Left' >= Left
      /\ Left' \in Nat /\ Left' <= Left + 1
      /\ Left' = Left + 1 => Left = Len(input) /\ b # Preamble
  <2>1. Left \in Nat /\ Len(buffer) \in Nat /\ Len(input) \in Nat /\ Left + Len(buffer) = Len(input)
    BY ParseLengths
  <2>2. \/ Left' = Left
        \/ Left' = Left + 1 /\ Left = Len(input) /\ b # Preamble
    BY LeftMoves DEF Skips
  <2> QED
    BY <2>1, <2>2
<1>3. \A f \in Closed : f \in Interval /\ f.from <= f.to /\ f.to <= Left'
                        /\ input'[f.from] = Preamble
  <2> SUFFICES ASSUME NEW f \in Closed
               PROVE  f \in Interval /\ f.from <= f.to /\ f.to <= Left' /\ input'[f.from] = Preamble
    OBVIOUS
  <2>1. f \in Interval /\ f.from <= f.to /\ f.to <= Left /\ input[f.from] = Preamble
    BY DEF CutInv
  <2>2. f.from \in Nat /\ f.to \in Nat /\ f.from >= 1
    BY <2>1 DEF Interval
  <2>3. f.from \in 1..Len(input) /\ f.to <= Left'
    BY <1>2, <2>1, <2>2
  <2> QED
    BY <2>1, <2>3, InputGrows
<1>4. \A i \in 1..Left' : input'[i] = Preamble => \E f \in Closed : f.from <= i /\ i <= f.to
  <2> SUFFICES ASSUME NEW i \in 1..Left', input'[i] = Preamble
               PROVE  \E f \in Closed : f.from <= i /\ i <= f.to
    OBVIOUS
  <2>1. i \in 1..Left
    <3> SUFFICES ASSUME i \notin 1..Left PROVE FALSE
      OBVIOUS
    <3>1. i = Len(input) + 1 /\ b # Preamble
      BY <1>2
    <3> QED
      BY <3>1, InputGrows
  <2>2. i \in 1..Len(input)
    BY <1>2, <2>1
  <2>3. input[i] = Preamble
    BY <2>2, InputGrows
  <2> QED
    BY <2>1, <2>3 DEF CutInv
<1> QED
  BY <1>1, <1>3, <1>4 DEF CutInv, Apart

LEMMA CutGrows ==
  ASSUME ParseInv, CutInv, NEW b \in Alphabet, Feed(b), Ends(b)
  PROVE  CutInv'
<1>1. PICK h : h = Here(Append(buffer, b))
  OBVIOUS
<1>2. /\ h \in Interval /\ h.from = Left + 1 /\ h.to = Left' /\ h.from <= h.to
      /\ Left' = Len(input) + 1 /\ Left <= Len(input) /\ Left \in Nat
      /\ input'[h.from] = Preamble
  BY <1>1, EndedHere
<1>3. /\ good' \in Seq(Interval) /\ bad' \in Seq(Interval)
      /\ Closed' = Closed \cup {h}
      /\ Len(good') + Len(bad') = Len(good) + Len(bad) + 1
  BY <1>1, <1>2, ListsGrow
<1>4. \A f \in Closed : /\ f \in Interval /\ f.from <= f.to /\ f.to <= Left'
                        /\ input'[f.from] = Preamble /\ f.to < h.from
  <2> SUFFICES ASSUME NEW f \in Closed
               PROVE  f \in Interval /\ f.from <= f.to /\ f.to <= Left'
                      /\ input'[f.from] = Preamble /\ f.to < h.from
    OBVIOUS
  <2>1. f \in Interval /\ f.from <= f.to /\ f.to <= Left /\ input[f.from] = Preamble
    BY DEF CutInv
  <2>2. f.from \in Nat /\ f.to \in Nat /\ f.from >= 1
    BY <2>1 DEF Interval
  <2>3. Len(input) \in Nat
    BY ParseLengths
  <2>4. f.from \in 1..Len(input) /\ f.to <= Left' /\ f.to < h.from
    BY <1>2, <2>1, <2>2, <2>3
  <2> QED
    BY <2>1, <2>4, InputGrows
<1>5. h \notin Closed
  <2> SUFFICES ASSUME h \in Closed PROVE FALSE
    OBVIOUS
  <2>1. h.to < h.from /\ h.from <= h.to /\ h.from \in Nat /\ h.to \in Nat
    BY <1>2, <1>4 DEF Interval
  <2> QED
    BY <2>1
<1>6. IsFiniteSet(Closed') /\ Cardinality(Closed') = Len(good') + Len(bad')
  <2>1. IsFiniteSet(Closed) /\ Cardinality(Closed) = Len(good) + Len(bad)
    BY DEF CutInv
  <2> QED
    BY <1>3, <1>5, <2>1, FS_AddElement
<1>7. \A f, g \in Closed' : f # g => Apart(f, g)
  BY <1>3, <1>4 DEF CutInv, Apart
<1>8. \A f \in Closed' : f \in Interval /\ f.from <= f.to /\ f.to <= Left'
                         /\ input'[f.from] = Preamble
  <2>1. Left' <= Left'
    BY <1>2, ParseLengths
  <2> QED
    BY <1>2, <1>3, <1>4, <2>1
<1>9. \A i \in 1..Left' : input'[i] = Preamble => \E f \in Closed' : f.from <= i /\ i <= f.to
  <2> SUFFICES ASSUME NEW i \in 1..Left', input'[i] = Preamble
               PROVE  \E f \in Closed' : f.from <= i /\ i <= f.to
    OBVIOUS
  <2>1. CASE i \in 1..Left
    <3>1. i \in 1..Len(input)
      BY <1>2, <2>1, ParseLengths
    <3>2. input[i] = Preamble
      BY <3>1, InputGrows
    <3> QED
      BY <1>3, <2>1, <3>2 DEF CutInv
  <2>2. CASE i \notin 1..Left
    <3>1. h.from <= i /\ i <= h.to
      BY <1>2, <2>2, ParseLengths
    <3> QED
      BY <1>3, <3>1
  <2> QED
    BY <2>1, <2>2
<1>10. CutInv' <=>
         /\ good' \in Seq(Interval) /\ bad' \in Seq(Interval)
         /\ IsFiniteSet(Closed') /\ Cardinality(Closed') = Len(good') + Len(bad')
         /\ \A f \in Closed' : f \in Interval /\ f.from <= f.to /\ f.to <= Left'
                               /\ input'[f.from] = Preamble
         /\ \A f, g \in Closed' : f # g => Apart(f, g)
         /\ \A i \in 1..Left' :
              input'[i] = Preamble => \E f \in Closed' : f.from <= i /\ i <= f.to
  BY DEF CutInv, Apart
<1> QED
  BY <1>3, <1>6, <1>7, <1>8, <1>9, <1>10

\* Nothing has come yet.
LEMMA NoCut ==
  ASSUME good = <<>>, bad = <<>>, input = <<>>, buffer = <<>>
  PROVE  CutInv
<1>1. Elements(<<>>) = {} /\ Len(<<>>) = 0 /\ <<>> \in Seq(Interval)
  BY DEF Elements
<1>2. Closed = {} /\ Left = 0
  BY <1>1 DEF Closed, Left
<1> QED
  BY <1>1, <1>2, FS_EmptySet DEF CutInv

LEMMA NextCut == ASSUME ParseInv, CutInv, [Next]_vars PROVE CutInv'
<1>1. CASE UNCHANGED vars
  BY <1>1 DEF vars, CutInv, Closed, Elements, Left, Apart
<1>2. CASE Reset
  <2>1. good' = <<>> /\ bad' = <<>> /\ input' = <<>> /\ buffer' = <<>>
    BY <1>2 DEF Reset
  <2>2. Elements(<<>>) = {} /\ Len(<<>>) = 0 /\ <<>> \in Seq(Interval)
    BY DEF Elements
  <2>3. Closed' = {} /\ Left' = 0
    BY <2>1, <2>2 DEF Closed, Elements, Left
  <2> QED
    BY <2>1, <2>2, <2>3, FS_EmptySet DEF CutInv
<1>3. ASSUME NEW b \in Alphabet, Feed(b) PROVE CutInv'
  BY <1>3, ByteCases, CutStays, CutGrows
<1> QED
  BY <1>1, <1>2, <1>3 DEF Next

LEMMA CutInvariant == Spec => []CutInv
<1>1. Init => CutInv
  BY NoCut DEF Init, Fresh
<1>2. ParseInv /\ CutInv /\ [Next]_vars => CutInv'
  BY NextCut
<1> QED
  BY <1>1, <1>2, ParseInvariant, PTL DEF Spec

\* The candidates cut the input, whatever it is.
THEOREM CandidatesCut == Spec => []CandidatesCutTheInput
<1>1. ASSUME ParseInv, CutInv PROVE CandidatesCutTheInput
  <2> DEFINE open == [from |-> Len(input) - Len(buffer) + 1, to |-> Len(input)]
  <2>1. /\ Len(input) \in Nat /\ Len(buffer) \in Nat /\ Left \in Nat
        /\ Left + Len(buffer) = Len(input) /\ Left = Len(input) - Len(buffer)
        /\ buffer # <<>> => Len(buffer) > 0
        /\ buffer = <<>> => Len(buffer) = 0
    BY <1>1, ParseLengths DEF Left
  <2>2. open.from = Left + 1 /\ open.to = Len(input)
    BY <2>1
  <2>3. Candidates = Closed \cup (IF buffer = <<>> THEN {} ELSE {open})
    BY DEF Candidates, Closed, Elements
  <2> HIDE DEF open
  <2>4. CASE buffer = <<>>
    <3>1. Candidates = Closed /\ Left = Len(input)
      BY <2>1, <2>3, <2>4
    <3>2. Len(good) + Len(bad) + 0 = Cardinality(Candidates)
      <4>1. Len(good) \in Nat /\ Len(bad) \in Nat /\ Cardinality(Closed) = Len(good) + Len(bad)
        BY <1>1 DEF CutInv
      <4> QED
        BY <3>1, <4>1
    <3> QED
      BY <1>1, <2>4, <3>1, <3>2 DEF CandidatesCutTheInput, CutInv, Apart
  <2>5. CASE buffer # <<>>
    <3>1. Candidates = Closed \cup {open}
      BY <2>3, <2>5
    <3>2. open.from \in Nat /\ open.to \in Nat /\ open.from <= open.to
      BY <2>1, <2>2, <2>5
    <3>3. input[open.from] = Preamble
      <4>1. 1 \in 1..Len(buffer)
        BY <2>1, <2>5
      <4> QED
        BY <1>1, <2>2, <2>5, <4>1 DEF ParseInv
    <3>4. \A f \in Closed : f.to < open.from
      <4> SUFFICES ASSUME NEW f \in Closed PROVE f.to < open.from
        OBVIOUS
      <4>1. f \in Interval /\ f.to <= Left
        BY <1>1 DEF CutInv
      <4>2. f.to \in Nat
        BY <4>1 DEF Interval
      <4> QED
        BY <2>1, <2>2, <4>1, <4>2
    <3>5. open \notin Closed
      BY <3>2, <3>4
    <3>6. Len(good) + Len(bad) + 1 = Cardinality(Candidates)
      <4>1. /\ Len(good) \in Nat /\ Len(bad) \in Nat /\ IsFiniteSet(Closed)
            /\ Cardinality(Closed) = Len(good) + Len(bad)
        BY <1>1 DEF CutInv
      <4> QED
        BY <3>1, <3>5, <4>1, FS_AddElement
    <3>7. \A f, g \in Candidates : f # g => f.to < g.from \/ g.to < f.from
      BY <1>1, <3>1, <3>4 DEF CutInv, Apart
    <3>8. \A f \in Candidates : f.from <= f.to /\ input[f.from] = Preamble
      BY <1>1, <3>1, <3>2, <3>3 DEF CutInv
    <3>9. \A i \in 1..Len(input) :
            input[i] = Preamble => \E f \in Candidates : f.from <= i /\ i <= f.to
      <4> SUFFICES ASSUME NEW i \in 1..Len(input), input[i] = Preamble
                   PROVE  \E f \in Candidates : f.from <= i /\ i <= f.to
        OBVIOUS
      <4>1. CASE i \in 1..Left
        BY <1>1, <3>1, <4>1 DEF CutInv
      <4>2. CASE i \notin 1..Left
        <5>1. open.from <= i /\ i <= open.to
          BY <2>1, <2>2, <4>2
        <5> QED
          BY <3>1, <5>1
      <4> QED
        BY <4>1, <4>2
    <3> QED
      BY <2>5, <3>6, <3>7, <3>8, <3>9 DEF CandidatesCutTheInput
  <2> QED
    BY <2>4, <2>5
<1> QED
  BY <1>1, ParseInvariant, CutInvariant, PTL

-----------------------------------------------------------------------------
(* The frames that were counted *)

\* What is known of a closed candidate does not change as the input grows.
LEMMA BytesStay ==
  ASSUME ParseInv, CutInv, NEW b \in Alphabet, Feed(b)
  PROVE  \A f \in Closed : SubSeq(input', f.from, f.to) = Bytes(f)
<1> SUFFICES ASSUME NEW f \in Closed PROVE SubSeq(input', f.from, f.to) = Bytes(f)
  OBVIOUS
<1>1. f \in Interval /\ f.from <= f.to /\ f.to <= Left
  BY DEF CutInv
<1>2. f.from \in Nat /\ f.to \in Nat /\ f.from >= 1
  BY <1>1 DEF Interval
<1>3. Left <= Len(input) /\ Left \in Nat /\ Len(input) \in Nat
  BY ParseLengths
<1>4. f.from \in 1..Len(input) /\ f.to \in f.from .. Len(input)
  BY <1>1, <1>2, <1>3
<1>5. SubSeq(Append(input, b), f.from, f.to) = SubSeq(input, f.from, f.to)
  BY ZenonT(60), <1>4, PartKept DEF ParseInv
<1> QED
  BY <1>5, ByteCases DEF Bytes

Rejected(s) == ~IsFrame(s) /\ Len(s) = 3 + PayloadLength(s) + CrcSize

RealInv ==
  /\ \A f \in Elements(good) : IsFrame(Bytes(f))
  /\ \A f \in Elements(bad) : Rejected(Bytes(f))

LEMMA NextReal == ASSUME ParseInv, CutInv, RealInv, [Next]_vars PROVE RealInv'
<1>1. CASE UNCHANGED vars
  BY <1>1 DEF vars, RealInv, Elements, Bytes
<1>2. CASE Reset
  <2>1. Elements(good') = {} /\ Elements(bad') = {}
    BY <1>2 DEF Reset, Elements
  <2> QED
    BY <2>1 DEF RealInv, Elements
<1>3. ASSUME NEW b \in Alphabet, Feed(b) PROVE RealInv'
  <2>1. RealInv' <=> /\ \A f \in Elements(good') : IsFrame(SubSeq(input', f.from, f.to))
                     /\ \A f \in Elements(bad') : Rejected(SubSeq(input', f.from, f.to))
    BY DEF RealInv, Elements, Bytes, Rejected
  <2>2. /\ \A f \in Elements(good) : IsFrame(SubSeq(input', f.from, f.to))
        /\ \A f \in Elements(bad) : Rejected(SubSeq(input', f.from, f.to))
    BY <1>3, BytesStay DEF RealInv, Closed
  <2>3. CASE Skips(b) \/ Extends(b)
    BY <2>1, <2>2, <2>3 DEF Skips, Extends
  <2>4. CASE Ends(b)
    <3>1. PICK s : s = Append(buffer, b)
      OBVIOUS
    <3>2. PICK h : h = Here(s)
      OBVIOUS
    <3>3. h \in Interval /\ SubSeq(input', h.from, h.to) = s
      BY <1>3, <2>4, <3>1, <3>2, EndedHere DEF Bytes
    <3>4. good \in Seq(Interval) /\ bad \in Seq(Interval)
      BY DEF CutInv
    <3>5. CASE IsFrame(s) /\ good' = Append(good, h) /\ bad' = bad
      <4>1. Elements(good') = Elements(good) \cup {h}
        BY <3>3, <3>4, <3>5, ElementsGrow
      <4> QED
        BY <2>1, <2>2, <3>3, <3>5, <4>1
    <3>6. CASE Rejected(s) /\ bad' = Append(bad, h) /\ good' = good
      <4>1. Elements(bad') = Elements(bad) \cup {h}
        BY <3>3, <3>4, <3>6, ElementsGrow
      <4> QED
        BY <2>1, <2>2, <3>3, <3>6, <4>1
    <3> QED
      BY <2>4, <3>1, <3>2, <3>5, <3>6 DEF Ends, Rejected
  <2> QED
    BY <1>3, <2>3, <2>4, ByteCases
<1> QED
  BY <1>1, <1>2, <1>3 DEF Next

LEMMA RealInvariant == Spec => []RealInv
<1>1. Init => RealInv
  BY DEF Init, Fresh, RealInv, Elements
<1>2. ParseInv /\ CutInv /\ RealInv /\ [Next]_vars => RealInv'
  BY NextReal
<1> QED
  BY <1>1, <1>2, ParseInvariant, CutInvariant, PTL DEF Spec

\* Every counted frame is one, every counted checksum error is a whole candidate
\* that is none.
THEOREM FramesAreReal == Spec => []CountedFramesAreReal
<1>1. RealInv => CountedFramesAreReal
  BY DEF RealInv, CountedFramesAreReal, Elements, Rejected
<1> QED
  BY <1>1, RealInvariant, PTL

-----------------------------------------------------------------------------
(* The statistics *)

TypeLists == Seq(Nat)

Stats == [bytes : Nat, printable : Nat, frames : Nat, crcErrors : Nat,
          ubx : Nat, nmea : Nat, types : TypeLists]

LEMMA StatsFields ==
  ASSUME NEW c \in Stats
  PROVE  /\ c.types \in TypeLists /\ c.types \in Seq(Nat)
         /\ c.bytes \in Nat /\ c.printable \in Nat /\ c.frames \in Nat
         /\ c.crcErrors \in Nat /\ c.ubx \in Nat /\ c.nmea \in Nat
<1>1. /\ c.types \in TypeLists
      /\ c.bytes \in Nat /\ c.printable \in Nat /\ c.frames \in Nat
      /\ c.crcErrors \in Nat /\ c.ubx \in Nat /\ c.nmea \in Nat
  BY DEF Stats
<1> QED
  BY <1>1 DEF TypeLists

LEMMA CountedFields ==
  ASSUME stats \in Stats, NEW b
  PROVE  /\ Counted(b) \in Stats
         /\ Counted(b).bytes = stats.bytes + 1
         /\ Counted(b).printable = stats.printable + (IF Printable(b) THEN 1 ELSE 0)
         /\ Counted(b).ubx = stats.ubx + (IF UbxSync(b) THEN 1 ELSE 0)
         /\ Counted(b).nmea = stats.nmea + (IF NmeaPrefix(b) THEN 1 ELSE 0)
         /\ Counted(b).frames = stats.frames /\ Counted(b).crcErrors = stats.crcErrors
         /\ Counted(b).types = stats.types
<1>1. PICK n : n = stats.bytes + 1
  OBVIOUS
<1>2. PICK p : p = stats.printable + (IF Printable(b) THEN 1 ELSE 0)
  OBVIOUS
<1>3. PICK u : u = stats.ubx + (IF UbxSync(b) THEN 1 ELSE 0)
  OBVIOUS
<1>4. PICK m : m = stats.nmea + (IF NmeaPrefix(b) THEN 1 ELSE 0)
  OBVIOUS
<1>5. n \in Nat /\ p \in Nat /\ u \in Nat /\ m \in Nat
  BY SMTT(60), <1>1, <1>2, <1>3, <1>4, StatsFields
<1>6. Counted(b) = [stats EXCEPT !.bytes = n, !.printable = p, !.ubx = u, !.nmea = m]
  BY <1>1, <1>2, <1>3, <1>4 DEF Counted
<1>7. PICK c : c = Counted(b)
  OBVIOUS
<1>8. c = [stats EXCEPT !.bytes = n, !.printable = p, !.ubx = u, !.nmea = m]
  BY <1>6, <1>7
<1>9. /\ c \in Stats
      /\ c.bytes = n /\ c.printable = p /\ c.ubx = u /\ c.nmea = m
      /\ c.frames = stats.frames /\ c.crcErrors = stats.crcErrors /\ c.types = stats.types
  BY <1>5, <1>8 DEF Stats
<1> QED
  BY <1>1, <1>2, <1>3, <1>4, <1>7, <1>9

SameMarks(c, d) ==
  c.bytes = d.bytes /\ c.printable = d.printable /\ c.ubx = d.ubx /\ c.nmea = d.nmea

LEMMA FrameFields ==
  ASSUME NEW c \in Stats, NEW types \in TypeLists, NEW d,
         d = [c EXCEPT !.frames = @ + 1, !.types = types]
  PROVE  /\ d \in Stats /\ SameMarks(c, d)
         /\ d.frames = c.frames + 1 /\ d.crcErrors = c.crcErrors /\ d.types = types
<1>1. PICK n \in Nat : n = c.frames + 1
  BY StatsFields
<1>2. d = [c EXCEPT !.frames = n, !.types = types]
  BY <1>1
<1>3. /\ d \in Stats
      /\ d.bytes = c.bytes /\ d.printable = c.printable /\ d.ubx = c.ubx /\ d.nmea = c.nmea
      /\ d.frames = n /\ d.crcErrors = c.crcErrors /\ d.types = types
  BY <1>2 DEF Stats
<1> QED
  BY <1>1, <1>3 DEF SameMarks

LEMMA ErrorFields ==
  ASSUME NEW c \in Stats, NEW d, d = [c EXCEPT !.crcErrors = @ + 1]
  PROVE  /\ d \in Stats /\ SameMarks(c, d)
         /\ d.frames = c.frames /\ d.crcErrors = c.crcErrors + 1 /\ d.types = c.types
<1>1. PICK n \in Nat : n = c.crcErrors + 1
  BY StatsFields
<1>2. d = [c EXCEPT !.crcErrors = n]
  BY <1>1
<1>3. /\ d \in Stats
      /\ d.bytes = c.bytes /\ d.printable = c.printable /\ d.ubx = c.ubx /\ d.nmea = c.nmea
      /\ d.frames = c.frames /\ d.crcErrors = n /\ d.types = c.types
  BY <1>2 DEF Stats
<1> QED
  BY <1>1, <1>3 DEF SameMarks

\* The type of a frame that is long enough to carry one.
LEMMA TypeIsNat ==
  ASSUME NEW s \in Seq(Alphabet), Len(s) >= 5
  PROVE  MessageType(s) \in Nat
<1>1. 4 \in 1..Len(s) /\ 5 \in 1..Len(s)
  OBVIOUS
<1>2. s[4] \in 0..255 /\ s[5] \in 0..255
  BY SMTT(60), <1>1, ElementOfSeq, ConstantTypes
<1>3. \A x, y \in 0..255 : x * 16 + y \div 16 \in Nat
  OBVIOUS
<1> QED
  BY <1>2, <1>3 DEF MessageType

LEMMA RememberType ==
  ASSUME NEW types \in Seq(Nat), NEW t \in Nat
  PROVE  Remember(types, t) \in Seq(Nat)
BY DEF Remember

\* The types after a byte.
NewTypes(b) ==
  LET s == Append(buffer, b)
  IN IF Ends(b) /\ IsFrame(s) /\ Len(s) >= 5 + CrcSize
     THEN Remember(stats.types, MessageType(s)) ELSE stats.types

\* What a byte does to the statistics.
LEMMA StatsMove ==
  ASSUME ParseInv, CutInv, NEW b \in Alphabet, Feed(b), stats \in Stats,
         stats.frames = Len(good), stats.crcErrors = Len(bad)
  PROVE  /\ stats' \in Stats /\ SameMarks(Counted(b), stats')
         /\ stats'.frames = Len(good') /\ stats'.crcErrors = Len(bad')
         /\ stats'.types = NewTypes(b)
<1>1. PICK c : c = Counted(b)
  OBVIOUS
<1>2. c \in Stats /\ c.frames = Len(good) /\ c.crcErrors = Len(bad) /\ c.types = stats.types
  BY <1>1, CountedFields
<1>3. CASE Skips(b) \/ Extends(b)
  <2>1. stats' = c /\ good' = good /\ bad' = bad
    BY <1>1, <1>3 DEF Skips, Extends
  <2>2. ~Ends(b)
    <3>1. good # Append(good, Here(Append(buffer, b))) /\ bad # Append(bad, Here(Append(buffer, b)))
      <4>1. \A q \in Seq(Interval) : \A e : Len(Append(q, e)) # Len(q)
        OBVIOUS
      <4> QED
        BY <4>1 DEF CutInv
    <3> QED
      BY <2>1, <3>1 DEF Ends
  <2> QED
    BY <1>1, <1>2, <2>1, <2>2 DEF NewTypes, SameMarks
<1>4. CASE Ends(b)
  <2>1. PICK s : s = Append(buffer, b)
    OBVIOUS
  <2>2. PICK h : h = Here(s)
    OBVIOUS
  <2>3. /\ good \in Seq(Interval) /\ bad \in Seq(Interval) /\ h \in Interval
        /\ s \in Seq(Alphabet)
    BY <1>4, <2>1, <2>2, EndedHere, Appended DEF CutInv, ParseInv
  <2>4. CASE /\ IsFrame(s) /\ good' = Append(good, h) /\ bad' = bad
             /\ stats' = [c EXCEPT !.frames = @ + 1,
                                   !.types = IF Len(s) >= 5 + CrcSize
                                             THEN Remember(@, MessageType(s)) ELSE @]
    <3>1. PICK types : types = IF Len(s) >= 5 + CrcSize
                               THEN Remember(c.types, MessageType(s)) ELSE c.types
      OBVIOUS
    <3>2. c.types \in Seq(Nat)
      BY <1>2, StatsFields
    <3>3. types \in Seq(Nat)
      <4>1. CASE Len(s) >= 5 + CrcSize
        <5>1. Len(s) >= 5
          BY <2>3, <4>1, ConstantTypes
        <5> QED
          BY <2>3, <3>1, <3>2, <4>1, <5>1, TypeIsNat, RememberType
      <4>2. CASE ~(Len(s) >= 5 + CrcSize)
        BY <3>1, <3>2, <4>2
      <4> QED
        BY <4>1, <4>2
    <3>4. stats' = [c EXCEPT !.frames = @ + 1, !.types = types]
      BY <1>2, <2>4, <3>1 DEF Stats
    <3>5. Len(good') = Len(good) + 1
      BY <2>3, <2>4, Appended
    <3>6. types = NewTypes(b)
      BY <1>2, <1>4, <2>1, <2>4, <3>1 DEF NewTypes
    <3>7. /\ stats' \in Stats /\ SameMarks(c, stats')
          /\ stats'.frames = c.frames + 1 /\ stats'.crcErrors = c.crcErrors
          /\ stats'.types = types
      BY ZenonT(60), <1>2, <3>3, <3>4, FrameFields DEF TypeLists
    <3> QED
      BY <1>1, <1>2, <2>4, <3>5, <3>6, <3>7
  <2>5. CASE /\ ~IsFrame(s) /\ bad' = Append(bad, h) /\ good' = good
             /\ stats' = [c EXCEPT !.crcErrors = @ + 1]
    <3>1. Len(bad') = Len(bad) + 1
      BY <2>3, <2>5, Appended
    <3>2. c.types = NewTypes(b)
      BY <1>2, <2>1, <2>5 DEF NewTypes
    <3> QED
      BY <1>1, <1>2, <2>5, <3>1, <3>2, ErrorFields
  <2> QED
    BY <1>1, <1>4, <2>1, <2>2, <2>4, <2>5 DEF Ends
<1> QED
  BY <1>3, <1>4, ByteCases

\* The counters, with what the two marker recognisers remember.
StatsInv ==
  /\ stats \in Stats
  /\ stats.bytes = Len(input) /\ stats.printable <= stats.bytes
  /\ stats.frames = Len(good) /\ stats.crcErrors = Len(bad)
  /\ previous \in Alphabet \cup {0} /\ nmea \in 0..2

LEMMA FreshStats ==
  ASSUME stats = NoStats
  PROVE  /\ stats \in Stats /\ stats.types = <<>> /\ stats.bytes = 0 /\ stats.printable = 0
         /\ stats.frames = 0 /\ stats.crcErrors = 0 /\ stats.ubx = 0 /\ stats.nmea = 0
<1>1. <<>> \in TypeLists
  BY DEF TypeLists
<1> QED
  BY <1>1 DEF NoStats, Stats

LEMMA NextStats == ASSUME ParseInv, CutInv, StatsInv, [Next]_vars PROVE StatsInv'
<1>1. CASE UNCHANGED vars
  BY <1>1 DEF vars, StatsInv
<1>2. CASE Reset
  <2>1. /\ stats' = NoStats /\ input' = <<>> /\ good' = <<>> /\ bad' = <<>>
        /\ previous' = 0 /\ nmea' = 0 /\ Len(<<>>) = 0
    BY <1>2 DEF Reset
  <2>2. /\ stats' \in Stats /\ stats'.bytes = 0 /\ stats'.printable = 0
        /\ stats'.frames = 0 /\ stats'.crcErrors = 0
    <3>1. <<>> \in TypeLists
      BY DEF TypeLists
    <3> QED
      BY <2>1, <3>1 DEF NoStats, Stats
  <2> QED
    BY <2>1, <2>2 DEF StatsInv
<1>3. ASSUME NEW b \in Alphabet, Feed(b) PROVE StatsInv'
  <2>1. /\ stats' \in Stats /\ SameMarks(Counted(b), stats')
        /\ stats'.frames = Len(good') /\ stats'.crcErrors = Len(bad')
    BY <1>3, StatsMove DEF StatsInv
  <2>2. /\ stats'.bytes = stats.bytes + 1
        /\ stats'.printable = stats.printable + (IF Printable(b) THEN 1 ELSE 0)
    BY <2>1, CountedFields DEF SameMarks, StatsInv
  <2>3. stats.bytes \in Nat /\ stats.printable \in Nat
    BY StatsFields DEF StatsInv
  <2>4. stats'.bytes = Len(input')
    BY <1>3, <2>2, InputGrows DEF StatsInv
  <2>5. stats'.printable <= stats'.bytes
    <3>1. stats.printable <= stats.bytes
      BY DEF StatsInv
    <3>2. \A p, n \in Nat : p <= n => p + 1 <= n + 1 /\ p + 0 <= n + 1
      OBVIOUS
    <3> QED
      BY <2>2, <2>3, <3>1, <3>2
  <2>6. previous' \in Alphabet \cup {0} /\ nmea' \in 0..2
    <3>1. previous' = b /\ nmea' = NextNmea(b)
      BY <1>3 DEF Feed, Mark
    <3> QED
      BY <3>1 DEF NextNmea
  <2> QED
    BY <2>1, <2>4, <2>5, <2>6 DEF StatsInv
<1> QED
  BY <1>1, <1>2, <1>3 DEF Next

LEMMA StatsInvariant == Spec => []StatsInv
<1>1. Init => StatsInv
  <2>1. ASSUME Init PROVE StatsInv
    <3>1. /\ stats = NoStats /\ input = <<>> /\ good = <<>> /\ bad = <<>>
          /\ previous = 0 /\ nmea = 0 /\ Len(<<>>) = 0
      BY <2>1 DEF Init, Fresh
    <3> QED
      BY <3>1, FreshStats DEF StatsInv
  <2> QED
    BY <2>1
<1>2. ParseInv /\ CutInv /\ StatsInv /\ [Next]_vars => StatsInv'
  BY NextStats
<1> QED
  BY <1>1, <1>2, ParseInvariant, CutInvariant, PTL DEF Spec

\* The analyzer stays in its types, and its counters are the lengths of the
\* histories, for every alphabet, checksum and bound.
THEOREM TypeCorrect == Spec => []TypeOK
<1>1. ASSUME ParseInv, CutInv, StatsInv PROVE TypeOK
  <2>1. stats.types \in Seq(Nat) /\ stats.printable \in Nat /\ stats.bytes \in Nat
    BY <1>1, StatsFields DEF StatsInv
  <2>2. stats.printable \in 0..stats.bytes
    BY <1>1, <2>1 DEF StatsInv
  <2> QED
    BY <1>1, <2>1, <2>2 DEF TypeOK, ParseInv, BufferInv, CutInv, StatsInv
<1> QED
  BY <1>1, ParseInvariant, CutInvariant, StatsInvariant, PTL

-----------------------------------------------------------------------------
(* The markers *)

\* The two recognisers remember just enough of the input.
MarkInv ==
  /\ previous = IF input = <<>> THEN 0 ELSE input[Len(input)]
  /\ nmea \in 0..2
  /\ nmea = 1 <=> Len(input) > 0 /\ input[Len(input)] = Dollar
  /\ nmea = 2 <=> /\ Len(input) > 1 /\ input[Len(input)] = LetterG
                  /\ input[Len(input) - 1] = Dollar

UbxPlaces == {i \in 1 .. Len(input) - 1 : input[i] = 181 /\ input[i + 1] = 98}
NmeaPlaces == {i \in 1 .. Len(input) - 2 :
                 /\ input[i] = Dollar /\ input[i + 1] = LetterG
                 /\ input[i + 2] \in TalkerLetters}

PlacesInv ==
  /\ IsFiniteSet(UbxPlaces) /\ IsFiniteSet(NmeaPlaces)
  /\ MarkersAreOccurrences

\* What a byte adds to the places of the markers.
LEMMA PlacesGrow ==
  ASSUME ParseInv, MarkInv, NEW b \in Alphabet, Feed(b)
  PROVE  /\ UbxPlaces' = IF UbxSync(b) THEN UbxPlaces \cup {Len(input)} ELSE UbxPlaces
         /\ Len(input) \notin UbxPlaces
         /\ NmeaPlaces' = IF NmeaPrefix(b) THEN NmeaPlaces \cup {Len(input) - 1}
                                           ELSE NmeaPlaces
         /\ Len(input) - 1 \notin NmeaPlaces
<1>1. PICK n \in Nat : n = Len(input)
  BY DEF ParseInv
<1>2. /\ input' \in Seq(Alphabet) /\ Len(input') = n + 1
      /\ \A i \in 1..n : input'[i] = input[i]
      /\ input'[n + 1] = b
  BY <1>1, InputGrows
<1>3. n > 0 => input # <<>>
  BY <1>1
<1>4. UbxSync(b) <=> n \in 1..n /\ input[n] = 181 /\ b = 98
  <2>1. CASE n = 0
    <3>1. input = <<>>
      BY <1>1, <2>1, EmptySeq DEF ParseInv
    <3> QED
      BY <1>1, <2>1, <3>1 DEF UbxSync, MarkInv
  <2>2. CASE n > 0
    BY <1>1, <1>3, <2>2 DEF UbxSync, MarkInv
  <2> QED
    BY <1>1, <2>1, <2>2
<1>5. NmeaPrefix(b) <=> /\ n - 1 \in 1..n /\ input[n - 1] = Dollar /\ input[n] = LetterG
                        /\ b \in TalkerLetters
  BY <1>1 DEF NmeaPrefix, MarkInv
<1>6. \A i : i \in UbxPlaces' <=> i \in UbxPlaces \/ (i = n /\ UbxSync(b))
  <2> SUFFICES ASSUME NEW i
               PROVE  i \in UbxPlaces' <=> i \in UbxPlaces \/ (i = n /\ UbxSync(b))
    OBVIOUS
  <2>1. i \in UbxPlaces' <=> i \in 1..n /\ input'[i] = 181 /\ input'[i + 1] = 98
    BY <1>2 DEF UbxPlaces
  <2>2. CASE i \in 1..n - 1
    <3>1. i \in 1..n /\ i + 1 \in 1..n /\ i # n
      BY <2>2
    <3> QED
      BY <1>1, <1>2, <2>1, <2>2, <3>1 DEF UbxPlaces
  <2>3. CASE i = n
    <3>1. i \notin 1..n - 1
      BY <2>3
    <3>2. i \notin UbxPlaces
      BY <1>1, <3>1 DEF UbxPlaces
    <3> QED
      BY <1>2, <1>4, <2>1, <2>3, <3>2
  <2>4. CASE i \notin 1..n - 1 /\ i # n
    <3>1. i \notin 1..n
      BY <2>4
    <3> QED
      BY <1>1, <2>1, <2>4, <3>1 DEF UbxPlaces
  <2> QED
    BY <2>2, <2>3, <2>4
<1>7. \A i : i \in NmeaPlaces' <=> i \in NmeaPlaces \/ (i = n - 1 /\ NmeaPrefix(b))
  <2> SUFFICES ASSUME NEW i
               PROVE  i \in NmeaPlaces' <=> i \in NmeaPlaces \/ (i = n - 1 /\ NmeaPrefix(b))
    OBVIOUS
  <2>0. Len(input') - 2 = n - 1
    BY <1>2
  <2>1. i \in NmeaPlaces' <=> /\ i \in 1..n - 1 /\ input'[i] = Dollar /\ input'[i + 1] = LetterG
                              /\ input'[i + 2] \in TalkerLetters
    BY <2>0 DEF NmeaPlaces
  <2>2. CASE i \in 1..n - 2
    <3>1. i \in 1..n - 1 /\ i \in 1..n /\ i + 1 \in 1..n /\ i + 2 \in 1..n /\ i # n - 1
      BY <2>2
    <3> QED
      BY <1>1, <1>2, <2>1, <2>2, <3>1 DEF NmeaPlaces
  <2>3. CASE i = n - 1
    <3>1. i \notin 1..n - 2 /\ i + 1 = n /\ i + 2 = n + 1
      BY <2>3
    <3>2. i \notin NmeaPlaces
      BY <1>1, <3>1 DEF NmeaPlaces
    <3>3. i \in 1..n - 1 <=> n - 1 \in 1..n
      BY <2>3
    <3>4. n - 1 \in 1..n => n \in 1..n
      OBVIOUS
    <3> QED
      BY <1>2, <1>5, <2>1, <2>3, <3>1, <3>2, <3>3, <3>4
  <2>4. CASE i \notin 1..n - 2 /\ i # n - 1
    <3>1. i \notin 1..n - 1
      BY <2>4
    <3> QED
      BY <1>1, <2>1, <2>4, <3>1 DEF NmeaPlaces
  <2> QED
    BY <2>2, <2>3, <2>4
<1>8. n \notin UbxPlaces /\ n - 1 \notin NmeaPlaces
  BY <1>1 DEF UbxPlaces, NmeaPlaces
<1>9. UbxPlaces' = IF UbxSync(b) THEN UbxPlaces \cup {n} ELSE UbxPlaces
  BY <1>6
<1>10. NmeaPlaces' = IF NmeaPrefix(b) THEN NmeaPlaces \cup {n - 1} ELSE NmeaPlaces
  BY <1>7
<1> QED
  BY <1>1, <1>8, <1>9, <1>10

LEMMA FeedMark == ASSUME ParseInv, MarkInv, NEW b \in Alphabet, Feed(b) PROVE MarkInv'
<1>1. PICK n \in Nat : n = Len(input)
  BY DEF ParseInv
<1>2. /\ input' \in Seq(Alphabet) /\ Len(input') = n + 1
      /\ \A i \in 1..n : input'[i] = input[i]
      /\ input'[n + 1] = b /\ n + 1 > 0 /\ n + 1 - 1 = n
  BY <1>1, InputGrows
<1>3. previous' = b /\ nmea' = NextNmea(b) /\ input' # <<>>
  BY <1>2 DEF Feed, Mark
<1>4. previous' = IF input' = <<>> THEN 0 ELSE input'[Len(input')]
  BY <1>2, <1>3
<1>5. nmea' \in 0..2
  BY <1>3 DEF NextNmea
<1>6. nmea' = 1 <=> b = Dollar
  BY <1>3 DEF NextNmea, Dollar, LetterG, TalkerLetters
<1>7. nmea' = 2 <=> nmea = 1 /\ b = LetterG
  BY <1>3 DEF NextNmea
<1>8. nmea' = 1 <=> Len(input') > 0 /\ input'[Len(input')] = Dollar
  BY <1>2, <1>6
<1>9. nmea' = 2 <=> /\ Len(input') > 1 /\ input'[Len(input')] = LetterG
                    /\ input'[Len(input') - 1] = Dollar
  <2>1. nmea = 1 <=> n > 0 /\ input[n] = Dollar
    BY <1>1 DEF MarkInv
  <2>2. n > 0 => n \in 1..n
    OBVIOUS
  <2>3. n + 1 > 1 <=> n > 0
    OBVIOUS
  <2> QED
    BY <1>2, <1>7, <2>1, <2>2, <2>3
<1> QED
  BY <1>4, <1>5, <1>8, <1>9 DEF MarkInv

LEMMA NothingMarked ==
  ASSUME stats = NoStats, input = <<>>, previous = 0, nmea = 0
  PROVE  MarkInv /\ PlacesInv
<1>1. Len(input) = 0
  OBVIOUS
<1>2. 1 .. Len(input) - 1 = {} /\ 1 .. Len(input) - 2 = {}
  BY <1>1
<1>3. UbxPlaces = {} /\ NmeaPlaces = {}
  BY <1>2 DEF UbxPlaces, NmeaPlaces
<1>4. stats.ubx = 0 /\ stats.nmea = 0
  BY FreshStats
<1>5. MarkersAreOccurrences
  BY <1>3, <1>4, FS_EmptySet DEF MarkersAreOccurrences, UbxPlaces, NmeaPlaces
<1> QED
  BY <1>1, <1>3, <1>5, FS_EmptySet DEF MarkInv, PlacesInv

LEMMA OneMore ==
  ASSUME NEW P, IsFiniteSet(P), NEW p, p \notin P
  PROVE  IsFiniteSet(P \cup {p}) /\ Cardinality(P \cup {p}) = Cardinality(P) + 1
BY FS_AddElement

LEMMA FeedPlaces ==
  ASSUME ParseInv, CutInv, StatsInv, MarkInv, PlacesInv, NEW b \in Alphabet, Feed(b)
  PROVE  PlacesInv'
<1>1. /\ stats.ubx \in Nat /\ stats.nmea \in Nat
      /\ stats.ubx = Cardinality(UbxPlaces) /\ stats.nmea = Cardinality(NmeaPlaces)
      /\ IsFiniteSet(UbxPlaces) /\ IsFiniteSet(NmeaPlaces)
  BY StatsFields DEF StatsInv, PlacesInv, MarkersAreOccurrences, UbxPlaces, NmeaPlaces
<1>2. /\ stats'.ubx = stats.ubx + (IF UbxSync(b) THEN 1 ELSE 0)
      /\ stats'.nmea = stats.nmea + (IF NmeaPrefix(b) THEN 1 ELSE 0)
  <2>1. SameMarks(Counted(b), stats')
    BY StatsMove DEF StatsInv
  <2> QED
    BY <2>1, CountedFields DEF SameMarks, StatsInv
<1>3. IsFiniteSet(UbxPlaces') /\ Cardinality(UbxPlaces') = stats'.ubx
  <2>1. CASE UbxSync(b)
    <3>1. UbxPlaces' = UbxPlaces \cup {Len(input)} /\ Len(input) \notin UbxPlaces
      BY <2>1, PlacesGrow
    <3>2. stats'.ubx = stats.ubx + 1
      BY <1>2, <2>1
    <3> QED
      BY <1>1, <3>1, <3>2, OneMore
  <2>2. CASE ~UbxSync(b)
    BY <1>1, <1>2, <2>2, PlacesGrow
  <2> QED
    BY <2>1, <2>2
<1>4. IsFiniteSet(NmeaPlaces') /\ Cardinality(NmeaPlaces') = stats'.nmea
  <2>1. CASE NmeaPrefix(b)
    <3>1. NmeaPlaces' = NmeaPlaces \cup {Len(input) - 1} /\ Len(input) - 1 \notin NmeaPlaces
      BY <2>1, PlacesGrow
    <3>2. stats'.nmea = stats.nmea + 1
      BY <1>2, <2>1
    <3> QED
      BY <1>1, <3>1, <3>2, OneMore
  <2>2. CASE ~NmeaPrefix(b)
    BY <1>1, <1>2, <2>2, PlacesGrow
  <2> QED
    BY <2>1, <2>2
<1> QED
  BY <1>3, <1>4 DEF PlacesInv, MarkersAreOccurrences, UbxPlaces, NmeaPlaces

LEMMA MarksInvariant == Spec => [](MarkInv /\ PlacesInv)
<1>1. Init => MarkInv /\ PlacesInv
  BY NothingMarked DEF Init, Fresh
<1>2. ParseInv /\ CutInv /\ StatsInv /\ (MarkInv /\ PlacesInv) /\ [Next]_vars
        => (MarkInv /\ PlacesInv)'
  <2> SUFFICES ASSUME ParseInv, CutInv, StatsInv, MarkInv, PlacesInv, [Next]_vars
               PROVE  MarkInv' /\ PlacesInv'
    OBVIOUS
  <2>1. CASE UNCHANGED vars
    BY <2>1 DEF vars, MarkInv, PlacesInv, MarkersAreOccurrences, UbxPlaces, NmeaPlaces
  <2>2. CASE Reset
    <3>1. stats' = NoStats /\ input' = <<>> /\ previous' = 0 /\ nmea' = 0
      BY <2>2 DEF Reset
    <3>2. Len(input') = 0 /\ 1 .. Len(input') - 1 = {} /\ 1 .. Len(input') - 2 = {}
      BY <3>1
    <3>3. UbxPlaces' = {} /\ NmeaPlaces' = {}
      BY <3>2 DEF UbxPlaces, NmeaPlaces
    <3>4. stats'.ubx = 0 /\ stats'.nmea = 0
      BY <3>1 DEF NoStats
    <3>5. MarkersAreOccurrences'
      BY <3>3, <3>4, FS_EmptySet DEF MarkersAreOccurrences, UbxPlaces, NmeaPlaces
    <3> QED
      BY <3>1, <3>2, <3>3, <3>5, FS_EmptySet DEF MarkInv, PlacesInv
  <2>3. ASSUME NEW b \in Alphabet, Feed(b) PROVE MarkInv' /\ PlacesInv'
    BY <2>3, FeedMark, FeedPlaces
  <2> QED
    BY <2>1, <2>2, <2>3 DEF Next
<1> QED
  BY <1>1, <1>2, ParseInvariant, CutInvariant, StatsInvariant, PTL DEF Spec

\* The UBX and NMEA counters are the numbers of occurrences of their markers in
\* the input, for every input.
THEOREM MarkersAreCounted == Spec => []MarkersAreOccurrences
<1>1. MarkInv /\ PlacesInv => MarkersAreOccurrences
  BY DEF PlacesInv
<1> QED
  BY <1>1, MarksInvariant, PTL
-----------------------------------------------------------------------------
(* The list of types *)

Carries(f) == f.to - f.from + 1 >= 5 + CrcSize
TypesAmong(frames) == {MessageType(Bytes(f)) : f \in {g \in frames : Carries(g)}}

LEMMA TypesOfElements == TypesOfFrames = TypesAmong(Elements(good))
BY DEF TypesOfFrames, TypesAmong, Carries, Elements

\* The list is without repetition, has its room, and holds types of frames only,
\* all of them as long as it is not full.
Lists(types, all) ==
  /\ IsFiniteSet(Elements(types)) /\ Elements(types) \subseteq all
  /\ Cardinality(Elements(types)) = Len(types) /\ Len(types) <= MaxTypes
  /\ Len(types) < MaxTypes => Elements(types) = all

LEMMA EmptyLists == Lists(<<>>, {})
<1>1. Elements(<<>>) = {} /\ Len(<<>>) = 0 /\ MaxTypes \in Nat
  BY AnalyzerAssumption DEF Elements
<1>2. 0 <= MaxTypes /\ (0 < MaxTypes => {} = {})
  BY <1>1
<1>3. IsFiniteSet({}) /\ Cardinality({}) = 0
  BY FS_EmptySet
<1> QED
  BY <1>1, <1>2, <1>3 DEF Lists

LEMMA RememberLists ==
  ASSUME NEW types \in Seq(Nat), NEW all, Lists(types, all), NEW t \in Nat
  PROVE  Lists(Remember(types, t), all \cup {t})
<1>1. /\ Len(types) \in Nat /\ MaxTypes \in Nat /\ Len(types) <= MaxTypes
      /\ Elements(types) \subseteq all
      /\ IsFiniteSet(Elements(types)) /\ Cardinality(Elements(types)) = Len(types)
      /\ Len(types) < MaxTypes => Elements(types) = all
  BY AnalyzerAssumption DEF Lists
<1>2. (\A k \in 1..Len(types) : types[k] # t) <=> t \notin Elements(types)
  BY DEF Elements
<1>3. CASE Len(types) < MaxTypes /\ t \notin Elements(types)
  <2>1. PICK new : new = Append(types, t)
    OBVIOUS
  <2>2. Remember(types, t) = new
    BY <1>2, <1>3, <2>1 DEF Remember
  <2>3. Elements(new) = all \cup {t} /\ Elements(new) = Elements(types) \cup {t}
    BY <1>1, <1>3, <2>1, ElementsGrow
  <2>4. Len(new) = Len(types) + 1
    BY <2>1, Appended
  <2>5. IsFiniteSet(Elements(new)) /\ Cardinality(Elements(new)) = Cardinality(Elements(types)) + 1
    BY <1>1, <1>3, <2>3, OneMore
  <2>6. Len(new) <= MaxTypes
    BY <1>1, <1>3, <2>4
  <2>7. Cardinality(Elements(new)) = Len(new)
    BY <1>1, <2>4, <2>5
  <2>8. Lists(new, all \cup {t})
    BY <2>3, <2>5, <2>6, <2>7 DEF Lists
  <2> QED
    BY <2>2, <2>8
<1>4. CASE ~(Len(types) < MaxTypes /\ t \notin Elements(types))
  <2>1. Remember(types, t) = types
    BY <1>2, <1>4 DEF Remember
  <2>2. Len(types) < MaxTypes => t \in all
    BY <1>1, <1>4
  <2> QED
    BY <1>1, <2>1, <2>2 DEF Lists
<1> QED
  BY <1>3, <1>4

TypesInv == Lists(stats.types, TypesOfFrames)

\* The types of the frames as a byte ends one.
LEMMA TypesMove ==
  ASSUME ParseInv, CutInv, NEW b \in Alphabet, Feed(b)
  PROVE  LET s == Append(buffer, b)
         IN TypesOfFrames' = IF Ends(b) /\ IsFrame(s) /\ Len(s) >= 5 + CrcSize
                             THEN TypesOfFrames \cup {MessageType(s)} ELSE TypesOfFrames
<1>1. PICK s : s = Append(buffer, b)
  OBVIOUS
<1>2. TypesOfFrames' = {MessageType(SubSeq(input', f.from, f.to)) :
                          f \in {g \in Elements(good') : Carries(g)}}
  BY DEF TypesOfFrames, Carries, Elements, Bytes
<1>3. \A f \in Elements(good) : SubSeq(input', f.from, f.to) = Bytes(f)
  BY BytesStay DEF Closed
<1>4. CASE good' = good
  <2>1. TypesOfFrames' = TypesOfFrames
    BY <1>2, <1>3, <1>4, TypesOfElements DEF TypesAmong
  <2>2. ~(Ends(b) /\ IsFrame(s))
    <3>1. \A q \in Seq(Interval) : \A e : Append(q, e) # q
      <4>1. \A q \in Seq(Interval) : \A e : Len(Append(q, e)) # Len(q)
        OBVIOUS
      <4> QED
        BY <4>1
    <3>2. good # Append(good, Here(s))
      BY <3>1 DEF CutInv
    <3> QED
      BY <1>1, <1>4, <3>2 DEF Ends
  <2> QED
    BY <1>1, <2>1, <2>2
<1>5. CASE Ends(b) /\ IsFrame(s)
  <2>1. PICK h : h = Here(s)
    OBVIOUS
  <2>2. good' = Append(good, h)
    BY <1>1, <1>5, <2>1 DEF Ends
  <2>3. /\ h \in Interval /\ SubSeq(input', h.from, h.to) = s
        /\ h.from = Left + 1 /\ h.to = Left' /\ Left' = Len(input) + 1
    BY <1>1, <1>5, <2>1, EndedHere DEF Bytes
  <2>4. Elements(good') = Elements(good) \cup {h}
    BY <2>2, <2>3, ElementsGrow DEF CutInv
  <2>5. Carries(h) <=> Len(s) >= 5 + CrcSize
    <3>1. h.to - h.from + 1 = Len(s)
      <4>1. Len(s) = Len(buffer) + 1 /\ Len(buffer) \in Nat /\ Left \in Nat
            /\ Left + Len(buffer) = Len(input)
        BY <1>1, Appended, ParseLengths DEF ParseInv
      <4> QED
        BY <2>3, <4>1
    <3> QED
      BY <3>1 DEF Carries
  <2>6. TypesOfFrames' = {MessageType(SubSeq(input', f.from, f.to)) :
                            f \in {g \in Elements(good) \cup {h} : Carries(g)}}
    BY <1>2, <2>4
  <2>7. TypesOfFrames = {MessageType(SubSeq(input', f.from, f.to)) :
                           f \in {g \in Elements(good) : Carries(g)}}
    BY <1>3, TypesOfElements DEF TypesAmong
  <2>8. CASE Carries(h)
    <3>1. TypesOfFrames' = TypesOfFrames \cup {MessageType(s)}
      BY <2>3, <2>6, <2>7, <2>8
    <3> QED
      BY <1>1, <1>5, <2>5, <2>8, <3>1
  <2>9. CASE ~Carries(h)
    <3>1. TypesOfFrames' = TypesOfFrames
      BY <2>6, <2>7, <2>9
    <3> QED
      BY <1>1, <2>5, <2>9, <3>1
  <2> QED
    BY <2>8, <2>9
<1> QED
  <2>1. good' = good \/ (Ends(b) /\ IsFrame(s))
    BY <1>1, ByteCases DEF Skips, Extends, Ends
  <2> QED
    BY <1>4, <1>5, <2>1

LEMMA NextTypes ==
  ASSUME ParseInv, CutInv, StatsInv, TypesInv, [Next]_vars
  PROVE  TypesInv'
<1>1. CASE UNCHANGED vars
  BY ZenonT(60), <1>1 DEF vars, TypesInv, Lists, TypesOfFrames, Bytes, Elements
<1>2. CASE Reset
  <2>1. stats'.types = <<>> /\ good' = <<>> /\ Len(<<>>) = 0
    BY <1>2 DEF Reset, NoStats
  <2>2. TypesOfFrames' = {}
    BY <2>1 DEF TypesOfFrames
  <2>3. TypesInv' <=> Lists(stats'.types, TypesOfFrames')
    BY DEF TypesInv, Lists, Elements
  <2> QED
    BY <2>1, <2>2, <2>3, EmptyLists
<1>3. ASSUME NEW b \in Alphabet, Feed(b) PROVE TypesInv'
  <2>1. stats.types \in Seq(Nat)
    BY StatsFields DEF StatsInv
  <2>2. stats'.types = NewTypes(b)
    BY <1>3, StatsMove DEF StatsInv
  <2>3. PICK s : s = Append(buffer, b)
    OBVIOUS
  <2>4. CASE Ends(b) /\ IsFrame(s) /\ Len(s) >= 5 + CrcSize
    <3>1. MessageType(s) \in Nat
      <4>1. s \in Seq(Alphabet) /\ Len(s) >= 5
        BY <2>3, <2>4, Appended, ConstantTypes DEF ParseInv
      <4> QED
        BY <4>1, TypeIsNat
    <3>2. stats'.types = Remember(stats.types, MessageType(s))
      BY <2>2, <2>3, <2>4 DEF NewTypes
    <3>3. TypesOfFrames' = TypesOfFrames \cup {MessageType(s)}
      BY <1>3, <2>3, <2>4, TypesMove
    <3>4. Lists(Remember(stats.types, MessageType(s)), TypesOfFrames \cup {MessageType(s)})
      BY <2>1, <3>1, RememberLists DEF TypesInv
    <3> QED
      BY <3>2, <3>3, <3>4 DEF TypesInv, Lists, Elements
  <2>5. CASE ~(Ends(b) /\ IsFrame(s) /\ Len(s) >= 5 + CrcSize)
    <3>1. stats'.types = stats.types
      BY <2>2, <2>3, <2>5 DEF NewTypes
    <3>2. TypesOfFrames' = TypesOfFrames
      BY <1>3, <2>3, <2>5, TypesMove
    <3> QED
      BY <3>1, <3>2 DEF TypesInv, Lists, Elements
  <2> QED
    BY <2>4, <2>5
<1> QED
  BY <1>1, <1>2, <1>3 DEF Next

LEMMA TypesInvariant == Spec => []TypesInv
<1>1. Init => TypesInv
  <2> SUFFICES ASSUME Init PROVE TypesInv
    OBVIOUS
  <2>1. stats.types = <<>> /\ good = <<>> /\ Len(<<>>) = 0
    BY DEF Init, Fresh, NoStats
  <2>2. TypesOfFrames = {}
    BY <2>1 DEF TypesOfFrames
  <2> QED
    BY <2>1, <2>2, EmptyLists DEF TypesInv
<1>2. ParseInv /\ CutInv /\ StatsInv /\ TypesInv /\ [Next]_vars => TypesInv'
  BY NextTypes
<1> QED
  BY <1>1, <1>2, ParseInvariant, CutInvariant, StatsInvariant, PTL DEF Spec

\* rtcmTypes is the list, without repetition, of the types of accepted frames,
\* complete as long as it has room, for every number of its places.
THEOREM TypesAreOfFrames == Spec => []TypesAreThoseOfFrames
<1>1. TypesInv => TypesAreThoseOfFrames
  BY DEF TypesInv, Lists, TypesAreThoseOfFrames, Elements
<1> QED
  BY <1>1, TypesInvariant, PTL
=============================================================================
