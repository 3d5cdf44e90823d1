------------------------ MODULE ProbeFirmware_proofs ------------------------
(***************************************************************************)
(* Theorems about ProbeFirmware for every number of bauds, every buffer    *)
(* and ring size, every cap and every clock that satisfies the named       *)
(* assumptions of ProbeState.                                              *)
(***************************************************************************)
EXTENDS ProbeFirmware, SequenceTheorems, TLAPS

-----------------------------------------------------------------------------
(* The constants, and the arithmetic of the counters *)

\* The assumptions of ProbeState, one constant at a time.
LEMMA ConstantTypes ==
  /\ BaudCount \in Nat /\ BaudCount > 0
  /\ MaxCaptureBytes \in Nat /\ MaxCaptureBytes > 0
  /\ CaptureChunk \in Nat /\ StreamChunk \in Nat /\ CaptureChunk > 0 /\ StreamChunk > 0
  /\ RxRing \in Nat /\ MaxWaiting \in Nat /\ ByteCap \in Nat
  /\ ByteCap >= MaxCaptureBytes
  /\ MaxSeconds \in Nat /\ WordSize \in Nat /\ WordSize > 0
  /\ DefaultSeconds \in 1..MaxSeconds
  /\ StreamBauds \subseteq Bauds
  BY SizesAssumption, ClockAssumption, StreamBaudsAssumption DEF Bauds

\* Cap keeps a count between 0 and ByteCap.
LEMMA CapType == \A n \in Nat : Cap(n) \in 0..ByteCap
  BY ConstantTypes DEF Cap, Lesser

\* Adding to a capped count gives a capped count, a positive one if something
\* was added.
LEMMA CapSum ==
  ASSUME NEW m \in 0..ByteCap, NEW n \in Nat
  PROVE  m + n \in Nat /\ Cap(m + n) \in 0..ByteCap /\ (n > 0 => Cap(m + n) \in 1..ByteCap)
  BY ConstantTypes DEF Cap, Lesser

\* The clamp of startCapture yields a legal number of seconds for every
\* argument, negative ones included.
LEMMA ClampType == \A arg \in SecondsArgs \cup {DefaultSeconds} :
                     ClampSeconds(arg) \in 1..MaxSeconds
<1> SUFFICES ASSUME NEW arg \in SecondsArgs \cup {DefaultSeconds}
             PROVE  ClampSeconds(arg) \in 1..MaxSeconds
  OBVIOUS
<1>1. arg \in Int
  BY ClockAssumption
<1>2. arg % WordSize \in Nat
  BY <1>1, ConstantTypes
<1> QED
  BY <1>2, ConstantTypes DEF ClampSeconds, Greater, Lesser

-----------------------------------------------------------------------------
(* The inductive invariant *)

\* What each step of the loop may rely on.
StepInv ==
  /\ pc = "check" => capture.active
  /\ pc = "pump" => stream.active
  /\ pc \in {"clear", "summary", "write"} => ~capture.active /\ ~stream.active

\* The open file is as long as the result says: this is what keeps both
\* under the cap.
OpenFileInv ==
  capture.output => files[capture.baudIndex].size = Current.stored

\* A closed port has nothing left to read: a stream that opens it starts clean.
ClosedPortInv == ~uart.open => uart.ring = <<>>

IndInv == TypeOK /\ SerialPortHasOneUser /\ StepInv /\ OpenFileInv /\ ClosedPortInv

\* The values of the state after power-up are well typed.
LEMMA FreshTypes ==
  /\ NoResult \in BaudResult
  /\ NoCapture \in CaptureState
  /\ NoStream \in StreamState
  /\ NoSummary \in SummaryFile
  /\ NoFile \in [sweep : Nat, size : 0..MaxCaptureBytes]
  /\ PortClosed \in [open : BOOLEAN, baud : Bauds, ring : Seq(Bauds)]
  /\ PortClosed.ring = <<>>
<1> USE ConstantTypes
<1>1. NoCapture \in CaptureState
  BY DEF NoCapture, CaptureState, NoResult, BaudResult, Bauds
<1>2. NoSummary \in SummaryFile
  BY <1>1 DEF NoSummary, SummaryFile, SummaryDoc, DocOf, CaptureState, NoCapture
<1>3. NoStream \in StreamState
  BY DEF NoStream, StreamState, Bauds
<1>4. NoFile \in [sweep : Nat, size : 0..MaxCaptureBytes]
  BY DEF NoFile
<1>5. /\ PortClosed \in [open : BOOLEAN, baud : Bauds, ring : Seq(Bauds)]
      /\ PortClosed.ring = <<>>
  BY DEF PortClosed, Bauds
<1>6. NoResult \in BaudResult
  BY DEF NoResult, BaudResult
<1> QED
  BY <1>1, <1>2, <1>3, <1>4, <1>5, <1>6

LEMMA InitInv == Init => IndInv
<1> SUFFICES ASSUME InitState PROVE IndInv
  BY DEF Init
<1> USE ConstantTypes DEF InitState
<1>1. [i \in Bauds |-> NoFile] \in [Bauds -> [sweep : Nat, size : 0..MaxCaptureBytes]]
  BY FreshTypes
<1>2. TypeOK
  <2>1. pc \in Steps /\ clearing \in 0..BaudCount + 3
    BY DEF Steps
  <2>2. analyzed \in 0..ByteCap /\ drained \in 0..ByteCap
    OBVIOUS
  <2>3. client \in {"none", "up", "down"} /\ waiting \in 0..MaxWaiting
    OBVIOUS
  <2>4. sweeps \in Nat /\ age \in Nat /\ got \subseteq 1..ByteCap /\ led \in BOOLEAN
    OBVIOUS
  <2>5. uart \in [open : BOOLEAN, baud : Bauds, ring : Seq(Bauds)] /\ Len(uart.ring) <= RxRing
    BY FreshTypes
  <2>6. summary \in SummaryFile /\ obsolete \subseteq Obsolete
    BY FreshTypes
  <2> QED
    BY FreshTypes, <1>1, <2>1, <2>2, <2>3, <2>4, <2>5, <2>6 DEF TypeOK
<1>3. SerialPortHasOneUser
  BY FreshTypes DEF SerialPortHasOneUser, NoCapture, NoStream, PortClosed
<1>4. StepInv /\ OpenFileInv /\ ClosedPortInv
  BY FreshTypes DEF StepInv, OpenFileInv, ClosedPortInv, NoCapture
<1> QED
  BY <1>2, <1>3, <1>4 DEF IndInv

LEMMA StutterInv == IndInv /\ UNCHANGED vars => IndInv'
  BY DEF vars, captureVars, streamVars, flashVars, IndInv, TypeOK, SerialPortHasOneUser,
         StepInv, OpenFileInv, ClosedPortInv, Current

\* The steps that move only the program counter.
IdleStep ==
  HandleNothing \/ CaptureIdle \/ DrainDone \/ ContinueSample \/ StreamIdle
    \/ PumpDone \/ HandleStartCapture

LEMMA IdleInv == IndInv /\ IdleStep => IndInv'
<1> SUFFICES ASSUME IndInv, IdleStep PROVE IndInv'
  OBVIOUS
<1>1. /\ UNCHANGED <<captureVars, streamVars, analyzed, uart, led, flashVars, sweeps>>
      /\ pc' \in {"capture", "stream", "check", "delay", "clear"}
      /\ pc \in {"http", "capture", "check", "stream", "pump"}
      /\ clearing' \in {clearing, 0}
      /\ pc' = "check" => capture.active
      /\ pc' = "clear" => ~capture.active /\ ~stream.active
  BY DEF IdleStep, HandleNothing, CaptureIdle, DrainDone, ContinueSample, StreamIdle,
         PumpDone, HandleStartCapture
<1>2. TypeOK'
  BY <1>1, ConstantTypes DEF captureVars, streamVars, flashVars, IndInv, TypeOK, Steps
<1>3. SerialPortHasOneUser'
  BY <1>1 DEF captureVars, streamVars, IndInv, SerialPortHasOneUser
<1>4. StepInv'
  BY <1>1 DEF captureVars, streamVars, StepInv
<1>5. OpenFileInv' /\ ClosedPortInv'
  BY <1>1 DEF captureVars, flashVars, IndInv, OpenFileInv, ClosedPortInv, Current
<1> QED
  BY <1>2, <1>3, <1>4, <1>5 DEF IndInv

-----------------------------------------------------------------------------
(* The steps of the sweep *)

\* beginCurrentBaud, from any active capture state at a legal baud.
LEMMA BeginInv ==
  ASSUME TypeOK, NEW c \in CaptureState, c.active, c.baudIndex \in Bauds,
         BeginCurrentBaud(c)
  PROVE  /\ capture' \in CaptureState
         /\ capture'.active /\ capture'.baudIndex = c.baudIndex
         /\ files' \in [Bauds -> [sweep : Nat, size : 0..MaxCaptureBytes]]
         /\ uart' = [open |-> TRUE, baud |-> c.baudIndex, ring |-> <<>>]
         /\ analyzed' = 0 /\ drained' = 0 /\ age' = 0
         /\ OpenFileInv' /\ ClosedPortInv'
<1>1. PICK opened \in BOOLEAN, millis \in 0 .. WordSize - 1 :
        /\ capture' = [c EXCEPT
             !.results = WithResult(c, [NoResult EXCEPT !.begun = TRUE, !.lossy = ~opened]),
             !.output = opened,
             !.started = millis]
        /\ files' = IF opened
                    THEN [files EXCEPT ![c.baudIndex] = [sweep |-> c.sweep, size |-> 0]]
                    ELSE files
        /\ analyzed' = AnalyzerReset
        /\ uart' = ReopenPort(c.baudIndex)
        /\ drained' = 0 /\ age' = 0
  BY DEF BeginCurrentBaud
<1> DEFINE r == [NoResult EXCEPT !.begun = TRUE, !.lossy = ~opened]
<1>2. r \in BaudResult /\ r.stored = 0
  <2>1. \A lossy \in BOOLEAN :
          /\ [NoResult EXCEPT !.begun = TRUE, !.lossy = lossy] \in BaudResult
          /\ [NoResult EXCEPT !.begun = TRUE, !.lossy = lossy].stored = 0
    <3>1. NoResult \in BaudResult /\ NoResult.stored = 0
      BY FreshTypes DEF NoResult
    <3> QED
      BY <3>1 DEF BaudResult
  <2>2. (~opened) \in BOOLEAN
    OBVIOUS
  <2> QED
    BY <2>1, <2>2, Zenon
<1>3. WithResult(c, r) \in [Bauds -> BaudResult] /\ WithResult(c, r)[c.baudIndex] = r
  BY <1>2 DEF WithResult, CaptureState
<1> HIDE DEF r
<1>4. /\ capture' \in CaptureState
      /\ capture'.active /\ capture'.baudIndex = c.baudIndex
      /\ capture'.results = WithResult(c, r) /\ capture'.output = opened
  BY <1>1, <1>3 DEF r, CaptureState
<1>5. files' \in [Bauds -> [sweep : Nat, size : 0..MaxCaptureBytes]]
  <2>1. [sweep |-> c.sweep, size |-> 0] \in [sweep : Nat, size : 0..MaxCaptureBytes]
    BY ConstantTypes DEF CaptureState
  <2> QED
    BY <1>1, <2>1 DEF TypeOK
<1>6. opened => files'[c.baudIndex].size = 0
  BY <1>1 DEF TypeOK
<1>7. uart' = [open |-> TRUE, baud |-> c.baudIndex, ring |-> <<>>]
  BY <1>1 DEF ReopenPort, PortBegin, PortEnd, TypeOK
<1>8. OpenFileInv'
  BY <1>2, <1>3, <1>4, <1>6 DEF OpenFileInv, Current
<1>9. ClosedPortInv'
  BY <1>7 DEF ClosedPortInv
<1> QED
  BY <1>1, <1>4, <1>5, <1>7, <1>8, <1>9 DEF AnalyzerReset

LEMMA ClearFileInv == IndInv /\ ClearFile => IndInv'
<1> SUFFICES ASSUME IndInv, ClearFile PROVE IndInv'
  OBVIOUS
<1> USE DEF captureVars, streamVars
<1>1. /\ summary' \in SummaryFile /\ obsolete' \subseteq Obsolete
      /\ clearing' \in 0..BaudCount + 3
      /\ files' \in [Bauds -> [sweep : Nat, size : 0..MaxCaptureBytes]]
  <2>1. /\ summary' \in {summary, NoSummary} /\ obsolete' \subseteq obsolete
        /\ clearing' = clearing + 1 /\ clearing < BaudCount + 3
        /\ files' = [i \in Bauds |-> IF clearing = BaudFileAt(i) THEN NoFile ELSE files[i]]
    BY DEF ClearFile
  <2>2. files' \in [Bauds -> [sweep : Nat, size : 0..MaxCaptureBytes]]
    BY <2>1, FreshTypes DEF IndInv, TypeOK
  <2> QED
    BY <2>1, <2>2, FreshTypes, ConstantTypes DEF IndInv, TypeOK
<1>2. TypeOK'
  BY <1>1 DEF ClearFile, IndInv, TypeOK
<1>3. SerialPortHasOneUser' /\ StepInv'
  BY DEF ClearFile, IndInv, SerialPortHasOneUser, StepInv
<1>4. OpenFileInv' /\ ClosedPortInv'
  BY DEF ClearFile, IndInv, OpenFileInv, ClosedPortInv, StepInv, SerialPortHasOneUser
<1> QED
  BY <1>2, <1>3, <1>4 DEF IndInv

LEMMA BeginSweepInv ==
  ASSUME IndInv, NEW arg \in SecondsArgs \cup {DefaultSeconds}, BeginSweep(arg)
  PROVE  IndInv'
<1> DEFINE c == [NoCapture EXCEPT !.active = TRUE, !.seconds = ClampSeconds(arg),
                                  !.sweep = sweeps + 1]
<1>1. c \in CaptureState /\ c.active /\ c.baudIndex = 0 /\ 0 \in Bauds
  <2>1. ClampSeconds(arg) \in 1..MaxSeconds /\ sweeps + 1 \in Nat
    BY ClampType DEF IndInv, TypeOK
  <2>2. c \in CaptureState /\ c.active /\ c.baudIndex = NoCapture.baudIndex
    BY <2>1, FreshTypes DEF CaptureState
  <2> QED
    BY <2>2, ConstantTypes DEF NoCapture, Bauds
<1>2. BeginCurrentBaud(c) /\ TypeOK /\ StepInv /\ SerialPortHasOneUser
  BY DEF BeginSweep, IndInv
<1> HIDE DEF c
<1>3. /\ capture' \in CaptureState /\ capture'.active /\ capture'.baudIndex = 0
      /\ files' \in [Bauds -> [sweep : Nat, size : 0..MaxCaptureBytes]]
      /\ uart' = [open |-> TRUE, baud |-> 0, ring |-> <<>>]
      /\ analyzed' = 0 /\ drained' = 0 /\ age' = 0
      /\ OpenFileInv' /\ ClosedPortInv'
  BY <1>1, <1>2, BeginInv
<1>4. /\ pc' = "capture" /\ clearing' = 0 /\ led' = TRUE /\ sweeps' = sweeps + 1
      /\ ~stream.active /\ UNCHANGED <<stream, client, waiting, got, summary, obsolete>>
  BY <1>2 DEF BeginSweep, StepInv, streamVars
<1>5. TypeOK'
  BY <1>1, <1>2, <1>3, <1>4, ConstantTypes DEF TypeOK, Steps
<1>6. SerialPortHasOneUser' /\ StepInv'
  BY <1>2, <1>3, <1>4, ConstantTypes DEF SerialPortHasOneUser, StepInv
<1> QED
  BY <1>3, <1>5, <1>6 DEF IndInv

LEMMA FinalizedType ==
  ASSUME TypeOK, capture.baudIndex \in Bauds
  PROVE  /\ Finalized(capture) \in CaptureState
         /\ Finalized(capture).output = FALSE
         /\ Finalized(capture).active = capture.active
         /\ Finalized(capture).baudIndex = capture.baudIndex
<1> DEFINE R == [capture.results EXCEPT ![capture.baudIndex].bytes = analyzed]
<1>1. R \in [Bauds -> BaudResult]
  BY ZenonT(60) DEF TypeOK, CaptureState, BaudResult
<1>2. Finalized(capture) = [capture EXCEPT !.output = FALSE, !.started = 0, !.results = R]
  BY DEF Finalized, TypeOK, CaptureState
<1> HIDE DEF R
<1>3. 0 \in 0 .. WordSize - 1
  BY ConstantTypes
<1> QED
  BY <1>1, <1>2, <1>3 DEF TypeOK, CaptureState

\* An active capture is at a legal baud, and no stream runs beside it.
LEMMA ActiveCapture ==
  ASSUME IndInv, capture.active
  PROVE  capture.baudIndex \in Bauds /\ ~stream.active /\ uart.open
  BY ConstantTypes DEF IndInv, SerialPortHasOneUser, TypeOK, CaptureState, Bauds

LEMMA NextBaudInv == IndInv /\ NextBaud => IndInv'
<1> SUFFICES ASSUME IndInv, NextBaud PROVE IndInv'
  OBVIOUS
<1> DEFINE c == [Finalized(capture) EXCEPT !.baudIndex = capture.baudIndex + 1]
<1>0. /\ capture.active /\ TypeOK /\ SerialPortHasOneUser /\ BeginCurrentBaud(c)
      /\ ~(capture.baudIndex + 1 >= BaudCount)
  BY DEF IndInv, StepInv, NextBaud, LastBaud, NextIndex
<1>1. /\ capture.active /\ TypeOK /\ SerialPortHasOneUser /\ BeginCurrentBaud(c)
      /\ capture.baudIndex + 1 # BaudCount
  BY <1>0, ActiveCapture, ConstantTypes DEF Bauds
<1>2. /\ Finalized(capture) \in CaptureState /\ Finalized(capture).active
      /\ Finalized(capture).baudIndex = capture.baudIndex
      /\ capture.baudIndex \in Bauds /\ ~stream.active
  BY <1>1, FinalizedType, ActiveCapture
<1>3. capture.baudIndex + 1 \in Bauds
  BY <1>1, <1>2, ConstantTypes DEF Bauds
<1>4. c \in CaptureState /\ c.active /\ c.baudIndex = capture.baudIndex + 1
  <2>1. c = [Finalized(capture) EXCEPT !.baudIndex = capture.baudIndex + 1]
    BY <1>2
  <2>2. capture.baudIndex + 1 \in 0..BaudCount
    BY <1>3, ConstantTypes DEF Bauds
  <2> HIDE DEF c
  <2> QED
    BY <1>2, <2>1, <2>2 DEF CaptureState
<1> HIDE DEF c
<1>5. /\ capture' \in CaptureState /\ capture'.active
      /\ capture'.baudIndex = capture.baudIndex + 1
      /\ files' \in [Bauds -> [sweep : Nat, size : 0..MaxCaptureBytes]]
      /\ uart' = [open |-> TRUE, baud |-> capture.baudIndex + 1, ring |-> <<>>]
      /\ analyzed' = 0 /\ drained' = 0 /\ age' = 0
      /\ OpenFileInv' /\ ClosedPortInv'
  BY <1>1, <1>3, <1>4, BeginInv
<1>6. /\ pc' = "stream" /\ pc = "check"
      /\ UNCHANGED <<clearing, stream, client, waiting, got, led, summary, obsolete, sweeps>>
  BY DEF NextBaud, streamVars
<1>7. TypeOK'
  BY SMTT(60), <1>1, <1>3, <1>5, <1>6, ConstantTypes DEF TypeOK, Steps
<1>8. SerialPortHasOneUser' /\ StepInv'
  BY SMTT(60), <1>1, <1>2, <1>3, <1>5, <1>6, ConstantTypes DEF SerialPortHasOneUser, StepInv, Bauds
<1> QED
  BY <1>5, <1>7, <1>8 DEF IndInv

\* RtkSerial.end() leaves a closed, empty port.
LEMMA EndPort ==
  ASSUME TypeOK
  PROVE  /\ PortEnd(uart) \in [open : BOOLEAN, baud : Bauds, ring : Seq(Bauds)]
         /\ PortEnd(uart).open = FALSE /\ PortEnd(uart).ring = <<>>
         /\ Len(PortEnd(uart).ring) = 0 /\ 0 <= RxRing
<1>1. <<>> \in Seq(Bauds) /\ Len(<<>>) = 0
  OBVIOUS
<1>2. uart \in [open : BOOLEAN, baud : Bauds, ring : Seq(Bauds)]
  BY DEF TypeOK
<1>3. PortEnd(uart) \in [open : BOOLEAN, baud : Bauds, ring : Seq(Bauds)]
  BY <1>1, <1>2 DEF PortEnd
<1>4. PortEnd(uart).open = FALSE /\ PortEnd(uart).ring = <<>>
  BY <1>2 DEF PortEnd
<1>5. 0 <= RxRing
  BY ConstantTypes
<1> QED
  BY <1>1, <1>3, <1>4, <1>5

LEMMA FinishCaptureInv == IndInv /\ FinishCapture => IndInv'
<1> SUFFICES ASSUME IndInv, FinishCapture PROVE IndInv'
  OBVIOUS
<1> DEFINE f == Finalized(capture)
<1>0. /\ capture.active /\ TypeOK /\ SerialPortHasOneUser
      /\ capture.baudIndex + 1 >= BaudCount /\ pc = "check" /\ pc' = "summary"
      /\ capture' = [f EXCEPT !.baudIndex = capture.baudIndex + 1,
                              !.active = FALSE, !.completed = TRUE]
      /\ uart' = PortEnd(uart) /\ drained' = 0 /\ age' = 0
      /\ UNCHANGED <<clearing, stream, client, waiting, got, analyzed, led, files,
                     summary, obsolete, sweeps>>
  BY DEF IndInv, StepInv, FinishCapture, LastBaud, NextIndex, streamVars, flashVars
<1>1. capture.baudIndex + 1 = BaudCount
  BY <1>0, ActiveCapture, ConstantTypes DEF Bauds
<1>2. /\ f \in CaptureState /\ f.output = FALSE /\ f.baudIndex = capture.baudIndex
      /\ capture.baudIndex \in Bauds /\ ~stream.active
  BY <1>0, <1>1, FinalizedType, ActiveCapture
<1> HIDE DEF f
<1>3. capture' \in CaptureState /\ capture'.active = FALSE /\ capture'.output = FALSE
  <2>1. capture' = [f EXCEPT !.baudIndex = BaudCount, !.active = FALSE, !.completed = TRUE]
    BY <1>0, <1>1, <1>2
  <2>2. BaudCount \in 0..BaudCount
    BY ConstantTypes
  <2> QED
    BY <1>2, <2>1, <2>2 DEF CaptureState
<1>4. /\ uart' \in [open : BOOLEAN, baud : Bauds, ring : Seq(Bauds)]
      /\ uart'.open = FALSE /\ uart'.ring = <<>>
      /\ Len(uart'.ring) = 0 /\ Len(uart'.ring) <= RxRing
  BY <1>0, <1>1, EndPort
<1>5. TypeOK'
  <2>1. drained' \in 0..ByteCap /\ age' \in Nat
    BY <1>0, <1>1, ConstantTypes
  <2> QED
    BY <1>0, <1>1, <1>3, <1>4, <2>1 DEF TypeOK, Steps
<1>6. SerialPortHasOneUser' /\ StepInv'
  BY <1>0, <1>1, <1>2, <1>3, <1>4 DEF SerialPortHasOneUser, StepInv
<1>7. OpenFileInv' /\ ClosedPortInv'
  BY <1>3, <1>4 DEF OpenFileInv, ClosedPortInv
<1> QED
  BY <1>5, <1>6, <1>7 DEF IndInv

LEMMA StopCaptureInv == IndInv /\ HandleStopCapture => IndInv'
<1> SUFFICES ASSUME IndInv, HandleStopCapture PROVE IndInv'
  OBVIOUS
<1> DEFINE f == Finalized(capture)
<1>1. /\ capture.active /\ TypeOK /\ SerialPortHasOneUser
      /\ pc = "http" /\ pc' = "summary"
      /\ capture' = [f EXCEPT !.active = FALSE, !.completed = FALSE]
      /\ uart' = PortEnd(uart) /\ drained' = 0 /\ age' = 0
      /\ UNCHANGED <<clearing, stream, client, waiting, got, analyzed, led, files,
                     summary, obsolete, sweeps>>
  BY DEF IndInv, HandleStopCapture, streamVars, flashVars
<1>2. f \in CaptureState /\ f.output = FALSE /\ ~stream.active
  BY <1>1, FinalizedType, ActiveCapture
<1> HIDE DEF f
<1>3. capture' \in CaptureState /\ capture'.active = FALSE /\ capture'.output = FALSE
  BY <1>1, <1>2 DEF CaptureState
<1>4. /\ uart' \in [open : BOOLEAN, baud : Bauds, ring : Seq(Bauds)]
      /\ uart'.open = FALSE /\ uart'.ring = <<>>
      /\ Len(uart'.ring) = 0 /\ Len(uart'.ring) <= RxRing
  BY <1>1, EndPort
<1>5. TypeOK'
  <2>1. drained' \in 0..ByteCap /\ age' \in Nat
    BY <1>1, ConstantTypes
  <2> QED
    BY <1>1, <1>3, <1>4, <2>1 DEF TypeOK, Steps
<1>6. SerialPortHasOneUser' /\ StepInv'
  BY <1>1, <1>2, <1>3, <1>4 DEF SerialPortHasOneUser, StepInv
<1>7. OpenFileInv' /\ ClosedPortInv'
  BY <1>3, <1>4 DEF OpenFileInv, ClosedPortInv
<1> QED
  BY <1>5, <1>6, <1>7 DEF IndInv

\* Taking a chunk from the ring leaves a shorter ring of bytes of the same baud.
LEMMA TakeRing ==
  ASSUME TypeOK, SerialPortHasOneUser, NEW n \in 1..Len(uart.ring)
  PROVE  /\ PortTake(uart, n) \in [open : BOOLEAN, baud : Bauds, ring : Seq(Bauds)]
         /\ PortTake(uart, n).open = uart.open /\ PortTake(uart, n).baud = uart.baud
         /\ Len(PortTake(uart, n).ring) <= RxRing
         /\ \A k \in 1..Len(PortTake(uart, n).ring) : PortTake(uart, n).ring[k] = uart.baud
<1> DEFINE rest == SubSeq(uart.ring, n + 1, Len(uart.ring))
<1>1. uart.ring \in Seq(Bauds) /\ Len(uart.ring) \in Nat
  BY DEF TypeOK
<1>2. /\ rest \in Seq(Bauds) /\ Len(rest) = Len(uart.ring) - n
      /\ \A k \in 1..Len(rest) : rest[k] = uart.ring[n + k]
  <2>1. n + 1 \in 1 .. Len(uart.ring) + 1 /\ Len(uart.ring) \in n .. Len(uart.ring)
    BY <1>1
  <2>2. \A k \in 1 .. Len(uart.ring) - n : (n + 1) + k - 1 = n + k
    BY <1>1
  <2>3. /\ rest \in Seq(Bauds)
        /\ Len(rest) = IF n + 1 <= Len(uart.ring) THEN Len(uart.ring) - (n + 1) + 1 ELSE 0
        /\ \A k \in 1 .. Len(uart.ring) - (n + 1) + 1 : rest[k] = uart.ring[(n + 1) + k - 1]
    BY <1>1, <2>1, SubSeqProperties
  <2> QED
    BY <1>1, <2>1, <2>2, <2>3
<1>3. \A k \in 1..Len(rest) : rest[k] = uart.baud
  BY <1>1, <1>2 DEF SerialPortHasOneUser
<1>4. Len(rest) <= RxRing
  BY <1>1, <1>2, ConstantTypes DEF TypeOK
<1>5. PortTake(uart, n) = [uart EXCEPT !.ring = rest]
  BY DEF PortTake
<1> HIDE DEF rest
<1>6. /\ PortTake(uart, n) \in [open : BOOLEAN, baud : Bauds, ring : Seq(Bauds)]
      /\ PortTake(uart, n).open = uart.open /\ PortTake(uart, n).baud = uart.baud
      /\ PortTake(uart, n).ring = rest
  BY <1>2, <1>5 DEF TypeOK
<1> QED
  BY <1>3, <1>4, <1>6

\* A write never goes beyond the cap, and only to an open file.
LEMMA WritingBound ==
  ASSUME NEW n \in Nat, Current.stored \in 0..MaxCaptureBytes
  PROVE  /\ Writing(n) \in Nat
         /\ Current.stored + Writing(n) <= MaxCaptureBytes
         /\ ~capture.output => Writing(n) = 0
<1>1. CASE capture.output
  BY <1>1, ConstantTypes DEF Writing, Lesser
<1>2. CASE ~capture.output
  BY <1>2, ConstantTypes DEF Writing
<1> QED
  BY <1>1, <1>2

LEMMA DrainCaptureInv == IndInv /\ DrainCapture => IndInv'
<1> SUFFICES ASSUME IndInv, DrainCapture PROVE IndInv'
  OBVIOUS
<1> DEFINE received == Lesser(Len(uart.ring), CaptureChunk)
           writing == Writing(received)
           i == capture.baudIndex
<1>1. /\ capture.active /\ TypeOK /\ SerialPortHasOneUser /\ OpenFileInv
      /\ pc = "capture" /\ uart.ring # <<>>
      /\ UNCHANGED <<pc, clearing, age, stream, client, waiting, got, led, summary,
                     obsolete, sweeps>>
      /\ uart' = PortTake(uart, received)
      /\ analyzed' = Cap(analyzed + received) /\ drained' = Cap(drained + received)
  BY DEF IndInv, DrainCapture, streamVars
<1>2. PICK w \in 0..writing :
        /\ capture' = [capture EXCEPT !.results[i].stored = @ + w,
                                      !.results[i].lossy = @ \/ w < writing]
        /\ files' = [files EXCEPT ![i].size = @ + w]
  BY DEF DrainCapture, FlashWrites
<1>3. received \in 1..Len(uart.ring) /\ received \in Nat
  BY <1>1, ConstantTypes DEF TypeOK, Lesser
<1>4. i \in Bauds /\ ~stream.active
  BY <1>1, ActiveCapture
<1>5. /\ Current \in BaudResult /\ Current = capture.results[i]
      /\ Current.stored \in 0..MaxCaptureBytes /\ files[i].size \in 0..MaxCaptureBytes
  BY <1>1, <1>4 DEF TypeOK, CaptureState, BaudResult, Current
<1>6. /\ writing \in Nat /\ w \in Nat
      /\ w # 0 => capture.output
      /\ Current.stored + w \in 0..MaxCaptureBytes
  <2> HIDE DEF received
  <2>1. /\ writing \in Nat /\ Current.stored + writing <= MaxCaptureBytes
        /\ ~capture.output => writing = 0
    BY <1>3, <1>5, WritingBound
  <2> HIDE DEF writing
  <2> QED
    BY <1>5, <2>1, ConstantTypes
<1>7. files[i].size + w \in 0..MaxCaptureBytes
  BY <1>1, <1>5, <1>6 DEF OpenFileInv
<1>8. /\ analyzed' \in 0..ByteCap /\ drained' \in 0..ByteCap
  <2> HIDE DEF received
  <2>1. analyzed + received \in Nat /\ drained + received \in Nat
    BY <1>1, <1>3 DEF TypeOK
  <2> QED
    BY <1>1, <2>1, CapType
<1> HIDE DEF writing
<1> DEFINE R == [capture.results EXCEPT ![i].stored = @ + w, ![i].lossy = @ \/ w < writing]
<1>9. R \in [Bauds -> BaudResult] /\ R[i].stored = Current.stored + w
  <2>1. (capture.results[i].lossy \/ w < writing) \in BOOLEAN
    OBVIOUS
  <2> DEFINE l == capture.results[i].lossy \/ w < writing
  <2>2. R = [capture.results EXCEPT ![i] = [@ EXCEPT !.stored = capture.results[i].stored + w, !.lossy = l]]
    BY <1>1, <1>4 DEF TypeOK, CaptureState, BaudResult
  <2> HIDE DEF l, R
  <2> QED
    BY <1>1, <1>4, <1>5, <1>6, <2>1, <2>2 DEF TypeOK, CaptureState, BaudResult, l
<1>10. capture' = [capture EXCEPT !.results = R]
  BY <1>1, <1>2, <1>4 DEF TypeOK, CaptureState
<1> HIDE DEF R
<1>11. /\ capture' \in CaptureState /\ capture'.active /\ capture'.baudIndex = i
       /\ capture'.output = capture.output /\ capture'.results = R
  BY <1>1, <1>9, <1>10 DEF TypeOK, CaptureState
<1>12. /\ files' \in [Bauds -> [sweep : Nat, size : 0..MaxCaptureBytes]]
       /\ files'[i].size = files[i].size + w
  BY ZenonT(60), <1>1, <1>2, <1>4, <1>7 DEF TypeOK
<1>13. TypeOK'
  BY <1>1, <1>3, <1>8, <1>11, <1>12, TakeRing DEF TypeOK
<1>14. SerialPortHasOneUser' /\ StepInv'
  BY <1>1, <1>3, <1>4, <1>11, TakeRing DEF SerialPortHasOneUser, StepInv
<1>15. OpenFileInv' /\ ClosedPortInv'
  BY SMTT(60), <1>1, <1>3, <1>9, <1>11, <1>12, TakeRing
     DEF OpenFileInv, ClosedPortInv, Current, SerialPortHasOneUser
<1> QED
  BY <1>13, <1>14, <1>15 DEF IndInv

LEMMA SummaryInv == IndInv /\ (OpenSummary \/ WriteSummary) => IndInv'
<1> SUFFICES ASSUME IndInv, OpenSummary \/ WriteSummary PROVE IndInv'
  OBVIOUS
<1>1. /\ TypeOK /\ SerialPortHasOneUser /\ StepInv /\ OpenFileInv /\ ClosedPortInv
      /\ pc \in {"summary", "write"} /\ pc' \in {"write", "capture"}
      /\ pc' = "write" => led' = led
      /\ pc' = "capture" => led' = FALSE
      /\ UNCHANGED <<clearing, capture, drained, age, stream, client, waiting, got,
                     analyzed, uart, files, obsolete, sweeps>>
  BY DEF IndInv, OpenSummary, WriteSummary, captureVars, streamVars
<1>2. summary' \in SummaryFile
  <2>1. [NoSummary EXCEPT !.kind = "torn"] \in SummaryFile
    BY FreshTypes DEF SummaryFile
  <2>2. [kind |-> "ok", doc |-> DocOf(capture)] \in SummaryFile
    BY <1>1 DEF SummaryFile, SummaryDoc, DocOf, TypeOK, CaptureState
  <2> QED
    BY <1>1, <2>1, <2>2 DEF OpenSummary, WriteSummary, TypeOK
<1>3. TypeOK'
  BY <1>1, <1>2 DEF TypeOK, Steps
<1>4. SerialPortHasOneUser' /\ StepInv' /\ OpenFileInv' /\ ClosedPortInv'
  BY <1>1 DEF SerialPortHasOneUser, StepInv, OpenFileInv, ClosedPortInv, Current
<1> QED
  BY <1>3, <1>4 DEF IndInv

-----------------------------------------------------------------------------
(* The steps of the live stream *)

LEMMA StartStreamInv ==
  ASSUME IndInv, NEW b \in StreamBauds, HandleStartLiveStream(b)
  PROVE  IndInv'
<1>1. /\ TypeOK /\ SerialPortHasOneUser /\ OpenFileInv
      /\ ~capture.active /\ ~stream.active /\ pc' = "capture"
      /\ stream' = [NoStream EXCEPT !.active = TRUE, !.baud = b]
      /\ analyzed' = 0 /\ uart' = PortBegin(uart, b) /\ led' = TRUE
      /\ UNCHANGED <<clearing, capture, drained, age, client, waiting, got, files,
                     summary, obsolete, sweeps>>
  BY DEF IndInv, HandleStartLiveStream, AnalyzerReset, captureVars, flashVars
<1>2. b \in Bauds
  BY ConstantTypes
<1>3. stream' \in StreamState /\ stream'.active /\ stream'.baud = b
  BY <1>1, <1>2, FreshTypes DEF StreamState
<1>4. ~uart.open /\ client = "none" /\ ~capture.output
  BY <1>1 DEF SerialPortHasOneUser, TypeOK
<1>5. uart.ring = <<>>
  BY <1>1, <1>4 DEF IndInv, ClosedPortInv
<1>6. /\ uart' \in [open : BOOLEAN, baud : Bauds, ring : Seq(Bauds)]
      /\ uart'.open /\ uart'.baud = b /\ uart'.ring = <<>>
  BY <1>1, <1>2, <1>5 DEF PortBegin, TypeOK
<1>7. Len(uart'.ring) = 0 /\ Len(uart'.ring) <= RxRing
  BY <1>6, ConstantTypes
<1>8. 0 \in 0..ByteCap
  BY ConstantTypes
<1>9. TypeOK'
  BY <1>1, <1>3, <1>6, <1>7, <1>8 DEF TypeOK, Steps
<1>10. SerialPortHasOneUser' /\ StepInv'
  BY <1>1, <1>3, <1>4, <1>6, <1>7 DEF SerialPortHasOneUser, StepInv
<1>11. OpenFileInv' /\ ClosedPortInv'
  BY <1>1, <1>4, <1>6 DEF OpenFileInv, ClosedPortInv
<1> QED
  BY <1>9, <1>10, <1>11 DEF IndInv

LEMMA StopStreamInv == IndInv /\ HandleStopLiveStream => IndInv'
<1> SUFFICES ASSUME IndInv, HandleStopLiveStream PROVE IndInv'
  OBVIOUS
<1>1. /\ TypeOK /\ SerialPortHasOneUser /\ OpenFileInv
      /\ stream.active /\ pc' = "capture"
      /\ stream' = [stream EXCEPT !.active = FALSE] /\ client' = "none"
      /\ uart' = PortEnd(uart) /\ led' = FALSE
      /\ UNCHANGED <<clearing, capture, drained, age, waiting, got, analyzed, files,
                     summary, obsolete, sweeps>>
  BY DEF IndInv, HandleStopLiveStream, captureVars, flashVars
<1>2. stream' \in StreamState /\ stream'.active = FALSE
  BY <1>1 DEF TypeOK, StreamState
<1>3. ~capture.active /\ ~capture.output
  BY <1>1 DEF SerialPortHasOneUser
<1>4. /\ uart' \in [open : BOOLEAN, baud : Bauds, ring : Seq(Bauds)]
      /\ uart'.open = FALSE /\ uart'.ring = <<>>
      /\ Len(uart'.ring) = 0 /\ Len(uart'.ring) <= RxRing
  BY <1>1, EndPort
<1>5. TypeOK'
  BY <1>1, <1>2, <1>4 DEF TypeOK, Steps
<1>6. SerialPortHasOneUser' /\ StepInv'
  BY <1>1, <1>2, <1>3, <1>4 DEF SerialPortHasOneUser, StepInv
<1>7. OpenFileInv' /\ ClosedPortInv'
  BY <1>1, <1>3, <1>4 DEF OpenFileInv, ClosedPortInv
<1> QED
  BY <1>5, <1>6, <1>7 DEF IndInv

LEMMA AcceptClientInv == IndInv /\ AcceptClient => IndInv'
<1> SUFFICES ASSUME IndInv, AcceptClient PROVE IndInv'
  OBVIOUS
<1>1. /\ TypeOK /\ SerialPortHasOneUser /\ StepInv /\ OpenFileInv
      /\ stream.active /\ pc' = "pump"
      /\ UNCHANGED <<clearing, capture, drained, age, analyzed, uart, led, files,
                     summary, obsolete, sweeps>>
  BY DEF IndInv, AcceptClient, captureVars, flashVars
<1>2. /\ client' \in {"none", "up", "down"} /\ waiting' \in 0..MaxWaiting
      /\ got' \subseteq 1..ByteCap
      /\ stream' \in StreamState /\ stream'.active /\ stream'.baud = stream.baud
  <2>1. CASE KeepClient \/ NobodyWaits
    BY <1>1, <2>1 DEF KeepClient, NobodyWaits, streamVars, TypeOK
  <2>2. CASE TakeWaiting
    <3>1. stream.accepted + 1 \in Nat
      BY <1>1 DEF TypeOK, StreamState
    <3>2. Cap(stream.accepted + 1) \in 0..ByteCap
      BY <3>1, CapType
    <3>3. stream' = [stream EXCEPT !.accepted = Cap(stream.accepted + 1)]
      BY <2>2 DEF TakeWaiting
    <3>4. stream' \in StreamState /\ stream'.active = stream.active /\ stream'.baud = stream.baud
      BY <1>1, <3>2, <3>3 DEF TypeOK, StreamState
    <3>5. waiting - 1 \in 0..MaxWaiting
      <4>1. waiting \in 0..MaxWaiting /\ waiting > 0
        BY <1>1, <2>2 DEF TakeWaiting, TypeOK
      <4> QED
        BY <4>1, ConstantTypes
    <3>6. /\ client' \in {"up", "down"} /\ waiting' = waiting - 1 /\ got' = {}
      BY <2>2 DEF TakeWaiting
    <3> QED
      BY <1>1, <3>4, <3>5, <3>6
  <2> QED
    BY <2>1, <2>2 DEF AcceptClient
<1>3. TypeOK'
  BY <1>1, <1>2 DEF TypeOK, Steps
<1>4. SerialPortHasOneUser' /\ StepInv'
  BY <1>1, <1>2 DEF SerialPortHasOneUser, StepInv
<1>5. OpenFileInv' /\ ClosedPortInv'
  BY <1>1 DEF OpenFileInv, ClosedPortInv, Current, IndInv
<1> QED
  BY <1>3, <1>4, <1>5 DEF IndInv

LEMMA PumpStreamInv == IndInv /\ PumpStream => IndInv'
<1> SUFFICES ASSUME IndInv, PumpStream PROVE IndInv'
  OBVIOUS
<1> DEFINE received == Lesser(Len(uart.ring), StreamChunk)
<1>1. /\ TypeOK /\ SerialPortHasOneUser /\ StepInv /\ OpenFileInv
      /\ stream.active /\ pc = "pump" /\ uart.ring # <<>>
      /\ uart' = PortTake(uart, received)
      /\ analyzed' = Cap(analyzed + received)
      /\ UNCHANGED <<pc, clearing, capture, drained, age, waiting, led, files, summary,
                     obsolete, sweeps>>
  BY DEF IndInv, StepInv, PumpStream, captureVars, flashVars
<1>2. received \in 1..Len(uart.ring) /\ received \in Nat
  BY <1>1, ConstantTypes DEF TypeOK, Lesser
<1>3. \/ /\ stream' = [stream EXCEPT !.read = Cap(@ + received)]
         /\ UNCHANGED <<client, got>>
      \/ \E w \in 0..received :
           /\ stream' = [stream EXCEPT !.read = Cap(@ + received), !.sent = Cap(@ + w)]
           /\ got' = got \cup {Cap(stream.read + k) : k \in 1..w}
           /\ client' \in {"none", "up"}
  BY DEF PumpStream, TcpWrites, ClientAfterWrite
<1> HIDE DEF received
<1>4. /\ stream' \in StreamState /\ stream'.active = stream.active
      /\ stream'.baud = stream.baud
      /\ client' \in {"none", "up", "down"} /\ got' \subseteq 1..ByteCap
  <2> stream.read \in 0..ByteCap /\ stream.sent \in 0..ByteCap
    BY <1>1 DEF TypeOK, StreamState
  <2>1. Cap(stream.read + received) \in 0..ByteCap
    BY <1>2, CapSum
  <2>2. CASE /\ stream' = [stream EXCEPT !.read = Cap(@ + received)]
             /\ UNCHANGED <<client, got>>
    BY <1>1, <2>1, <2>2 DEF TypeOK, StreamState
  <2>3. ASSUME NEW w \in 0..received,
               stream' = [stream EXCEPT !.read = Cap(@ + received), !.sent = Cap(@ + w)],
               got' = got \cup {Cap(stream.read + k) : k \in 1..w},
               client' \in {"none", "up"}
        PROVE  /\ stream' \in StreamState /\ stream'.active = stream.active
               /\ stream'.baud = stream.baud
               /\ client' \in {"none", "up", "down"} /\ got' \subseteq 1..ByteCap
    <3> w \in Nat
      BY <1>2
    <3>1. Cap(stream.sent + w) \in 0..ByteCap
      BY CapSum
    <3>2. /\ stream' \in StreamState /\ stream'.active = stream.active
          /\ stream'.baud = stream.baud
      BY <1>1, <2>1, <2>3, <3>1 DEF TypeOK, StreamState
    <3>3. \A k \in 1..w : Cap(stream.read + k) \in 1..ByteCap
      BY CapSum
    <3> QED
      BY <1>1, <2>3, <3>2, <3>3 DEF TypeOK
  <2> QED
    BY <1>3, <2>2, <2>3
<1>5. analyzed' \in 0..ByteCap
  <2>1. analyzed + received \in Nat
    BY <1>1, <1>2 DEF TypeOK
  <2> QED
    BY <1>1, <2>1, CapType
<1>6. TypeOK'
  BY <1>1, <1>2, <1>4, <1>5, TakeRing DEF TypeOK
<1>7. SerialPortHasOneUser' /\ StepInv'
  BY <1>1, <1>2, <1>4, TakeRing DEF SerialPortHasOneUser, StepInv
<1>8. OpenFileInv' /\ ClosedPortInv'
  BY <1>1, <1>2, TakeRing DEF OpenFileInv, ClosedPortInv, Current, SerialPortHasOneUser
<1> QED
  BY <1>6, <1>7, <1>8 DEF IndInv

-----------------------------------------------------------------------------
(* Time and the world *)

LEMMA TimeInv ==
  ASSUME IndInv, NEW d \in Nat, HandleScan(d) \/ LoopDelay(d)
  PROVE  IndInv'
<1>1. /\ TypeOK /\ SerialPortHasOneUser /\ OpenFileInv /\ ClosedPortInv
      /\ pc' \in {"capture", "http"} /\ pc \in {"http", "delay"}
      /\ age' \in Nat
      /\ UNCHANGED <<clearing, capture, drained, stream, client, waiting, got, analyzed,
                     uart, led, files, summary, obsolete, sweeps>>
  BY SMTT(60) DEF HandleScan, LoopDelay, Pass, IndInv, TypeOK, streamVars, flashVars
<1>2. TypeOK'
  BY <1>1 DEF TypeOK, Steps
<1>3. SerialPortHasOneUser' /\ StepInv' /\ OpenFileInv' /\ ClosedPortInv'
  BY <1>1 DEF SerialPortHasOneUser, StepInv, OpenFileInv, ClosedPortInv, Current
<1> QED
  BY <1>2, <1>3 DEF IndInv

LEMMA ReceiveInv == IndInv /\ Receive => IndInv'
<1> SUFFICES ASSUME IndInv, Receive PROVE IndInv'
  OBVIOUS
<1>1. /\ TypeOK /\ SerialPortHasOneUser /\ StepInv /\ OpenFileInv
      /\ uart.open /\ Len(uart.ring) < RxRing /\ uart' = PortReceive(uart)
      /\ UNCHANGED <<pc, clearing, capture, drained, age, stream, client, waiting, got,
                     analyzed, led, files, summary, obsolete, sweeps>>
  BY DEF IndInv, Receive, captureVars, streamVars, flashVars
<1> DEFINE more == Append(uart.ring, uart.baud)
<1>2. uart.ring \in Seq(Bauds) /\ uart.baud \in Bauds
  BY <1>1 DEF TypeOK
<1>3. more \in Seq(Bauds) /\ Len(more) = Len(uart.ring) + 1
  BY <1>2
<1>4. \A k \in 1..Len(more) : more[k] = uart.baud
  BY <1>1, <1>2 DEF SerialPortHasOneUser
<1>5. Len(more) <= RxRing
  BY <1>1, <1>2, <1>3, ConstantTypes
<1> HIDE DEF more
<1>6. /\ uart' \in [open : BOOLEAN, baud : Bauds, ring : Seq(Bauds)]
      /\ uart'.open /\ uart'.baud = uart.baud /\ uart'.ring = more
  BY <1>1, <1>3 DEF TypeOK, PortReceive, more
<1>7. TypeOK'
  BY <1>1, <1>5, <1>6 DEF TypeOK
<1>8. SerialPortHasOneUser' /\ StepInv'
  BY <1>1, <1>4, <1>6 DEF SerialPortHasOneUser, StepInv
<1>9. OpenFileInv' /\ ClosedPortInv'
  BY <1>1, <1>6 DEF OpenFileInv, ClosedPortInv, Current
<1> QED
  BY <1>7, <1>8, <1>9 DEF IndInv

LEMMA ClientInv == IndInv /\ (Connect \/ Disconnect) => IndInv'
<1> SUFFICES ASSUME IndInv, Connect \/ Disconnect PROVE IndInv'
  OBVIOUS
<1>1. /\ TypeOK /\ SerialPortHasOneUser /\ StepInv /\ OpenFileInv /\ ClosedPortInv
      /\ waiting' \in 0..MaxWaiting /\ client' \in {"none", "up", "down"}
      /\ client' # "none" => client # "none"
      /\ UNCHANGED <<pc, clearing, capture, drained, age, stream, got, analyzed, uart,
                     led, files, summary, obsolete, sweeps>>
  BY SMTT(60), ConstantTypes DEF Connect, Disconnect, captureVars, flashVars, IndInv, TypeOK
<1>2. TypeOK'
  BY <1>1 DEF TypeOK
<1>3. SerialPortHasOneUser' /\ StepInv' /\ OpenFileInv' /\ ClosedPortInv'
  BY <1>1 DEF SerialPortHasOneUser, StepInv, OpenFileInv, ClosedPortInv, Current
<1> QED
  BY <1>2, <1>3 DEF IndInv

LEMMA RestartInv == IndInv /\ Restart => IndInv'
<1> SUFFICES ASSUME IndInv, Restart PROVE IndInv'
  OBVIOUS
<1>1. /\ TypeOK /\ SerialPortHasOneUser
      /\ pc' = "http" /\ clearing' = 0 /\ capture' = NoCapture /\ stream' = NoStream
      /\ analyzed' = 0 /\ drained' = 0 /\ age' = 0 /\ got' = {} /\ uart' = PortClosed
      /\ client' = "none" /\ waiting' = 0 /\ led' = FALSE /\ sweeps' = sweeps
      /\ summary' \in {summary, NoSummary} /\ obsolete' \subseteq obsolete
  BY DEF IndInv, Restart
<1>2. files' \in [Bauds -> [sweep : Nat, size : 0..MaxCaptureBytes]]
  <2>1. ASSUME capture.output, NEW kept \in 0..files[capture.baudIndex].size,
               files' = [files EXCEPT ![capture.baudIndex].size = kept]
        PROVE  files' \in [Bauds -> [sweep : Nat, size : 0..MaxCaptureBytes]]
    <3>1. capture.baudIndex \in Bauds
      BY <1>1, <2>1, ActiveCapture DEF SerialPortHasOneUser
    <3>2. files[capture.baudIndex].size \in 0..MaxCaptureBytes
      BY <1>1, <3>1 DEF TypeOK
    <3>3. kept \in 0..MaxCaptureBytes
      BY <2>1, <3>2, ConstantTypes
    <3> QED
      BY <1>1, <2>1, <3>1, <3>3 DEF TypeOK
  <2>2. CASE files' = files
    BY <1>1, <2>2 DEF TypeOK
  <2>3. CASE files' = [i \in Bauds |-> NoFile]
    BY <2>3, FreshTypes
  <2> QED
    BY <2>1, <2>2, <2>3 DEF Restart
<1>3. TypeOK'
  <2>1. /\ 0 \in 0..ByteCap /\ 0 \in 0..MaxWaiting /\ 0 \in 0..BaudCount + 3
        /\ Len(<<>>) <= RxRing
    BY SizesAssumption, ConstantTypes
  <2> QED
    BY <1>1, <1>2, <2>1, FreshTypes DEF TypeOK, Steps
<1>4. SerialPortHasOneUser' /\ StepInv' /\ OpenFileInv' /\ ClosedPortInv'
  BY <1>1 DEF SerialPortHasOneUser, StepInv, OpenFileInv, ClosedPortInv, NoCapture,
              NoStream, PortClosed
<1> QED
  BY <1>3, <1>4 DEF IndInv

-----------------------------------------------------------------------------
(* The theorems *)

LEMMA NextInv == IndInv /\ [Next]_vars => IndInv'
<1> SUFFICES ASSUME IndInv, [Next]_vars PROVE IndInv'
  OBVIOUS
<1>1. CASE UNCHANGED vars
  BY <1>1, StutterInv
<1>2. CASE Request
  <2>1. CASE HandleNothing \/ HandleStartCapture
    BY <2>1, IdleInv DEF IdleStep
  <2>2. CASE HandleStopCapture
    BY <2>2, StopCaptureInv
  <2>3. CASE \E b \in StreamBauds : HandleStartLiveStream(b)
    BY <2>3, StartStreamInv
  <2>4. CASE HandleStopLiveStream
    BY <2>4, StopStreamInv
  <2>5. CASE \E d \in ScanDelays : HandleScan(d)
    BY <2>5, TimeInv, ClockAssumption
  <2> QED
    BY <1>2, <2>1, <2>2, <2>3, <2>4, <2>5 DEF Request
<1>3. CASE ServiceCapture
  <2>1. CASE CaptureIdle \/ DrainDone \/ ContinueSample
    BY <2>1, IdleInv DEF IdleStep
  <2>2. CASE ClearFile
    BY <2>2, ClearFileInv
  <2>3. CASE \E arg \in SecondsArgs \cup {DefaultSeconds} : BeginSweep(arg)
    BY <2>3, BeginSweepInv
  <2>4. CASE DrainCapture
    BY <2>4, DrainCaptureInv
  <2>5. CASE NextBaud \/ FinishCapture
    BY <2>5, NextBaudInv, FinishCaptureInv
  <2>6. CASE OpenSummary \/ WriteSummary
    BY <2>6, SummaryInv
  <2> QED
    BY <1>3, <2>1, <2>2, <2>3, <2>4, <2>5, <2>6 DEF ServiceCapture
<1>4. CASE ServiceStream
  <2>1. CASE StreamIdle \/ PumpDone
    BY <2>1, IdleInv DEF IdleStep
  <2> QED
    BY <1>4, <2>1, AcceptClientInv, PumpStreamInv DEF ServiceStream
<1>5. CASE \E d \in LoopDelays : LoopDelay(d)
  BY <1>5, TimeInv, ClockAssumption
<1>6. CASE World
  BY <1>6, ReceiveInv, ClientInv, RestartInv DEF World
<1> QED
  BY <1>1, <1>2, <1>3, <1>4, <1>5, <1>6 DEF Next, Loop

\* Every state of the firmware is well typed and satisfies the inductive
\* invariant.
THEOREM Invariance == Spec => []IndInv
  BY InitInv, NextInv, PTL DEF Spec

\* The cap on every file, the bounds of every index and the rings of the port
\* hold for every firmware configuration.
THEOREM TypeCorrect == Spec => []TypeOK
<1>1. IndInv => TypeOK
  BY DEF IndInv
<1> QED
  BY <1>1, Invariance, PTL

\* Capture and live stream exclude each other, and whichever is active owns
\* the serial port: no byte of another baud is ever in its ring.
THEOREM OneUser == Spec => []SerialPortHasOneUser
<1>1. IndInv => SerialPortHasOneUser
  BY DEF IndInv
<1> QED
  BY <1>1, Invariance, PTL
=============================================================================
