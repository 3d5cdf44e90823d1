----------------------- MODULE FirmwareEvidence_proofs -----------------------
(***************************************************************************)
(* What the firmware tells of a sweep and of a stream is true, for every   *)
(* configuration that meets the assumptions of ProbeState.  All on top of  *)
(* the inductive invariant of ProbeFirmware_proofs: the shared analyzer    *)
(* counts for its user; no result of a superseded probe lies beside those  *)
(* of a sweep; samples keep their time across the wrap of millis(); stored *)
(* bytes, results and summary agree through every power cut; clients see   *)
(* no gap; and the steps are those of the abstract ProbeService.           *)
(***************************************************************************)
EXTENDS ProbeFirmware_proofs

\* What every reachable step may assume.
LEMMA Context ==
  ASSUME IndInv
  PROVE  /\ TypeOK /\ ~(capture.active /\ stream.active)
         /\ pc = "check" => capture.active
         /\ pc = "pump" => stream.active
         /\ pc \in {"clear", "summary", "write"} => ~capture.active /\ ~stream.active
         /\ capture.output => capture.active
  BY DEF IndInv, SerialPortHasOneUser, StepInv

-----------------------------------------------------------------------------
(* The shared analyzer *)

\* Steps that leave the analyzer and both counters alone, and activate nobody.
CountersStay ==
  /\ analyzed' = analyzed /\ drained' = drained /\ stream'.read = stream.read
  /\ capture'.active => capture.active
  /\ stream'.active => stream.active

LEMMA StayCounts == ASSUME AnalyzerFollowsItsUser, CountersStay
                    PROVE  AnalyzerFollowsItsUser'
  BY DEF AnalyzerFollowsItsUser, CountersStay

\* A new sample, of a new sweep or of the next baud: all counts are zero, and
\* no stream is active.
LEMMA BeginCounts ==
  ASSUME NEW c, BeginCurrentBaud(c), stream' = stream, ~stream.active
  PROVE  AnalyzerFollowsItsUser'
  BY DEF BeginCurrentBaud, AnalyzerReset, AnalyzerFollowsItsUser

\* The sweep and its analyzer count the same chunks.
LEMMA DrainCounts ==
  ASSUME IndInv, AnalyzerFollowsItsUser, DrainCapture
  PROVE  AnalyzerFollowsItsUser'
<1>1. /\ capture.active /\ analyzed = drained /\ ~stream.active /\ stream' = stream
  BY Context DEF DrainCapture, AnalyzerFollowsItsUser, streamVars
<1>2. analyzed' = drained'
  BY <1>1 DEF DrainCapture
<1> QED
  BY <1>1, <1>2 DEF AnalyzerFollowsItsUser

\* The stream and its analyzer count the same chunks.
LEMMA PumpCounts ==
  ASSUME IndInv, AnalyzerFollowsItsUser, PumpStream
  PROVE  AnalyzerFollowsItsUser'
<1>1. /\ stream.active /\ analyzed = stream.read /\ ~capture.active
      /\ capture' = capture /\ stream \in StreamState
  BY Context DEF PumpStream, AnalyzerFollowsItsUser, captureVars, TypeOK
<1>2. stream'.read = analyzed'
  BY <1>1 DEF PumpStream, StreamState
<1> QED
  BY <1>1, <1>2 DEF AnalyzerFollowsItsUser

\* Every step keeps the analyzer with its user.
LEMMA NextCounts ==
  ASSUME IndInv, AnalyzerFollowsItsUser, [Next]_vars
  PROVE  AnalyzerFollowsItsUser'
<1> USE Context
<1>1. CASE UNCHANGED vars
  BY <1>1 DEF vars, captureVars, streamVars, AnalyzerFollowsItsUser
<1>2. CASE IdleStep
  <2>1. UNCHANGED <<captureVars, streamVars, analyzed>>
    BY <1>2 DEF IdleStep, HandleNothing, CaptureIdle, DrainDone, ContinueSample, StreamIdle,
                PumpDone, HandleStartCapture
  <2> QED
    BY <2>1 DEF captureVars, streamVars, AnalyzerFollowsItsUser
<1>3. CASE ClearFile \/ OpenSummary \/ WriteSummary
  <2>1. UNCHANGED <<captureVars, streamVars, analyzed>>
    BY <1>3 DEF ClearFile, OpenSummary, WriteSummary
  <2> QED
    BY <2>1 DEF captureVars, streamVars, AnalyzerFollowsItsUser
<1>4. ASSUME NEW arg, BeginSweep(arg) PROVE AnalyzerFollowsItsUser'
  <2>1. ~stream.active /\ stream' = stream
    BY <1>4 DEF BeginSweep, streamVars
  <2> QED
    BY <1>4, <2>1, BeginCounts DEF BeginSweep
<1>5. CASE NextBaud
  <2>1. ~stream.active /\ stream' = stream
    BY <1>5 DEF NextBaud, streamVars
  <2> QED
    BY <1>5, <2>1, BeginCounts DEF NextBaud
<1>6. CASE FinishCapture \/ HandleStopCapture
  <2>1. capture.active /\ ~stream.active /\ stream' = stream
    BY <1>6 DEF FinishCapture, HandleStopCapture, streamVars
  <2>2. Finalized(capture) \in CaptureState
    BY <2>1, FinalizedType, ActiveCapture
  <2>3. ~capture'.active
    BY <1>6, <2>2 DEF FinishCapture, HandleStopCapture, CaptureState
  <2> QED
    BY <2>1, <2>3 DEF AnalyzerFollowsItsUser
<1>7. ASSUME NEW b, HandleStartLiveStream(b) PROVE AnalyzerFollowsItsUser'
  BY <1>7 DEF HandleStartLiveStream, captureVars, NoStream, AnalyzerReset, AnalyzerFollowsItsUser
<1>8. CASE HandleStopLiveStream \/ AcceptClient
  <2>1. stream \in StreamState
    BY DEF TypeOK
  <2>2. CountersStay
    BY <1>8, <2>1 DEF HandleStopLiveStream, AcceptClient, KeepClient, NobodyWaits,
       TakeWaiting, captureVars, streamVars, StreamState, CountersStay
  <2> QED
    BY <2>2, StayCounts
<1>9. ASSUME NEW d, HandleScan(d) \/ LoopDelay(d) PROVE AnalyzerFollowsItsUser'
  BY <1>9 DEF HandleScan, LoopDelay, streamVars, AnalyzerFollowsItsUser
<1>10. CASE Receive \/ Connect \/ Disconnect
  BY <1>10 DEF Receive, Connect, Disconnect, captureVars, streamVars, AnalyzerFollowsItsUser
<1>11. CASE Restart
  BY <1>11 DEF Restart, NoCapture, NoStream, AnalyzerFollowsItsUser
<1> QED
  BY <1>1, <1>2, <1>3, <1>4, <1>5, <1>6, <1>7, <1>8, <1>9, <1>10, <1>11,
     DrainCounts, PumpCounts
     DEF Next, Loop, Request, ServiceCapture, ServiceStream, World, IdleStep

\* Whoever is active, the one analyzer has counted exactly the bytes of its
\* sample or of its stream, for every configuration: no byte of an earlier
\* baud or of the other user is among them.
THEOREM OneAnalyzer == Spec => []AnalyzerFollowsItsUser
<1>1. Init => AnalyzerFollowsItsUser
  BY DEF Init, InitState, NoCapture, NoStream, AnalyzerFollowsItsUser
<1>2. IndInv /\ AnalyzerFollowsItsUser /\ [Next]_vars => AnalyzerFollowsItsUser'
  BY NextCounts
<1> QED
  BY <1>1, <1>2, Invariance, PTL DEF Spec

-----------------------------------------------------------------------------
(* The results of the superseded probes *)

\* While a sweep runs or is summed up nothing obsolete is left, since the
\* removals that precede it have removed it one by one.
ClearedInv ==
  /\ pc = "clear" /\ clearing > ProbeResultAt => "rtk3-probe.json" \notin obsolete
  /\ pc = "clear" /\ clearing > TlsEvidenceAt => "rtk3-tls-evidence.json" \notin obsolete
  /\ capture.active \/ pc \in {"summary", "write"} => obsolete = {}

EvidenceInv == ClearedInv /\ NoStaleEvidence

\* Steps that leave the flash alone, and neither begin a sweep nor end one.
FlashStays ==
  /\ UNCHANGED flashVars
  /\ capture'.active => capture.active
  /\ pc' \in {"summary", "write"} => capture.active \/ pc \in {"summary", "write"}
  /\ pc' = "clear" => clearing' = 0

LEMMA StayEvidence == ASSUME EvidenceInv, FlashStays PROVE EvidenceInv'
  BY DEF EvidenceInv, ClearedInv, NoStaleEvidence, FlashStays, flashVars,
         ProbeResultAt, TlsEvidenceAt

\* The steps that write to the flash do so with nothing obsolete left.
LEMMA WriteEvidence ==
  ASSUME obsolete' = {}, pc' # "clear"
  PROVE  EvidenceInv'
  BY DEF EvidenceInv, ClearedInv, NoStaleEvidence

LEMMA ClearEvidence == ASSUME IndInv, EvidenceInv, ClearFile PROVE EvidenceInv'
<1>1. /\ pc = "clear" /\ pc' = "clear" /\ clearing \in Nat /\ clearing' = clearing + 1
      /\ ~capture.active /\ capture' = capture
      /\ obsolete' \subseteq obsolete
  BY Context, ConstantTypes DEF ClearFile, captureVars, TypeOK
<1>2. ClearedInv'
  BY <1>1 DEF EvidenceInv, ClearedInv, ClearFile, ProbeResultAt, TlsEvidenceAt
<1>3. NoStaleEvidence'
  <2>1. /\ summary' = NoSummary \/ summary' = summary
        /\ \A i \in Bauds : files'[i] = NoFile \/ files'[i] = files[i]
    BY <1>1 DEF ClearFile
  <2> QED
    BY <1>1, <2>1 DEF EvidenceInv, NoStaleEvidence, NoSummary
<1> QED
  BY <1>2, <1>3 DEF EvidenceInv

\* A sweep begins when the whole list of removals is done.
LEMMA BeginEvidence ==
  ASSUME IndInv, EvidenceInv, NEW arg, BeginSweep(arg)
  PROVE  EvidenceInv'
<1>1. obsolete \subseteq Obsolete /\ pc = "clear" /\ clearing = BaudCount + 3
  BY Context DEF BeginSweep, TypeOK
<1>2. obsolete = {}
  BY <1>1, ConstantTypes DEF EvidenceInv, ClearedInv, Obsolete, ProbeResultAt, TlsEvidenceAt
<1>3. obsolete' = {} /\ pc' # "clear"
  BY <1>2 DEF BeginSweep
<1> QED
  BY <1>3, WriteEvidence

\* Every step keeps old evidence and new apart.
LEMMA NextEvidence == ASSUME IndInv, EvidenceInv, [Next]_vars PROVE EvidenceInv'
<1> USE Context
<1>1. CASE UNCHANGED vars
  BY <1>1 DEF vars, captureVars, flashVars, EvidenceInv, ClearedInv, NoStaleEvidence
<1>2. CASE IdleStep \/ AcceptClient
  <2>1. FlashStays
    BY <1>2 DEF IdleStep, HandleNothing, CaptureIdle, DrainDone, ContinueSample,
       StreamIdle, PumpDone, HandleStartCapture, AcceptClient, captureVars, FlashStays
  <2> QED
    BY <2>1, StayEvidence
<1>3. CASE HandleStopLiveStream \/ (\E b \in StreamBauds : HandleStartLiveStream(b))
  <2>1. FlashStays
    BY <1>3 DEF HandleStopLiveStream, HandleStartLiveStream, captureVars, FlashStays
  <2> QED
    BY <2>1, StayEvidence
<1>4. CASE FinishCapture \/ HandleStopCapture
  <2>1. capture.active /\ UNCHANGED flashVars /\ pc' = "summary"
    BY <1>4 DEF FinishCapture, HandleStopCapture
  <2>2. FlashStays
    BY <2>1 DEF FlashStays
  <2> QED
    BY <2>2, StayEvidence
<1>5. CASE NextBaud \/ DrainCapture
  <2>1. capture.active /\ obsolete = {}
    BY ZenonT(60), <1>5 DEF NextBaud, DrainCapture, EvidenceInv, ClearedInv
  <2>2. obsolete' = {} /\ pc' # "clear"
    BY ZenonT(60), <1>5, <2>1 DEF NextBaud, DrainCapture
  <2> QED
    BY SMTT(60), <2>2, WriteEvidence
<1>6. CASE OpenSummary \/ WriteSummary
  <2>1. obsolete' = {} /\ pc' # "clear"
    BY <1>6 DEF OpenSummary, WriteSummary, EvidenceInv, ClearedInv
  <2> QED
    BY <2>1, WriteEvidence
<1>7. CASE PumpStream \/ Receive \/ Connect \/ Disconnect
  <2>1. UNCHANGED <<pc, clearing, captureVars, flashVars>>
    BY <1>7 DEF PumpStream, Receive, Connect, Disconnect
  <2> QED
    BY <2>1 DEF captureVars, flashVars, EvidenceInv, ClearedInv, NoStaleEvidence
<1>8. ASSUME NEW d, HandleScan(d) \/ LoopDelay(d) PROVE EvidenceInv'
  <2>1. FlashStays
    BY <1>8 DEF HandleScan, LoopDelay, FlashStays
  <2> QED
    BY <2>1, StayEvidence
<1>9. CASE Restart
  <2>1. /\ ~capture'.active /\ pc' = "http"
        /\ \/ obsolete' = {}
           \/ obsolete' = obsolete /\ summary' = summary
                /\ (files' = files \/ capture.active)
    BY <1>9 DEF Restart, NoCapture
  <2> QED
    BY <2>1 DEF EvidenceInv, ClearedInv, NoStaleEvidence
<1> QED
  BY <1>1, <1>2, <1>3, <1>4, <1>5, <1>6, <1>7, <1>8, <1>9, ClearEvidence, BeginEvidence
     DEF Next, Loop, Request, ServiceCapture, ServiceStream, World, IdleStep

\* "New captures remove stale inbound LAN/TLS result files": whatever is cut
\* short by a power failure, no summary and no sample ever lies beside them.
THEOREM StaleEvidenceIsGone == Spec => []NoStaleEvidence
<1>1. Init => EvidenceInv
  BY DEF Init, InitState, NoCapture, NoSummary, EvidenceInv, ClearedInv, NoStaleEvidence
<1>2. IndInv /\ EvidenceInv /\ [Next]_vars => EvidenceInv'
  BY NextEvidence
<1>3. EvidenceInv => NoStaleEvidence
  BY DEF EvidenceInv
<1> QED
  BY <1>1, <1>2, <1>3, Invariance, PTL DEF Spec

-----------------------------------------------------------------------------
(* The clock of a sample *)

Limit == capture.seconds * MsPerSecond

\* Where the loop is bounds the age of the sample: below its limit when the
\* deadline has been looked at, and by a turn more when the turn is over.  It is
\* always less than the clock's word.
ClockInv ==
  capture.active =>
    /\ age < WordSize
    /\ pc \in {"stream", "pump", "delay"} => age < Limit
    /\ pc = "http" => \E d \in LoopDelays : age < Limit + d

\* The limit of any sample is positive and at most Longest.
LEMMA LimitBounds ==
  ASSUME NEW n \in 1..MaxSeconds
  PROVE  /\ n * MsPerSecond \in Nat /\ Longest \in Nat
         /\ 0 < n * MsPerSecond /\ n * MsPerSecond <= Longest
<1>1. MaxSeconds \in Nat /\ MsPerSecond \in Nat /\ MsPerSecond > 0
  BY ClockAssumption
<1> QED
  BY <1>1 DEF Longest

LEMMA Modulo ==
  ASSUME NEW W \in Nat, W > 0, NEW x \in 0 .. W - 1
  PROVE  x % W = x /\ (x + W) % W = x /\ (x - W) % W = x
  BY SMT

\* Unsigned subtraction undoes the wrap of the clock.
LEMMA ElapsedIsAge ==
  ASSUME TypeOK, age < WordSize
  PROVE  Elapsed = age
<1> DEFINE s == capture.started
<1>1. s \in 0 .. WordSize - 1 /\ age \in 0 .. WordSize - 1 /\ WordSize \in Nat /\ WordSize > 0
  BY ConstantTypes DEF TypeOK, CaptureState
<1>2. Elapsed = (((s + age) % WordSize) - s) % WordSize
  BY DEF Elapsed, Millis
<1> HIDE DEF s
<1>3. CASE s + age < WordSize
  <2>1. (s + age) % WordSize = s + age
    BY <1>1, <1>3, Modulo
  <2> QED
    BY <1>1, <1>2, <2>1, Modulo
<1>4. CASE s + age >= WordSize
  <2>1. s + age - WordSize \in 0 .. WordSize - 1 /\ (s + age - WordSize) + WordSize = s + age
    BY <1>1, <1>4
  <2>2. (s + age) % WordSize = s + age - WordSize
    BY <1>1, <2>1, Modulo
  <2>3. ((s + age) % WordSize) - s = age - WordSize
    BY <1>1, <2>2
  <2> QED
    BY <1>1, <1>2, <2>3, Modulo
<1> QED
  BY <1>1, <1>3, <1>4

\* A new sample is of age zero.
LEMMA BeginClock ==
  ASSUME IndInv, IndInv', age' = 0, pc' \in {"capture", "stream"}
  PROVE  ClockInv'
<1>1. capture'.seconds \in 1..MaxSeconds
  BY DEF IndInv, TypeOK, CaptureState
<1> QED
  BY <1>1, LimitBounds, ConstantTypes DEF ClockInv, Limit

\* Steps that leave the sample and its age alone.
LEMMA StayClock ==
  ASSUME ClockInv, UNCHANGED <<capture, age>>,
         \/ pc' = pc
         \/ pc' \in {"capture", "check"}
         \/ pc \in {"stream", "pump", "delay"} /\ pc' \in {"stream", "pump", "delay"}
         \/ ~capture.active
  PROVE  ClockInv'
BY DEF ClockInv, Limit

LEMMA NextClock == ASSUME IndInv, IndInv', ClockInv, [Next]_vars PROVE ClockInv'
<1> USE Context
<1>1. CASE UNCHANGED vars
  BY <1>1, StayClock DEF vars, captureVars
<1>2. CASE HandleNothing \/ CaptureIdle \/ DrainDone \/ StreamIdle \/ PumpDone
             \/ HandleStartCapture \/ AcceptClient
  BY <1>2, StayClock DEF HandleNothing, CaptureIdle, DrainDone, StreamIdle, PumpDone,
     HandleStartCapture, AcceptClient, captureVars
<1>3. CASE ContinueSample
  <2>1. capture.active /\ UNCHANGED <<capture, age>> /\ pc' = "stream" /\ ~TimedOut
    BY <1>3 DEF ContinueSample, captureVars, SampleOver
  <2>2. age < WordSize /\ Elapsed = age
    BY <2>1, ElapsedIsAge DEF ClockInv
  <2>3. age \in Nat /\ Limit \in Nat
    BY LimitBounds DEF TypeOK, CaptureState, Limit
  <2>4. age < Limit
    BY <2>1, <2>2, <2>3 DEF TimedOut, Limit
  <2> QED
    BY <2>1, <2>2, <2>4 DEF ClockInv, Limit
<1>4. CASE NextBaud \/ (\E arg \in SecondsArgs \cup {DefaultSeconds} : BeginSweep(arg))
  <2>1. age' = 0 /\ pc' \in {"capture", "stream"}
    BY <1>4 DEF NextBaud, BeginSweep, BeginCurrentBaud
  <2> QED
    BY <2>1, BeginClock
<1>5. CASE FinishCapture \/ HandleStopCapture \/ Restart
  <2>1. CASE Restart
    BY <2>1 DEF Restart, NoCapture, ClockInv
  <2>2. CASE FinishCapture \/ HandleStopCapture
    <3>1. pc' = "summary"
      BY <2>2 DEF FinishCapture, HandleStopCapture
    <3>2. ~capture'.active
      BY <3>1 DEF IndInv, StepInv
    <3> QED
      BY <3>2 DEF ClockInv
  <2> QED
    BY <1>5, <2>1, <2>2
<1>6. CASE DrainCapture
  <2>1. /\ capture.active /\ pc' = pc /\ pc = "capture" /\ age' = age
    BY <1>6 DEF DrainCapture
  <2> QED
    BY <2>1 DEF ClockInv
<1>7. ASSUME NEW d \in ScanDelays, HandleScan(d) PROVE ClockInv'
  <2>1. d \in Nat /\ age \in Nat
    BY ClockAssumption DEF TypeOK
  <2>2. pc = "http" /\ pc' = "capture" /\ capture' = capture
        /\ age' = IF capture.active THEN age + d ELSE age
    BY <1>7 DEF HandleScan, Pass
  <2>3. ASSUME capture.active PROVE age + d < WordSize
    <3>1. PICK e \in LoopDelays : age < Limit + e
      BY <2>2, <2>3 DEF ClockInv
    <3>2. Limit \in Nat /\ Longest \in Nat /\ Limit <= Longest
      BY LimitBounds DEF TypeOK, CaptureState, Limit
    <3>3. Longest + d + e < WordSize /\ e \in Nat /\ WordSize \in Nat
      BY ClockAssumption
    <3> QED
      BY <2>1, <3>1, <3>2, <3>3
  <2> QED
    BY <2>2, <2>3 DEF ClockInv, Limit
<1>8. ASSUME NEW d \in LoopDelays, LoopDelay(d) PROVE ClockInv'
  <2>1. d \in Nat /\ age \in Nat
    BY ClockAssumption DEF TypeOK
  <2>2. pc = "delay" /\ pc' = "http" /\ capture' = capture
        /\ age' = IF capture.active THEN age + d ELSE age
    BY <1>8 DEF LoopDelay, Pass
  <2>3. ASSUME capture.active PROVE age + d < Limit + d /\ age + d < WordSize
    <3>1. age < Limit
      BY <2>2, <2>3 DEF ClockInv
    <3>2. Limit \in Nat /\ Longest \in Nat /\ Limit <= Longest
      BY LimitBounds DEF TypeOK, CaptureState, Limit
    <3>3. Longest + d < WordSize /\ WordSize \in Nat
      BY ClockAssumption
    <3> QED
      BY <2>1, <3>1, <3>2, <3>3
  <2> QED
    BY <2>2, <2>3 DEF ClockInv, Limit
<1>9. CASE ClearFile \/ OpenSummary \/ WriteSummary \/ HandleStopLiveStream
             \/ (\E b \in StreamBauds : HandleStartLiveStream(b))
  BY <1>9, StayClock DEF ClearFile, OpenSummary, WriteSummary, HandleStopLiveStream,
     HandleStartLiveStream, captureVars
<1>10. CASE PumpStream \/ Receive \/ Connect \/ Disconnect
  BY <1>10, StayClock DEF PumpStream, Receive, Connect, Disconnect, captureVars
<1> QED
  BY <1>1, <1>2, <1>3, <1>4, <1>5, <1>6, <1>7, <1>8, <1>9, <1>10
     DEF Next, Loop, Request, ServiceCapture, ServiceStream, World

LEMMA ClockInvariant == Spec => [](IndInv /\ ClockInv)
<1>1. Init => ClockInv
  BY DEF Init, InitState, NoCapture, ClockInv
<1>2. IndInv /\ IndInv' /\ ClockInv /\ [Next]_vars => ClockInv'
  BY NextClock
<1> QED
  BY <1>1, <1>2, Invariance, PTL DEF Spec

\* millis() may wrap anywhere, a scan may hold the loop: the difference that
\* serviceCapture takes is the true age of the sample, and a sample outlives its
\* limit by less than one turn.
THEOREM SamplesKeepTime == Spec => []SampleKeepsTime
<1>1. IndInv /\ ClockInv => SampleKeepsTime
  <2> SUFFICES ASSUME IndInv, ClockInv, capture.active PROVE SampleKeepsTime
    BY DEF SampleKeepsTime
  <2>1. Elapsed = age
    BY Context, ElapsedIsAge DEF ClockInv
  <2> QED
    BY <2>1 DEF ClockInv, SampleKeepsTime, Limit
<1> QED
  BY <1>1, ClockInvariant, PTL

\* The steps that change the state of the capture.  The others leave the count
\* of a running sample alone too.
LEMMA CaptureMoves ==
  ASSUME IndInv, Next
  PROVE  \/ NextBaud \/ FinishCapture \/ DrainCapture \/ HandleStopCapture \/ Restart
         \/ \E arg \in SecondsArgs \cup {DefaultSeconds} : BeginSweep(arg)
         \/ capture' = capture /\ (capture.active => analyzed' = analyzed)
<1>1. CASE PumpStream \/ (\E b \in StreamBauds : HandleStartLiveStream(b))
  <2>1. ~capture.active /\ capture' = capture
    BY <1>1, Context DEF PumpStream, HandleStartLiveStream, captureVars
  <2> QED
    BY <2>1
<1> QED
  BY <1>1 DEF Next, Loop, Request, ServiceCapture, ServiceStream, World, HandleNothing,
     HandleStartCapture, HandleStopLiveStream, HandleScan, LoopDelay, ClearFile,
     CaptureIdle, DrainDone, ContinueSample, OpenSummary, WriteSummary, StreamIdle,
     AcceptClient, PumpDone, Receive, Connect, Disconnect, captureVars

\* Only two steps go on to another baud.
LEMMA IndexMoves ==
  ASSUME IndInv, Next
  PROVE  NextBaud \/ FinishCapture \/ capture'.baudIndex \in {capture.baudIndex, 0}
<1>1. capture \in CaptureState
  BY DEF IndInv, TypeOK
<1>2. CASE capture' = capture
  BY <1>2
<1>3. CASE DrainCapture
  BY <1>1, <1>3 DEF DrainCapture, CaptureState
<1>4. CASE HandleStopCapture
  <2>1. capture.active
    BY <1>4 DEF HandleStopCapture
  <2>2. Finalized(capture) \in CaptureState /\ Finalized(capture).baudIndex = capture.baudIndex
    BY <2>1, Context, ActiveCapture, FinalizedType
  <2> QED
    BY <1>4, <2>2 DEF HandleStopCapture, CaptureState
<1>5. ASSUME NEW arg, BeginSweep(arg) PROVE capture'.baudIndex = 0
  <2> DEFINE c == [NoCapture EXCEPT !.active = TRUE, !.seconds = ClampSeconds(arg),
                                    !.sweep = sweeps + 1]
  <2>1. c.baudIndex = 0 /\ BeginCurrentBaud(c)
    BY <1>5 DEF BeginSweep, NoCapture
  <2> QED
    BY <2>1 DEF BeginCurrentBaud, NoCapture
<1>6. CASE Restart
  BY <1>6 DEF Restart, NoCapture
<1> QED
  BY <1>2, <1>3, <1>4, <1>5, <1>6, CaptureMoves

\* So a sample that ends was full or had its time, whatever the clock did.
THEOREM SamplesAreNotCutShort == Spec => NoSampleCutShort
<1>1. ASSUME IndInv, ClockInv, Next, capture.active,
             capture'.baudIndex = capture.baudIndex + 1
      PROVE  StorageFull \/ age >= capture.seconds * MsPerSecond
  <2>1. Elapsed = age
    BY <1>1, Context, ElapsedIsAge DEF ClockInv
  <2>2. capture.baudIndex \in Nat
    BY <1>1, Context DEF TypeOK, CaptureState
  <2>3. CASE capture'.baudIndex = capture.baudIndex \/ capture'.baudIndex = 0
    BY <1>1, <2>2, <2>3
  <2>4. CASE NextBaud \/ FinishCapture
    BY <2>1, <2>4 DEF NextBaud, FinishCapture, SampleOver, TimedOut
  <2>5. NextBaud \/ FinishCapture \/ capture'.baudIndex \in {capture.baudIndex, 0}
    BY <1>1, IndexMoves
  <2> QED
    BY <2>3, <2>4, <2>5
<1> QED
  BY <1>1, ClockInvariant, PTL DEF Spec, NoSampleCutShort

-----------------------------------------------------------------------------
(* What each step of a sweep does to its results and files *)

FirstResult(opened) == [NoResult EXCEPT !.begun = TRUE, !.lossy = ~opened]
ClosedResult == [Current EXCEPT !.bytes = analyzed]
FilesFrom(opened, i, sweep) ==
  IF opened THEN [files EXCEPT ![i] = [sweep |-> sweep, size |-> 0]] ELSE files

LEMMA FirstResultFields ==
  ASSUME NEW opened \in BOOLEAN
  PROVE  /\ FirstResult(opened).begun /\ FirstResult(opened).bytes = 0
         /\ FirstResult(opened).stored = 0 /\ FirstResult(opened).lossy = ~opened
BY DEF FirstResult, NoResult

\* The result of a sample that is over.
LEMMA ClosedResultFields ==
  ASSUME IndInv, capture.active
  PROVE  /\ Current \in BaudResult /\ Current = capture.results[capture.baudIndex]
         /\ ClosedResult.begun = Current.begun /\ ClosedResult.bytes = analyzed
         /\ ClosedResult.stored = Current.stored /\ ClosedResult.lossy = Current.lossy
<1>1. Current \in BaudResult
  BY Context, ActiveCapture DEF Current, TypeOK, CaptureState
<1> QED
  BY <1>1 DEF Current, ClosedResult, BaudResult

LEMMA BeginFields ==
  ASSUME NEW c \in CaptureState, c.baudIndex \in Bauds, BeginCurrentBaud(c)
  PROVE  \E opened \in BOOLEAN :
           /\ capture'.active = c.active /\ capture'.completed = c.completed
           /\ capture'.baudIndex = c.baudIndex /\ capture'.sweep = c.sweep
           /\ capture'.output = opened
           /\ capture'.results = [c.results EXCEPT ![c.baudIndex] = FirstResult(opened)]
           /\ files' = FilesFrom(opened, c.baudIndex, c.sweep)
           /\ analyzed' = 0
<1>1. PICK opened \in BOOLEAN, millis \in 0 .. WordSize - 1 :
        /\ capture' = [c EXCEPT
             !.results = WithResult(c, [NoResult EXCEPT !.begun = TRUE, !.lossy = ~opened]),
             !.output = opened, !.started = millis]
        /\ files' = FilesFrom(opened, c.baudIndex, c.sweep)
        /\ analyzed' = 0
  BY DEF BeginCurrentBaud, FilesFrom, AnalyzerReset
<1>3. WithResult(c, FirstResult(opened)) = [c.results EXCEPT ![c.baudIndex] = FirstResult(opened)]
  BY DEF WithResult
<1> QED
  BY <1>1, <1>3 DEF CaptureState, FirstResult

LEMMA BeginSweepFields ==
  ASSUME IndInv, NEW arg \in SecondsArgs \cup {DefaultSeconds}, BeginSweep(arg)
  PROVE  /\ pc = "clear" /\ clearing = BaudCount + 3 /\ ~capture.active /\ ~stream.active
         /\ pc' = "capture" /\ sweeps' = sweeps + 1 /\ UNCHANGED <<stream, summary>>
         /\ capture'.active /\ ~capture'.completed /\ capture'.baudIndex = 0 /\ 0 \in Bauds
         /\ capture'.sweep = sweeps + 1 /\ analyzed' = 0
         /\ \E opened \in BOOLEAN :
              /\ capture'.output = opened
              /\ files' = FilesFrom(opened, 0, sweeps + 1)
              /\ capture'.results = [i \in Bauds |-> IF i = 0 THEN FirstResult(opened) ELSE NoResult]
<1> DEFINE c == [NoCapture EXCEPT !.active = TRUE, !.seconds = ClampSeconds(arg),
                                  !.sweep = sweeps + 1]
<1>1. NoCapture \in CaptureState /\ ClampSeconds(arg) \in 1..MaxSeconds /\ sweeps + 1 \in Nat
  BY SMTT(60), FreshTypes, ClampType, Context DEF TypeOK
<1>2. c \in CaptureState /\ c.active /\ ~c.completed /\ c.baudIndex = 0 /\ 0 \in Bauds
      /\ c.sweep = sweeps + 1 /\ c.results = [i \in Bauds |-> NoResult]
  <2>1. /\ c \in CaptureState /\ c.active /\ c.baudIndex = NoCapture.baudIndex
        /\ c.completed = NoCapture.completed /\ c.results = NoCapture.results
        /\ c.sweep = sweeps + 1
    BY <1>1 DEF CaptureState
  <2> HIDE DEF c
  <2> QED
    BY <2>1, ConstantTypes DEF NoCapture, Bauds
<1>3. /\ pc = "clear" /\ clearing = BaudCount + 3 /\ pc' = "capture" /\ sweeps' = sweeps + 1
      /\ UNCHANGED <<stream, summary>> /\ BeginCurrentBaud(c)
  BY DEF BeginSweep, streamVars
<1> HIDE DEF c
<1>4. ~capture.active /\ ~stream.active
  BY <1>3, Context
<1>5. \A r : [c.results EXCEPT ![0] = r] = [i \in Bauds |-> IF i = 0 THEN r ELSE NoResult]
  BY <1>2
<1>6. PICK opened \in BOOLEAN :
           /\ capture'.active = c.active /\ capture'.completed = c.completed
           /\ capture'.baudIndex = c.baudIndex /\ capture'.sweep = c.sweep
           /\ capture'.output = opened
           /\ capture'.results = [c.results EXCEPT ![c.baudIndex] = FirstResult(opened)]
           /\ files' = FilesFrom(opened, c.baudIndex, c.sweep)
           /\ analyzed' = 0
  BY <1>2, <1>3, BeginFields
<1> QED
  BY <1>2, <1>3, <1>4, <1>5, <1>6

LEMMA FinalizedFields ==
  ASSUME IndInv, capture.active
  PROVE  /\ Finalized(capture) \in CaptureState /\ capture.baudIndex \in Bauds
         /\ Finalized(capture).active /\ Finalized(capture).baudIndex = capture.baudIndex
         /\ Finalized(capture).completed = capture.completed
         /\ Finalized(capture).sweep = capture.sweep
         /\ Finalized(capture).results = [capture.results EXCEPT ![capture.baudIndex] = ClosedResult]
<1>1. capture \in CaptureState /\ capture.baudIndex \in Bauds
  BY ActiveCapture, Context DEF TypeOK
<1>2. Finalized(capture) \in CaptureState
  BY <1>1, FinalizedType, Context
<1> QED
  BY <1>1, <1>2 DEF Finalized, CaptureState, ClosedResult, Current

LEMMA NextBaudFields ==
  ASSUME IndInv, NextBaud
  PROVE  LET b == capture.baudIndex
         IN /\ capture.active /\ ~stream.active /\ pc' = "stream" /\ b \in Bauds /\ b + 1 \in Bauds
            /\ UNCHANGED <<stream, summary, sweeps>>
            /\ capture'.active /\ capture'.completed = capture.completed
            /\ capture'.baudIndex = b + 1 /\ capture'.sweep = capture.sweep
            /\ analyzed' = 0
            /\ \E opened \in BOOLEAN :
                 /\ capture'.output = opened
                 /\ files' = FilesFrom(opened, b + 1, capture.sweep)
                 /\ capture'.results = [capture.results EXCEPT ![b] = ClosedResult,
                                                               ![b + 1] = FirstResult(opened)]
<1> DEFINE b == capture.baudIndex
           c == [Finalized(capture) EXCEPT !.baudIndex = b + 1]
<1>1. /\ capture.active /\ ~stream.active /\ pc' = "stream" /\ BeginCurrentBaud(c)
      /\ ~(b + 1 >= BaudCount) /\ UNCHANGED <<stream, summary, sweeps>>
  BY Context DEF NextBaud, LastBaud, NextIndex, streamVars
<1>2. b \in Bauds /\ b + 1 \in Bauds
  BY <1>1, FinalizedFields, ConstantTypes DEF Bauds
<1>3. /\ c \in CaptureState /\ c.active /\ c.completed = capture.completed
      /\ c.baudIndex = b + 1 /\ c.sweep = capture.sweep
      /\ c.results = [capture.results EXCEPT ![b] = ClosedResult]
  <2>1. b + 1 \in 0..BaudCount
    BY <1>2, ConstantTypes DEF Bauds
  <2> DEFINE f == Finalized(capture)
  <2>2. f \in CaptureState /\ f.active /\ f.completed = capture.completed
        /\ f.sweep = capture.sweep /\ f.results = [capture.results EXCEPT ![b] = ClosedResult]
    BY <1>1, FinalizedFields
  <2>3. c = [f EXCEPT !.baudIndex = b + 1]
    OBVIOUS
  <2> HIDE DEF f, c
  <2> QED
    BY <2>1, <2>2, <2>3 DEF CaptureState
<1> HIDE DEF c
<1>4. \A r : [c.results EXCEPT ![b + 1] = r] =
             [capture.results EXCEPT ![b] = ClosedResult, ![b + 1] = r]
  BY <1>3
<1>5. PICK opened \in BOOLEAN :
           /\ capture'.active = c.active /\ capture'.completed = c.completed
           /\ capture'.baudIndex = c.baudIndex /\ capture'.sweep = c.sweep
           /\ capture'.output = opened
           /\ capture'.results = [c.results EXCEPT ![c.baudIndex] = FirstResult(opened)]
           /\ files' = FilesFrom(opened, c.baudIndex, c.sweep)
           /\ analyzed' = 0
  BY <1>1, <1>2, <1>3, BeginFields
<1> QED
  BY <1>1, <1>2, <1>3, <1>4, <1>5

LEMMA EndFields ==
  ASSUME IndInv, FinishCapture \/ HandleStopCapture
  PROVE  /\ capture.active /\ ~stream.active /\ ~capture'.active /\ pc' = "summary"
         /\ capture.baudIndex \in Bauds
         /\ UNCHANGED <<stream, analyzed, files, summary, sweeps>>
         /\ ~capture'.output /\ capture'.sweep = capture.sweep
         /\ capture'.results = [capture.results EXCEPT ![capture.baudIndex] = ClosedResult]
         /\ \/ /\ capture'.completed /\ capture'.baudIndex = BaudCount
               /\ capture.baudIndex + 1 = BaudCount
            \/ ~capture'.completed /\ capture'.baudIndex = capture.baudIndex
<1>1. /\ capture.active /\ ~stream.active /\ pc' = "summary"
      /\ UNCHANGED <<stream, analyzed, files, summary, sweeps>>
  BY Context DEF FinishCapture, HandleStopCapture, streamVars, flashVars
<1>2. Finalized(capture) \in CaptureState /\ ~Finalized(capture).output
  BY <1>1, FinalizedFields, FinalizedType, Context
<1>3. CASE FinishCapture
  <2>1. capture.baudIndex + 1 = BaudCount
    BY <1>1, <1>3, FinalizedFields, ConstantTypes DEF FinishCapture, LastBaud, NextIndex, Bauds
  <2> QED
    BY <1>1, <1>2, <1>3, <2>1, FinalizedFields DEF FinishCapture, CaptureState, NextIndex
<1>4. CASE HandleStopCapture
  BY SMTT(60), <1>1, <1>2, <1>4, FinalizedFields DEF HandleStopCapture, CaptureState
<1> QED
  BY <1>3, <1>4

LEMMA DrainFields ==
  ASSUME IndInv, DrainCapture
  PROVE  LET b == capture.baudIndex
         IN /\ capture.active /\ ~stream.active /\ pc = "capture" /\ pc' = pc /\ b \in Bauds
            /\ UNCHANGED <<stream, summary, sweeps>>
            /\ capture'.active /\ capture'.completed = capture.completed
            /\ capture'.baudIndex = b /\ capture'.sweep = capture.sweep
            /\ capture'.output = capture.output
            /\ \E received \in Nat \ {0} : \E w \in 0..Writing(received) :
                 /\ analyzed' = Cap(analyzed + received)
                 /\ capture'.results = [capture.results EXCEPT
                      ![b] = [Current EXCEPT !.stored = @ + w, !.lossy = @ \/ w < Writing(received)]]
                 /\ files' = [files EXCEPT ![b].size = @ + w]
<1> DEFINE b == capture.baudIndex
           received == Lesser(Len(uart.ring), CaptureChunk)
<1>1. /\ capture.active /\ ~stream.active /\ pc = "capture" /\ pc' = pc
      /\ UNCHANGED <<stream, summary, sweeps>> /\ capture \in CaptureState /\ b \in Bauds
  BY Context, ActiveCapture DEF DrainCapture, streamVars, TypeOK
<1>2. received \in Nat \ {0}
  <2>1. uart.ring \in Seq(Bauds) /\ uart.ring # <<>>
    BY Context DEF DrainCapture, TypeOK
  <2>2. Len(uart.ring) \in Nat \ {0}
    BY SMTT(60), <2>1, EmptySeq
  <2> QED
    BY <2>2, ConstantTypes DEF Lesser
<1>3. PICK w \in 0..Writing(received) :
        /\ capture' = [capture EXCEPT
             !.results[b].stored = @ + w, !.results[b].lossy = @ \/ w < Writing(received)]
        /\ files' = [files EXCEPT ![b].size = @ + w]
  BY DEF DrainCapture, FlashWrites
<1>4. analyzed' = Cap(analyzed + received)
  BY DEF DrainCapture
<1> HIDE DEF received
<1>5. capture.results \in [Bauds -> BaudResult]
  BY <1>1 DEF CaptureState
<1>6. capture'.results = [capture.results EXCEPT
        ![b] = [Current EXCEPT !.stored = @ + w, !.lossy = @ \/ w < Writing(received)]]
  BY <1>1, <1>3, <1>5 DEF CaptureState, BaudResult, Current
<1>7. /\ capture'.active /\ capture'.completed = capture.completed
      /\ capture'.baudIndex = b /\ capture'.sweep = capture.sweep
      /\ capture'.output = capture.output
  BY <1>1, <1>3 DEF CaptureState
<1> QED
  BY <1>1, <1>2, <1>3, <1>4, <1>6, <1>7

-----------------------------------------------------------------------------
(* The stored bytes *)

\* What StoredIsAPrefix says of one result.
PrefixOf(result, heard) ==
  /\ result.stored <= heard
  /\ result.begun /\ ~result.lossy => result.stored = Lesser(heard, MaxCaptureBytes)

\* A sample whose file did not open is marked as lossy from its beginning.
ResultInv ==
  /\ StoredIsAPrefix
  /\ capture.active => Current.begun /\ (capture.output \/ Current.lossy)

LEMMA PrefixOfEach == StoredIsAPrefix <=> \A i \in Bauds : PrefixOf(capture.results[i], HeardOf(i))
BY DEF StoredIsAPrefix, PrefixOf

\* A sample that has heard nothing, and a baud not yet reached.
LEMMA NothingHeard ==
  /\ \A opened \in BOOLEAN : PrefixOf(FirstResult(opened), 0)
  /\ PrefixOf(NoResult, NoResult.bytes)
BY FirstResultFields, ConstantTypes DEF PrefixOf, Lesser, NoResult

LEMMA ResultTypes ==
  ASSUME IndInv
  PROVE  /\ capture.results \in [Bauds -> BaudResult]
         /\ \A i \in Bauds : capture.results[i] \in BaudResult
         /\ capture.baudIndex \in 0..BaudCount /\ analyzed \in 0..ByteCap
BY SMTT(60), Context DEF TypeOK, CaptureState

\* The arithmetic of one chunk: what fits is stored, and all of it is counted.
LEMMA ChunkStored ==
  ASSUME NEW s \in 0..MaxCaptureBytes, NEW a \in 0..ByteCap, NEW n \in Nat, s <= a
  PROVE  LET room == Lesser(n, MaxCaptureBytes - s)
         IN /\ room \in 0..n
            /\ \A w \in 0..room : s + w <= Cap(a + n)
            /\ s = Lesser(a, MaxCaptureBytes) =>
                 s + room = Lesser(Cap(a + n), MaxCaptureBytes)
BY ConstantTypes DEF Lesser, Cap

LEMMA DrainResults == ASSUME IndInv, ResultInv, DrainCapture PROVE ResultInv'
<1> DEFINE b == capture.baudIndex
<1>1. /\ capture.active /\ capture'.active /\ capture'.baudIndex = b /\ b \in Bauds
      /\ capture'.output = capture.output
  BY ZenonT(60), DrainFields
<1>2. PICK received \in Nat \ {0} : \E w \in 0..Writing(received) :
         /\ analyzed' = Cap(analyzed + received)
         /\ capture'.results = [capture.results EXCEPT
              ![b] = [Current EXCEPT !.stored = @ + w, !.lossy = @ \/ w < Writing(received)]]
  BY DrainFields
<1>3. PICK w \in 0..Writing(received) :
         /\ analyzed' = Cap(analyzed + received)
         /\ capture'.results = [capture.results EXCEPT
              ![b] = [Current EXCEPT !.stored = @ + w, !.lossy = @ \/ w < Writing(received)]]
  BY <1>2
<1>4. /\ Current \in BaudResult /\ Current = capture.results[b] /\ analyzed \in 0..ByteCap
      /\ PrefixOf(Current, analyzed) /\ Current.begun /\ (capture.output \/ Current.lossy)
  BY <1>1, ClosedResultFields, ResultTypes, PrefixOfEach DEF ResultInv, HeardOf
<1> DEFINE r == capture'.results[b]
           room == Lesser(received, MaxCaptureBytes - Current.stored)
<1>5. /\ r.begun /\ r.stored = Current.stored + w
      /\ r.lossy <=> (Current.lossy \/ w < Writing(received))
  BY <1>1, <1>3, <1>4, ResultTypes DEF BaudResult
<1>6. Writing(received) = IF capture.output THEN room ELSE 0
  BY DEF Writing
<1>7. /\ Current.stored \in 0..MaxCaptureBytes /\ Current.stored <= analyzed
      /\ ~Current.lossy => Current.stored = Lesser(analyzed, MaxCaptureBytes)
  BY <1>4 DEF PrefixOf, BaudResult
<1>8. /\ room \in 0..received
      /\ \A v \in 0..room : Current.stored + v <= Cap(analyzed + received)
      /\ ~Current.lossy => Current.stored + room = Lesser(Cap(analyzed + received), MaxCaptureBytes)
  BY <1>4, <1>7, ChunkStored
<1> HIDE DEF r, room
<1>9. PrefixOf(r, analyzed')
  <2>1. w \in 0..room
    BY <1>3, <1>6, <1>8
  <2>2. ~r.lossy => ~Current.lossy /\ w = room
    <3> SUFFICES ASSUME ~r.lossy PROVE ~Current.lossy /\ w = room
      OBVIOUS
    <3>1. ~Current.lossy /\ ~(w < Writing(received))
      BY <1>5
    <3>2. Writing(received) = room
      BY <3>1, <1>4, <1>6
    <3> QED
      BY <3>1, <3>2, <2>1, <1>8
  <2> QED
    BY <1>3, <1>5, <1>8, <2>1, <2>2 DEF PrefixOf
<1>10. r = capture'.results[b] /\ \A i \in Bauds \ {b} : capture'.results[i] = capture.results[i]
  BY <1>1, <1>3, ResultTypes DEF r
<1>11. \A i \in Bauds : PrefixOf(capture'.results[i], HeardOf(i)')
  BY <1>1, <1>9, <1>10, PrefixOfEach DEF ResultInv, HeardOf
<1>12. Current'.begun /\ (capture'.output \/ Current'.lossy)
  BY <1>1, <1>4, <1>5, <1>10 DEF Current
<1> QED
  BY <1>11, <1>12, PrefixOfEach DEF ResultInv, StoredIsAPrefix, PrefixOf

LEMMA NextResults == ASSUME IndInv, ResultInv, Next PROVE ResultInv'
<1>1. CASE capture' = capture /\ (capture.active => analyzed' = analyzed)
  BY <1>1 DEF ResultInv, StoredIsAPrefix, HeardOf, Current
<1>2. ASSUME NEW arg \in SecondsArgs \cup {DefaultSeconds}, BeginSweep(arg) PROVE ResultInv'
  <2>1. /\ capture'.active /\ capture'.baudIndex = 0 /\ 0 \in Bauds /\ analyzed' = 0
        /\ \E opened \in BOOLEAN :
             /\ capture'.output = opened
             /\ capture'.results = [i \in Bauds |-> IF i = 0 THEN FirstResult(opened) ELSE NoResult]
    BY <1>2, BeginSweepFields
  <2>2. PICK opened \in BOOLEAN :
             /\ capture'.output = opened
             /\ capture'.results = [i \in Bauds |-> IF i = 0 THEN FirstResult(opened) ELSE NoResult]
    BY <2>1
  <2>3. \A i \in Bauds : PrefixOf(capture'.results[i], HeardOf(i)')
    BY <2>1, <2>2, NothingHeard DEF HeardOf
  <2>4. Current'.begun /\ (capture'.output \/ Current'.lossy)
    BY ZenonT(60), <2>1, <2>2, FirstResultFields DEF Current
  <2> QED
    BY <2>3, <2>4 DEF ResultInv, StoredIsAPrefix, PrefixOf
<1>3. CASE NextBaud
  <2> DEFINE b == capture.baudIndex
  <2>1. /\ capture.active /\ capture'.active /\ capture'.baudIndex = b + 1 /\ b \in Bauds /\ b + 1 \in Bauds
        /\ analyzed' = 0
        /\ \E opened \in BOOLEAN :
             /\ capture'.output = opened
             /\ capture'.results = [capture.results EXCEPT ![b] = ClosedResult,
                                                           ![b + 1] = FirstResult(opened)]
    BY <1>3, NextBaudFields
  <2>2. PICK opened \in BOOLEAN :
             /\ capture'.output = opened
             /\ capture'.results = [capture.results EXCEPT ![b] = ClosedResult,
                                                           ![b + 1] = FirstResult(opened)]
    BY <2>1
  <2>3. b # b + 1
    BY <2>1 DEF Bauds
  <2>4. /\ capture'.results[b] = ClosedResult /\ capture'.results[b + 1] = FirstResult(opened)
        /\ \A i \in Bauds \ {b, b + 1} : capture'.results[i] = capture.results[i]
    BY <2>1, <2>2, <2>3, ResultTypes
  <2>5. PrefixOf(ClosedResult, ClosedResult.bytes)
    BY <2>1, ClosedResultFields, PrefixOfEach DEF ResultInv, HeardOf, PrefixOf
  <2>6. \A i \in Bauds : PrefixOf(capture'.results[i], HeardOf(i)')
    BY <2>1, <2>3, <2>4, <2>5, NothingHeard, PrefixOfEach DEF ResultInv, HeardOf
  <2>7. Current' = FirstResult(opened)
    BY <2>1, <2>4 DEF Current
  <2>8. Current'.begun /\ (capture'.output \/ Current'.lossy)
    BY <2>2, <2>7, FirstResultFields
  <2> QED
    BY <2>6, <2>8 DEF ResultInv, StoredIsAPrefix, PrefixOf
<1>4. CASE FinishCapture \/ HandleStopCapture
  <2> DEFINE b == capture.baudIndex
  <2>1. /\ capture.active /\ ~capture'.active /\ b \in Bauds
        /\ capture'.results = [capture.results EXCEPT ![b] = ClosedResult]
    BY <1>4, EndFields
  <2>2. /\ capture'.results[b] = ClosedResult
        /\ \A i \in Bauds \ {b} : capture'.results[i] = capture.results[i]
    BY <2>1, ResultTypes
  <2>3. PrefixOf(ClosedResult, ClosedResult.bytes)
    BY <2>1, ClosedResultFields, PrefixOfEach DEF ResultInv, HeardOf, PrefixOf
  <2>4. \A i \in Bauds : PrefixOf(capture'.results[i], HeardOf(i)')
    BY <2>1, <2>2, <2>3, PrefixOfEach DEF ResultInv, HeardOf
  <2> QED
    BY <2>1, <2>4 DEF ResultInv, StoredIsAPrefix, PrefixOf
<1>5. CASE Restart
  BY <1>5, NothingHeard DEF Restart, NoCapture, ResultInv, StoredIsAPrefix, PrefixOf, HeardOf
<1> QED
  BY <1>1, <1>2, <1>3, <1>4, <1>5, CaptureMoves, DrainResults

\* A baud's file and its result hold the first bytes heard at that baud, up to
\* the cap, unless a failed open or a short write is on record.
THEOREM StoredBytesAreTheFirst == Spec => []StoredIsAPrefix
<1>1. Init => ResultInv
  BY NothingHeard DEF Init, InitState, NoCapture, ResultInv, StoredIsAPrefix, PrefixOf, HeardOf
<1>2. IndInv /\ ResultInv /\ [Next]_vars => ResultInv'
  <2>1. ASSUME ResultInv, UNCHANGED vars PROVE ResultInv'
    BY <2>1 DEF vars, captureVars, ResultInv, StoredIsAPrefix, HeardOf, Current
  <2> QED
    BY <2>1, NextResults
<1>3. ResultInv => StoredIsAPrefix
  BY DEF ResultInv
<1> QED
  BY <1>1, <1>2, <1>3, Invariance, PTL DEF Spec

-----------------------------------------------------------------------------
(* Finished results *)

\* Sweeps are numbered; before the first one there is nothing to freeze.
SweepInv ==
  /\ capture.sweep \in 0..sweeps
  /\ capture.sweep = 0 => ~capture.active /\ capture.baudIndex = 0

LEMMA NextSweep == ASSUME IndInv, SweepInv, Next PROVE SweepInv'
<1>1. capture.baudIndex \in Nat /\ sweeps \in Nat
  BY SMTT(60), Context DEF TypeOK, CaptureState
<1>2. sweeps' = sweeps \/ \E arg \in SecondsArgs \cup {DefaultSeconds} : BeginSweep(arg)
  BY ZenonT(60) DEF Next, Loop, Request, ServiceCapture, ServiceStream, World, HandleNothing,
     HandleStartCapture, HandleStopCapture, HandleStartLiveStream, HandleStopLiveStream,
     HandleScan, LoopDelay, ClearFile, CaptureIdle, DrainCapture, DrainDone, ContinueSample,
     NextBaud, FinishCapture, OpenSummary, WriteSummary, StreamIdle, AcceptClient,
     PumpStream, PumpDone, Receive, Connect, Disconnect, Restart
<1>3. ASSUME NEW arg \in SecondsArgs \cup {DefaultSeconds}, BeginSweep(arg) PROVE SweepInv'
  BY <1>1, <1>3, BeginSweepFields DEF SweepInv
<1>4. CASE capture' = capture
  BY SMTT(60), <1>1, <1>2, <1>3, <1>4 DEF SweepInv
<1>5. CASE NextBaud \/ DrainCapture
  BY <1>1, <1>5, NextBaudFields, DrainFields DEF SweepInv
<1>6. CASE FinishCapture \/ HandleStopCapture
  <2>1. capture.active /\ capture'.sweep = capture.sweep /\ sweeps' = sweeps
    BY <1>6, EndFields
  <2> QED
    BY <2>1 DEF SweepInv
<1>7. CASE Restart
  BY <1>1, <1>7 DEF Restart, NoCapture, SweepInv
<1> QED
  BY <1>3, <1>4, <1>5, <1>6, <1>7, CaptureMoves

\* Within a sweep a result changes only while its baud is sampled, and the end of
\* the sample copies what the sample has read.
THEOREM ResultsStayFinished == Spec => FinishedResultsAreFrozen
<1> DEFINE Frozen ==
      \A i \in Bauds :
        capture'.sweep = capture.sweep =>
          /\ i < capture.baudIndex => capture'.results[i] = capture.results[i]
          /\ i = capture.baudIndex /\ i < capture'.baudIndex =>
               capture'.results[i] = [capture.results[i] EXCEPT !.bytes = drained]
<1>1. ASSUME IndInv, SweepInv, AnalyzerFollowsItsUser, Next PROVE Frozen
  <2> USE ResultTypes, ConstantTypes DEF Bauds
  <2>1. CASE capture' = capture
    BY <1>1, <2>1
  <2>2. ASSUME NEW arg \in SecondsArgs \cup {DefaultSeconds}, BeginSweep(arg) PROVE Frozen
    <3>1. capture'.sweep = sweeps + 1 /\ sweeps \in Nat
      BY <1>1, <2>2, BeginSweepFields, Context DEF TypeOK
    <3> QED
      BY SMTT(60), <1>1, <3>1 DEF SweepInv
  <2>3. CASE DrainCapture
    <3> DEFINE b == capture.baudIndex
    <3>1. /\ capture'.baudIndex = b /\ b \in Bauds
          /\ \E r : capture'.results = [capture.results EXCEPT ![b] = r]
      BY <1>1, <2>3, DrainFields
    <3>2. \A i \in Bauds : i < b => capture'.results[i] = capture.results[i]
      BY <3>1
    <3> QED
      BY SMTT(60), <3>1, <3>2
  <2>4. CASE NextBaud \/ FinishCapture \/ HandleStopCapture
    <3> DEFINE b == capture.baudIndex
    <3>1. capture.active /\ b \in Bauds /\ capture'.results[b] = ClosedResult
          /\ \A i \in Bauds : i < b => capture'.results[i] = capture.results[i]
      <4>1. /\ capture.active /\ b \in Bauds
            /\ \/ \E r : capture'.results = [capture.results EXCEPT ![b] = ClosedResult, ![b + 1] = r]
               \/ capture'.results = [capture.results EXCEPT ![b] = ClosedResult]
        BY <1>1, <2>4, NextBaudFields, EndFields
      <4>2. b # b + 1
        BY <4>1
      <4>3. ASSUME NEW r, capture'.results = [capture.results EXCEPT ![b] = ClosedResult, ![b + 1] = r]
            PROVE  /\ capture'.results[b] = ClosedResult
                   /\ \A i \in Bauds : i < b => capture'.results[i] = capture.results[i]
        BY SMTT(60), <1>1, <4>1, <4>2, <4>3
      <4>4. ASSUME capture'.results = [capture.results EXCEPT ![b] = ClosedResult]
            PROVE  /\ capture'.results[b] = ClosedResult
                   /\ \A i \in Bauds : i < b => capture'.results[i] = capture.results[i]
        BY <1>1, <4>1, <4>4
      <4> QED
        BY <4>1, <4>3, <4>4
    <3>2. ClosedResult = [capture.results[b] EXCEPT !.bytes = drained]
      BY <1>1, <3>1 DEF ClosedResult, Current, AnalyzerFollowsItsUser
    <3> QED
      BY <3>1, <3>2
  <2>5. CASE Restart
    BY SMTT(60), <1>1, <2>5 DEF Restart, NoCapture, SweepInv
  <2> QED
    BY <1>1, <2>1, <2>2, <2>3, <2>4, <2>5, CaptureMoves
<1>2. Init => SweepInv
  BY DEF Init, InitState, NoCapture, SweepInv
<1>3. IndInv /\ SweepInv /\ [Next]_vars => SweepInv'
  <2>1. ASSUME SweepInv, UNCHANGED vars PROVE SweepInv'
    BY <2>1 DEF vars, captureVars, SweepInv
  <2> QED
    BY <2>1, NextSweep
<1> QED
  BY <1>1, <1>2, <1>3, Invariance, OneAnalyzer, PTL DEF Spec, FinishedResultsAreFrozen

-----------------------------------------------------------------------------
(* The summary and the files it lists *)

\* What the files hold is what the results of the capture say.
FilesMatch ==
  \A i \in Bauds :
    /\ files[i].size = capture.results[i].stored
    /\ files[i].sweep \in {0, capture.sweep}

\* Removals leave nothing behind them; a running sweep has no summary, nothing
\* at the bauds still to come, and files that match its results until the
\* summary is written.
FlashInv ==
  /\ pc = "clear" => /\ \A i \in Bauds : clearing > BaudFileAt(i) => files[i] = NoFile
                     /\ clearing > SummaryAt => summary.kind = "absent"
  /\ capture.active \/ pc = "summary" => summary.kind = "absent"
  /\ pc = "write" => summary.kind = "torn"
  /\ capture.active \/ pc \in {"summary", "write"} => FilesMatch /\ capture.sweep # 0
  /\ capture.active =>
       /\ ~capture.completed
       /\ \A i \in Bauds : i <= capture.baudIndex => capture.results[i].begun
       /\ \A i \in Bauds : i > capture.baudIndex => files[i] = NoFile
  /\ capture.completed => \A i \in Bauds : capture.results[i].begun

SummaryInvariant == FlashInv /\ SummaryDescribesFlash /\ SummaryMirrorsCapture

\* Without a whole summary both promises hold of themselves.
LEMMA NoWholeSummary ==
  ASSUME summary.kind # "ok" PROVE SummaryDescribesFlash /\ SummaryMirrorsCapture
BY DEF SummaryDescribesFlash, SummaryMirrorsCapture

\* Steps that leave capture and flash alone, and go to no place that promises
\* more of them.
LEMMA StaySummary ==
  ASSUME SummaryInvariant, UNCHANGED <<capture, files, summary>>,
         \/ pc' \notin {"clear", "summary", "write"}
         \/ pc' = pc /\ clearing' = clearing
         \/ pc' = "clear" /\ clearing' = 0
  PROVE  SummaryInvariant'
<1>2. SummaryDescribesFlash' /\ SummaryMirrorsCapture'
  BY DEF SummaryInvariant, SummaryDescribesFlash, SummaryMirrorsCapture
<1>3. FlashInv'
  <2>1. CASE pc' \notin {"clear", "summary", "write"}
    BY <2>1 DEF SummaryInvariant, FlashInv, FilesMatch
  <2>2. CASE pc' = pc /\ clearing' = clearing
    BY <2>2 DEF SummaryInvariant, FlashInv, FilesMatch, BaudFileAt
  <2>3. CASE pc' = "clear" /\ clearing' = 0
    <3>1. \A i \in Bauds : ~(0 > BaudFileAt(i))
      BY DEF BaudFileAt, Bauds
    <3> QED
      BY <2>3, <3>1 DEF SummaryInvariant, FlashInv, FilesMatch, SummaryAt, BaudFileAt
  <2> QED
    BY <2>1, <2>2, <2>3
<1> QED
  BY <1>2, <1>3 DEF SummaryInvariant

LEMMA ClearSummary == ASSUME IndInv, SummaryInvariant, ClearFile PROVE SummaryInvariant'
<1>1. /\ pc = "clear" /\ pc' = "clear" /\ clearing \in Nat /\ clearing' = clearing + 1
      /\ ~capture.active /\ capture' = capture
      /\ summary' = IF clearing = 0 THEN NoSummary ELSE summary
      /\ files' = [i \in Bauds |-> IF clearing = BaudFileAt(i) THEN NoFile ELSE files[i]]
  BY Context, ConstantTypes DEF ClearFile, captureVars, TypeOK, SummaryAt
<1>2. summary'.kind = "absent"
  BY <1>1 DEF SummaryInvariant, FlashInv, SummaryAt, NoSummary
<1>3. SummaryDescribesFlash' /\ SummaryMirrorsCapture'
  BY <1>2 DEF SummaryDescribesFlash, SummaryMirrorsCapture
<1>4. \A i \in Bauds : clearing' > BaudFileAt(i) => files'[i] = NoFile
  BY <1>1 DEF SummaryInvariant, FlashInv, BaudFileAt, Bauds
<1>5. FlashInv'
  BY <1>1, <1>2, <1>4 DEF SummaryInvariant, FlashInv, BaudFileAt
<1> QED
  BY <1>3, <1>5 DEF SummaryInvariant

\* A file that was opened is empty and of this sweep; one that was not is as the
\* removals left it.
LEMMA FilesBegun ==
  ASSUME NEW opened \in BOOLEAN, NEW i \in Bauds, NEW sweep \in Nat,
         IndInv, files[i] = NoFile
  PROVE  /\ FilesFrom(opened, i, sweep)[i].size = 0
         /\ FilesFrom(opened, i, sweep)[i].sweep \in {0, sweep}
         /\ \A j \in Bauds \ {i} : FilesFrom(opened, i, sweep)[j] = files[j]
BY Context DEF FilesFrom, NoFile, TypeOK

LEMMA BeginSummary ==
  ASSUME IndInv, SummaryInvariant, NEW arg \in SecondsArgs \cup {DefaultSeconds}, BeginSweep(arg)
  PROVE  SummaryInvariant'
<1>1. /\ pc = "clear" /\ clearing = BaudCount + 3 /\ pc' = "capture"
      /\ capture'.active /\ ~capture'.completed /\ capture'.baudIndex = 0 /\ 0 \in Bauds
      /\ capture'.sweep = sweeps + 1 /\ summary' = summary
      /\ \E opened \in BOOLEAN :
              /\ files' = FilesFrom(opened, 0, sweeps + 1)
              /\ capture'.results = [i \in Bauds |-> IF i = 0 THEN FirstResult(opened) ELSE NoResult]
  BY BeginSweepFields
<1>2. PICK opened \in BOOLEAN :
              /\ files' = FilesFrom(opened, 0, sweeps + 1)
              /\ capture'.results = [i \in Bauds |-> IF i = 0 THEN FirstResult(opened) ELSE NoResult]
  BY <1>1
<1>3. sweeps + 1 \in Nat /\ sweeps + 1 # 0
  BY Context DEF TypeOK
<1>4. (\A i \in Bauds : files[i] = NoFile) /\ summary.kind = "absent"
  BY <1>1, ConstantTypes DEF SummaryInvariant, FlashInv, BaudFileAt, SummaryAt, Bauds
<1>5. /\ files'[0].size = 0 /\ files'[0].sweep \in {0, sweeps + 1}
      /\ \A i \in Bauds \ {0} : files'[i] = NoFile
  BY <1>1, <1>2, <1>3, <1>4, FilesBegun
<1>6. FilesMatch'
  BY <1>1, <1>2, <1>5, FirstResultFields DEF FilesMatch, NoResult, NoFile
<1>7. /\ \A i \in Bauds : i <= 0 => capture'.results[i].begun
      /\ \A i \in Bauds : i > 0 => files'[i] = NoFile
  BY <1>2, <1>5, FirstResultFields DEF Bauds
<1>8. FlashInv'
  BY <1>1, <1>3, <1>4, <1>6, <1>7 DEF FlashInv
<1> QED
  BY <1>1, <1>4, <1>8 DEF SummaryInvariant, SummaryDescribesFlash, SummaryMirrorsCapture

LEMMA NextBaudSummary == ASSUME IndInv, SummaryInvariant, NextBaud PROVE SummaryInvariant'
<1> DEFINE b == capture.baudIndex
<1>1. /\ capture.active /\ pc' = "stream" /\ b \in Bauds /\ b + 1 \in Bauds
      /\ capture'.active /\ capture'.completed = capture.completed
      /\ capture'.baudIndex = b + 1 /\ capture'.sweep = capture.sweep /\ summary' = summary
      /\ \E opened \in BOOLEAN :
           /\ files' = FilesFrom(opened, b + 1, capture.sweep)
           /\ capture'.results = [capture.results EXCEPT ![b] = ClosedResult,
                                                         ![b + 1] = FirstResult(opened)]
  BY NextBaudFields
<1>2. PICK opened \in BOOLEAN :
           /\ files' = FilesFrom(opened, b + 1, capture.sweep)
           /\ capture'.results = [capture.results EXCEPT ![b] = ClosedResult,
                                                         ![b + 1] = FirstResult(opened)]
  BY <1>1
<1>3. b \in Nat /\ capture.sweep \in Nat
  BY <1>1, Context DEF Bauds, TypeOK, CaptureState
<1>4. /\ summary.kind = "absent" /\ FilesMatch /\ capture.sweep # 0 /\ ~capture.completed
      /\ \A i \in Bauds : i <= b => capture.results[i].begun
      /\ \A i \in Bauds : i > b => files[i] = NoFile
  BY <1>1 DEF SummaryInvariant, FlashInv
<1>5. /\ files'[b + 1].size = 0 /\ files'[b + 1].sweep \in {0, capture.sweep}
      /\ \A i \in Bauds \ {b + 1} : files'[i] = files[i]
  <2>1. files[b + 1] = NoFile
    BY <1>1, <1>3, <1>4
  <2> QED
    BY <1>1, <1>2, <1>3, <2>1, FilesBegun
<1>6. /\ capture'.results[b] = ClosedResult /\ capture'.results[b + 1] = FirstResult(opened)
      /\ \A i \in Bauds \ {b, b + 1} : capture'.results[i] = capture.results[i]
  BY <1>1, <1>2, <1>3, ResultTypes
<1>7. \A i \in Bauds \ {b + 1} : /\ capture'.results[i].stored = capture.results[i].stored
                                 /\ capture'.results[i].begun = capture.results[i].begun
  BY <1>1, <1>6, ClosedResultFields
<1>8. FilesMatch'
  BY <1>1, <1>4, <1>5, <1>6, <1>7, FirstResultFields DEF FilesMatch
<1>9. /\ \A i \in Bauds : i <= b + 1 => capture'.results[i].begun
      /\ \A i \in Bauds : i > b + 1 => files'[i] = NoFile
  BY <1>1, <1>3, <1>4, <1>5, <1>6, <1>7, FirstResultFields DEF Bauds
<1>10. FlashInv'
  BY <1>1, <1>4, <1>8, <1>9 DEF FlashInv
<1> QED
  BY <1>1, <1>4, <1>10 DEF SummaryInvariant, SummaryDescribesFlash, SummaryMirrorsCapture

LEMMA DrainSummary == ASSUME IndInv, SummaryInvariant, DrainCapture PROVE SummaryInvariant'
<1> DEFINE b == capture.baudIndex
<1>1. /\ capture.active /\ pc = "capture" /\ pc' = pc /\ b \in Bauds
      /\ capture'.active /\ capture'.completed = capture.completed
      /\ capture'.baudIndex = b /\ capture'.sweep = capture.sweep /\ summary' = summary
      /\ \E received \in Nat \ {0} : \E w \in 0..Writing(received) :
           /\ capture'.results = [capture.results EXCEPT
                ![b] = [Current EXCEPT !.stored = @ + w, !.lossy = @ \/ w < Writing(received)]]
           /\ files' = [files EXCEPT ![b].size = @ + w]
  BY DrainFields
<1>2. PICK received \in Nat \ {0} : \E w \in 0..Writing(received) :
           /\ capture'.results = [capture.results EXCEPT
                ![b] = [Current EXCEPT !.stored = @ + w, !.lossy = @ \/ w < Writing(received)]]
           /\ files' = [files EXCEPT ![b].size = @ + w]
  BY <1>1
<1>3. PICK w \in 0..Writing(received) :
           /\ capture'.results = [capture.results EXCEPT
                ![b] = [Current EXCEPT !.stored = @ + w, !.lossy = @ \/ w < Writing(received)]]
           /\ files' = [files EXCEPT ![b].size = @ + w]
  BY <1>2
<1>4. /\ summary.kind = "absent" /\ FilesMatch /\ capture.sweep # 0 /\ ~capture.completed
      /\ \A i \in Bauds : i <= b => capture.results[i].begun
      /\ \A i \in Bauds : i > b => files[i] = NoFile
  BY <1>1 DEF SummaryInvariant, FlashInv
<1>5. /\ capture'.results[b].stored = capture.results[b].stored + w
      /\ capture'.results[b].begun = capture.results[b].begun
      /\ \A i \in Bauds \ {b} : capture'.results[i] = capture.results[i]
  <2>1. Current \in BaudResult /\ Current = capture.results[b]
    BY <1>1, ClosedResultFields
  <2> DEFINE short == Current.lossy \/ w < Writing(received)
             r == [Current EXCEPT !.stored = @ + w, !.lossy = short]
  <2>2. capture'.results = [capture.results EXCEPT ![b] = r]
    BY <1>3
  <2> HIDE DEF short
  <2>3. r.stored = Current.stored + w /\ r.begun = Current.begun
    BY <2>1 DEF BaudResult
  <2>4. capture.results \in [Bauds -> BaudResult] /\ b \in Bauds
    BY <1>1, ResultTypes
  <2> HIDE DEF r
  <2>5. capture'.results[b] = r /\ \A i \in Bauds \ {b} : capture'.results[i] = capture.results[i]
    BY <2>2, <2>4
  <2> QED
    BY <2>1, <2>3, <2>5
<1>6. /\ files'[b].size = files[b].size + w /\ files'[b].sweep = files[b].sweep
      /\ \A i \in Bauds \ {b} : files'[i] = files[i]
  BY <1>1, <1>3, Context DEF TypeOK
<1>7. FilesMatch'
  BY <1>1, <1>4, <1>5, <1>6 DEF FilesMatch
<1>8. /\ \A i \in Bauds : i <= b => capture'.results[i].begun
      /\ \A i \in Bauds : i > b => files'[i] = NoFile
  BY <1>1, <1>4, <1>5, <1>6 DEF Bauds
<1>9. FlashInv'
  BY <1>1, <1>4, <1>7, <1>8 DEF FlashInv
<1> QED
  BY SMTT(60), <1>1, <1>4, <1>9 DEF SummaryInvariant, SummaryDescribesFlash, SummaryMirrorsCapture

LEMMA EndSummary ==
  ASSUME IndInv, SummaryInvariant, FinishCapture \/ HandleStopCapture
  PROVE  SummaryInvariant'
<1> DEFINE b == capture.baudIndex
<1>1. /\ capture.active /\ ~capture'.active /\ pc' = "summary" /\ b \in Bauds
      /\ files' = files /\ summary' = summary /\ capture'.sweep = capture.sweep
      /\ capture'.results = [capture.results EXCEPT ![b] = ClosedResult]
      /\ capture'.completed => b + 1 = BaudCount
  BY EndFields
<1>2. /\ summary.kind = "absent" /\ FilesMatch /\ capture.sweep # 0
      /\ \A i \in Bauds : i <= b => capture.results[i].begun
  BY <1>1 DEF SummaryInvariant, FlashInv
<1>3. \A i \in Bauds : /\ capture'.results[i].stored = capture.results[i].stored
                       /\ capture'.results[i].begun = capture.results[i].begun
  BY <1>1, ResultTypes, ClosedResultFields
<1>4. FilesMatch'
  BY <1>1, <1>2, <1>3 DEF FilesMatch
<1>5. capture'.completed => \A i \in Bauds : capture'.results[i].begun
  BY <1>1, <1>2, <1>3, ConstantTypes DEF Bauds
<1>6. FlashInv'
  BY <1>1, <1>2, <1>4, <1>5 DEF FlashInv
<1> QED
  BY <1>1, <1>2, <1>6 DEF SummaryInvariant, SummaryDescribesFlash, SummaryMirrorsCapture

LEMMA WriteSummaryKeeps ==
  ASSUME IndInv, SummaryInvariant, OpenSummary \/ WriteSummary
  PROVE  SummaryInvariant'
<1>1. /\ capture' = capture /\ files' = files /\ ~capture.active
      /\ capture.completed => \A i \in Bauds : capture.results[i].begun
  BY Context DEF OpenSummary, WriteSummary, captureVars, SummaryInvariant, FlashInv
<1>2. FilesMatch /\ capture.sweep # 0 /\ FilesMatch'
  BY <1>1 DEF OpenSummary, WriteSummary, SummaryInvariant, FlashInv, FilesMatch
<1>3. CASE summary' = [kind |-> "ok", doc |-> DocOf(capture)] /\ pc' = "capture"
  BY <1>1, <1>2, <1>3 DEF SummaryInvariant, FlashInv, SummaryDescribesFlash,
     SummaryMirrorsCapture, DocOf, FilesMatch
<1>4. CASE summary'.kind # "ok" /\ (pc' = "write" => summary'.kind = "torn")
             /\ pc' \in {"write", "capture"}
  BY <1>1, <1>2, <1>4 DEF SummaryInvariant, FlashInv, SummaryDescribesFlash,
     SummaryMirrorsCapture
<1>5. summary.kind # "ok"
  BY DEF OpenSummary, WriteSummary, SummaryInvariant, FlashInv
<1> QED
  BY <1>3, <1>4, <1>5 DEF OpenSummary, WriteSummary, NoSummary

LEMMA RestartSummary == ASSUME IndInv, SummaryInvariant, Restart PROVE SummaryInvariant'
<1>1. /\ capture' = NoCapture /\ pc' = "http"
      /\ \/ summary'.kind = "absent"
         \/ summary' = summary /\ (files' = files \/ capture.output)
  BY DEF Restart, NoSummary
<1>2. capture.output => summary.kind = "absent"
  BY Context DEF SummaryInvariant, FlashInv
<1>3. summary'.kind = "absent" \/ (summary' = summary /\ files' = files)
  BY <1>1, <1>2
<1> QED
  BY <1>1, <1>3 DEF SummaryInvariant, FlashInv, NoCapture, SummaryDescribesFlash,
     SummaryMirrorsCapture

LEMMA NextSummary == ASSUME IndInv, SummaryInvariant, [Next]_vars PROVE SummaryInvariant'
<1>1. CASE UNCHANGED vars
  BY <1>1, StaySummary DEF vars, captureVars, flashVars
<1>2. CASE IdleStep \/ AcceptClient
  BY <1>2, StaySummary DEF IdleStep, HandleNothing, CaptureIdle, DrainDone, ContinueSample,
     StreamIdle, PumpDone, HandleStartCapture, AcceptClient, captureVars, flashVars
<1>3. CASE HandleStopLiveStream \/ PumpStream \/ (\E b \in StreamBauds : HandleStartLiveStream(b))
  BY <1>3, StaySummary DEF HandleStopLiveStream, HandleStartLiveStream, PumpStream,
     captureVars, flashVars
<1>4. CASE Receive \/ Connect \/ Disconnect
  BY <1>4, StaySummary DEF Receive, Connect, Disconnect, captureVars, flashVars
<1>5. ASSUME NEW d, HandleScan(d) \/ LoopDelay(d) PROVE SummaryInvariant'
  BY <1>5, StaySummary DEF HandleScan, LoopDelay, flashVars
<1> QED
  BY <1>1, <1>2, <1>3, <1>4, <1>5, ClearSummary, BeginSummary, NextBaudSummary, DrainSummary,
     EndSummary, WriteSummaryKeeps, RestartSummary
     DEF Next, Loop, Request, ServiceCapture, ServiceStream, World, IdleStep

LEMMA SummaryKept == Spec => [](IndInv /\ SummaryInvariant)
<1>1. Init => SummaryInvariant
  BY DEF Init, InitState, NoCapture, NoSummary, SummaryInvariant, FlashInv,
     SummaryDescribesFlash, SummaryMirrorsCapture
<1>2. IndInv /\ SummaryInvariant /\ [Next]_vars => SummaryInvariant'
  BY NextSummary
<1> QED
  BY <1>1, <1>2, Invariance, PTL DEF Spec

\* Whatever power cut, short write or failed open came before: a whole summary
\* lists the files that are there, with their sizes, and calls a sweep completed
\* only if every baud was sampled.
THEOREM SummaryIsTrue == Spec => []SummaryDescribesFlash
<1>1. SummaryInvariant => SummaryDescribesFlash
  BY DEF SummaryInvariant
<1> QED
  BY <1>1, SummaryKept, PTL

\* handleSummary may prefer the file: it says what the memory would say.
THEOREM SummaryIsTheStates == Spec => []SummaryMirrorsCapture
<1>1. SummaryInvariant => SummaryMirrorsCapture
  BY DEF SummaryInvariant
<1> QED
  BY <1>1, SummaryKept, PTL

-----------------------------------------------------------------------------
(* The abstract service *)

LEMMA PublishedIs ==
  /\ summary.kind = "absent" => Published = "none"
  /\ summary.kind = "torn" => Published = "damaged"
  /\ summary.kind = "ok" => Published = Ending(summary.doc.completed)
BY DEF Published

\* What the service sees depends on these alone.
SameService ==
  /\ capture'.active = capture.active /\ capture'.completed = capture.completed
  /\ capture'.baudIndex = capture.baudIndex /\ capture'.sweep = capture.sweep
  /\ stream'.active = stream.active /\ summary' = summary

LEMMA SameIsInvisible == ASSUME SameService PROVE UNCHANGED Service!vars
BY DEF SameService, Service!vars, Mode, Verdict, Published, Ending

LEMMA ClearIsWithdraw ==
  ASSUME IndInv, SummaryInvariant, ClearFile PROVE [Service!Next]_(Service!vars)
<1>1. ~capture.active /\ ~stream.active /\ UNCHANGED <<capture, stream>>
  BY Context DEF ClearFile, captureVars, streamVars
<1>2. CASE summary' = summary
  BY <1>1, <1>2, SameIsInvisible DEF SameService
<1>3. CASE summary' = NoSummary
  <2>1. summary'.kind = "absent"
    BY <1>3 DEF NoSummary
  <2>2. Published' = "none"
    BY <2>1 DEF Published
  <2>3. Mode = "idle" /\ Mode' = Mode /\ Verdict' = Verdict /\ capture'.baudIndex = capture.baudIndex
    BY <1>1 DEF Mode, Verdict, Ending
  <2> QED
    BY <2>2, <2>3 DEF Service!Next, Service!Withdraw
<1> QED
  BY <1>2, <1>3 DEF ClearFile

LEMMA BeginIsStart ==
  ASSUME IndInv, SummaryInvariant, NEW arg \in SecondsArgs \cup {DefaultSeconds}, BeginSweep(arg)
  PROVE  Service!StartSweep
<1>1. /\ pc = "clear" /\ clearing = BaudCount + 3 /\ ~capture.active /\ ~stream.active
      /\ capture'.active /\ capture'.baudIndex = 0 /\ summary' = summary
  BY BeginSweepFields
<1>2. summary.kind = "absent"
  BY <1>1, ConstantTypes DEF SummaryInvariant, FlashInv, SummaryAt
<1>3. Published = "none" /\ Published' = Published
  BY <1>1, <1>2 DEF Published, Ending
<1> QED
  BY <1>1, <1>3 DEF Service!StartSweep, Mode, Verdict

LEMMA NextIsFinishSample ==
  ASSUME IndInv, SummaryInvariant, NextBaud PROVE Service!FinishSample
<1>1. /\ capture.active /\ capture'.active /\ capture'.baudIndex = capture.baudIndex + 1
      /\ capture.baudIndex + 1 < BaudCount /\ summary' = summary
  BY NextBaudFields, ConstantTypes DEF Bauds
<1>2. Published' = Published
  BY <1>1 DEF Published, Ending
<1> QED
  BY <1>1, <1>2 DEF Service!FinishSample, Mode, Verdict

LEMMA EndIsFinishOrStop ==
  ASSUME IndInv, SummaryInvariant, FinishCapture \/ HandleStopCapture
  PROVE  Service!FinishSweep \/ Service!StopSweep
<1>1. /\ capture.active /\ ~stream.active /\ ~capture'.active /\ stream' = stream
      /\ summary' = summary /\ capture'.sweep = capture.sweep
      /\ \/ /\ capture'.completed /\ capture'.baudIndex = BaudCount
            /\ capture.baudIndex + 1 = BaudCount
         \/ ~capture'.completed /\ capture'.baudIndex = capture.baudIndex
  BY EndFields
<1>2. capture'.sweep # 0
  BY <1>1 DEF SummaryInvariant, FlashInv
<1>3. Published' = Published /\ Mode = "sweep" /\ Mode' = "idle"
      /\ Verdict' = IF capture'.completed THEN "complete" ELSE "partial"
  BY <1>1, <1>2 DEF Published, Ending, Mode, Verdict
<1> QED
  BY <1>1, <1>3 DEF Service!FinishSweep, Service!StopSweep

LEMMA SummaryIsPublish ==
  ASSUME IndInv, SummaryInvariant, OpenSummary \/ WriteSummary
  PROVE  [Service!Next]_(Service!vars)
<1>1. /\ ~capture.active /\ ~stream.active /\ UNCHANGED <<capture, stream>>
  BY Context DEF OpenSummary, WriteSummary, captureVars, streamVars
<1>2. CASE summary' = summary
  BY <1>1, <1>2, SameIsInvisible DEF SameService
<1>3. CASE summary'.kind = "torn" \/ summary' = [kind |-> "ok", doc |-> DocOf(capture)]
  <2>1. capture.sweep # 0 /\ summary.kind \in {"absent", "torn"}
    BY DEF OpenSummary, WriteSummary, SummaryInvariant, FlashInv
  <2>2. Published \in {"none", "damaged"}
    BY <2>1 DEF Published
  <2>3. /\ Mode = "idle" /\ Mode' = Mode /\ Verdict' = Verdict
        /\ Verdict = Ending(capture.completed) /\ Verdict # "none"
        /\ capture'.baudIndex = capture.baudIndex
    BY <1>1, <2>1 DEF Mode, Verdict, Ending
  <2>4. CASE summary'.kind = "torn"
    <3>1. Published' = "damaged"
      BY <2>4 DEF Published
    <3> QED
      BY <2>2, <2>3, <3>1 DEF Service!Next, Service!Publish
  <2>5. CASE summary' = [kind |-> "ok", doc |-> DocOf(capture)]
    <3>1. summary'.kind = "ok" /\ summary'.doc.completed = capture.completed
      BY <2>5 DEF DocOf
    <3>2. Published' = Ending(capture.completed)
      BY <3>1 DEF Published, Ending
    <3> QED
      BY <2>2, <2>3, <3>2 DEF Service!Next, Service!Publish
  <2> QED
    BY <1>3, <2>4, <2>5
<1> QED
  BY <1>2, <1>3 DEF OpenSummary, WriteSummary, NoSummary

LEMMA RestartIsPowerCut ==
  ASSUME IndInv, SummaryInvariant, Restart PROVE Service!PowerCut
<1>1. /\ ~capture'.active /\ ~stream'.active /\ capture'.baudIndex = 0 /\ capture'.sweep = 0
      /\ summary' = summary \/ summary' = NoSummary
  BY DEF Restart, NoCapture, NoStream
<1>2. Published' \in {Published, "none"}
  <2>1. CASE summary' = summary
    BY <2>1 DEF Published, Ending
  <2>2. CASE summary' = NoSummary
    <3>1. summary'.kind = "absent"
      BY <2>2 DEF NoSummary
    <3> QED
      BY <3>1 DEF Published
  <2> QED
    BY <1>1, <2>1, <2>2
<1> QED
  BY <1>1, <1>2 DEF Service!PowerCut, Mode, Verdict

LEMMA NextIsOfService ==
  ASSUME IndInv, SummaryInvariant, [Next]_vars PROVE [Service!Next]_(Service!vars)
<1>1. CASE UNCHANGED vars
  BY <1>1, SameIsInvisible DEF vars, captureVars, streamVars, flashVars, SameService
<1>2. CASE IdleStep \/ Receive \/ Connect \/ Disconnect
  BY <1>2, SameIsInvisible DEF IdleStep, HandleNothing, CaptureIdle, DrainDone, ContinueSample,
     StreamIdle, PumpDone, HandleStartCapture, Receive, Connect, Disconnect, captureVars,
     streamVars, flashVars, SameService
<1>3. CASE AcceptClient \/ PumpStream
  <2>1. stream \in StreamState
    BY Context DEF TypeOK
  <2> QED
    BY <1>3, <2>1, SameIsInvisible DEF AcceptClient, KeepClient, NobodyWaits, TakeWaiting,
       PumpStream, StreamState, captureVars, streamVars, flashVars, SameService
<1>4. ASSUME NEW d, HandleScan(d) \/ LoopDelay(d) PROVE UNCHANGED Service!vars
  BY SMTT(60), <1>4, SameIsInvisible DEF HandleScan, LoopDelay, streamVars, flashVars, SameService
<1>5. CASE DrainCapture
  BY <1>5, DrainFields, SameIsInvisible DEF SameService
<1>6. ASSUME NEW b, HandleStartLiveStream(b) PROVE Service!StartStream
  <2>1. ~capture.active /\ ~stream.active /\ stream'.active /\ UNCHANGED <<capture, summary>>
    BY <1>6 DEF HandleStartLiveStream, NoStream, captureVars, flashVars
  <2> QED
    BY <2>1 DEF Service!StartStream, Mode, Verdict, Published, Ending
<1>7. CASE HandleStopLiveStream
  <2>1. ~capture.active /\ stream.active /\ ~stream'.active /\ UNCHANGED <<capture, summary>>
    BY <1>7, Context DEF HandleStopLiveStream, TypeOK, StreamState, captureVars, flashVars
  <2> QED
    BY <2>1 DEF Service!Next, Service!StopStream, Mode, Verdict, Published, Ending
<1> QED
  BY <1>1, <1>2, <1>3, <1>4, <1>5, <1>6, <1>7, ClearIsWithdraw, BeginIsStart,
     NextIsFinishSample, EndIsFinishOrStop, SummaryIsPublish, RestartIsPowerCut
     DEF Next, Loop, Request, ServiceCapture, ServiceStream, World, IdleStep,
         Service!Next, Service!Advance

\* The firmware implements the safety part of ProbeService: every step that its
\* HTTP clients can see is one of the service, power cuts included.
THEOREM FirmwareKeepsTheService == Spec => Service!Init /\ [][Service!Next]_(Service!vars)
<1>1. Init => Service!Init
  BY DEF Init, InitState, NoCapture, NoStream, NoSummary, Service!Init, Mode, Verdict, Published
<1>2. IndInv /\ SummaryInvariant /\ [Next]_vars => [Service!Next]_(Service!vars)
  BY NextIsOfService
<1> QED
  BY <1>1, <1>2, SummaryKept, PTL DEF Spec

-----------------------------------------------------------------------------
(* The bridge *)

\* The bytes that the last client got are consecutive, and none is beyond what
\* was read while it is served.
GapInv ==
  /\ ClientSeesNoGap
  /\ client = "up" => \A g \in got : g <= stream.read

LEMMA StayGap ==
  ASSUME GapInv, UNCHANGED <<stream, got>>, client' = "up" => client = "up"
  PROVE  GapInv'
BY DEF GapInv, ClientSeesNoGap

\* The positions of one write.
LEMMA WrittenPositions ==
  ASSUME NEW r \in 0..ByteCap, NEW n \in Nat \ {0}, NEW w \in 0..n
  PROVE  LET new == {Cap(r + k) : k \in 1..w}
         IN /\ \A g \in new : g \in Nat /\ g >= r /\ g <= Cap(r + n)
            /\ \A g \in new, c \in Nat : r < c /\ c <= g => c \in new
            /\ w = n => Cap(r + n) \in new
<1> DEFINE new == {Cap(r + k) : k \in 1..w}
<1>1. \A g \in new : g \in Nat /\ g >= r /\ g <= Cap(r + n)
  BY ConstantTypes DEF Cap, Lesser
<1>2. ASSUME NEW g \in new, NEW c \in Nat, r < c, c <= g PROVE c \in new
  <2>1. PICK k \in 1..w : g = Cap(r + k)
    OBVIOUS
  <2>2. c - r \in 1..w /\ Cap(r + (c - r)) = c
    BY <1>2, <2>1, ConstantTypes DEF Cap, Lesser
  <2> QED
    BY <2>2
<1>3. w = n => Cap(r + n) \in new
  OBVIOUS
<1> QED
  BY <1>1, <1>2, <1>3

LEMMA CapGrows ==
  ASSUME NEW r \in 0..ByteCap, NEW s \in 0..r, NEW n \in Nat, NEW w \in 0..n
  PROVE  Cap(r + n) >= r /\ Cap(r + n) \in Nat /\ Cap(s + w) <= Cap(r + n)
BY ConstantTypes DEF Cap, Lesser

LEMMA PumpGap == ASSUME IndInv, GapInv, PumpStream PROVE GapInv'
<1> DEFINE n == Lesser(Len(uart.ring), StreamChunk)
           r == stream.read
<1>1. /\ stream \in StreamState /\ r \in 0..ByteCap /\ stream.sent \in 0..ByteCap
      /\ got \subseteq 1..ByteCap /\ n \in Nat \ {0}
  <2>1. uart.ring \in Seq(Bauds) /\ uart.ring # <<>>
    BY Context DEF PumpStream, TypeOK
  <2>2. Len(uart.ring) \in Nat \ {0}
    BY <2>1, EmptySeq
  <2>3. n \in Nat \ {0}
    BY <2>2, ConstantTypes DEF Lesser
  <2> QED
    BY <2>3, Context DEF TypeOK, StreamState
<1>2. /\ \A a, b \in got : \A c \in a..b : c \in got
      /\ client = "up" /\ got # {} => r \in got
      /\ client = "up" => \A g \in got : g <= r
      /\ stream.sent <= r
  BY DEF GapInv, ClientSeesNoGap
<1>3. CASE client # "up" /\ stream' = [stream EXCEPT !.read = Cap(@ + n)] /\ UNCHANGED <<client, got>>
  <2>1. stream'.read = Cap(r + n) /\ stream'.sent = stream.sent /\ Cap(r + n) >= r
    BY SMTT(60), <1>1, <1>3, ConstantTypes DEF StreamState, Cap, Lesser
  <2>2. stream'.sent <= stream'.read
    BY <1>1, <1>2, <2>1, CapSum
  <2> QED
    BY <1>2, <1>3, <2>2 DEF GapInv, ClientSeesNoGap
<1>4. ASSUME client = "up", NEW w \in 0..n,
             stream' = [stream EXCEPT !.read = Cap(@ + n), !.sent = Cap(@ + w)],
             got' = got \cup {Cap(r + k) : k \in 1..w},
             client' = ClientAfterWrite(w, n)
      PROVE  GapInv'
  <2> DEFINE new == {Cap(r + k) : k \in 1..w}
  <2>1. /\ \A g \in new : g \in Nat /\ g >= r /\ g <= Cap(r + n)
        /\ \A g \in new, c \in Nat : r < c /\ c <= g => c \in new
        /\ w = n => Cap(r + n) \in new
    BY <1>1, WrittenPositions
  <2>2. stream'.read = Cap(r + n) /\ stream'.sent = Cap(stream.sent + w) /\ Cap(r + n) >= r
        /\ Cap(r + n) \in Nat /\ Cap(stream.sent + w) <= Cap(r + n)
    <3>1. stream'.read = Cap(r + n) /\ stream'.sent = Cap(stream.sent + w)
      BY <1>1, <1>4 DEF StreamState
    <3>2. /\ Cap(r + n) >= r /\ Cap(r + n) \in Nat /\ Cap(stream.sent + w) <= Cap(r + n)
      <4>1. stream.sent \in 0..r
        BY <1>1, <1>2
      <4> QED
        BY <1>1, <4>1, CapGrows
    <3> QED
      BY <3>1, <3>2
  <2>3. got' = got \cup new
    BY <1>4
  <2> HIDE DEF new
  <2>4. ASSUME NEW a \in got', NEW b \in got', NEW c \in a..b PROVE c \in got'
    <3>1. a \in Nat /\ b \in Nat /\ c \in Nat /\ a <= c /\ c <= b
      BY <1>1, <2>1, <2>3
    <3>2. CASE c <= r
      <4>1. CASE got = {}
        BY <1>1, <2>1, <2>3, <3>1, <3>2, <4>1
      <4>2. CASE got # {}
        <5>1. r \in got
          BY <1>2, <1>4, <4>2
        <5>2. CASE a \in got
          BY <1>1, <1>2, <2>3, <3>1, <3>2, <5>1, <5>2
        <5>3. CASE a \in new
          BY <1>1, <2>1, <2>3, <3>1, <3>2, <5>1, <5>3
        <5> QED
          BY <2>3, <5>2, <5>3
      <4> QED
        BY <4>1, <4>2
    <3>3. CASE c > r
      <4>1. b \in new
        BY <1>1, <1>2, <1>4, <2>3, <3>1, <3>3
      <4> QED
        BY <1>1, <2>1, <2>3, <3>1, <3>3, <4>1
    <3> QED
      BY <1>1, <3>1, <3>2, <3>3
  <2>5. client' = "up" => stream'.read \in got'
    BY <1>4, <2>1, <2>2, <2>3 DEF ClientAfterWrite
  <2>6. \A g \in got' : g <= stream'.read
    BY <1>1, <1>2, <1>4, <2>1, <2>2, <2>3
  <2> QED
    BY <2>2, <2>4, <2>5, <2>6 DEF GapInv, ClientSeesNoGap
<1> QED
  BY <1>3, <1>4 DEF PumpStream, TcpWrites

LEMMA NextGap == ASSUME IndInv, GapInv, [Next]_vars PROVE GapInv'
<1>1. CASE UNCHANGED vars
  BY <1>1, StayGap DEF vars, streamVars
<1>2. CASE IdleStep \/ Connect \/ Disconnect \/ Receive
  BY SMTT(60), <1>2, StayGap DEF IdleStep, HandleNothing, CaptureIdle, DrainDone, ContinueSample,
     StreamIdle, PumpDone, HandleStartCapture, Connect, Disconnect, Receive, streamVars
<1>3. CASE ClearFile \/ DrainCapture \/ NextBaud \/ FinishCapture \/ HandleStopCapture
             \/ OpenSummary \/ WriteSummary
  BY ZenonT(60), <1>3, StayGap DEF ClearFile, DrainCapture, NextBaud, FinishCapture, HandleStopCapture,
     OpenSummary, WriteSummary, streamVars
<1>4. ASSUME NEW d, HandleScan(d) \/ LoopDelay(d) \/ BeginSweep(d) PROVE GapInv'
  BY <1>4, StayGap DEF HandleScan, LoopDelay, BeginSweep, streamVars
<1>5. ASSUME NEW b, HandleStartLiveStream(b) PROVE GapInv'
  <2>1. /\ client' = client /\ client # "up" /\ got' = got
        /\ stream'.read = 0 /\ stream'.sent = 0
    BY <1>5 DEF HandleStartLiveStream, NoStream, IndInv, SerialPortHasOneUser
  <2> QED
    BY <2>1 DEF GapInv, ClientSeesNoGap
<1>6. CASE HandleStopLiveStream
  <2>1. stream \in StreamState
    BY Context DEF TypeOK
  <2>2. /\ client' = "none" /\ got' = got
        /\ stream'.read = stream.read /\ stream'.sent = stream.sent
    BY <1>6, <2>1 DEF HandleStopLiveStream, StreamState
  <2> QED
    BY <2>2 DEF GapInv, ClientSeesNoGap
<1>7. CASE AcceptClient
  <2>1. CASE KeepClient \/ NobodyWaits
    BY <2>1, StayGap DEF KeepClient, NobodyWaits, streamVars
  <2>2. CASE TakeWaiting
    <3>1. stream \in StreamState
      BY Context DEF TypeOK
    <3>2. got' = {} /\ stream'.read = stream.read /\ stream'.sent = stream.sent
      BY <2>2, <3>1 DEF TakeWaiting, StreamState
    <3> QED
      BY <3>2 DEF GapInv, ClientSeesNoGap
  <2> QED
    BY <1>7, <2>1, <2>2 DEF AcceptClient
<1>8. CASE Restart
  BY <1>8 DEF Restart, NoStream, GapInv, ClientSeesNoGap
<1> QED
  BY <1>1, <1>2, <1>3, <1>4, <1>5, <1>6, <1>7, <1>8, PumpGap
     DEF Next, Loop, Request, ServiceCapture, ServiceStream, World, IdleStep

\* A client of port 2101 receives consecutive bytes of the stream, and all that
\* was read as long as it is served: for every chunk, ring and number of clients.
THEOREM NoGapForClients == Spec => []ClientSeesNoGap
<1>1. Init => GapInv
  BY DEF Init, InitState, NoStream, GapInv, ClientSeesNoGap
<1>2. IndInv /\ GapInv /\ [Next]_vars => GapInv'
  BY NextGap
<1>3. GapInv => ClientSeesNoGap
  BY DEF GapInv
<1> QED
  BY <1>1, <1>2, <1>3, Invariance, PTL DEF Spec
=============================================================================
