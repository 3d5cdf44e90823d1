---------------------------- MODULE ProbeFirmware ---------------------------
(***************************************************************************)
(* The whole firmware of src/main.cpp: setup() and loop() around the two   *)
(* users of the serial port, the HTTP handlers that start and stop them,   *)
(* and the world around it: bytes on the wire, TCP clients, power cuts.    *)
(***************************************************************************)
EXTENDS CaptureSweep, LiveStream

-----------------------------------------------------------------------------
(* handleClient: at most one request per turn of the loop *)

\* No request, a request refused with 400 or 409, or one that only reads:
\* status, summary, files, download.
HandleNothing ==
  /\ pc = "http"
  /\ pc' = "capture"
  /\ UNCHANGED <<clearing, captureVars, streamVars, analyzed, uart, led,
                 flashVars, sweeps>>

\* `d` milliseconds pass.  Only a running sample looks at the clock.
Pass(d) == age' = IF capture.active THEN age + d ELSE age

\* The Wi-Fi scan, the BLE scan and the port probe hold the loop until done.
HandleScan(d) ==
  /\ pc = "http"
  /\ Pass(d)
  /\ pc' = "capture"
  /\ UNCHANGED <<clearing, capture, drained, streamVars, analyzed, uart, led,
                 flashVars, sweeps>>

\* delay(1), with all the time the turn took.
LoopDelay(d) ==
  /\ pc = "delay"
  /\ Pass(d)
  /\ pc' = "http"
  /\ UNCHANGED <<clearing, capture, drained, streamVars, analyzed, uart, led,
                 flashVars, sweeps>>

-----------------------------------------------------------------------------
(* The world around the loop *)

\* A byte on RTK_RX_PIN.  The driver drops it when its ring is full.
Receive ==
  /\ uart.open /\ Len(uart.ring) < RxRing
  /\ uart' = PortReceive(uart)
  /\ UNCHANGED <<pc, clearing, captureVars, streamVars, analyzed, led,
                 flashVars, sweeps>>

Connect ==
  /\ waiting < MaxWaiting
  /\ waiting' = waiting + 1
  /\ UNCHANGED <<pc, clearing, captureVars, stream, client, got, analyzed,
                 uart, led, flashVars, sweeps>>

Disconnect ==
  /\ client = "up"
  /\ client' = "down"
  /\ UNCHANGED <<pc, clearing, captureVars, stream, waiting, got, analyzed,
                 uart, led, flashVars, sweeps>>

\* A power cut at any point, then setup().  A file that was open keeps what
\* had been committed of it, a prefix.  LittleFS.begin(true) formats the flash
\* when it cannot mount it.
Restart ==
  /\ pc' = "http" /\ clearing' = 0
  /\ capture' = NoCapture /\ stream' = NoStream
  /\ analyzed' = 0 /\ drained' = 0 /\ age' = 0 /\ got' = {}
  /\ uart' = PortClosed /\ client' = "none" /\ waiting' = 0 /\ led' = FALSE
  /\ \/ /\ IF capture.output
           THEN \E kept \in 0..files[capture.baudIndex].size :
                  files' = [files EXCEPT ![capture.baudIndex].size = kept]
           ELSE UNCHANGED files
        /\ UNCHANGED <<summary, obsolete>>
     \/ /\ files' = [i \in Bauds |-> NoFile]
        /\ summary' = NoSummary /\ obsolete' = {}
  /\ UNCHANGED sweeps

-----------------------------------------------------------------------------
Init == InitState

Request ==
  \/ HandleNothing
  \/ HandleStartCapture
  \/ HandleStopCapture
  \/ \E b \in StreamBauds : HandleStartLiveStream(b)
  \/ HandleStopLiveStream
  \/ \E d \in ScanDelays : HandleScan(d)

ServiceCapture ==
  \/ ClearFile
  \/ \E arg \in SecondsArgs \cup {DefaultSeconds} : BeginSweep(arg)
  \/ CaptureIdle \/ DrainCapture \/ DrainDone
  \/ ContinueSample \/ NextBaud \/ FinishCapture
  \/ OpenSummary \/ WriteSummary

ServiceStream == StreamIdle \/ AcceptClient \/ PumpStream \/ PumpDone

Loop == Request \/ ServiceCapture \/ ServiceStream
          \/ \E d \in LoopDelays : LoopDelay(d)

World == Receive \/ Connect \/ Disconnect \/ Restart

Next == Loop \/ World

Spec == Init /\ [][Next]_vars

\* loop() runs for ever.  The driver's ring is no longer than a chunk, so every
\* read empties it, and a chunk is analyzed in less time than the wire needs to
\* send one byte after another for ever: a drain loop that sees the ring empty
\* again and again ends.  The second holds of a pump only while its client takes
\* bytes as fast as they come: a write to a stalled client waits for the socket's
\* time-out, the ring fills meanwhile, and nothing here says when the drain ends.
\* Otherwise nothing is assumed of clients, and nothing of the wire.
Fairness ==
  /\ WF_vars(Loop)
  /\ SF_vars(DrainDone)
  /\ SF_vars(PumpDone)

FairSpec == Spec /\ Fairness

-----------------------------------------------------------------------------
(* Safety *)

\* The capture and the stream exclude each other (the 409 of both handlers),
\* and whichever is active owns the port at its own baud: no byte received at
\* another baud is ever waiting in the ring.  Client, file and LED belong to
\* the same owner.
SerialPortHasOneUser ==
  /\ ~(capture.active /\ stream.active)
  /\ uart.open <=> (capture.active \/ stream.active)
  /\ capture.active => capture.baudIndex < BaudCount /\ uart.baud = capture.baudIndex
  /\ stream.active => uart.baud = stream.baud
  /\ \A k \in 1..Len(uart.ring) : uart.ring[k] = uart.baud
  /\ capture.output => capture.active
  /\ client # "none" => stream.active
  /\ led <=> (capture.active \/ stream.active \/ pc \in {"summary", "write"})

\* The one analyzer counts exactly the bytes of the sample or of the stream
\* that is active, whatever it was fed before.
AnalyzerFollowsItsUser ==
  /\ capture.active => analyzed = drained
  /\ stream.active => analyzed = stream.read

\* A baud's file holds the first bytes that were heard at that baud, up to the
\* cap; only a failed open or a short write, which `lossy` records, leaves it
\* with fewer.
HeardOf(i) == IF capture.active /\ i = capture.baudIndex
              THEN analyzed ELSE capture.results[i].bytes

StoredIsAPrefix ==
  \A i \in Bauds :
    /\ capture.results[i].stored <= HeardOf(i)
    /\ capture.results[i].begun /\ ~capture.results[i].lossy =>
         capture.results[i].stored = Lesser(HeardOf(i), MaxCaptureBytes)

\* Whenever a whole /summary.json is on the flash, after any crash included,
\* the files it lists are there with the sizes it lists, and `completed` means
\* that every baud was sampled.
SummaryDescribesFlash ==
  summary.kind = "ok" =>
    \A i \in Bauds :
      /\ summary.doc.completed => summary.doc.results[i].begun
      /\ files[i].size = summary.doc.results[i].stored
      /\ files[i].sweep \in {0, summary.doc.sweep}

\* handleSummary prefers the file to the state in memory: within one power
\* cycle a whole file always says what the state would say.
SummaryMirrorsCapture ==
  capture.sweep # 0 /\ summary.kind = "ok" => summary.doc = DocOf(capture)

\* "New captures remove stale inbound LAN/TLS result files so they cannot be
\* confused with current acquisition evidence": no file of a sweep, and no
\* summary, is ever on the flash beside them.
NoStaleEvidence ==
  obsolete # {} =>
    summary.kind = "absent" /\ \A i \in Bauds : files[i] = NoFile

\* What the last client received is a run of consecutive stream bytes, and a
\* client that is still served has it up to the last byte read: a short write
\* drops the client rather than leave a gap.
ClientSeesNoGap ==
  /\ \A a, b \in got : \A c \in a..b : c \in got
  /\ client = "up" /\ got # {} => stream.read \in got
  /\ stream.sent <= stream.read

\* The unsigned difference of two readings of millis() is the true age of the
\* sample although the clock wraps, and a sample outlives its limit by at most
\* one turn of the loop.
SampleKeepsTime ==
  capture.active =>
    /\ Elapsed = age
    /\ pc = "http" => \/ age = 0
                      \/ \E d \in LoopDelays : age < capture.seconds * MsPerSecond + d

(* Action properties *)

\* A sample ends early only because its file is full: never because the clock
\* wrapped or the port fell silent.
NoSampleCutShort ==
  [][capture.active /\ capture'.baudIndex = capture.baudIndex + 1
       => StorageFull \/ age >= capture.seconds * MsPerSecond]_vars

\* A sample that ends leaves in its result what it read and stored, and this
\* never changes while its sweep is the one in memory, whatever later samples,
\* clients or requests do.
FinishedResultsAreFrozen ==
  [][\A i \in Bauds :
       capture'.sweep = capture.sweep =>
         /\ i < capture.baudIndex => capture'.results[i] = capture.results[i]
         /\ i = capture.baudIndex /\ i < capture'.baudIndex =>
              capture'.results[i] = [capture.results[i] EXCEPT !.bytes = drained]]_vars

(* Liveness *)

\* The loop always comes back to the HTTP server.
LoopKeepsServing == []<>(pc = "http")

\* A client that is gone does not block the bridge: while it holds the one slot
\* and others wait, the next of them takes its place.  It may be gone in turn
\* before it is looked at, so an end to this is not promised.
DeadClientIsReplaced ==
  <>[](client = "down" /\ waiting > 0) => []<><<waiting' = waiting - 1>>_vars

(* The service the firmware implements *)

Mode == IF capture.active THEN "sweep" ELSE IF stream.active THEN "stream" ELSE "idle"
Ending(completed) == IF completed THEN "complete" ELSE "partial"
Verdict == IF capture.sweep = 0 \/ capture.active THEN "none"
           ELSE Ending(capture.completed)
Published == CASE summary.kind = "absent" -> "none"
               [] summary.kind = "torn" -> "damaged"
               [] summary.kind = "ok" -> Ending(summary.doc.completed)

Service == INSTANCE ProbeService WITH
  mode <- Mode, position <- capture.baudIndex, verdict <- Verdict,
  published <- Published

\* Every step of the firmware is a step of ProbeService or invisible to it, and
\* under the loop's fairness every sweep ends: no silence, noise or refused request
\* keeps it at a baud.  Whatever the flash went through, the summary that is
\* served never calls a stopped sweep complete nor stands beside a running one.
ImplementsService == Service!Spec

(* Against the documentation *)

\* RTK3_ROBOT_STATUS.md presents streamRtcmFrames and its neighbours as the
\* counters of the live stream.  A stream that has read nothing has none.
StreamCounters == [bytesRead |-> stream.read, analyzed |-> analyzed]

StreamCountersAreTheStreams ==
  StreamCounters.bytesRead = 0 => StreamCounters.analyzed = 0
=============================================================================
