---------------------------- MODULE CaptureSweep ----------------------------
(***************************************************************************)
(* The passive UART sweep of src/main.cpp: startCapture, stopCapture and   *)
(* serviceCapture with everything they call.  A sweep listens at each baud *)
(* in turn, counts what it hears with the shared analyzer, keeps the raw   *)
(* bytes in one LittleFS file per baud and ends with /summary.json.        *)
(***************************************************************************)
EXTENDS ProbeState

Current == capture.results[capture.baudIndex]

\* Mutant: no upper limit.
ClampSecondsBelow(arg) == Greater(1, arg % WordSize)

\* startCapture's clamp, after the handler's cast of toInt() to uint32_t.
ClampSeconds(arg) == Greater(1, Lesser(arg % WordSize, MaxSeconds))

\* File::write returns how much it stored: all of `wanted`, or less when the
\* flash is full or fails (external).
FlashWrites(wanted) == 0..wanted

-----------------------------------------------------------------------------
(* startCapture: clear the flash, one removal at a time, then begin *)

HandleStartCapture ==
  /\ pc = "http"
  /\ ~capture.active /\ ~stream.active
  /\ sweeps < MaxSweeps
  /\ pc' = "clear" /\ clearing' = 0
  /\ UNCHANGED <<captureVars, streamVars, analyzed, uart, led, flashVars, sweeps>>

\* Mutants: the summary is removed after the files it lists, the summary is
\* forgotten, the TLS evidence is forgotten.
SummaryAtEnd == BaudCount + 2
SummaryAtNever == -1
TlsEvidenceAtNever == -1

\* The order of the removals in clearCaptureFiles: the summary first, then the
\* results of the superseded probes, then the baud files.
SummaryAt == 0
ProbeResultAt == 1
TlsEvidenceAt == 2
BaudFileAt(i) == 3 + i

\* The results of LittleFS.remove are ignored by the code; a file that is there and
\* not open is taken to be removed.
ClearFile ==
  /\ pc = "clear" /\ clearing < BaudCount + 3
  /\ clearing' = clearing + 1
  /\ summary' = IF clearing = SummaryAt THEN NoSummary ELSE summary
  /\ obsolete' = CASE clearing = ProbeResultAt -> obsolete \ {"rtk3-probe.json"}
                   [] clearing = TlsEvidenceAt -> obsolete \ {"rtk3-tls-evidence.json"}
                   [] OTHER -> obsolete
  /\ files' = [i \in Bauds |-> IF clearing = BaudFileAt(i) THEN NoFile ELSE files[i]]
  /\ UNCHANGED <<pc, captureVars, streamVars, analyzed, uart, led, sweeps>>

\* Mutants: the old port is not ended; the whole array of results is reset.
BeginOpenPort(b) == PortBegin(uart, b)
OnlyResult(c, r) == [i \in Bauds |-> IF i = c.baudIndex THEN r ELSE NoResult]

ReopenPort(b) == PortBegin(PortEnd(uart), b)
WithResult(c, r) == [c.results EXCEPT ![c.baudIndex] = r]

\* beginCurrentBaud on the capture state c: a fresh result, a restarted
\* analyzer, the port reopened at the next baud, a truncated file and a new
\* sample clock.  The file may fail to open, and millis() may stand anywhere.
BeginCurrentBaud(c) ==
  \E opened \in BOOLEAN, millis \in 0 .. WordSize - 1 :
    /\ capture' = [c EXCEPT
         !.results = WithResult(c, [NoResult EXCEPT !.begun = TRUE, !.lossy = ~opened]),
         !.output = opened,
         !.started = millis]
    /\ files' = IF opened
                THEN [files EXCEPT ![c.baudIndex] = [sweep |-> c.sweep, size |-> 0]]
                ELSE files
    /\ analyzed' = AnalyzerReset
    /\ uart' = ReopenPort(c.baudIndex)
    /\ drained' = 0 /\ age' = 0

BeginSweep(arg) ==
  /\ pc = "clear" /\ clearing = BaudCount + 3
  /\ sweeps' = sweeps + 1
  /\ led' = TRUE
  /\ BeginCurrentBaud([NoCapture EXCEPT !.active = TRUE,
                                        !.seconds = ClampSeconds(arg),
                                        !.sweep = sweeps + 1])
  /\ pc' = "capture" /\ clearing' = 0
  /\ UNCHANGED <<streamVars, summary, obsolete>>

-----------------------------------------------------------------------------
(* serviceCapture: drain the port, then decide whether the sample is over *)

CaptureIdle ==
  /\ pc = "capture" /\ ~capture.active
  /\ pc' = "stream"
  /\ UNCHANGED <<clearing, captureVars, streamVars, analyzed, uart, led,
                 flashVars, sweeps>>

\* Mutant: the room left under the cap is forgotten.
WritingAll(received) == IF capture.output THEN received ELSE 0

Writing(received) ==
  IF capture.output THEN Lesser(received, MaxCaptureBytes - Current.stored) ELSE 0

\* One turn of the drain loop: at most a chunk is read and analyzed, and what
\* still fits under the cap is written to the file.
DrainCapture ==
  /\ pc = "capture" /\ capture.active /\ uart.ring # <<>>
  /\ LET received == Lesser(Len(uart.ring), CaptureChunk)
         writing == Writing(received)
     IN /\ uart' = PortTake(uart, received)
        /\ analyzed' = Cap(analyzed + received)
        /\ drained' = Cap(drained + received)
        /\ \E w \in FlashWrites(writing) :
             /\ capture' = [capture EXCEPT
                  !.results[capture.baudIndex].stored = @ + w,
                  !.results[capture.baudIndex].lossy = @ \/ w < writing]
             /\ files' = [files EXCEPT ![capture.baudIndex].size = @ + w]
  /\ UNCHANGED <<pc, clearing, age, streamVars, led, summary, obsolete, sweeps>>

\* available() = 0 ends the drain loop.
DrainDone ==
  /\ pc = "capture" /\ capture.active /\ uart.ring = <<>>
  /\ pc' = "check"
  /\ UNCHANGED <<clearing, captureVars, streamVars, analyzed, uart, led,
                 flashVars, sweeps>>

\* Mutants: signed time, a deadline compared with the clock.
ElapsedSigned == ((capture.started + age) % WordSize) - capture.started
TimedOutAtDeadline == ((capture.started + age) % WordSize)
                        >= ((capture.started + capture.seconds * MsPerSecond) % WordSize)

\* millis() and the elapsed time of the code, both modulo 2^32.
Millis == (capture.started + age) % WordSize
Elapsed == (Millis - capture.started) % WordSize
TimedOut == Elapsed >= capture.seconds * MsPerSecond
StorageFull == Current.stored >= MaxCaptureBytes
SampleOver == TimedOut \/ StorageFull

\* finalizeCurrentBaud: close the file, copy the analyzer's statistics.  The
\* code leaves sampleStartedMs alone, but nothing reads it any more.
Finalized(c) == [c EXCEPT !.output = FALSE, !.started = 0,
                          !.results[c.baudIndex].bytes = analyzed]

NextIndex == capture.baudIndex + 1

\* Mutant: the last baud is left out.
LastBaudEarly == NextIndex + 1 >= BaudCount

LastBaud == NextIndex >= BaudCount

ContinueSample ==
  /\ pc = "check" /\ ~SampleOver
  /\ pc' = "stream"
  /\ UNCHANGED <<clearing, captureVars, streamVars, analyzed, uart, led,
                 flashVars, sweeps>>

NextBaud ==
  /\ pc = "check" /\ SampleOver
  /\ ~LastBaud
  /\ BeginCurrentBaud([Finalized(capture) EXCEPT !.baudIndex = NextIndex])
  /\ pc' = "stream"
  /\ UNCHANGED <<clearing, streamVars, led, summary, obsolete, sweeps>>

\* finishCapture up to persistSummary; the LED goes off after it.
FinishCapture ==
  /\ pc = "check" /\ SampleOver
  /\ LastBaud
  /\ capture' = [Finalized(capture) EXCEPT !.baudIndex = NextIndex,
                                           !.active = FALSE, !.completed = TRUE]
  /\ uart' = PortEnd(uart)
  /\ pc' = "summary"
  /\ drained' = 0 /\ age' = 0
  /\ UNCHANGED <<clearing, streamVars, analyzed, led, flashVars, sweeps>>

HandleStopCapture ==
  /\ pc = "http" /\ capture.active
  /\ capture' = [Finalized(capture) EXCEPT !.active = FALSE, !.completed = FALSE]
  /\ uart' = PortEnd(uart)
  /\ pc' = "summary"
  /\ drained' = 0 /\ age' = 0
  /\ UNCHANGED <<clearing, streamVars, analyzed, led, flashVars, sweeps>>

-----------------------------------------------------------------------------
(* persistSummary, called by finishCapture and stopCapture *)

\* Opening for writing truncates: from here to close the file is incomplete.
OpenSummary ==
  /\ pc = "summary"
  /\ \/ pc' = "write" /\ summary' = [NoSummary EXCEPT !.kind = "torn"] /\ led' = led
     \/ pc' = "capture" /\ summary' = summary /\ led' = FALSE
  /\ UNCHANGED <<clearing, captureVars, streamVars, analyzed, uart, files,
                 obsolete, sweeps>>

\* print and close; print may be cut short by a full flash.
WriteSummary ==
  /\ pc = "write"
  /\ \/ summary' = [kind |-> "ok", doc |-> DocOf(capture)]
     \/ summary' = summary
  /\ pc' = "capture" /\ led' = FALSE
  /\ UNCHANGED <<clearing, captureVars, streamVars, analyzed, uart, files,
                 obsolete, sweeps>>
=============================================================================
