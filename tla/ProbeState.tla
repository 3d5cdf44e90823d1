----------------------------- MODULE ProbeState -----------------------------
(***************************************************************************)
(* The state that src/main.cpp keeps in the file-scope objects of the      *)
(* ESP32-S3 probe: the `capture` sweep, the `stream` bridge, the analyzer, *)
(* the serial port and the TCP client that the two share, the LittleFS     *)
(* files and the millisecond clock.  CaptureSweep and LiveStream add the   *)
(* operations of the two users, ProbeFirmware the loop that runs them.     *)
(*                                                                         *)
(* The firmware is one thread: loop() calls handleClient, serviceCapture,  *)
(* serviceLiveStream and delay in turn.  `pc` says where in that turn it   *)
(* is.  A turn is cut into steps wherever the environment (a byte on the   *)
(* wire, a client, a power cut) can make the order matter.                 *)
(***************************************************************************)
EXTENDS Integers, Sequences

CONSTANTS
  BaudCount,        \* length of RTK_BAUD_RATES; a baud is its index there
  MaxCaptureBytes,  \* MAX_CAPTURE_BYTES_PER_BAUD
  CaptureChunk,     \* size of the buffer in serviceCapture
  StreamChunk,      \* size of the buffer in serviceLiveStream
  RxRing,           \* capacity of the UART driver's receive ring (external)
  DefaultSeconds,   \* CAPTURE_SECONDS_PER_BAUD
  MaxSeconds,       \* MAX_CAPTURE_SECONDS_PER_BAUD
  SecondsArgs,      \* values of the `seconds` argument that clients send
  StreamBauds,      \* values of the `baud` argument that clients send
  MsPerSecond,      \* 1000 in the code
  WordSize,         \* 2^32: millis() and the cast of `seconds` are uint32_t
  LoopDelays,       \* milliseconds one turn of loop() may take
  ScanDelays,       \* milliseconds a blocking handler may take
  ByteCap,          \* bound: byte counters saturate here
  MaxSweeps,        \* bound: number of sweeps ever started
  MaxWaiting        \* bound: TCP connections waiting to be accepted

Longest == MaxSeconds * MsPerSecond

ASSUME SizesAssumption ==
  /\ {BaudCount, MaxCaptureBytes, CaptureChunk, StreamChunk, RxRing} \subseteq Nat \ {0}
  /\ {MaxSweeps, MaxWaiting} \subseteq Nat
  /\ ByteCap \in Nat /\ ByteCap >= MaxCaptureBytes

ASSUME StreamBaudsAssumption == StreamBauds \subseteq 0 .. BaudCount - 1

ASSUME ClockAssumption ==
  /\ {MaxSeconds, MsPerSecond, WordSize} \subseteq Nat \ {0}
  /\ DefaultSeconds \in 1..MaxSeconds
  /\ SecondsArgs \subseteq Int
  /\ LoopDelays \subseteq Nat \ {0} /\ ScanDelays \subseteq Nat
  /\ \A d \in LoopDelays, s \in ScanDelays : Longest + s + d < WordSize
  /\ \A d \in LoopDelays : Longest + d < WordSize

Bauds == 0 .. BaudCount - 1

Lesser(a, b) == IF a <= b THEN a ELSE b
Greater(a, b) == IF a >= b THEN a ELSE b
Cap(n) == Lesser(n, ByteCap)

VARIABLES
  pc,        \* the step of loop() that comes next
  clearing,  \* position of clearCaptureFiles in its list of removals
  capture,   \* struct CaptureState
  stream,    \* struct StreamState
  analyzed,  \* bytes fed to the shared analyzer since its reset()
  uart,      \* RtkSerial: open or not, its baud, the bytes received and unread
  client,    \* correctionClient: "none", "up" or "down" (peer gone)
  waiting,   \* connections that correctionServer has not accepted yet
  led,       \* the status LED
  files,     \* /baud-*.bin on LittleFS: the sweep that wrote each, its size
  summary,   \* /summary.json on LittleFS
  obsolete,  \* result files of the superseded probes still on LittleFS
  sweeps,    \* history: sweeps started so far
  drained,   \* history: bytes the current sample has read from the port
  age,       \* history: true milliseconds since the current sample began
  got        \* history: positions in the stream of the bytes the client got

captureVars == <<capture, drained, age>>
streamVars == <<stream, client, waiting, got>>
flashVars == <<files, summary, obsolete>>
vars == <<pc, clearing, captureVars, streamVars, analyzed, uart, led,
          flashVars, sweeps>>

-----------------------------------------------------------------------------
(* Types *)

Steps == {"http", "clear", "capture", "check", "summary", "write",
          "stream", "pump", "delay"}

\* BaudResult: `begun` stands for baud # 0, `bytes` for the copied analyzer
\* statistics; `lossy` is history: the file could not be opened or a write to
\* it was short.
BaudResult == [begun : BOOLEAN, bytes : 0..ByteCap,
               stored : 0..MaxCaptureBytes, lossy : BOOLEAN]
NoResult == [begun |-> FALSE, bytes |-> 0, stored |-> 0, lossy |-> FALSE]

\* `sweep` is history: which sweep this state belongs to, 0 after a restart.
CaptureState == [active : BOOLEAN, completed : BOOLEAN, seconds : 1..MaxSeconds,
                 baudIndex : 0..BaudCount, started : 0..WordSize-1,
                 output : BOOLEAN, results : [Bauds -> BaudResult], sweep : Nat]
NoCapture == [active |-> FALSE, completed |-> FALSE, seconds |-> DefaultSeconds,
              baudIndex |-> 0, started |-> 0, output |-> FALSE,
              results |-> [i \in Bauds |-> NoResult], sweep |-> 0]

StreamState == [active : BOOLEAN, baud : Bauds, read : 0..ByteCap,
                sent : 0..ByteCap, accepted : 0..ByteCap]
NoStream == [active |-> FALSE, baud |-> 0, read |-> 0, sent |-> 0, accepted |-> 0]

SummaryDoc == [sweep : Nat, completed : BOOLEAN, results : [Bauds -> BaudResult]]

\* What summaryJson prints of the capture state.
DocOf(c) == [sweep |-> c.sweep, completed |-> c.completed, results |-> c.results]

\* The file /summary.json: no file, one cut short, or a whole document.
SummaryFile == [kind : {"absent", "torn", "ok"}, doc : SummaryDoc]
NoSummary == [kind |-> "absent", doc |-> DocOf(NoCapture)]

NoFile == [sweep |-> 0, size |-> 0]

Obsolete == {"rtk3-probe.json", "rtk3-tls-evidence.json"}

TypeOK ==
  /\ pc \in Steps /\ clearing \in 0..BaudCount + 3
  /\ capture \in CaptureState /\ stream \in StreamState
  /\ analyzed \in 0..ByteCap /\ drained \in 0..ByteCap
  /\ uart \in [open : BOOLEAN, baud : Bauds, ring : Seq(Bauds)]
  /\ Len(uart.ring) <= RxRing
  /\ client \in {"none", "up", "down"} /\ waiting \in 0..MaxWaiting
  /\ led \in BOOLEAN
  /\ files \in [Bauds -> [sweep : Nat, size : 0..MaxCaptureBytes]]
  /\ summary \in SummaryFile /\ obsolete \subseteq Obsolete
  /\ sweeps \in Nat /\ age \in Nat
  /\ got \subseteq 1..ByteCap

-----------------------------------------------------------------------------
(* HardwareSerial (external): what main.cpp relies on of RtkSerial *)

PortClosed == [open |-> FALSE, baud |-> 0, ring |-> <<>>]
PortEnd(u) == [u EXCEPT !.open = FALSE, !.ring = <<>>]
\* Opening a closed port starts with an empty ring; the driver keeps the ring
\* of a port that is already open.
PortBegin(u, b) == [u EXCEPT !.open = TRUE, !.baud = b]
PortTake(u, n) == [u EXCEPT !.ring = SubSeq(u.ring, n + 1, Len(u.ring))]
PortReceive(u) == [u EXCEPT !.ring = Append(u.ring, u.baud)]

\* Mutant: reset() leaves the statistics alone.
AnalyzerKept == analyzed

\* ProtocolAnalyzer::reset as far as the number of bytes fed goes.
AnalyzerReset == 0

InitState ==
  /\ pc = "http" /\ clearing = 0
  /\ capture = NoCapture /\ stream = NoStream
  /\ analyzed = 0 /\ drained = 0 /\ age = 0
  /\ uart = PortClosed /\ client = "none" /\ waiting = 0 /\ led = FALSE
  /\ files = [i \in Bauds |-> NoFile] /\ summary = NoSummary
  /\ obsolete \in SUBSET Obsolete
  /\ sweeps = 0 /\ got = {}
=============================================================================
