# Formal models of the RTK3 probe

TLA+ models, TLC runs and TLAPS proofs for the ESP32-S3 probe of the RTK3 base
station and for its host-side tools. Paths such as `main.cpp` are short for the
files of the repository: `src/main.cpp`, `src/tls_evidence.cpp`,
`lib/ProtocolAnalyzer/`, `include/`, `scripts/`.

    tlc -workers 2 -config MCProbeCapture.cfg MCProbe      # one run
    tlapm ProbeFirmware_proofs.tla                         # one proof module

`PROJECT.json` lists runs, mutants, theorems, findings, hazards, and, for every
definition that stands for code, the lines it stands for.

## 1. Inventory

| Component | State | Operations | Concurrency and failure |
|---|---|---|---|
| UART baud sweep, `main.cpp` 92-238 | `capture`, baud files, `/summary.json` | start, stop, `serviceCapture` | one thread; UART fills its ring at any time; writes and opens fail; power cuts; clock wrap |
| Live stream, `main.cpp` 240-295 | `stream`, `correctionClient`, backlog of port 2101 | start, stop, `serviceLiveStream` | clients come and go at any time; short writes |
| Loop and HTTP server, `main.cpp` 297-584 | where `loop()` is | one request a turn | blocking scans delay everything else |
| `ProtocolAnalyzer` | counters, three automata, 1029-byte buffer | `feed`, `reset` | any bytes, starting anywhere |
| TLS evidence server, `tls_evidence.cpp` | mutex-protected flag, trigger and document; evidence file and its temporary | GET, POST, automatic start | loop task and probe tasks interleave; task creation, writes, rename fail; restarts |
| TLS probe task, `tls_evidence.cpp` 155-671, `TlsDiagnostics.h` | locals of the task, the context it shares with lwIP's thread | target check, ARP, TCP, TLS, diagnosis | every network outcome; bounded retries; callbacks in lwIP's thread |
| Collector, `collect_hardware_evidence.py` | where the script is, what it accepted | HTTP requests under time-outs | lost answers, other clients, restarts of the device |
| RTCM parser and relay, `rtcm_pipeline.py` | buffer, counters, frames to write | `feed`, relay loop | chunks cut anywhere; destination fails |
| PCAP report, `pcap_transport_report.py` | options, packet count, flows, ARP observations, exit code | one packet, end of file, bad file | sequential; packets of both directions, cut, repeated, padded |
| Secrets generator, build, tests | none that lasts | | sequential |

How they interact. `loop()` runs the HTTP server, the sweep and the stream in
turn; sweep and stream share the serial port, the analyzer and the LED. The
stream feeds TCP clients, of which the relay is the intended one. The
evidence server runs on the same loop task (`serialEventRun`) and in one
FreeRTOS task per probe; its clients are the collector and whoever else asks.
The collector first waits for the "main probe" of an earlier firmware
(`/api/probe/*`), which today's `main.cpp` no longer has; and `platformio.ini`
builds `main.cpp` only. So the collector and the evidence server are modelled
as the repository keeps them, together with the firmware they were written
for, whose main probe is external. A probe task may not touch lwIP's ARP table
itself: it posts callbacks to lwIP's thread and shares an
`ArpLookupContext` on its stack with them. The PCAP report reads files only; it
feeds the same `RtcmParser` as the relay.

What makes each component correct:

* sweep: the flash says what was heard, in the state that any crash leaves; a
  sample lasts as long as asked, across the wrap of `millis()`; sweeps end;
* stream: one owner of the port, no gap for a client, no slot held by a dead one;
* analyzer: counters equal what a definition on the whole input says;
* evidence server: one probe, whole documents of the right run and trigger;
* probe task: a diagnosis that agrees with what was observed, bounded attempts;
* collector: what it accepts is fresh;
* relay: every byte accounted for, only whole valid frames, none lost;
* PCAP report: packets counted once, in their flow and direction, frames found.

## 2. Modules

| Module | Models | Notes |
|---|---|---|
| `ProbeState` | file-scope objects of `main.cpp`, LittleFS files, the UART driver as far as it is relied on | constants and assumptions |
| `CaptureSweep` | `startCapture` ... `serviceCapture` | extends `ProbeState` |
| `LiveStream` | `startLiveStream` ... `serviceLiveStream` | extends `ProbeState` |
| `ProbeFirmware` | `loop()`, handlers, environment; the properties | composes both |
| `ProbeService` | abstract: what an HTTP client may rely on | implemented by `ProbeFirmware` (refinement mapping at its end) |
| `ProtocolAnalyzer` | `ProtocolAnalyzer.cpp` | byte by byte |
| `EvidenceServer` | `serialEventRun`, `startTlsProbe`, `currentEvidence`, `saveEvidence`, tasks | shared by the next two |
| `ProbeJob` | abstract: one probe at a time, ended with a document of its own | implemented by `EvidenceServer` (refinement mapping there) |
| `EvidenceCollector` | the script against the server | probe is one step |
| `TlsProbe` | the probe task in detail, inside the server | replaces that step |
| `ArpLookup` | `captureArpEvidence` and lwIP's thread | extended by `TlsProbe` |
| `RtcmFrame` | what `RtcmParser` takes for a frame: header, lengths, checksum, what is incomplete | extended by the next two |
| `RtcmRelay` | `RtcmParser.feed`, `command_relay` | one turn of the loop of `feed` is one step |
| `PcapReport` | `packet_layers`, `canonical_flow`, `Flow.observe`, `analyze`, `main` of the report | one packet is one step, with a whole call of `feed` as a function |
| `ProbeFirmware_proofs`, `FirmwareEvidence_proofs` | theorems on the firmware | |
| `ProtocolAnalyzer_proofs`, `RtcmRelay_proofs`, `PcapReport_proofs` | theorems on the parsers and their report | |
| `EvidenceServer_proofs` | lemmas on the server, whatever it is part of | used by the next two |
| `EvidenceCollector_proofs`, `TlsProbe_proofs` | theorems on server and collector, and on the probe task | |
| `MCProbe`, `MCProtocolAnalyzer`, `MCProbeTask`, `MCRtcmRelay`, `MCPcapReport` | values a .cfg cannot write | |
| `MCEvidence` | the order in which the run `evidence` takes steps that commute | an action constraint |

### State and steps

**Firmware.** `pc` is the place in `loop()`. The loop is cut wherever the
environment can make the order matter: before each removal of
`clearCaptureFiles`, each read of a chunk, the test of the deadline, the
truncation and the writing of the summary. Between two steps the UART may
receive (`Receive`), a client connect or disconnect, or the power fail
(`Restart`). A restart loses all memory; the file that was open keeps a
prefix; `LittleFS.begin(true)` may have formatted the flash. The analyzer is
here only the number of bytes fed since `reset()`; the bytes in the ring
remember the baud at which they arrived, so that a forgotten `end()` shows. The
clock is kept as the start of the sample in the word of `millis()` plus the
true age of the sample; `Millis` and `Elapsed` compute the code's modular
values from it, and the sample may begin at any reading of the clock.

**Evidence server.** Each critical section of `tlsMutex` is one step, since
nothing else reads or writes the protected variables inside it. Between them,
every LittleFS call of the loop task and of every probe task is a step of its
own. LittleFS is assumed to refuse the removal and the renaming of a path that
is open, and to make a rename atomic. A file is absent, torn or whole, and holds
a document named by its run. The history variables `cleared`, `overlap` and
`booted` serve the properties only; `overlap` says that something was being saved
when the latest run cleared the file.

**Probe task.** The target is a sequence of octets, out of the saved file or the
compiled default; masks and addresses are octets too, since the code puts
its 32-bit words together of them. Each of ARP lookup, TCP attempt and TLS attempt is
a step, with every outcome of the network. The ARP lookup is cut further:
`tcpip_callback` returns once its callback is in the mailbox of lwIP's thread,
so the task may read the context before the callback has run, while it runs
(`found` is written before the address), or after another one. Callbacks that
run after the context is gone write to a dead stack frame; the model leaves
that write without effect.

**Collector.** Its steps are its requests and the answers it acts on. A lost GET
is repeated; a lost POST or a phase's time-out ends the script; it may be
run again at any time. Other clients post and read too.

**Relay.** The input arrives in chunks of every length up to `MaxChunk`; frames
are intervals of the input, so that order, overlap and identity can be stated.
A failing destination takes any part of the frame.

**PCAP report.** A step is a packet: skipped, observed as ARP, or counted in its
flow. Payloads are bytes, and `Feed` does with them what `RtcmParser.feed` does:
it reads reserved bits and length out of the header, rejects a header as soon as
three bytes of it are there, takes up again behind the preamble after a bad header
or checksum, and drops a valid frame that is too short for a type. `Feed` is a
recursive function of the pending bytes and the payload put together, since nothing
can come between its turns here; in the relay they are steps. A packet may carry
the padding of a short Ethernet frame, which the code cuts off of UDP by its
length field and of TCP not at all; to the parser padding is bytes. The history
variable is the capture.

## 3. Runs

| Run | Constants that matter | States | What it shows |
|---|---|---|---|
| `capture` | 2 bauds, cap 2, ring 3, clock of 7, 2 sweeps | 344 k | flash, results and summary agree through failures and power cuts; samples keep time |
| `stream` | ring 3, chunk 2, 2 waiting clients | 283 k | no client sees a gap |
| `live` | smallest sizes, sweeps and streams, 2 waiting clients, fairness | 193 k | port and analyzer follow their user; the loop serves on; `ProbeService` is implemented |
| `analyzer` | frame bytes 0, 2, 211: 12 of them; marker bytes: 7 | 895 k | frame counters equal a definition on the input, marker counters equal numbers of occurrences |
| `evidence` | 2 probes, clock of 2 | 814 k | `ProbeJob` is implemented; whole and current documents that name their trigger, no old boot accepted |
| `probe_task` | 4 targets, 3 attempts, 1 run, fairness | 527 k | attempts, diagnosis, ARP answers; every probe ends as `ProbeJob` says |
| `rtcm_relay` | 3 byte values, 10 bytes in chunks of up to 3 | 513 k | accounting, integrity, recovery, what waits and for what, `feed` returns |
| `pcap` | 3 packets out of 28, frames of 4 and 5 bytes and false preambles around them, padding of 1 | 546 k | packets are counted once in flow and direction, frames are those of the bytes as captured |
| `stream_counters`, `evidence_freshness`, `arp_diagnosis`, `pcap_sizes` | | | violations: see section 6 |

Why the bounds are enough. Two bauds are a first and a last one, which are the
only distinctions `serviceCapture` makes. A cap and ring of two or three bytes
with chunks of one or two let a sample end by cap and by time-out, a
chunk straddle the cap and a ring need several chunks. The clock's word is
only just longer than the longest sample and a turn (`ClockAssumption`), so that
it wraps within a sample. Two sweeps let one meet the files of the other. Byte
counters saturate at `ByteCap`, above the cap; no property depends on a count
beyond it. Twelve analyzer bytes with a one-byte checksum hold two
frames and a candidate that contains the preamble of another; ten relay bytes
hold two shortest frames and a false candidate around one. The checksum of these
runs is a parity, so that right and wrong ones both occur; the modules take it as
a constant operator, for which the properties and the proof need nothing of CRC.
`TypeBytes` is 1 in the relay's run, so that a frame with a type fits twice in
the bound. An analyzer input is either of frame bytes or of marker bytes: the
recognisers share nothing but the byte, and a mixture would only multiply the states. In `evidence` two probes are what it takes for one to be saved while
the next is started; the automatic start is due after one tick of a clock that wraps
at two. Its action constraint (`OneOrder` in `MCEvidence`) takes steps in one order
where another order makes no difference: the network, the clock and the main
probe do not move while the loop is within a request or a start, which reads none
of them; the script's own steps between its requests come one after the other,
since the server does not see them; and other clients read the evidence while a
probe task lives, since an open file is in the way of a task's file operations and
of nothing else. Without it the run has 3.4 million states, and passes too. The
proofs are about the unconstrained specification. In `probe_task` the station's mask
is a /26, which ends within an octet, and the targets are one on its subnet,
one beside it that shares the first three octets, one outside every private network whose
first octets look private, and a text that is no address. In `live` two clients
may wait, so that the one that takes the slot may be dead already while another
waits: that a dead client is replaced is therefore stated as that the loop goes on taking
clients, and not as that one of them is alive. Three packets are what it takes for
a frame to be cut in two and something to come between its halves; the payloads
are a frame with a type, its two parts, a frame without one, and the beginnings of
false frames: one that a following frame fills with a wrong checksum, one that a
following frame turns into a bad header, one that swallows it and still waits. The
hosts are a server, the robot with a MAC of its own and a second address, and
a stranger, with one datagram for the robot that passes the router, so that neither a
named IP nor a named MAC implies the other.

`CHECK_DEADLOCK FALSE` is given for the relay and the report: they end at the
end of their input.

### Fairness

* `ProbeFirmware`: `WF(Loop)`, since `loop()` is called for ever;
  `SF(DrainDone)` and `SF(PumpDone)`: every read empties the ring, since the
  driver's default of 256 bytes is no longer than a chunk (and the run's ring
  no longer than its chunk), so the drain loop is at an empty ring again and
  again. At 921600 baud, the fastest of the table, 92 bytes arrive in a
  millisecond, and analysing a byte takes less than the 11 microseconds until the
  next; so not every such look can find a byte newly arrived, and one that
  does not ends the loop. This fails while a TCP
  write blocks on a stalled client, for up to the socket's time-out at each write; what is shown of the loop's liveness is
  shown for clients that are up, gone, or slow within the wire's rate.
* `TlsProbe`: weak fairness of the loop's own steps and of each probe task, both
  scheduled by FreeRTOS, whose calls all have time limits. Clients, the clock,
  Wi-Fi, the network and lwIP's thread are not fair: the task waits for a time,
  not for them. Restarts without end are allowed too: each ends the abstract
  probe.
* `RtcmRelay`: weak fairness of the steps of `feed`.

## 4. Properties

Each is stated in words above its definition. The main ones:

* `SerialPortHasOneUser`, `AnalyzerFollowsItsUser`: no byte of one baud or user
  is counted for another.
* `SummaryDescribesFlash`, `SummaryMirrorsCapture`, `NoStaleEvidence`,
  `StoredIsAPrefix`: what is on the flash, after any crash, describes itself.
  They rest on the order of removals in `clearCaptureFiles`.
* `SampleKeepsTime`, `NoSampleCutShort`, `FinishedResultsAreFrozen`,
  `LoopKeepsServing`.
* `ClientSeesNoGap`; `DeadClientIsReplaced`: as long as the client is down and
  another waits, the loop goes on taking clients out of the backlog.
* `ImplementsService`: every step of the firmware is a step of `ProbeService` or
  invisible to it, and its liveness follows: a sweep that nobody stops ends, a
  published summary was earned.
* `CandidatesCutTheInput`, `CountedFramesAreReal`, `TypesAreThoseOfFrames`,
  `MarkersAreOccurrences`, `BufferNeverFills`: the analyzer's counters against
  definitions on the whole input.
* `ImplementsProbeJob`, `ImplementsFairProbeJob`: every step of server, tasks,
  collector and clients is a step of `ProbeJob` or invisible to it, and, with fair
  tasks, every probe ends under the trigger it was started with.
* `OneProbe`, `ActiveHidesOldEvidence`, `EvidenceFileIsWhole`,
  `FileIsOfTheLatestRun`, `NoOldBootAccepted`. `EvidenceFileIsWhole` and
  `FileIsOfTheLatestRun` hold only as long as nothing was being saved when the
  latest run cleared the file (`overlap`): two savers share one temporary path,
  and then a partly written document can be renamed to the final path.
* `CollectorTypeOK` also says that every document of a run, wherever it is, names
  a trigger: the collector decides by it, and it goes from the start through the
  mutex, the task, memory and two files to the answer.
* `AttemptsFollowThePlan`, `DiagnosisSeesTheTarget`, `ResolvedWasSeen`.
* `EveryByteAccountedFor`, `OutputIsFrames`, `NoFrameLost`, `FeedEnds`.
* `NothingHeldBack`: while the relay waits, and after a good end, each valid frame of
  the input that has a type is written, or begins inside an accepted frame that began
  before it, or begins behind the first of the pending bytes, which are then a preamble
  whose frame is not complete. So it says which frames wait and for what, those
  that are lost at the end of the source among them.
* `DirectionsAreAccounted`: packets and bytes of each flow and direction are
  those of the packets of the capture that the command line asks for, as the
  options' help has it. It is stated for command lines that name no MAC
  without an IP (`MacBesideIp`), for which code and help agree; the others
  are in section 6. Bytes are those behind the headers as captured, TCP padding included:
  what that does to sizes is what `pcap_sizes` shows.
* `FramesAreThoseOfTheFlow`: the frames of a flow are the valid frames that
  occur in the bytes of its packets one after the other, without those that begin
  inside an earlier one and without those that have no type; the pending bytes are
  a preamble whose frame is not complete; and the exit code of `--require-rtcm` agrees
  with the bytes of the capture.

Every property of a passing run has a mutant in `PROJECT.json`: a changed
definition, defined beside the true one under the word "Mutant", that makes TLC
find the property violated.

## 5. Proofs

`ProbeFirmware_proofs` proves, for every number of bauds, size, cap, clock and
argument that meets the assumptions of `ProbeState` (`SizesAssumption`,
`StreamBaudsAssumption`, `ClockAssumption`):

* `TypeCorrect`: `Spec => []TypeOK`;
* `OneUser`: `Spec => []SerialPortHasOneUser`.

`TypeOK` is not inductive: that a file stays under the cap needs that the open
file is as long as the result says (`OpenFileInv`), that the current result
exists needs that an active sweep has a baud left (part of
`SerialPortHasOneUser`), and that the deadline is only looked at while a sweep is
active needs the place in the loop (`StepInv`). `SerialPortHasOneUser` needs
that a closed port has an empty ring (`ClosedPortInv`), since a live stream opens
the port without ending it first. The conjunction `IndInv` is inductive
(`Invariance`); there is one lemma per action, and the steps that leave these
variables alone are handled together.

`FirmwareEvidence_proofs` builds on `IndInv` and proves, under the same
assumptions, every other safety property of the firmware:

* `OneAnalyzer` (`AnalyzerFollowsItsUser`): inductive once sweep and stream
  exclude each other and the drain loops run only for their own user, which
  `IndInv` says;
* `StaleEvidenceIsGone` (`NoStaleEvidence`): `ClearedInv` says how far the
  removals of `clearCaptureFiles` have come, and that nothing obsolete is left
  while a sweep runs or is summed up; a power cut in the middle of the removals
  is then harmless because nothing is written before all of them are done;
* `SamplesKeepTime` (`SampleKeepsTime`) and `SamplesAreNotCutShort`
  (`NoSampleCutShort`): `ClockInv` bounds the age of a sample in every place of
  the loop, below the word of the clock by `ClockAssumption`, so that the modular
  difference is the age;
* `StoredBytesAreTheFirst` (`StoredIsAPrefix`): `ResultInv` ties the result that
  grows to the bytes the analyzer has counted;
* `ResultsStayFinished` (`FinishedResultsAreFrozen`): sweeps are numbered
  (`SweepInv`), and a result changes only while its baud is sampled;
* `SummaryIsTrue`, `SummaryIsTheStates` (`SummaryDescribesFlash`,
  `SummaryMirrorsCapture`): `FlashInv` ties every file to its result and allows a
  summary only where no sample is written; the order of removals matters here;
* `NoGapForClients` (`ClientSeesNoGap`): `GapInv` adds that a
  client that is served has nothing beyond what was read;
* `FirmwareKeepsTheService`: the safety part of `ImplementsService`. The
  initial state maps to the service's, and there is one lemma per action that
  maps it to a step of the service or a stutter; that the files are cleared
  when a sweep starts comes from `ClearedInv`.

`EvidenceServer_proofs` holds what is true of a step of the server, whatever
system it is a step of: the types, that the active flag is up exactly while the
loop starts a probe or a task of the latest run probes (`FlagInv`), and that the
step is one of `ProbeJob` or none. The two systems it is part of apply this.

`EvidenceCollector_proofs` proves, for every number of probes and every clock
(`EvidenceAssumption`):

* `OneProbeAtATime` (`OneProbe`) and `ServerImplementsProbeJob`
  (`ImplementsProbeJob`) from `IndInv`, which is types and `FlagInv`;
* `TypeCorrect` (`CollectorTypeOK`): `NamedInv` follows the trigger of a probe, which
  is in memory while the flag is up and in the task from its begin to the end of its
  save; that a task that begins finds the flag up is from `FlagInv`;
* `OldEvidenceIsHidden` (`ActiveHidesOldEvidence`): `HideInv` adds that while the
  flag is up the memory says `running` and so does any answer under way;
* `FileIsWhole` and `FileIsTheLatest` (`EvidenceFileIsWhole`,
  `FileIsOfTheLatestRun`) from `FileInv`: what the temporary and the final path
  hold in each step of a save, given that no older save was under way;
* `NoneOfAnOldBoot` (`NoOldBootAccepted`) from what each document and each
  answer under way says about the boot of its run (`BootInv`, `AcceptInv`).

`TlsProbe_proofs` proves every safety property of the probe task, for every number
of probes and attempts, station, netmask and target. It assumes what
`EvidenceAssumption`, `TcpAssumption` and `StationAssumption` say; the last is
that an address and a mask have four octets, that those of a mask are among the
nine that a row of ones followed by zeros can leave, and that a connected
station has an address. The inductive invariant is `ProbeInv`:

* `IndInv`, from `EvidenceServer_proofs`, and that a step of the probe is
  none of the server's gives `ProbeImplementsProbeJob` (`ImplementsProbeJob`):
  the promise of `ProbeJob` is kept although a probe is many steps of its task,
  interleaved with those of lwIP's thread;
* `LookupInv`: a context that is `found` was filled while the table held the
  target, for every order of task and callbacks. This gives `ResolvedIsTrue`
  (`ResolvedWasSeen`);
* `PlanInv`: what a probe has done when it is at each of its places (`Plan`): the
  attempts that failed before the last one, a TLS attempt only over a
  connection, a target that is private once it is contacted. This gives
  `PlanFollowed` (`AttemptsFollowThePlan`);
* `OwnLookup`: the lookup that goes on is that of the probe that waits for it,
  and what it found it found on the station's subnet, without which an ARP
  answer could be read into the diagnosis of a routed target. With the
  cases of the diagnosis this gives `DiagnosisIsRight`
  (`DiagnosisSeesTheTarget`). The code decides what is on the station's
  subnet by a mask on its words and the property by ranges of addresses;
  that they agree is a lemma on octets and the nine octets of a mask.

`TypeCorrect` (`TypesOK`) adds the mailbox (`MailInv`).

`ProtocolAnalyzer_proofs` proves every property of the analyzer, for every
alphabet, checksum of any size, size of the type list and bound on the input:

* `BufferIsBounded` (`BufferNeverFills`): a buffer of more than two bytes is
  shorter than its expected length, which is at most the capacity, from the ten
  bits of the length field (`BufferInv`);
* `CandidatesCut` (`CandidatesCutTheInput`): `ParseInv` says that the buffer is
  the end of the input from a preamble on and waits for the length its header
  announces, so that a byte is skipped, extends the candidate or ends it
  (`ByteCases`); `CutInv`, that the candidates that ended are apart, lie
  before the open one and leave no preamble outside;
* `FramesAreReal` (`CountedFramesAreReal`): the candidate that ends is the part
  of the input its place says (`EndedHere`), and stays that part as the input grows
  (`BytesStay`);
* `TypeCorrect` (`TypeOK`) from `StatsInv`, `TypesAreOfFrames`
  (`TypesAreThoseOfFrames`) from `TypesInv`;
* `MarkersAreCounted` (`MarkersAreOccurrences`): `MarkInv` says what
  `previousByte_` and `nmeaState_` know of the end of the input, so that a byte
  adds at most one place to each set of occurrences (`PlacesGrow`).

`RtcmFrame` assumes (`FrameAssumption`) that bytes are numbers up to 255, that a checksum
has at least one byte, and that `MaxPayload` is what ten bits can say.

`RtcmRelay_proofs` proves, under this and for every chunk size and bound
(`RelayAssumption`), `TypeCorrect`, `OutputIsOfFrames` (`OutputIsFrames`),
`EveryFrameFound` (`NoFrameLost`), `NothingWaits` (`NothingHeldBack`) and
`EveryByteIsAccountedFor` (`EveryByteAccountedFor`). `BufferInv` says that the
buffer is the end of the input; `ParsedInv` that every position passed is inside an
accepted frame or cannot begin a valid one (`Hopeless`); the frames written and
those that wait are whole, apart and in the order of the input, and as many as the
counters say (`OutputInv`, of `WaitingInv`, `WrittenInv` and `CountInv`). `HeldInv`
says that `feed` leaves only when what is pending is a preamble whose frame is not
complete, and `DeliveredInv` that every accepted frame is whole and, if it has a type,
written or waiting to be. A valid frame that begins before the pending bytes
begins inside an accepted one by `ParsedInv`; where both begin at one place they are
the same, since the header decides the length. `AccountInv` is the account of
what has left the buffer: it was discarded, written or waits.

`PcapReport_proofs` proves both properties of the report, for every alphabet,
checksum, set of packets and options, and captures of any length. It assumes
`FrameAssumption` and what a packet consists of (`PcapAssumption`,
`PacketAssumption`): a known kind, two ends, a payload of bytes.

* `EveryPacketIsCounted` (`DirectionsAreAccounted`) from `FlowsInv`: types
  (`TypesInv`), every packet that is wanted has a flow and every flow a
  packet (`KeysInv`), and a direction's counters are number and bytes of its
  packets (`CountsInv`). A packet is of one flow only, since `CanonicalFlow`
  orders the two ends (`OneKey`); it goes to one direction of it.
* `FramesAreFound` (`FramesAreThoseOfTheFlow`) from `FramesInv`: all bytes of a
  flow were searched up to what is pending (`ReadInv`), and the exit code follows
  from the frames (`ExitInv`). Each place before the pending bytes is `Settled`:
  inside a frame that was found, or searched with all the bytes that decide there.
  That `feed` searches so from each place on is `FeedIsGood`, by its branches from
  the last byte to the first. That another call keeps it is `SearchedOn`: to search
  what was pending and then a new payload finds the same as to search all the
  bytes at once, since what decided at a place before the pending bytes decides the
  same when more bytes follow (`MoreBytes`).

Recursive functions. `Total` of the relay, `Feed` and `Joined` of the report and
the library's `SumFunction` are recursive functions, which the prover sees as a
`CHOOSE` of any function that follows the rule. What is proved of them is therefore
proved of every such function, after a lemma that there is one. The induction this
takes is `SetInduction`, over the members of a set of numbers: the library's own
induction theorems have an operator as their parameter, which no installed
prover can instantiate. `SetInduction` follows from `LeastNumber`, a set of
numbers having a least member, and this from the well-foundedness of the subsets
of a finite set, which the library states about sets. Both lemmas stand in
`RtcmRelay_proofs` and in `PcapReport_proofs`, which have no proof module in common.

Every safety property of a passing run is a theorem. Only model-checked:

* all liveness, which is out of the prover's reach: `LoopKeepsServing`,
  `DeadClientIsReplaced`, `FeedEnds`, and the fair parts of `ImplementsService`
  and of `ImplementsFairProbeJob`, whose safety parts are `FirmwareKeepsTheService`
  and `ProbeImplementsProbeJob`;
* the violations of section 6, each of them a behaviour that TLC shows.

## 6. Disagreements found

1. `stream_counters`: the status API publishes the shared analyzer's counters as
   those of the stream, also when a sweep filled them (`main.cpp` 319;
   `RTK3_ROBOT_STATUS.md` 146).
2. `evidence_freshness`: the active flag falls before the document is saved, so
   an older manual run's file can be accepted as the new run's document
   (`tls_evidence.cpp` 675; `collect_hardware_evidence.py` 227).
3. `arp_diagnosis`: the diagnosis says that no ARP reply came when no request
   could be sent (`tls_evidence.cpp` 411).

4. `pcap_sizes`: the payload of an IPv4 packet is taken to the end of the captured
   frame, so the padding of short frames counts as TCP payload and enters the
   parser (`pcap_transport_report.py` 250;
   `docs/mammotion-transport-findings.md` 76).

Noted without a run:

* `--target-mac` without `--target-ip` filters nothing (`pcap_transport_report.py`
  320), although its help says "only include flows involving this MAC" (443). The
  properties of the report are therefore stated for other command lines;
* a valid frame behind a false preamble whose length exceeds what follows waits for
  that many bytes (`rtcm_pipeline.py` 96), and the relay drops it when its source
  ends first, although `RTK3_ROBOT_STATUS.md` 136 says that the pipeline "recovers from
  arbitrary noise". `NothingHeldBack` says exactly which frames these are. The same
  holds of a flow of the report.

## 7. Not modelled

HTML and JSON text, CRC arithmetic, Wi-Fi association, BLE, the scans and the
read-only handlers beyond the time they take, certificate details,
`printableRatio` and the rates and ages of the relay's report (quotients of
modelled counters and times), the collector's build and upload phases and its
bundle file, the secrets generator. The `analyze` command of `rtcm_pipeline.py`
is the same parser without a destination. The code's `read(4096)` fills its chunk
except at the end; the relay's model allows chunks of every length, of which these are
some, and knows no time, so that how long a frame waits in a source's buffer is
not stated. Of the PCAP report: DNS names, TLS server names, timestamps,
candidate ports and the decoding of headers beyond the payload's ends.

Two things are taken to go well. `clearCaptureFiles` ignores the results of its removals
(`main.cpp` 93-98), and so does the model, in which `LittleFS.remove` succeeds
whenever the path is not open: what an old file that could not be removed would do to
the properties of the flash is not covered, as opposed to writes and opens, which may fail. And a TCP
client of the live stream takes bytes within the wire's rate, or is gone (section 3,
fairness).

A list of message types that is full lies beyond the bound of the run `analyzer`; the
theorem `TypesAreOfFrames` covers it.

## 8. Plan

Done: the firmware with its abstract service, the evidence server with its
abstract job, collector, probe task and ARP lookup, the analyzer, the relay, the
PCAP report; every safety property of the passing runs as a theorem.

Next:

1. an abstract relay (a filter on the sequence of frames) that `RtcmRelay`
   implements, with the steps of the refinement proved from `ParsedInv` and
   `OutputInv`;
2. that `feed` of the relay is a measure that falls with every step, the
   safety half of `FeedEnds`;
3. DNS names with compression in the PCAP report, and the argument parsing of
   `parsePorts` in `main.cpp`, as functions checked against definitions.
