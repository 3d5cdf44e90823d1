------------------------------ MODULE PcapReport ------------------------------
(***************************************************************************)
(* scripts/pcap_transport_report.py: a capture is read packet by packet,   *)
(* those that pass the filter are gathered into flows of two directions,   *)
(* and one RTCM parser per flow is fed their payloads in the order of the  *)
(* capture.                                                                *)
(***************************************************************************)
EXTENDS RtcmFrame, SequencesExt

CONSTANTS
  Packets,       \* packets that a capture may hold, see Packet below
  Options,       \* command lines: target IPs and MACs, --require-rtcm
  PadTo,         \* Ethernet (external): the shortest payload on the wire
  MaxPackets     \* bound: packets of one capture

PaddingByte == 0

ASSUME PcapAssumption == {PadTo, MaxPackets} \subseteq Nat /\ PaddingByte \in Alphabet

\* `padded`: a short packet was captured as it came off the wire, filled up.
\* `mac` is [src, dst].  Addresses are numbers because they are compared.
Kinds == {"tcp", "udp", "arp", "ip", "unparsed"}
Endpoints == [ip : Nat, port : Nat]
ASSUME PacketAssumption ==
  \A p \in Packets : /\ p.kind \in Kinds /\ {p.src, p.dst} \subseteq Endpoints
                     /\ p.payload \in Seq(Alphabet) /\ p.padded \in BOOLEAN

VARIABLES
  options,  \* the arguments
  at,       \* "reading", or the exit code
  count,    \* packet_count
  flows,    \* the Flow of each key
  arps,     \* arp_observations
  capture   \* history: the packets read

vars == <<options, at, count, flows, arps, capture>>

-----------------------------------------------------------------------------
(* packet_layers *)

Padding(p) == IF p.padded /\ Len(p.payload) < PadTo
              THEN [i \in 1 .. PadTo - Len(p.payload) |-> PaddingByte] ELSE <<>>

\* The length field of UDP cuts the padding off; nothing cuts it off of TCP,
\* whose payload ends where the captured packet does.
LayerPayload(p) == IF p.kind = "tcp" THEN p.payload \o Padding(p) ELSE p.payload

-----------------------------------------------------------------------------
(* RtcmParser.feed, as a function of what its buffer and the payload hold *)

\* The bytes from the i-th on, and the candidate at the beginning of some bytes.
From(bytes, i) == SubSeq(bytes, i, Len(bytes))
Candidate(s) == SubSeq(s, 1, FrameLength(s))

\* Mutant: the whole of a bad candidate is dropped.
ResumeAfterCandidate(i, raw) == i + Len(raw)

ResumeAfterPreamble(i, raw) == i + 1

\* A frame too short for a message type is dropped, another is returned.
Returned(raw) == IF PayloadLength(raw) < TypeBytes THEN <<>> ELSE <<raw>>

Feed(bytes) ==
  LET found[i \in 1 .. Len(bytes) + 1] ==
        LET s == From(bytes, i)
            raw == Candidate(s)
        IN IF i > Len(bytes) THEN [left |-> <<>>, frames |-> <<>>, errors |-> 0]
           ELSE IF s[1] # Preamble THEN found[i + 1]
           ELSE IF Incomplete(s) THEN [left |-> s, frames |-> <<>>, errors |-> 0]
           ELSE IF ~HeaderIsRight(s) THEN found[i + 1]
           ELSE IF CrcIsRight(raw)
           THEN [found[i + Len(raw)] EXCEPT !.frames = Returned(raw) \o @]
           ELSE [found[ResumeAfterPreamble(i, raw)] EXCEPT !.errors = @ + 1]
  IN found[1]

-----------------------------------------------------------------------------
(* Flows *)

Precedes(e, f) == e.ip < f.ip \/ (e.ip = f.ip /\ e.port <= f.port)

CanonicalFlow(p) ==
  IF Precedes(p.src, p.dst) THEN [protocol |-> p.kind, a |-> p.src, b |-> p.dst]
  ELSE [protocol |-> p.kind, a |-> p.dst, b |-> p.src]

NewFlow == [aToB |-> [packets |-> 0, bytes |-> 0], bToA |-> [packets |-> 0, bytes |-> 0],
            pending |-> <<>>, frames |-> <<>>, crcErrors |-> 0]

Counted(direction, payload) ==
  [packets |-> direction.packets + 1, bytes |-> direction.bytes + Len(payload)]

FromA(key, p) == p.src = key.a

\* Flow.observe.
Observe(flow, key, p) ==
  LET payload == LayerPayload(p)
      parsed == Feed(flow.pending \o payload)
  IN [aToB |-> IF FromA(key, p) THEN Counted(flow.aToB, payload) ELSE flow.aToB,
      bToA |-> IF FromA(key, p) THEN flow.bToA ELSE Counted(flow.bToA, payload),
      pending |-> parsed.left, frames |-> flow.frames \o parsed.frames,
      crcErrors |-> flow.crcErrors + parsed.errors]

\* Mutant: both ends of a packet have to be targets.
BothInvolved(p) ==
  {p.src.ip, p.dst.ip} \subseteq options.ips \/ {p.mac.src, p.mac.dst} \cap options.macs # {}

Involved(p) ==
  \/ options.ips = {}
  \/ {p.src.ip, p.dst.ip} \cap options.ips # {}
  \/ {p.mac.src, p.mac.dst} \cap options.macs # {}

-----------------------------------------------------------------------------
(* analyze and main *)

Init ==
  /\ options \in Options /\ at = "reading"
  /\ count = 0 /\ flows = [key \in {} |-> NewFlow] /\ arps = {} /\ capture = <<>>

\* read_pcap yields one more packet.
Yield(p) ==
  /\ at = "reading" /\ Len(capture) < MaxPackets
  /\ count' = count + 1 /\ capture' = Append(capture, p)
  /\ UNCHANGED <<options, at>>

SkipPacket(p) ==
  /\ Yield(p)
  /\ p.kind \in {"ip", "unparsed"} \/ (p.kind \in {"tcp", "udp"} /\ ~Involved(p))
  /\ UNCHANGED <<flows, arps>>

\* Whatever the filter says.
ObserveArp(p) ==
  /\ Yield(p) /\ p.kind = "arp"
  /\ arps' = arps \cup {[ip |-> p.src.ip, mac |-> p.mac.src]}
  /\ UNCHANGED flows

ObserveFlow(p) ==
  /\ Yield(p) /\ p.kind \in {"tcp", "udp"} /\ Involved(p)
  /\ LET key == CanonicalFlow(p)
         flow == IF key \in DOMAIN flows THEN flows[key] ELSE NewFlow
     IN flows' = [k \in DOMAIN flows \cup {key} |->
                    IF k = key THEN Observe(flow, key, p) ELSE flows[k]]
  /\ UNCHANGED arps

ValidRtcmFrames == SumFunction([key \in DOMAIN flows |-> Len(flows[key].frames)])

NoRtcm == ValidRtcmFrames = 0

\* The report goes out, with exit code 0 or 2.
EndOfFile ==
  /\ at = "reading"
  /\ at' = IF options.requireRtcm /\ NoRtcm THEN "no-rtcm" ELSE "reported"
  /\ UNCHANGED <<options, count, flows, arps, capture>>

\* A file of another format or link type, or one cut off in a packet: exit code
\* 1, and no report of what was read before.
BadFile ==
  /\ at = "reading" /\ at' = "failed"
  /\ UNCHANGED <<options, count, flows, arps, capture>>

Next ==
  \/ \E p \in Packets : SkipPacket(p) \/ ObserveArp(p) \/ ObserveFlow(p)
  \/ EndOfFile \/ BadFile

Spec == Init /\ [][Next]_vars

-----------------------------------------------------------------------------
(* Properties *)

\* The packets of a connection or exchange, whichever way they went.
Between(p, key) == p.kind = key.protocol /\ {p.src, p.dst} = {key.a, key.b}

\* "Only include flows involving this IP", "this MAC": everything is wanted if
\* nothing is named, else what has an end with a named IP or a named MAC.
Wanted(p) ==
  \/ options.ips = {} /\ options.macs = {}
  \/ \E ip \in options.ips : p.src.ip = ip \/ p.dst.ip = ip
  \/ \E mac \in options.macs : p.mac.src = mac \/ p.mac.dst = mac

\* Command lines that keep to this: a MAC alone filters nothing, whatever its help says.
MacBesideIp == options.macs # {} => options.ips # {}

\* The packets of the capture that a flow is to be made of, by their numbers.
Of(key) == {i \in 1..Len(capture) : Between(capture[i], key) /\ Wanted(capture[i])}

\* The parts whose numbers are in `which`, one after the other.
Joined(parts, which) ==
  LET upTo[n \in 0..Len(parts)] ==
        IF n = 0 THEN <<>> ELSE IF n \in which THEN upTo[n - 1] \o parts[n] ELSE upTo[n - 1]
  IN upTo[Len(parts)]

Payloads == [i \in 1..Len(capture) |-> LayerPayload(capture[i])]
Bytes(which) == Joined(Payloads, which)

\* "TCP/UDP endpoints, direction, byte counts": every packet read is counted,
\* and every one that the command line asks for is counted once more, in the one
\* flow of its two endpoints and in the direction it went; there is no flow
\* without one.  The bytes are those captured behind the headers, for TCP the
\* padding among them.
DirectionsAreAccounted ==
  /\ count = Len(capture)
  /\ MacBesideIp =>
       /\ \A key \in DOMAIN flows : Of(key) # {}
       /\ \A i \in 1..Len(capture) : LET p == capture[i] IN
            p.kind \in {"tcp", "udp"} /\ Wanted(p) =>
              Cardinality({key \in DOMAIN flows : Between(p, key)}) = 1
       /\ \A key \in DOMAIN flows :
            LET sent == {i \in Of(key) : capture[i].src = key.a}
                got == Of(key) \ sent
            IN /\ flows[key].aToB = [packets |-> Cardinality(sent), bytes |-> Len(Bytes(sent))]
               /\ flows[key].bToA = [packets |-> Cardinality(got), bytes |-> Len(Bytes(got))]

\* A whole valid frame is at the beginning of some bytes; one with a type is.
BeginsFrame(s) == Len(s) >= 3 /\ FrameLength(s) <= Len(s) /\ IsFrame(Candidate(s))
BeginsTyped(s) == BeginsFrame(s) /\ PayloadLength(s) >= TypeBytes

Occurrences(bytes) == {i \in 1..Len(bytes) : BeginsFrame(From(bytes, i))}
Overlaps(bytes, i, k) == i < k /\ k < i + FrameLength(From(bytes, i))
Typed(bytes) == [i \in 1..Len(bytes) |->
                   IF BeginsTyped(From(bytes, i)) THEN <<Candidate(From(bytes, i))>> ELSE <<>>]

\* How many bytes of a flow its parser is done with.
Parsed(key) == Len(Bytes(Of(key))) - Len(flows[key].pending)

\* A flow has, in their order, the frames that occur in the bytes of all its
\* packets as they follow each other in the capture: of frames that overlap the
\* first one, those without a type hide others but do not count, and the pending
\* bytes are a preamble for whose frame bytes are missing.  So a frame is found
\* however it was cut into packets, as long as nothing of the other direction,
\* nothing sent twice and no padding came between, which are all in these bytes.
\* And "exit 2 unless at least one CRC-valid RTCM3 frame is found": after exit 2
\* every frame with a type in the bytes of a flow is hidden by one without, or
\* behind a preamble that waits; and after exit 0 there is one.
FramesAreThoseOfTheFlow ==
  MacBesideIp =>
    /\ \A key \in DOMAIN flows :
         LET bytes == Bytes(Of(key))
             before == {i \in Occurrences(bytes) : i <= Parsed(key)}
             pending == flows[key].pending
         IN /\ \E found \in SUBSET before :
                 /\ \A k \in before : k \in found <=> ~\E i \in found : Overlaps(bytes, i, k)
                 /\ flows[key].frames = Joined(Typed(bytes), found)
            /\ pending = From(bytes, Parsed(key) + 1)
            /\ pending # <<>> => pending[1] = Preamble /\ Incomplete(pending)
    /\ at = "no-rtcm" =>
         \A key \in DOMAIN flows : LET bytes == Bytes(Of(key)) IN
           \A k \in 1..Parsed(key) :
             BeginsTyped(From(bytes, k)) =>
               \E i \in Occurrences(bytes) : /\ Overlaps(bytes, i, k)
                                             /\ ~BeginsTyped(From(bytes, i))
    /\ at = "reported" /\ options.requireRtcm =>
         \E key \in DOMAIN flows : LET bytes == Bytes(Of(key)) IN
           \E k \in 1..Len(bytes) : BeginsTyped(From(bytes, k))

\* "It reports ... directional payload sizes": the bytes of a direction are
\* those that its sender put into its packets.
SizesAreOfPayloads ==
  MacBesideIp => \A key \in DOMAIN flows :
    flows[key].aToB.bytes + flows[key].bToA.bytes
      = SumFunctionOnSet([i \in 1..Len(capture) |-> Len(capture[i].payload)], Of(key))
=============================================================================
