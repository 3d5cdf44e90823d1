------------------------------ MODULE TlsProbe ------------------------------
(***************************************************************************)
(* What one probe task of src/tls_evidence.cpp does between reading its    *)
(* trigger and publishing: the target check, the view of the network, the  *)
(* ARP lookup (ArpLookup), up to three TCP attempts, two TLS handshakes    *)
(* when one attempt connected, and the document written of it all.  It     *)
(* runs inside EvidenceServer in place of that module's Probe step.        *)
(***************************************************************************)
EXTENDS EvidenceServer, ArpLookup

CONSTANTS
  SavedTargets,        \* texts the key target_ip of NVS may hold; <<>>: none
  CompiledTarget,      \* RTK3_IP
  Station,             \* address and mask the station got: [address, mask]
  MaximumTcpAttempts,  \* kMaximumTcpAttempts: 3 in the code
  TcpErrors            \* errno values of a failed connect that are told apart

ASSUME TcpAssumption == MaximumTcpAttempts \in Nat \ {0}

VARIABLE probe  \* the local variables of each probe task

probeVars == <<vars, arpVars, probe>>

-----------------------------------------------------------------------------
(* Addresses: a dotted text is the sequence of its numbers *)

Octets == 0..255
IsAddress(text) == Len(text) = 4 /\ \A i \in 1..4 : text[i] \in Octets
AnyAddress == <<0, 0, 0, 0>>

IsAllowedPrivateIpv4(ip) ==
  \/ ip[1] = 10 \/ ip[1] = 127
  \/ ip[1] = 172 /\ ip[2] \in 16..31
  \/ ip[1] = 192 /\ ip[2] = 168

\* The `&` of an octet with one of a netmask, whose ones come first.
Masked(octet, mask) == octet - (octet % (256 - mask))

\* Mutant: a mask ends between octets.
SameWholeOctets(local, target, mask) == \A i \in 1..4 : mask[i] = 255 => local[i] = target[i]

SameSubnet(local, target, mask) ==
  \A i \in 1..4 : Masked(local[i], mask[i]) = Masked(target[i], mask[i])

\* WiFi (external): without a connection there is no address and no mask.
Interface == IF wifi THEN Station ELSE [address |-> AnyAddress, mask |-> AnyAddress]

\* The octets of a netmask, whose ones come first; a connected station has an
\* address.
NetmaskOctets == {0, 128, 192, 224, 240, 248, 252, 254, 255}
ASSUME StationAssumption ==
  /\ Station \in [address : [1..4 -> Octets], mask : [1..4 -> NetmaskOctets]]
  /\ Station.address # AnyAddress

-----------------------------------------------------------------------------
(* State *)

Attempt == [connected : BOOLEAN, error : TcpErrors \cup {"0"}]
Connected == [connected |-> TRUE, error |-> "0"]
TlsResults == {"failed", "anonymous", "certificate"}

Diagnoses == {"connected", "refused", "on-link", "no-arp-reply", "local", "routed"}

Texts == SavedTargets \cup {CompiledTarget}
Probes == [at : {"target", "arp", "lookup", "tcp", "tls", "report", "told"},
           target : Texts, source : {"compile-time", "nvs"},
           network : {Station, [address |-> AnyAddress, mask |-> AnyAddress]},
           local : BOOLEAN, arp : ArpEvidence, tcp : Seq(Attempt), tls : Seq(TlsResults)]
NewProbe(target, source) ==
  [at |-> "target", target |-> target, source |-> source, network |-> Station,
   local |-> FALSE, arp |-> NoEvidence, tcp |-> <<>>, tls |-> <<>>]
NoProbe == NewProbe(CompiledTarget, "compile-time")

TypesOK ==
  /\ TypeOK /\ ArpTypeOK
  /\ probe \in [Runs -> Probes]
  /\ \A t \in Runs : Len(probe[t].tcp) <= MaximumTcpAttempts /\ Len(probe[t].tls) <= 2

-----------------------------------------------------------------------------
(* The steps of a probe *)

In(t, step) == task[t].at = "probe" /\ probe[t].at = step
Set(t, new) == probe' = [probe EXCEPT ![t] = new] /\ UNCHANGED vars
Then(t, new) == Set(t, new) /\ UNCHANGED arpVars

\* loadTargetSelection: a saved text, whatever it is, goes before RTK3_IP.
LoadTarget(t) ==
  /\ BeginTask(t)
  /\ \E saved \in SavedTargets :
       probe' = [probe EXCEPT ![t] = IF saved # <<>> THEN NewProbe(saved, "nvs")
                                     ELSE NewProbe(CompiledTarget, "compile-time")]
  /\ UNCHANGED arpVars

Probeable(text) == IsAddress(text) /\ IsAllowedPrivateIpv4(text)

\* The task publishes an error document.
RefuseTarget(t) ==
  /\ In(t, "target") /\ ~Probeable(probe[t].target)
  /\ task' = [task EXCEPT ![t].at = "publish", ![t].state = "error"]
  /\ OnlyTask /\ UNCHANGED <<arpVars, probe>>

CaptureNetwork(t) ==
  /\ In(t, "target") /\ Probeable(probe[t].target)
  /\ LET i == Interface
     IN Then(t, [probe[t] EXCEPT !.at = "arp", !.network = i,
                                 !.local = SameSubnet(i.address, probe[t].target, i.mask)])

CaptureArp(t) ==
  /\ In(t, "arp") /\ BeginLookup(probe[t].local)
  /\ Set(t, [probe[t] EXCEPT !.at = "lookup"])

\* captureArpEvidence has returned.  What becomes of its late callbacks is not
\* modelled: their context is gone.
TakeArp(t) ==
  /\ In(t, "lookup") /\ lookup.at = "idle"
  /\ ArpReset
  /\ Set(t, [probe[t] EXCEPT !.at = "tcp", !.arp = lookup.evidence])

\* Mutants: the number of attempts is not looked at, or is one too few.
RetryForEver(connected, made) == ~connected
RetryTooFew(connected, made) == ~connected /\ made + 1 < MaximumTcpAttempts

ShouldRetryTcp(connected, made) == ~connected /\ made < MaximumTcpAttempts

TcpAttempt(t) ==
  /\ In(t, "tcp")
  /\ \E result \in {Connected} \cup [connected : {FALSE}, error : TcpErrors \cup {"0"}] :
       LET made == Len(probe[t].tcp) + 1
           next == IF ShouldRetryTcp(result.connected, made) THEN "tcp"
                   ELSE IF result.connected THEN "tls" ELSE "report"
       IN Then(t, [probe[t] EXCEPT !.at = next, !.tcp = Append(@, result)])

\* First without SNI, then with SNI and ALPN, whatever came of the first.
TlsAttempt(t) ==
  /\ In(t, "tls")
  /\ \E result \in TlsResults :
       Then(t, [probe[t] EXCEPT !.at = IF probe[t].tls = <<>> THEN "tls" ELSE "report",
                                !.tls = Append(@, result)])

-----------------------------------------------------------------------------
(* The document *)

\* classifyTcpFailure, and the outcome of an attempt that connected.
TcpOutcome(attempt) ==
  CASE attempt.connected -> "tcp-connected"
    [] ~attempt.connected /\ attempt.error = "0" -> "connect-failed-no-errno"
    [] attempt.error = "ETIMEDOUT" -> "timeout"
    [] attempt.error = "ECONNREFUSED" -> "connection-refused"
    [] attempt.error = "EHOSTUNREACH" -> "host-unreachable"
    [] attempt.error = "ENETUNREACH" -> "network-unreachable"
    [] attempt.error = "EADDRNOTAVAIL" -> "address-not-available"
    [] OTHER -> "connect-failed"

\* Mutant: only the last attempt is looked at for a refusal.
RefusedLast(tcp) == tcp # <<>> /\ tcp[Len(tcp)].error = "ECONNREFUSED"

Refused(tcp) == \E i \in 1..Len(tcp) : tcp[i].error = "ECONNREFUSED"

Reachable(tcp) == tcp # <<>> /\ tcp[Len(tcp)].connected

TcpDiagnosis(p) ==
  IF Reachable(p.tcp) THEN "connected"
  ELSE IF Refused(p.tcp) THEN "refused"
  ELSE IF p.arp.resolved THEN "on-link"
  ELSE IF p.local /\ p.arp.eligible /\ p.arp.attempted THEN "no-arp-reply"
  ELSE IF p.local THEN "local" ELSE "routed"

Report(p) ==
  [targetIp |-> p.target, targetSource |-> p.source,
   localIp |-> p.network.address, targetOnLocalSubnet |-> p.local, arp |-> p.arp,
   tcpReachable |-> Reachable(p.tcp), tcpAttemptsMade |-> Len(p.tcp),
   tcpStoppedAfterSuccess |-> Reachable(p.tcp) /\ Len(p.tcp) < MaximumTcpAttempts,
   tcpAttempts |-> [i \in 1..Len(p.tcp) |-> TcpOutcome(p.tcp[i])],
   tlsAttempted |-> Reachable(p.tcp), diagnosis |-> TcpDiagnosis(p),
   attempts |-> IF Reachable(p.tcp) THEN p.tls ELSE <<>>]

\* The document is Report(probe[t]) from here on.
WriteReport(t) ==
  /\ In(t, "report")
  /\ probe' = [probe EXCEPT ![t].at = "told"]
  /\ task' = [task EXCEPT ![t].at = "publish", ![t].state = "completed"]
  /\ OnlyTask /\ UNCHANGED arpVars

-----------------------------------------------------------------------------
(* Inside the server *)

Elsewhere == UNCHANGED <<arpVars, probe>>

ProbeStep(t) ==
  \/ LoadTarget(t) \/ RefuseTarget(t) \/ CaptureNetwork(t)
  \/ CaptureArp(t) \/ TakeArp(t)
  \/ In(t, "lookup") /\ LookupStep /\ UNCHANGED <<vars, probe>>
  \/ TcpAttempt(t) \/ TlsAttempt(t) \/ WriteReport(t)

\* The published document is a string: the locals it was made of are dead.
OtherTaskStep(t) ==
  \/ Publish(t) /\ probe' = [probe EXCEPT ![t] = NoProbe] /\ UNCHANGED arpVars
  \/ SaveTask(t) /\ Elsewhere

ProbeRestarts ==
  /\ Restart /\ probe' = [t \in Runs |-> NoProbe]
  /\ ArpReset

ProbeNext ==
  \/ \E t \in Runs : ProbeStep(t) \/ OtherTaskStep(t)
  \/ Network /\ UNCHANGED <<vars, probe>>
  \/ (LoopStep \/ Serve("other") \/ Tick \/ WifiChanges \/ MainProbeFinishes) /\ Elsewhere
  \/ ProbeRestarts

ProbeInit == Init /\ ArpInit /\ probe = [t \in Runs |-> NoProbe]

ProbeSpec == ProbeInit /\ [][ProbeNext]_probeVars

\* The loop task and the probe tasks are scheduled for ever by FreeRTOS, and
\* every call they make has a time limit.  Nothing is asked of tcpip_thread.
ProbeFairness ==
  /\ WF_probeVars(LoopStep /\ Elsewhere)
  /\ \A t \in Runs : WF_probeVars(ProbeStep(t) \/ OtherTaskStep(t))

FairProbeSpec == ProbeSpec /\ ProbeFairness

-----------------------------------------------------------------------------
(* Properties *)

\* A probe never stays active, whatever fails on the way: its attempts are
\* bounded, a task that cannot be created gives the flag back, and the document
\* that ends it is its own.
ImplementsFairProbeJob == Job!FairSpec

Reported(t) == probe[t].at = "told"

\* 10/8, 127/8, 172.16/12 and 192.168/16 by the first half of an address.
HighHalf(ip) == 256 * ip[1] + ip[2]
PrivateHighHalves == (2560..2815) \cup (32512..32767) \cup (44048..44063) \cup {49320}

\* "remaining TCP retries were skipped and TLS probing was allowed": the probe
\* stops at the first connection, gives up only after all of its attempts,
\* makes both handshakes exactly when one connected, and its document counts
\* what was done.  Nothing is sent to an address that is not a private one.
AttemptsFollowThePlan ==
  \A t \in Runs : LET p == probe[t] r == Report(p) IN
    /\ \A i \in 1..Len(p.tcp) - 1 : ~p.tcp[i].connected
    /\ p.tls # <<>> => Reachable(p.tcp)
    /\ p.at \notin {"target", "told"} => HighHalf(p.target) \in PrivateHighHalves
    /\ Reported(t) =>
         /\ r.tcpReachable \/ r.tcpAttemptsMade = MaximumTcpAttempts
         /\ r.tcpReachable <=> \E i \in 1..Len(p.tcp) : r.tcpAttempts[i] = "tcp-connected"
         /\ Len(r.attempts) = (IF r.tlsAttempted THEN 2 ELSE 0) /\ r.attempts = p.tls
         /\ r.tcpStoppedAfterSuccess => r.tcpAttempts[r.tcpAttemptsMade] = "tcp-connected"

\* The first address of the station's subnet, and how many follow it.
InStationsSubnet(ip) ==
  \A i \in 1..4 : LET first == Masked(Station.address[i], Station.mask[i])
                  IN ip[i] \in first .. first + 255 - Station.mask[i]

\* The diagnosis calls the target present exactly when some observation, of
\* any attempt or of ARP, showed it to be; it blames the route only when the
\* target lies outside the subnet of a connected station, and the subnet only
\* when the target lies inside it or the document shows no address.
DiagnosisSeesTheTarget ==
  \A t \in Runs : Reported(t) =>
    LET r == Report(probe[t])
        seen == r.arp.resolved
                  \/ \E i \in 1..r.tcpAttemptsMade :
                       r.tcpAttempts[i] \in {"tcp-connected", "connection-refused"}
    IN /\ r.diagnosis \in {"connected", "refused", "on-link"} <=> seen
       /\ r.diagnosis = "routed" => r.localIp # AnyAddress /\ ~InStationsSubnet(r.targetIp)
       /\ r.diagnosis \in {"local", "no-arp-reply", "on-link"} =>
            r.localIp = AnyAddress \/ InStationsSubnet(r.targetIp)

\* "The target produced no ARP reply on the local subnet": so the document
\* says; then a request must have gone out and its answer must have been looked
\* for, as `outcome` says in the same document.
NoReplyWasAwaited ==
  \A t \in Runs : Reported(t) /\ TcpDiagnosis(probe[t]) = "no-arp-reply" =>
                    probe[t].arp.outcome = "no-arp-reply"
=============================================================================
