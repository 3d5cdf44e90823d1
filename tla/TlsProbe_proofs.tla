--------------------------- MODULE TlsProbe_proofs ---------------------------
(***************************************************************************)
(* The probe task inside the evidence server, for every number of probes   *)
(* and attempts, every station, netmask and target.  What an ARP lookup    *)
(* reports to be resolved was in lwIP's table while the lookup ran,        *)
(* although the task and tcpip_thread share the context without a lock;    *)
(* the server keeps the promise of ProbeJob with the probe's own steps     *)
(* between its critical sections; and the document tells of the attempts   *)
(* that were made.  ProbeInv is the inductive invariant: what the server   *)
(* knows of its tasks, the truth of the lookup, the plan of each probe,    *)
(* and that the lookup that goes on belongs to the probe that waits for it.*)
(***************************************************************************)
EXTENDS TlsProbe, EvidenceServer_proofs, SequenceTheorems

-----------------------------------------------------------------------------
(* The ARP lookup *)

\* What a record update needs to know of the two shared records.
LookupType ==
  /\ lookup \in [at : {"idle", "netif", "cache", "request", "wait", "result"},
                 evidence : ArpEvidence]
  /\ context \in [live : BOOLEAN, found : BOOLEAN, mac : {"zero", "target"},
                  failed : BOOLEAN]
  /\ table \in BOOLEAN

\* Whatever says that the target was found is true: the table, as long as a
\* lookup runs, the context and the evidence.  Between lookups there is no
\* context, so a late callback has nothing to write to.
SeenInv ==
  /\ lookup.at = "idle" => context = NoContext
  /\ lookup.at # "idle" /\ table => sighted
  /\ context.found => sighted
  /\ lookup.evidence.resolved => sighted

LookupInv == LookupType /\ SeenInv

LEMMA NothingYet ==
  /\ NoEvidence \in ArpEvidence /\ ~NoEvidence.resolved
  /\ NoContext \in [live : BOOLEAN, found : BOOLEAN, mac : {"zero", "target"},
                   failed : BOOLEAN]
  /\ ~NoContext.found /\ ~NoContext.live
  BY DEF NoEvidence, NoContext, ArpEvidence, Outcomes

LEMMA LookupInit == ArpInit => LookupInv
<1> SUFFICES ASSUME ArpInit PROVE LookupInv
  OBVIOUS
<1>1. lookup.evidence = NoEvidence /\ lookup.at = "idle"
  BY DEF ArpInit
<1>2. LookupType
  BY NothingYet DEF ArpInit, LookupType
<1> QED BY <1>1, <1>2, NothingYet DEF ArpInit, LookupInv, SeenInv

LEMMA LookupReset == ArpReset => LookupInv'
<1> SUFFICES ASSUME ArpReset PROVE LookupInv'
  OBVIOUS
<1>1. lookup'.evidence = NoEvidence /\ lookup'.at = "idle"
  BY DEF ArpReset
<1>2. LookupType'
  BY NothingYet DEF ArpReset, LookupType
<1> QED BY <1>1, <1>2, NothingYet DEF ArpReset, LookupInv, SeenInv

LEMMA LookupStutters == LookupInv /\ UNCHANGED arpVars => LookupInv'
  BY DEF arpVars, LookupInv, LookupType, SeenInv

\* captureArpEvidence is entered.
LEMMA LookupBegins ==
  ASSUME NEW local, LookupInv, BeginLookup(local)
  PROVE  LookupInv'
<1>1. CASE /\ local
           /\ lookup' = [at |-> "netif", evidence |-> [NoEvidence EXCEPT !.eligible = TRUE]]
           /\ table' \in BOOLEAN /\ sighted' = table'
           /\ UNCHANGED context
  <2>1. /\ [NoEvidence EXCEPT !.eligible = TRUE] \in ArpEvidence
        /\ ~[NoEvidence EXCEPT !.eligible = TRUE].resolved
    BY DEF NoEvidence, ArpEvidence, Outcomes
  <2> QED BY <1>1, <2>1, NothingYet DEF BeginLookup, LookupInv, LookupType, SeenInv
<1>2. CASE /\ ~local
           /\ Return([NoEvidence EXCEPT !.outcome = "not-local-subnet"])
           /\ sighted' = FALSE /\ UNCHANGED table
  BY <1>2 DEF LookupInv, LookupType, SeenInv, Return, NoEvidence, NoContext,
              ArpEvidence, Outcomes
<1> QED BY <1>1, <1>2 DEF BeginLookup

\* A return keeps the invariant when its evidence tells the truth.
LEMMA LookupReturns ==
  ASSUME LookupInv, NEW answer \in ArpEvidence, answer.resolved => sighted,
         Return(answer), UNCHANGED <<table, sighted>>
  PROVE  LookupInv'
  BY DEF Return, LookupInv, LookupType, SeenInv, NoContext

\* The steps of captureArpEvidence after it was entered.
LEMMA LookupContinues ==
  ASSUME LookupInv, LookupStep
  PROVE  LookupInv'
<1> USE DEF LookupInv, LookupType, ArpEvidence, Outcomes
<1>1. ASSUME NEW outcome \in Outcomes, ReturnOutcome(outcome), UNCHANGED <<table, sighted>>
      PROVE  LookupInv'
  <2> DEFINE answer == [lookup.evidence EXCEPT !.outcome = outcome]
  <2>1. answer \in ArpEvidence OBVIOUS
  <2>2. answer.resolved = lookup.evidence.resolved OBVIOUS
  <2>3. answer.resolved => sighted BY <2>2 DEF SeenInv
  <2>4. Return(answer) BY <1>1 DEF ReturnOutcome
  <2> HIDE DEF answer
  <2> QED BY <1>1, <2>1, <2>3, <2>4, LookupReturns
<1>2. ASSUME FindInterface PROVE LookupInv'
  <2>1. CASE \E outcome \in {"station-netif-unavailable", "lwip-netif-unavailable",
                             "arp-cache-check-callback-failed"} : ReturnOutcome(outcome)
    BY <1>1, <1>2, <2>1 DEF FindInterface
  <2>2. CASE lookup' = [lookup EXCEPT !.at = "cache"] /\ context' = NewContext
    BY <1>2, <2>2 DEF FindInterface, SeenInv, NewContext, NoContext
  <2> QED BY <1>2, <2>1, <2>2 DEF FindInterface
<1>3. ASSUME ReadCache PROVE LookupInv'
  <2>1. CASE context.found /\ Return([Resolved("resolved-from-cache") EXCEPT !.cacheHit = TRUE])
    <3> DEFINE answer == [Resolved("resolved-from-cache") EXCEPT !.cacheHit = TRUE]
    <3>1. answer \in ArpEvidence BY DEF Resolved
    <3>2. sighted BY <2>1 DEF SeenInv
    <3> HIDE DEF answer
    <3>3. Return(answer) BY <2>1 DEF answer
    <3> QED BY <1>3, <3>1, <3>2, <3>3, LookupReturns DEF ReadCache
  <2>2. CASE /\ lookup' = [at |-> "request",
                           evidence |-> [lookup.evidence EXCEPT !.attempted = TRUE]]
             /\ UNCHANGED context
    BY <1>3, <2>2 DEF ReadCache, SeenInv
  <2>3. CASE Return([lookup.evidence EXCEPT !.attempted = TRUE,
                                            !.outcome = "arp-request-callback-failed"])
    <3> DEFINE answer == [lookup.evidence EXCEPT !.attempted = TRUE,
                                            !.outcome = "arp-request-callback-failed"]
    <3>1. answer \in ArpEvidence OBVIOUS
    <3>2. answer.resolved => sighted BY DEF SeenInv
    <3>3. Return(answer) BY <2>3
    <3> HIDE DEF answer
    <3> QED BY <1>3, <3>1, <3>2, <3>3, LookupReturns DEF ReadCache
  <2> QED BY <1>3, <2>1, <2>2, <2>3 DEF ReadCache
<1>4. ASSUME ReadRequest PROVE LookupInv'
  <2>1. CASE Return([lookup.evidence EXCEPT !.requestError = TRUE,
                                            !.outcome = "arp-request-failed"])
    <3> DEFINE answer == [lookup.evidence EXCEPT !.requestError = TRUE,
                                            !.outcome = "arp-request-failed"]
    <3>1. answer \in ArpEvidence OBVIOUS
    <3>2. answer.resolved => sighted BY DEF SeenInv
    <3>3. Return(answer) BY <2>1
    <3> HIDE DEF answer
    <3> QED BY <1>4, <3>1, <3>2, <3>3, LookupReturns DEF ReadRequest
  <2>2. CASE lookup' = [lookup EXCEPT !.at = "wait"] /\ UNCHANGED context
    BY <1>4, <2>2 DEF ReadRequest, SeenInv
  <2> QED BY <1>4, <2>1, <2>2 DEF ReadRequest
<1>5. ASSUME LookAgain PROVE LookupInv'
  <2>1. CASE /\ lookup' = [lookup EXCEPT !.at = "result"]
             /\ context' = [context EXCEPT !.found = FALSE]
    BY <1>5, <2>1 DEF LookAgain, SeenInv
  <2>2. CASE ReturnOutcome("arp-result-callback-failed")
    BY <1>1, <1>5, <2>2 DEF LookAgain
  <2> QED BY <1>5, <2>1, <2>2 DEF LookAgain
<1>6. ASSUME ReadResult PROVE LookupInv'
  <2>1. CASE Answered /\ Return(Resolved("resolved-after-request"))
    <3>1. Resolved("resolved-after-request") \in ArpEvidence BY DEF Resolved
    <3>2. sighted BY <2>1 DEF SeenInv, Answered
    <3> QED BY <1>6, <2>1, <3>1, <3>2, LookupReturns DEF ReadResult
  <2>2. CASE ReturnOutcome("no-arp-reply")
    BY <1>1, <1>6, <2>2 DEF ReadResult
  <2> QED BY <1>6, <2>1, <2>2 DEF ReadResult
<1> QED BY <1>2, <1>3, <1>4, <1>5, <1>6 DEF LookupStep

\* A callback runs, whenever it does, or the table changes.
LEMMA NetworkKeepsTheTruth ==
  ASSUME LookupInv, Network
  PROVE  LookupInv'
<1> USE DEF LookupInv, LookupType, SeenInv, Write
<1>1. CASE RunFind
  <2>1. context.live => lookup.at # "idle" BY DEF NoContext
  <2> QED BY <1>1, <2>1 DEF RunFind, FindsAddress, NoContext
<1>2. CASE CopyMac
  <2>1. context.live => lookup.at # "idle" BY NothingYet
  <2> QED BY <1>2, <2>1, NothingYet DEF CopyMac
<1>3. CASE RunRequest
  <2>1. context.live => lookup.at # "idle" BY NothingYet
  <2>2. PICK failed \in BOOLEAN : Write([context EXCEPT !.failed = failed])
    BY <1>3 DEF RunRequest
  <2> QED BY <1>3, <2>1, <2>2, NothingYet DEF RunRequest
<1>4. CASE TableChanges
  BY <1>4 DEF TableChanges
<1> QED BY <1>1, <1>2, <1>3, <1>4 DEF Network

\* Everything else leaves the lookup alone or ends it.
LEMMA LookupInvariant == ProbeSpec => []LookupInv
<1>1. ProbeInit => LookupInv
  BY LookupInit DEF ProbeInit
<1>2. LookupInv /\ [ProbeNext]_probeVars => LookupInv'
  <2> SUFFICES ASSUME LookupInv, [ProbeNext]_probeVars PROVE LookupInv'
    OBVIOUS
  <2>1. ASSUME NEW t \in Runs, ProbeStep(t) PROVE LookupInv'
    <3>1. CASE LoadTarget(t) \/ RefuseTarget(t) \/ CaptureNetwork(t)
                 \/ TcpAttempt(t) \/ TlsAttempt(t) \/ WriteReport(t)
      BY <3>1, LookupStutters
         DEF LoadTarget, RefuseTarget, CaptureNetwork, TcpAttempt, TlsAttempt,
             WriteReport, Then, arpVars
    <3>2. CASE CaptureArp(t)
      BY <3>2, LookupBegins DEF CaptureArp
    <3>3. CASE TakeArp(t)
      BY <3>3, LookupReset DEF TakeArp
    <3>4. CASE LookupStep
      BY <3>4, LookupContinues
    <3> QED BY <2>1, <3>1, <3>2, <3>3, <3>4 DEF ProbeStep
  <2>2. ASSUME NEW t \in Runs, OtherTaskStep(t) PROVE LookupInv'
    BY <2>2, LookupStutters DEF OtherTaskStep, Elsewhere
  <2>3. CASE Network
    BY <2>3, NetworkKeepsTheTruth
  <2>4. CASE Elsewhere
    BY <2>4, LookupStutters DEF Elsewhere
  <2>5. CASE ProbeRestarts
    BY <2>5, LookupReset DEF ProbeRestarts
  <2>6. CASE UNCHANGED probeVars
    BY <2>6, LookupStutters DEF probeVars
  <2> QED BY <2>1, <2>2, <2>3, <2>4, <2>5, <2>6 DEF ProbeNext
<1> QED BY <1>1, <1>2, PTL DEF ProbeSpec

\* "The target resolved by ARP": whenever the evidence of a lookup says so, the
\* target was in lwIP's table at some time of this lookup.
THEOREM ResolvedIsTrue == ProbeSpec => []ResolvedWasSeen
<1>1. LookupInv => ResolvedWasSeen
  BY DEF LookupInv, SeenInv, ResolvedWasSeen
<1> QED BY <1>1, LookupInvariant, PTL

-----------------------------------------------------------------------------
(* Inside the server *)

\* Of the steps of a probe the server sees its beginning and its end.
LEMMA ProbeStepOfServer ==
  ASSUME [ProbeNext]_probeVars PROVE ServerStep \/ UNCHANGED vars
<1>1. ASSUME NEW t \in Runs, ProbeStep(t) PROVE ServerStep \/ UNCHANGED vars
  <2>1. CASE LoadTarget(t)
    BY <2>1 DEF LoadTarget, ServerStep, TaskStep
  <2>2. CASE RefuseTarget(t) \/ WriteReport(t)
    <3>1. Probe(t)
      BY <2>2 DEF RefuseTarget, WriteReport, In, Probe
    <3> QED
      BY <3>1 DEF ServerStep, TaskStep
  <2>3. CASE \/ CaptureNetwork(t) \/ CaptureArp(t) \/ TakeArp(t) \/ TcpAttempt(t) \/ TlsAttempt(t)
             \/ In(t, "lookup") /\ LookupStep /\ UNCHANGED <<vars, probe>>
    BY <2>3 DEF CaptureNetwork, CaptureArp, TakeArp, TcpAttempt, TlsAttempt, Then, Set
  <2> QED
    BY <1>1, <2>1, <2>2, <2>3 DEF ProbeStep
<1>2. ASSUME NEW t \in Runs, OtherTaskStep(t) PROVE ServerStep
  BY <1>2 DEF OtherTaskStep, ServerStep, TaskStep
<1>3. CASE (LoopStep \/ Serve("other") \/ Tick \/ WifiChanges \/ MainProbeFinishes) /\ Elsewhere
  BY <1>3 DEF ServerStep, Clients, MainProbeFinishes, MainFileAppears
<1>4. CASE ProbeRestarts
  BY <1>4 DEF ProbeRestarts, ServerStep
<1>5. CASE (Network /\ UNCHANGED <<vars, probe>>) \/ UNCHANGED probeVars
  BY <1>5 DEF probeVars
<1> QED
  BY <1>1, <1>2, <1>3, <1>4, <1>5 DEF ProbeNext

LEMMA ServerInvariant == ProbeSpec => []IndInv
<1>1. ProbeInit => IndInv
  BY ServerTypeInit, FlagInit DEF ProbeInit, IndInv
<1>2. IndInv /\ [ProbeNext]_probeVars => IndInv'
  BY ProbeStepOfServer, ServerTypeStep, FlagStep DEF IndInv
<1> QED
  BY <1>1, <1>2, PTL DEF ProbeSpec

\* The server keeps the promise of ProbeJob also with the steps of its probes told
\* apart: through lookups, retries and refused targets, at most one probe runs,
\* and the document that ends it is of that run and under its trigger.
THEOREM ProbeImplementsProbeJob == ProbeSpec => ImplementsProbeJob
<1>1. ProbeInit => Job!Init
  BY DEF ProbeInit, Init, NotRun, Doc, Job!Init, Job!Nothing, Job!Document
<1>2. IndInv /\ [ProbeNext]_probeVars => [Job!Next]_(Job!jobVars)
  BY ProbeStepOfServer, StepRefines
<1> QED
  BY <1>1, <1>2, ServerInvariant, PTL DEF ProbeSpec, ImplementsProbeJob, Job!Spec

-----------------------------------------------------------------------------
(* The records of a probe *)

Steps == {"target", "arp", "lookup", "tcp", "tls", "report", "told"}
Sources == {"compile-time", "nvs"}
Networks == {Station, [address |-> AnyAddress, mask |-> AnyAddress]}

\* A probe, field by field.
Has(p, at, target, source, network, local, arp, tcp, tls) ==
  /\ p.at = at /\ p.target = target /\ p.source = source /\ p.network = network
  /\ p.local = local /\ p.arp = arp /\ p.tcp = tcp /\ p.tls = tls

\* The provers must not see that the last two fields are sequences.
TcpLists == Seq(Attempt)
TlsLists == Seq(TlsResults)

LEMMA ProbesAre ==
  Probes = [at : Steps, target : Texts, source : Sources, network : Networks,
            local : BOOLEAN, arp : ArpEvidence, tcp : TcpLists, tls : TlsLists]
BY DEF Probes, Steps, Networks, Sources, TcpLists, TlsLists

LEMMA ProbeFields ==
  ASSUME NEW p \in Probes
  PROVE  /\ p.at \in Steps /\ p.target \in Texts /\ p.source \in Sources
         /\ p.network \in Networks /\ p.local \in BOOLEAN
         /\ p.arp \in ArpEvidence /\ p.tcp \in TcpLists /\ p.tls \in TlsLists
BY ProbesAre

\* What the updates of the probe's steps make of a record.
LEMMA AtUpdate ==
  ASSUME NEW p \in Probes, NEW a \in Steps
  PROVE  LET q == [p EXCEPT !.at = a]
         IN /\ q \in Probes
            /\ Has(q, a, p.target, p.source, p.network, p.local, p.arp, p.tcp, p.tls)
BY ProbesAre DEF Has

LEMMA NetworkUpdate ==
  ASSUME NEW p \in Probes, NEW a \in Steps, NEW x \in Networks, NEW y \in BOOLEAN
  PROVE  LET q == [p EXCEPT !.at = a, !.network = x, !.local = y]
         IN q \in Probes /\ Has(q, a, p.target, p.source, x, y, p.arp, p.tcp, p.tls)
BY ProbesAre DEF Has

LEMMA ArpUpdate ==
  ASSUME NEW p \in Probes, NEW a \in Steps, NEW v \in ArpEvidence
  PROVE  LET q == [p EXCEPT !.at = a, !.arp = v]
         IN /\ q \in Probes
            /\ Has(q, a, p.target, p.source, p.network, p.local, v, p.tcp, p.tls)
BY ProbesAre DEF Has

LEMMA TcpUpdate ==
  ASSUME NEW p \in Probes, NEW a \in Steps, NEW s \in TcpLists
  PROVE  LET q == [p EXCEPT !.at = a, !.tcp = s]
         IN /\ q \in Probes
            /\ Has(q, a, p.target, p.source, p.network, p.local, p.arp, s, p.tls)
BY ProbesAre DEF Has

LEMMA TlsUpdate ==
  ASSUME NEW p \in Probes, NEW a \in Steps, NEW r \in TlsLists
  PROVE  LET q == [p EXCEPT !.at = a, !.tls = r]
         IN /\ q \in Probes
            /\ Has(q, a, p.target, p.source, p.network, p.local, p.arp, p.tcp, r)
BY ProbesAre DEF Has

LEMMA NewProbes ==
  ASSUME NEW target \in Texts, NEW source \in Sources
  PROVE  /\ NewProbe(target, source) \in Probes
         /\ Has(NewProbe(target, source), "target", target, source, Station, FALSE,
                NoEvidence, <<>>, <<>>)
<1>1. <<>> \in TcpLists /\ <<>> \in TlsLists
  BY DEF TcpLists, TlsLists
<1>2. NoEvidence \in ArpEvidence /\ Station \in Networks
  BY NothingYet DEF Networks
<1> QED
  BY <1>1, <1>2, ProbesAre DEF NewProbe, Has, Steps

-----------------------------------------------------------------------------
(* The plan of one probe *)

\* The attempts: all but the last have failed, and the steps come in their order.
Attempts(p) ==
  /\ \A i \in 1..Len(p.tcp) : p.tcp[i].connected => p.tcp[i] = Connected /\ i = Len(p.tcp)
  /\ Len(p.tcp) <= MaximumTcpAttempts
  /\ p.at \in {"target", "arp", "lookup"} => p.tcp = <<>> /\ p.tls = <<>> /\ p.arp = NoEvidence
  /\ p.at = "tcp" => p.tls = <<>> /\ Len(p.tcp) < MaximumTcpAttempts /\ ~Reachable(p.tcp)
  /\ p.at = "tls" => Reachable(p.tcp) /\ Len(p.tls) < 2
  /\ p.at \in {"report", "told"} =>
       IF Reachable(p.tcp) THEN Len(p.tls) = 2
       ELSE p.tls = <<>> /\ Len(p.tcp) = MaximumTcpAttempts

\* The target was let through, it was compared with the network of the
\* document, and only a target of that network is looked up.
Aim(p) ==
  /\ p.at # "target" => /\ Probeable(p.target)
                        /\ p.local <=> SameSubnet(p.network.address, p.target, p.network.mask)
  /\ p.arp.resolved => p.local

Plan(p) == p \in Probes /\ Attempts(p) /\ Aim(p)

LEMMA NewPlans ==
  ASSUME NEW target \in Texts, NEW source \in Sources PROVE Plan(NewProbe(target, source))
<1> DEFINE p == NewProbe(target, source)
<1>1. p \in Probes /\ Has(p, "target", target, source, Station, FALSE, NoEvidence, <<>>, <<>>)
  BY NewProbes
<1> HIDE DEF p
<1>2. Len(p.tcp) = 0 /\ p.tcp = <<>> /\ p.tls = <<>> /\ p.arp = NoEvidence /\ p.at = "target"
  BY <1>1 DEF Has
<1>3. Attempts(p)
  BY <1>2, TcpAssumption DEF Attempts
<1>4. Aim(p)
  BY <1>2, NothingYet DEF Aim
<1> QED
  BY <1>1, <1>3, <1>4 DEF Plan, p

LEMMA NoPlan == Plan(NoProbe)
BY NewPlans DEF NoProbe, Texts, Sources

LEMMA NetworkPlan ==
  ASSUME NEW p, Plan(p), p.at = "target", Probeable(p.target), NEW i \in Networks
  PROVE  Plan([p EXCEPT !.at = "arp", !.network = i,
                        !.local = SameSubnet(i.address, p.target, i.mask)])
<1> DEFINE y == SameSubnet(i.address, p.target, i.mask)
           q == [p EXCEPT !.at = "arp", !.network = i, !.local = y]
<1>1. y \in BOOLEAN
  BY DEF SameSubnet
<1>2. q \in Probes /\ Has(q, "arp", p.target, p.source, i, y, p.arp, p.tcp, p.tls)
  BY <1>1, NetworkUpdate DEF Plan, Steps
<1> HIDE DEF q
<1>3. Attempts(q)
  BY <1>2 DEF Plan, Attempts, Has
<1>4. Aim(q)
  BY <1>2, NothingYet DEF Plan, Aim, Attempts, Has
<1> QED
  BY <1>2, <1>3, <1>4 DEF Plan, q

LEMMA LookupPlan ==
  ASSUME NEW p, Plan(p), p.at = "arp" PROVE Plan([p EXCEPT !.at = "lookup"])
<1> DEFINE q == [p EXCEPT !.at = "lookup"]
<1>1. q \in Probes /\ Has(q, "lookup", p.target, p.source, p.network, p.local, p.arp, p.tcp, p.tls)
  BY AtUpdate DEF Plan, Steps
<1> HIDE DEF q
<1>2. Attempts(q)
  BY <1>1 DEF Plan, Attempts, Has
<1>3. Aim(q)
  BY <1>1 DEF Plan, Aim, Has
<1> QED
  BY <1>1, <1>2, <1>3 DEF Plan, q

LEMMA ArpPlan ==
  ASSUME NEW p, Plan(p), p.at = "lookup", NEW v \in ArpEvidence, v.resolved => p.local
  PROVE  Plan([p EXCEPT !.at = "tcp", !.arp = v])
<1> DEFINE q == [p EXCEPT !.at = "tcp", !.arp = v]
<1>1. q \in Probes /\ Has(q, "tcp", p.target, p.source, p.network, p.local, v, p.tcp, p.tls)
  BY ArpUpdate DEF Plan, Steps
<1> HIDE DEF q
<1>2. Attempts(q)
  BY <1>1, TcpAssumption DEF Plan, Attempts, Has, Reachable
<1>3. Aim(q)
  BY <1>1 DEF Plan, Aim, Has
<1> QED
  BY <1>1, <1>2, <1>3 DEF Plan, q

\* One attempt more: it is the last if it connected, or if none is left.
LEMMA TcpPlan ==
  ASSUME NEW p, Plan(p), p.at = "tcp",
         NEW result \in {Connected} \cup [connected : {FALSE}, error : TcpErrors \cup {"0"}],
         NEW next, next = (IF ShouldRetryTcp(result.connected, Len(p.tcp) + 1) THEN "tcp"
                           ELSE IF result.connected THEN "tls" ELSE "report")
  PROVE  Plan([p EXCEPT !.at = next, !.tcp = Append(p.tcp, result)])
<1> DEFINE s == Append(p.tcp, result)
           q == [p EXCEPT !.at = next, !.tcp = s]
<1>1. result \in Attempt /\ (result.connected => result = Connected)
  <2> DEFINE E == TcpErrors \cup {"0"}
  <2>1. CASE result = Connected
    BY <2>1 DEF Attempt, Connected
  <2>2. CASE result \in [connected : {FALSE}, error : E]
    <3> HIDE DEF E
    <3>1. ~result.connected /\ result \in [connected : BOOLEAN, error : E]
      BY <2>2
    <3> QED
      BY <3>1 DEF Attempt, E
  <2> QED
    BY <2>1, <2>2
<1>2. p \in Probes /\ p.tcp \in Seq(Attempt)
  BY ProbeFields DEF Plan, TcpLists
<1>3. /\ s \in Seq(Attempt) /\ Len(s) = Len(p.tcp) + 1 /\ s[Len(p.tcp) + 1] = result
      /\ \A i \in 1..Len(p.tcp) : s[i] = p.tcp[i]
      /\ s # <<>>
  BY <1>1, <1>2, AppendProperties
<1>4. Len(p.tcp) \in Nat
  BY <1>2, LenProperties
<1> HIDE DEF s
<1>5. q \in Probes /\ Has(q, next, p.target, p.source, p.network, p.local, p.arp, s, p.tls)
  <2>1. next \in Steps
    BY DEF Steps
  <2> QED
    BY <1>2, <1>3, <2>1, TcpUpdate DEF TcpLists
<1> HIDE DEF q
<1>6. Reachable(s) <=> result.connected
  BY <1>3 DEF Reachable
<1>7. \A i \in 1..Len(p.tcp) : ~p.tcp[i].connected
  <2>1. ASSUME NEW i \in 1..Len(p.tcp), p.tcp[i].connected PROVE FALSE
    <3>1. i = Len(p.tcp) /\ ~Reachable(p.tcp)
      BY <2>1 DEF Plan, Attempts
    <3>2. p.tcp # <<>>
      BY <1>2, <1>4, <3>1, LenProperties
    <3> QED
      BY <2>1, <3>1, <3>2 DEF Reachable
  <2> QED
    BY <2>1
<1>8. \A i \in 1..Len(s) : s[i].connected => s[i] = Connected /\ i = Len(s)
  <2> SUFFICES ASSUME NEW i \in 1..Len(s), s[i].connected PROVE s[i] = Connected /\ i = Len(s)
    OBVIOUS
  <2>1. i \notin 1..Len(p.tcp)
    BY <1>3, <1>7
  <2>2. i = Len(p.tcp) + 1
    BY <1>3, <1>4, <2>1
  <2> QED
    BY <1>1, <1>3, <2>2
<1>9. p.tls = <<>> /\ Len(p.tcp) < MaximumTcpAttempts
  BY DEF Plan, Attempts
<1>10. /\ next = "tcp" => ~result.connected /\ Len(s) < MaximumTcpAttempts
       /\ next = "tls" => result.connected
       /\ next = "report" => ~result.connected /\ ~(Len(s) < MaximumTcpAttempts)
       /\ next \in {"tcp", "tls", "report"}
  BY <1>3 DEF ShouldRetryTcp
<1>11. Len(s) <= MaximumTcpAttempts
  BY <1>3, <1>4, <1>9, TcpAssumption
<1>12. next = "report" => Len(s) = MaximumTcpAttempts
  BY <1>3, <1>4, <1>10, <1>11, TcpAssumption
<1>13. q.at = next /\ q.tcp = s /\ q.tls = <<>> /\ q.target = p.target /\ q.local = p.local
       /\ q.network = p.network /\ q.arp = p.arp
  BY <1>5, <1>9 DEF Has
<1>14. Attempts(q)
  BY <1>6, <1>8, <1>10, <1>11, <1>12, <1>13 DEF Attempts
<1>15. Aim(q)
  BY <1>13 DEF Plan, Aim
<1> QED
  BY <1>5, <1>14, <1>15 DEF Plan, q, s

LEMMA TlsPlan ==
  ASSUME NEW p, Plan(p), p.at = "tls", NEW result \in TlsResults
  PROVE  Plan([p EXCEPT !.at = IF p.tls = <<>> THEN "tls" ELSE "report",
                        !.tls = Append(p.tls, result)])
<1> DEFINE r == Append(p.tls, result)
           a == IF p.tls = <<>> THEN "tls" ELSE "report"
           q == [p EXCEPT !.at = a, !.tls = r]
<1>1. p \in Probes /\ p.tls \in Seq(TlsResults)
  BY ProbeFields DEF Plan, TlsLists
<1>2. r \in Seq(TlsResults) /\ Len(r) = Len(p.tls) + 1
  BY <1>1, AppendProperties
<1>3. Len(p.tls) \in Nat /\ (p.tls = <<>> <=> Len(p.tls) = 0)
  BY <1>1, LenProperties, EmptySeq
<1> HIDE DEF r
<1>4. q \in Probes /\ Has(q, a, p.target, p.source, p.network, p.local, p.arp, p.tcp, r)
  BY <1>1, <1>2, TlsUpdate DEF TlsLists, Steps
<1>5. Reachable(p.tcp) /\ Len(p.tls) < 2
  BY DEF Plan, Attempts
<1>6. (a = "tls" => Len(r) < 2) /\ (a = "report" => Len(r) = 2) /\ a \in {"tls", "report"}
  BY <1>2, <1>3, <1>5
<1> HIDE DEF a, q
<1>7. Attempts(q)
  BY <1>4, <1>5, <1>6 DEF Plan, Attempts, Has
<1>8. Aim(q)
  BY <1>4, <1>6 DEF Plan, Aim, Has
<1> QED
  BY <1>4, <1>7, <1>8 DEF Plan, q, r, a

LEMMA ReportPlan ==
  ASSUME NEW p, Plan(p), p.at = "report" PROVE Plan([p EXCEPT !.at = "told"])
<1> DEFINE q == [p EXCEPT !.at = "told"]
<1>1. q \in Probes /\ Has(q, "told", p.target, p.source, p.network, p.local, p.arp, p.tcp, p.tls)
  BY AtUpdate DEF Plan, Steps
<1> HIDE DEF q
<1>2. Attempts(q)
  BY <1>1 DEF Plan, Attempts, Has
<1>3. Aim(q)
  BY <1>1 DEF Plan, Aim, Has
<1> QED
  BY <1>1, <1>2, <1>3 DEF Plan, q

-----------------------------------------------------------------------------
(* All probes and the lookup they share *)

\* Only a task that is probing is between the two ends of a probe.
PlanInv ==
  /\ probe \in [Runs -> Probes]
  /\ \A t \in Runs : Plan(probe[t])
  /\ \A t \in Runs : probe[t].at \notin {"target", "told"} => task[t].at = "probe"

\* The lookup that goes on is that of the probe that waits for it, and what it
\* found it found on the station's own subnet.
OwnLookup ==
  /\ lookup.at # "idle" => lookup.evidence.eligible /\ \E t \in Runs : In(t, "lookup")
  /\ lookup.evidence.resolved => lookup.evidence.eligible
  /\ \A t \in Runs : In(t, "lookup") /\ lookup.evidence.eligible => probe[t].local

\* A step changes the probe of t alone, and no task but that of t.
LEMMA PlanChanges ==
  ASSUME PlanInv, NEW t \in Runs, NEW new, Plan(new), probe' = [probe EXCEPT ![t] = new],
         new.at \notin {"target", "told"} => task'[t].at = "probe",
         \A u \in Runs : u # t /\ task[u].at = "probe" => task'[u].at = "probe"
  PROVE  PlanInv'
<1>1. new \in Probes /\ probe \in [Runs -> Probes]
  BY DEF Plan, PlanInv
<1>2. probe' \in [Runs -> Probes] /\ probe'[t] = new /\ \A u \in Runs : u # t => probe'[u] = probe[u]
  BY <1>1
<1>3. \A u \in Runs : Plan(probe'[u])
  BY <1>2 DEF PlanInv
<1>4. \A u \in Runs : probe'[u].at \notin {"target", "told"} => task'[u].at = "probe"
  BY <1>2 DEF PlanInv
<1> QED
  BY <1>2, <1>3, <1>4 DEF PlanInv

LEMMA PlanStays ==
  ASSUME PlanInv, probe' = probe,
         \A u \in Runs : task[u].at = "probe" /\ probe[u].at \notin {"target", "told"}
                           => task'[u].at = "probe"
  PROVE  PlanInv'
BY DEF PlanInv
-----------------------------------------------------------------------------
(* Each step keeps both *)

\* The server leaves alone the tasks that are probing.
LEMMA OthersKeepProbing ==
  ASSUME IndInv,
         LoopStep \/ Serve("other") \/ Tick \/ WifiChanges \/ MainProbeFinishes
  PROVE  \A u \in Runs : task[u].at = "probe" <=> task'[u].at = "probe"
<1>1. CASE CreateTask
  <2>1. \A u \in Runs : ~Prober(u)
    BY <1>1 DEF CreateTask, IndInv, FlagInv, Starting
  <2>2. task' = [task EXCEPT ![loop.run].at = "begin"] /\ task \in [Runs -> Tasks]
    BY <1>1 DEF CreateTask, IndInv, TypeOK
  <2>3. \A u \in Runs : task'[u] = task[u] \/ task'[u].at = "begin"
    BY <2>2 DEF Tasks
  <2> QED
    BY <2>1, <2>3 DEF Prober, Probing
<1>2. CASE ~CreateTask
  <2>1. task' = task
    BY <1>2 DEF LoopStep, Serve, HandleProbe, AutoProbe, Announce, CopyEvidence, Tick,
       WifiChanges, MainProbeFinishes, StartServer, ServeNothing, StartRemovesFile,
       StartRemovesTemp, CreateFails, OpenEvidence, Reply, AutoLater
  <2> QED
    BY <2>1
<1> QED
  BY <1>1, <1>2

\* One probe at a time, as the flag says.
LEMMA OneProber ==
  ASSUME IndInv, NEW t \in Runs, NEW u \in Runs, Prober(t), Prober(u) PROVE t = u
BY DEF IndInv, FlagInv

\* What a step of the task of t makes of it, and of no other.
LEMMA TaskAfter ==
  ASSUME IndInv, NEW t \in Runs, OtherTaskStep(t) \/ LoadTarget(t) \/ RefuseTarget(t)
                                  \/ WriteReport(t)
  PROVE  /\ task[t].at = "probe" => RefuseTarget(t) \/ WriteReport(t)
         /\ LoadTarget(t) => task'[t].at = "probe"
         /\ ~LoadTarget(t) => task'[t].at # "probe"
         /\ \A u \in Runs : u # t => task'[u] = task[u]
<1>1. task \in [Runs -> Tasks]
  BY DEF IndInv, TypeOK
<1>2. CASE LoadTarget(t)
  BY <1>1, <1>2 DEF LoadTarget, BeginTask, Tasks
<1>3. CASE RefuseTarget(t) \/ WriteReport(t)
  <2>1. task' = [task EXCEPT ![t].at = "publish", ![t].state = "error"]
          \/ task' = [task EXCEPT ![t].at = "publish", ![t].state = "completed"]
    BY <1>3 DEF RefuseTarget, WriteReport
  <2>2. task'[t].at = "publish" /\ \A u \in Runs : u # t => task'[u] = task[u]
    BY <1>1, <2>1 DEF Tasks
  <2>3. ~LoadTarget(t)
    BY <1>3 DEF RefuseTarget, WriteReport, In, LoadTarget, BeginTask
  <2> QED
    BY <1>3, <2>2, <2>3
<1>4. CASE OtherTaskStep(t)
  <2>1. /\ task[t].at \in Saving \cup {"publish"}
        /\ \/ \E at \in Saving : Goto(t, at)
           \/ Finish(t)
    BY <1>4 DEF OtherTaskStep, Publish, SaveTask, SaveRemovesTemp, OpenTemp, PrintTemp, AfterShort,
       SaveRemovesFile, Rename, DropTemp, Saving
  <2>2. task[t].at # "probe" /\ task[t].at # "begin"
    BY <2>1 DEF Saving
  <2>3. task'[t].at # "probe" /\ \A u \in Runs : u # t => task'[u] = task[u]
    BY <1>1, <2>1 DEF Goto, Finish, Saving, Tasks, NoTask
  <2> QED
    BY <2>2, <2>3 DEF LoadTarget, BeginTask
<1> QED
  BY <1>2, <1>3, <1>4

\* OwnLookup looks only at who waits for the lookup.
LEMMA OwnStays ==
  ASSUME OwnLookup, lookup' = lookup,
         \A u \in Runs : In(u, "lookup") <=> In(u, "lookup")',
         \A u \in Runs : In(u, "lookup") => probe'[u].local = probe[u].local
  PROVE  OwnLookup'
BY DEF OwnLookup

LEMMA OwnReset ==
  ASSUME ArpReset PROVE OwnLookup'
BY DEF ArpReset, OwnLookup, NoEvidence

\* A lookup that is on the way keeps its eligibility.
LEMMA LookupKeepsEligible ==
  ASSUME LookupInv, LookupStep, lookup.evidence.eligible
  PROVE  lookup'.evidence.eligible
<1>1. lookup.evidence \in ArpEvidence /\ lookup.evidence.eligible
  BY DEF LookupInv, LookupType
<1>2. ASSUME NEW e \in ArpEvidence, e.eligible
      PROVE  /\ \A o : [e EXCEPT !.outcome = o].eligible
             /\ \A o : [e EXCEPT !.attempted = TRUE, !.outcome = o].eligible
             /\ \A o : [e EXCEPT !.requestError = TRUE, !.outcome = o].eligible
             /\ [e EXCEPT !.attempted = TRUE].eligible
             /\ \A m, o : /\ [e EXCEPT !.resolved = TRUE, !.mac = m, !.outcome = o].eligible
                         /\ [[e EXCEPT !.resolved = TRUE, !.mac = m, !.outcome = o]
                                EXCEPT !.cacheHit = TRUE].eligible
  BY <1>2 DEF ArpEvidence
<1>3. \A e : Return(e) /\ e.eligible => lookup'.evidence.eligible
  BY DEF Return
<1>4. \A at : lookup' = [lookup EXCEPT !.at = at] => lookup'.evidence.eligible
  BY <1>1 DEF LookupInv, LookupType
<1>5. \A at, e : lookup' = [at |-> at, evidence |-> e] /\ e.eligible => lookup'.evidence.eligible
  OBVIOUS
<1>6. CASE FindInterface
  BY <1>1, <1>2, <1>3, <1>4, <1>6 DEF FindInterface, ReturnOutcome
<1>7. CASE ReadCache
  BY <1>1, <1>2, <1>3, <1>5, <1>7 DEF ReadCache, Resolved
<1>8. CASE ReadRequest
  BY <1>1, <1>2, <1>3, <1>4, <1>8 DEF ReadRequest
<1>9. CASE LookAgain
  BY <1>1, <1>2, <1>3, <1>4, <1>9 DEF LookAgain, ReturnOutcome
<1>10. CASE ReadResult
  BY <1>1, <1>2, <1>3, <1>10 DEF ReadResult, ReturnOutcome, Resolved
<1> QED
  BY <1>6, <1>7, <1>8, <1>9, <1>10 DEF LookupStep

ProbeInv == IndInv /\ LookupInv /\ PlanInv /\ OwnLookup

\* A step of one probe that leaves the server and the lookup alone.
LEMMA QuietStep ==
  ASSUME ProbeInv, NEW t \in Runs, NEW new, task[t].at = "probe", Then(t, new), Plan(new),
         probe[t].at # "lookup", new.at # "lookup"
  PROVE  PlanInv' /\ OwnLookup'
<1>1. probe' = [probe EXCEPT ![t] = new] /\ task' = task /\ lookup' = lookup
  BY DEF Then, Set, vars, arpVars
<1>2. PlanInv'
  BY <1>1, PlanChanges DEF ProbeInv
<1>3. probe'[t] = new /\ \A u \in Runs : u # t => probe'[u] = probe[u]
  BY <1>1 DEF ProbeInv, PlanInv
<1>4. OwnLookup'
  BY <1>1, <1>3, OwnStays DEF ProbeInv, In
<1> QED
  BY <1>2, <1>4

LEMMA TargetStep ==
  ASSUME ProbeInv, NEW t \in Runs, LoadTarget(t) \/ RefuseTarget(t) \/ CaptureNetwork(t)
  PROVE  PlanInv' /\ OwnLookup'
<1>1. probe \in [Runs -> Probes] /\ Plan(probe[t])
  BY DEF ProbeInv, PlanInv
<1>2. CASE LoadTarget(t)
  <2>1. PICK new : Plan(new) /\ new.at = "target" /\ probe' = [probe EXCEPT ![t] = new]
    <3>1. PICK saved \in SavedTargets :
            probe' = [probe EXCEPT ![t] = IF saved # <<>> THEN NewProbe(saved, "nvs")
                                          ELSE NewProbe(CompiledTarget, "compile-time")]
      BY <1>2 DEF LoadTarget
    <3>2. /\ Plan(NewProbe(saved, "nvs"))
          /\ Plan(NewProbe(CompiledTarget, "compile-time"))
      BY NewPlans DEF Texts, Sources
    <3>3. /\ NewProbe(saved, "nvs").at = "target"
          /\ NewProbe(CompiledTarget, "compile-time").at = "target"
      BY DEF NewProbe
    <3> QED
      BY <3>1, <3>2, <3>3
  <2>2. /\ task[t].at # "probe" /\ task'[t].at = "probe"
        /\ \A u \in Runs : u # t => task'[u] = task[u]
    BY <1>2, TaskAfter DEF ProbeInv, LoadTarget, BeginTask
  <2>3. PlanInv'
    BY <2>1, <2>2, PlanChanges DEF ProbeInv
  <2>4. probe'[t] = new /\ \A u \in Runs : u # t => probe'[u] = probe[u]
    BY <1>1, <2>1
  <2>5. OwnLookup'
    BY <1>2, <2>1, <2>2, <2>4, OwnStays DEF ProbeInv, In, LoadTarget, arpVars
  <2> QED
    BY <2>3, <2>5
<1>3. CASE RefuseTarget(t)
  <2>1. /\ probe' = probe /\ lookup' = lookup /\ probe[t].at = "target"
        /\ \A u \in Runs : u # t => task'[u] = task[u]
    BY <1>3, TaskAfter DEF ProbeInv, RefuseTarget, In, arpVars
  <2>2. PlanInv'
    BY <2>1, PlanStays DEF ProbeInv
  <2>3. OwnLookup'
    BY <2>1, OwnStays DEF ProbeInv, In
  <2> QED
    BY <2>2, <2>3
<1>4. CASE CaptureNetwork(t)
  <2> DEFINE i == Interface
             new == [probe[t] EXCEPT !.at = "arp", !.network = i,
                                     !.local = SameSubnet(i.address, probe[t].target, i.mask)]
  <2>1. /\ task[t].at = "probe" /\ probe[t].at = "target" /\ Probeable(probe[t].target)
        /\ Then(t, new)
    BY <1>4 DEF CaptureNetwork, In
  <2>2. i \in Networks
    BY DEF Interface, Networks
  <2>3. new.at = "arp"
    BY <1>1, ProbesAre
  <2> HIDE DEF i
  <2>4. Plan(new)
    BY <1>1, <2>1, <2>2, NetworkPlan
  <2> HIDE DEF new
  <2> QED
    BY <2>1, <2>3, <2>4, QuietStep
<1> QED
  BY <1>2, <1>3, <1>4

LEMMA LookupSteps ==
  ASSUME ProbeInv, NEW t \in Runs,
         \/ CaptureArp(t) \/ TakeArp(t)
         \/ In(t, "lookup") /\ LookupStep /\ UNCHANGED <<vars, probe>>
  PROVE  PlanInv' /\ OwnLookup'
<1>1. probe \in [Runs -> Probes] /\ Plan(probe[t])
  BY DEF ProbeInv, PlanInv
<1>2. task' = task
  BY DEF CaptureArp, TakeArp, Set, vars
<1>3. CASE CaptureArp(t)
  <2> DEFINE new == [probe[t] EXCEPT !.at = "lookup"]
  <2>1. /\ task[t].at = "probe" /\ probe[t].at = "arp" /\ BeginLookup(probe[t].local)
        /\ probe' = [probe EXCEPT ![t] = new]
    BY <1>3 DEF CaptureArp, In, Set
  <2>2. Plan(new)
    BY <1>1, <2>1, LookupPlan
  <2>3. new.at = "lookup" /\ new.local = probe[t].local
    BY <1>1, ProbesAre
  <2> HIDE DEF new
  <2>4. PlanInv'
    BY <1>2, <2>1, <2>2, PlanChanges DEF ProbeInv
  <2>5. probe'[t] = new /\ \A u \in Runs : u # t => probe'[u] = probe[u]
    BY <1>1, <2>1
  <2>6. \A u \in Runs : In(u, "lookup")' => u = t
    BY <1>2, <2>1, OneProber DEF ProbeInv, In, Prober, Probing
  <2>7. /\ In(t, "lookup")'
        /\ lookup'.evidence.eligible => probe[t].local
        /\ lookup'.evidence.resolved => lookup'.evidence.eligible
        /\ lookup'.at # "idle" => lookup'.evidence.eligible
    <3>1. In(t, "lookup")'
      BY <1>2, <2>1, <2>3, <2>5 DEF In
    <3>2. CASE probe[t].local
      BY <2>1, <3>1, <3>2 DEF BeginLookup, NoEvidence
    <3>3. CASE ~probe[t].local
      BY <2>1, <3>1, <3>3 DEF BeginLookup, Return, NoEvidence
    <3> QED
      BY <3>2, <3>3
  <2>8. OwnLookup'
    BY <2>3, <2>5, <2>6, <2>7 DEF OwnLookup
  <2> QED
    BY <2>4, <2>8
<1>4. CASE TakeArp(t)
  <2> DEFINE new == [probe[t] EXCEPT !.at = "tcp", !.arp = lookup.evidence]
  <2>1. /\ task[t].at = "probe" /\ probe[t].at = "lookup" /\ ArpReset
        /\ probe' = [probe EXCEPT ![t] = new]
    BY <1>4 DEF TakeArp, In, Set
  <2>2. lookup.evidence \in ArpEvidence /\ (lookup.evidence.resolved => probe[t].local)
    BY <2>1 DEF ProbeInv, OwnLookup, LookupInv, LookupType, In
  <2>3. Plan(new)
    BY <1>1, <2>1, <2>2, ArpPlan
  <2>4. PlanInv'
    <3> HIDE DEF new
    <3> QED
      BY <1>2, <2>1, <2>3, PlanChanges DEF ProbeInv
  <2> QED
    BY <2>1, <2>4, OwnReset
<1>5. CASE In(t, "lookup") /\ LookupStep /\ UNCHANGED <<vars, probe>>
  <2>1. PlanInv'
    BY <1>2, <1>5, PlanStays DEF ProbeInv
  <2>2. lookup.evidence.eligible
    BY <1>5 DEF LookupStep, FindInterface, ReadCache, ReadRequest, LookAgain, ReadResult,
       ProbeInv, OwnLookup
  <2>3. lookup'.evidence.eligible
    BY <1>5, <2>2, LookupKeepsEligible DEF ProbeInv
  <2>4. OwnLookup'
    BY <1>2, <1>5, <2>2, <2>3 DEF ProbeInv, OwnLookup, In
  <2> QED
    BY <2>1, <2>4
<1> QED
  BY <1>3, <1>4, <1>5

LEMMA AttemptSteps ==
  ASSUME ProbeInv, NEW t \in Runs, TcpAttempt(t) \/ TlsAttempt(t) \/ WriteReport(t)
  PROVE  PlanInv' /\ OwnLookup'
<1>1. probe \in [Runs -> Probes] /\ Plan(probe[t])
  BY DEF ProbeInv, PlanInv
<1>2. CASE TcpAttempt(t)
  <2>1. PICK result \in {Connected} \cup [connected : {FALSE}, error : TcpErrors \cup {"0"}] :
          LET next == IF ShouldRetryTcp(result.connected, Len(probe[t].tcp) + 1) THEN "tcp"
                      ELSE IF result.connected THEN "tls" ELSE "report"
          IN Then(t, [probe[t] EXCEPT !.at = next, !.tcp = Append(probe[t].tcp, result)])
    BY <1>2 DEF TcpAttempt
  <2> DEFINE next == IF ShouldRetryTcp(result.connected, Len(probe[t].tcp) + 1) THEN "tcp"
                     ELSE IF result.connected THEN "tls" ELSE "report"
             new == [probe[t] EXCEPT !.at = next, !.tcp = Append(probe[t].tcp, result)]
  <2>2. task[t].at = "probe" /\ probe[t].at = "tcp" /\ Then(t, new)
    BY <1>2, <2>1 DEF TcpAttempt, In
  <2>3. Plan(new)
    BY <1>1, <2>2, TcpPlan
  <2>4. new.at # "lookup"
    BY <1>1, ProbesAre
  <2> HIDE DEF new
  <2> QED
    BY <2>2, <2>3, <2>4, QuietStep
<1>3. CASE TlsAttempt(t)
  <2>1. PICK result \in TlsResults :
          Then(t, [probe[t] EXCEPT !.at = IF probe[t].tls = <<>> THEN "tls" ELSE "report",
                                   !.tls = Append(probe[t].tls, result)])
    BY <1>3 DEF TlsAttempt
  <2> DEFINE next == IF probe[t].tls = <<>> THEN "tls" ELSE "report"
             new == [probe[t] EXCEPT !.at = next, !.tls = Append(probe[t].tls, result)]
  <2>2. task[t].at = "probe" /\ probe[t].at = "tls" /\ Then(t, new)
    BY <1>3, <2>1 DEF TlsAttempt, In
  <2>3. Plan(new)
    BY <1>1, <2>2, TlsPlan
  <2>4. new.at # "lookup"
    BY <1>1, ProbesAre
  <2> HIDE DEF new
  <2> QED
    BY <2>2, <2>3, <2>4, QuietStep
<1>4. CASE WriteReport(t)
  <2> DEFINE new == [probe[t] EXCEPT !.at = "told"]
  <2>1. /\ probe[t].at = "report" /\ probe' = [probe EXCEPT ![t] = new] /\ lookup' = lookup
        /\ \A u \in Runs : u # t => task'[u] = task[u]
    BY <1>1, <1>4, TaskAfter DEF ProbeInv, WriteReport, In, arpVars
  <2>2. Plan(new) /\ new.at = "told"
    BY <1>1, <2>1, ReportPlan, ProbesAre
  <2> HIDE DEF new
  <2>3. PlanInv'
    BY <2>1, <2>2, PlanChanges DEF ProbeInv
  <2>4. probe'[t] = new /\ \A u \in Runs : u # t => probe'[u] = probe[u]
    BY <1>1, <2>1
  <2>5. OwnLookup'
    BY <2>1, <2>2, <2>4, OwnStays DEF ProbeInv, In
  <2> QED
    BY <2>3, <2>5
<1> QED
  BY <1>2, <1>3, <1>4

LEMMA OtherTaskSteps ==
  ASSUME ProbeInv, NEW t \in Runs, OtherTaskStep(t) PROVE PlanInv' /\ OwnLookup'
<1>1. /\ task[t].at # "probe" /\ task'[t].at # "probe"
      /\ \A u \in Runs : u # t => task'[u] = task[u]
  <2>1. task[t].at # "probe" /\ task[t].at # "begin"
    BY DEF OtherTaskStep, Publish, SaveTask, SaveRemovesTemp, OpenTemp, PrintTemp, SaveRemovesFile,
       Rename, DropTemp
  <2>2. ~LoadTarget(t)
    BY <2>1 DEF LoadTarget, BeginTask
  <2> QED
    BY <2>1, <2>2, TaskAfter DEF ProbeInv
<1>2. lookup' = lookup
  BY DEF OtherTaskStep, Elsewhere, arpVars
<1>3. probe \in [Runs -> Probes]
  BY DEF ProbeInv, PlanInv
<1>4. CASE probe' = [probe EXCEPT ![t] = NoProbe]
  <2>1. NoProbe.at = "target"
    BY DEF NoProbe, NewProbe
  <2>2. PlanInv'
    BY <1>1, <1>4, <2>1, NoPlan, PlanChanges DEF ProbeInv
  <2>3. probe'[t] = NoProbe /\ \A u \in Runs : u # t => probe'[u] = probe[u]
    BY <1>3, <1>4
  <2>4. OwnLookup'
    BY <1>1, <1>2, <2>1, <2>3, OwnStays DEF ProbeInv, In
  <2> QED
    BY <2>2, <2>4
<1>5. CASE probe' = probe
  <2>1. PlanInv'
    BY <1>1, <1>5, PlanStays DEF ProbeInv
  <2>2. OwnLookup'
    BY <1>1, <1>2, <1>5, OwnStays DEF ProbeInv, In
  <2> QED
    BY <2>1, <2>2
<1> QED
  BY <1>4, <1>5 DEF OtherTaskStep, Elsewhere

LEMMA RestPlan ==
  ASSUME probe' = [t \in Runs |-> NoProbe] PROVE PlanInv'
<1>1. Plan(NoProbe) /\ NoProbe \in Probes /\ NoProbe.at = "target"
  BY NoPlan DEF Plan, NoProbe, NewProbe
<1> QED
  BY <1>1 DEF PlanInv

LEMMA ProbeInvStep == ASSUME ProbeInv, [ProbeNext]_probeVars PROVE PlanInv' /\ OwnLookup'
<1>1. ASSUME NEW t \in Runs, ProbeStep(t) PROVE PlanInv' /\ OwnLookup'
  BY <1>1, TargetStep, LookupSteps, AttemptSteps DEF ProbeStep
<1>2. ASSUME NEW t \in Runs, OtherTaskStep(t) PROVE PlanInv' /\ OwnLookup'
  BY <1>2, OtherTaskSteps
<1>3. CASE \/ (LoopStep \/ Serve("other") \/ Tick \/ WifiChanges \/ MainProbeFinishes) /\ Elsewhere
           \/ Network /\ UNCHANGED <<vars, probe>>
           \/ UNCHANGED probeVars
  <2>1. probe' = probe /\ lookup' = lookup
    BY <1>3 DEF Elsewhere, arpVars, probeVars, Network, RunFind, CopyMac, RunRequest, TableChanges
  <2>2. \A u \in Runs : task[u].at = "probe" <=> task'[u].at = "probe"
    BY <1>3, OthersKeepProbing DEF ProbeInv, probeVars, vars
  <2>3. PlanInv'
    BY <2>1, <2>2, PlanStays DEF ProbeInv
  <2>4. OwnLookup'
    BY <2>1, <2>2, OwnStays DEF ProbeInv, In
  <2> QED
    BY <2>3, <2>4
<1>4. CASE ProbeRestarts
  BY <1>4, RestPlan, OwnReset DEF ProbeRestarts
<1> QED
  BY <1>1, <1>2, <1>3, <1>4 DEF ProbeNext

LEMMA ProbeInvariant == ProbeSpec => []ProbeInv
<1>1. ProbeInit => PlanInv /\ OwnLookup
  <2> SUFFICES ASSUME ProbeInit PROVE PlanInv /\ OwnLookup
    OBVIOUS
  <2>1. Plan(NoProbe) /\ NoProbe \in Probes /\ NoProbe.at = "target"
    BY NoPlan DEF Plan, NoProbe, NewProbe
  <2>2. PlanInv
    BY <2>1 DEF ProbeInit, PlanInv
  <2>3. OwnLookup
    BY <2>1 DEF ProbeInit, ArpInit, OwnLookup, In, NoEvidence
  <2> QED
    BY <2>2, <2>3
<1>2. (IndInv /\ LookupInv /\ PlanInv /\ OwnLookup) /\ [ProbeNext]_probeVars
        => PlanInv' /\ OwnLookup'
  BY ProbeInvStep DEF ProbeInv
<1> QED
  BY <1>1, <1>2, ServerInvariant, LookupInvariant, PTL DEF ProbeSpec, ProbeInv

-----------------------------------------------------------------------------
(* Types *)

Callbacks == {"find", "copy", "request"}
MailInv == mailbox \in Seq(Callbacks) /\ sighted \in BOOLEAN

LEMMA MailSteps ==
  ASSUME MailInv, LookupInv, LookupStep \/ Network \/ ArpReset \/ \E local : BeginLookup(local)
  PROVE  MailInv'
<1>1. ASSUME NEW c \in Callbacks, Post(c) PROVE mailbox' \in Seq(Callbacks)
  BY <1>1, AppendProperties DEF Post, MailInv
<1>2. CASE LookupStep
  <2>1. mailbox' = mailbox \/ \E c \in Callbacks : Post(c)
    BY <1>2 DEF LookupStep, FindInterface, ReadCache, ReadRequest, LookAgain, ReadResult, Callbacks
  <2>2. sighted' = sighted
    BY <1>2 DEF LookupStep, FindInterface, ReadCache, ReadRequest, LookAgain, ReadResult
  <2> QED
    BY <1>1, <2>1, <2>2 DEF MailInv
<1>3. CASE Network
  <2>1. \/ mailbox' = mailbox
        \/ mailbox # <<>> /\ mailbox' = Tail(mailbox)
        \/ mailbox # <<>> /\ mailbox' = <<"copy">> \o Tail(mailbox)
    BY <1>3 DEF Network, RunFind, CopyMac, RunRequest, TableChanges
  <2>2. mailbox # <<>> => Tail(mailbox) \in Seq(Callbacks)
    BY HeadTailProperties DEF MailInv
  <2>3. <<"copy">> \in Seq(Callbacks)
    BY DEF Callbacks
  <2>4. mailbox' \in Seq(Callbacks)
    BY <2>1, <2>2, <2>3, ConcatProperties DEF MailInv
  <2>5. sighted' \in BOOLEAN
    BY <1>3 DEF Network, RunFind, CopyMac, RunRequest, TableChanges, MailInv, LookupInv, LookupType
  <2> QED
    BY <2>4, <2>5 DEF MailInv
<1>4. CASE ArpReset
  BY <1>4, EmptySeq DEF ArpReset, MailInv
<1>5. ASSUME NEW local, BeginLookup(local) PROVE MailInv'
  BY <1>5 DEF BeginLookup, MailInv
<1> QED
  BY <1>2, <1>3, <1>4, <1>5

LEMMA MailInvariant == ProbeSpec => []MailInv
<1>1. ProbeInit => MailInv
  BY EmptySeq DEF ProbeInit, ArpInit, MailInv
<1>2. MailInv /\ LookupInv /\ [ProbeNext]_probeVars => MailInv'
  <2> SUFFICES ASSUME MailInv, LookupInv, [ProbeNext]_probeVars PROVE MailInv'
    OBVIOUS
  <2>1. CASE UNCHANGED arpVars
    BY <2>1 DEF arpVars, MailInv
  <2>2. ASSUME NEW t \in Runs, ProbeStep(t) PROVE MailInv'
    BY <2>1, <2>2, MailSteps DEF ProbeStep, LoadTarget, RefuseTarget, CaptureNetwork, CaptureArp,
       TakeArp, TcpAttempt, TlsAttempt, WriteReport, Then
  <2>3. CASE Network
    BY <2>3, MailSteps
  <2>4. CASE ProbeRestarts
    BY <2>4, MailSteps DEF ProbeRestarts
  <2> QED
    BY <2>1, <2>2, <2>3, <2>4 DEF ProbeNext, OtherTaskStep, Elsewhere, probeVars
<1> QED
  BY <1>1, <1>2, LookupInvariant, PTL DEF ProbeSpec

\* Every variable keeps its type, the lists of attempts their bounds.
THEOREM TypeCorrect == ProbeSpec => []TypesOK
<1>1. ProbeInv /\ MailInv => TypesOK
  <2> SUFFICES ASSUME ProbeInv, MailInv PROVE TypesOK
    OBVIOUS
  <2>1. TypeOK /\ probe \in [Runs -> Probes]
    BY DEF ProbeInv, IndInv, PlanInv
  <2>2. ArpTypeOK
    BY DEF ProbeInv, LookupInv, LookupType, MailInv, ArpTypeOK, Callbacks
  <2>3. ASSUME NEW t \in Runs
        PROVE  Len(probe[t].tcp) <= MaximumTcpAttempts /\ Len(probe[t].tls) <= 2
    <3>1. Plan(probe[t])
      BY DEF ProbeInv, PlanInv
    <3>2. probe[t].at \in Steps /\ probe[t].tls \in Seq(TlsResults)
      BY <3>1, ProbeFields DEF Plan, TlsLists
    <3>3. Len(probe[t].tls) \in Nat /\ (probe[t].tls = <<>> => Len(probe[t].tls) = 0)
      BY <3>2, LenProperties, EmptySeq
    <3>4. Len(probe[t].tcp) <= MaximumTcpAttempts
      BY <3>1 DEF Plan, Attempts
    <3>5. probe[t].tls = <<>> \/ Len(probe[t].tls) = 2 \/ Len(probe[t].tls) < 2
      BY <3>1, <3>2 DEF Plan, Attempts, Steps
    <3>6. \A n \in Nat : n = 0 \/ n = 2 \/ n < 2 => n <= 2
      OBVIOUS
    <3> QED
      BY <3>3, <3>4, <3>5, <3>6
  <2> QED
    BY <2>1, <2>2, <2>3 DEF TypesOK
<1> QED
  BY <1>1, ProbeInvariant, MailInvariant, PTL

-----------------------------------------------------------------------------
(* The document tells of the attempts *)

LEMMA ReportFields ==
  ASSUME NEW p
  PROVE  LET r == Report(p)
         IN /\ r.targetIp = p.target /\ r.localIp = p.network.address /\ r.arp = p.arp
            /\ r.tcpReachable = Reachable(p.tcp) /\ r.tcpAttemptsMade = Len(p.tcp)
            /\ r.tcpStoppedAfterSuccess = (Reachable(p.tcp) /\ Len(p.tcp) < MaximumTcpAttempts)
            /\ \A i \in 1..Len(p.tcp) : r.tcpAttempts[i] = TcpOutcome(p.tcp[i])
            /\ r.tlsAttempted = Reachable(p.tcp) /\ r.diagnosis = TcpDiagnosis(p)
            /\ r.attempts = IF Reachable(p.tcp) THEN p.tls ELSE <<>>
BY DEF Report

\* The outcome of an attempt does not hide what it showed of the target.
LEMMA OutcomeMeans ==
  ASSUME NEW a \in Attempt, a.connected => a = Connected
  PROVE  /\ TcpOutcome(a) = "tcp-connected" <=> a.connected
         /\ TcpOutcome(a) = "connection-refused" <=> a.error = "ECONNREFUSED"
<1>1. CASE a.connected
  <2>1. a.error = "0"
    BY <1>1 DEF Connected
  <2> QED
    BY <1>1, <2>1 DEF TcpOutcome
<1>2. CASE ~a.connected
  BY <1>2 DEF TcpOutcome
<1> QED
  BY <1>1, <1>2

LEMMA OutcomesOf ==
  ASSUME NEW p, Plan(p), NEW i \in 1..Len(p.tcp)
  PROVE  /\ TcpOutcome(p.tcp[i]) = "tcp-connected" <=> p.tcp[i].connected
         /\ TcpOutcome(p.tcp[i]) = "connection-refused" <=> p.tcp[i].error = "ECONNREFUSED"
<1>1. p.tcp \in Seq(Attempt)
  BY ProbeFields DEF Plan, TcpLists
<1>2. p.tcp[i] \in Attempt
  BY <1>1, ElementOfSeq
<1>3. p.tcp[i].connected => p.tcp[i] = Connected
  BY DEF Plan, Attempts
<1> QED
  BY <1>2, <1>3, OutcomeMeans

\* A probe reached the target exactly when one of its attempts did.
LEMMA ReachableMeans ==
  ASSUME NEW p, Plan(p)
  PROVE  /\ Len(p.tcp) \in Nat
         /\ Reachable(p.tcp) <=> \E i \in 1..Len(p.tcp) : p.tcp[i].connected
         /\ Reachable(p.tcp) => Len(p.tcp) \in 1..Len(p.tcp) /\ p.tcp[Len(p.tcp)].connected
<1>1. p.tcp \in Seq(Attempt) /\ Len(p.tcp) \in Nat
  BY ProbeFields, LenProperties DEF Plan, TcpLists
<1>2. p.tcp # <<>> <=> Len(p.tcp) \in 1..Len(p.tcp)
  BY <1>1, EmptySeq, LenProperties
<1>3. \A i \in 1..Len(p.tcp) : p.tcp[i].connected => i = Len(p.tcp)
  BY DEF Plan, Attempts
<1> QED
  BY <1>1, <1>2, <1>3 DEF Reachable

LEMMA PrivateIsPrivate ==
  ASSUME NEW ip, Probeable(ip) PROVE HighHalf(ip) \in PrivateHighHalves
<1>1. ip[1] \in Octets /\ ip[2] \in Octets
  BY DEF Probeable, IsAddress
<1>2. PICK a \in Octets, b \in Octets : a = ip[1] /\ b = ip[2]
  BY <1>1
<1>3. a = 10 \/ a = 127 \/ (a = 172 /\ b \in 16..31) \/ (a = 192 /\ b = 168)
  BY <1>2 DEF Probeable, IsAllowedPrivateIpv4
<1>4. HighHalf(ip) = 256 * a + b
  BY <1>2 DEF HighHalf
<1>5. 256 * a + b \in PrivateHighHalves
  BY <1>3, <1>2 DEF Octets, PrivateHighHalves
<1> QED
  BY <1>4, <1>5

\* "remaining TCP retries were skipped and TLS probing was allowed": for every
\* number of attempts, every target and every interleaving, a probe stops at its
\* first connection, gives up only after its last attempt, makes both handshakes
\* exactly when it connected, sends nothing to an address that is not private,
\* and its document tells so.
THEOREM PlanFollowed == ProbeSpec => []AttemptsFollowThePlan
<1>1. ProbeInv => AttemptsFollowThePlan
  <2> SUFFICES ASSUME ProbeInv, NEW t \in Runs
               PROVE  LET p == probe[t] r == Report(p) IN
                        /\ \A i \in 1..Len(p.tcp) - 1 : ~p.tcp[i].connected
                        /\ p.tls # <<>> => Reachable(p.tcp)
                        /\ p.at \notin {"target", "told"} => HighHalf(p.target) \in PrivateHighHalves
                        /\ Reported(t) =>
                             /\ r.tcpReachable \/ r.tcpAttemptsMade = MaximumTcpAttempts
                             /\ r.tcpReachable <=> \E i \in 1..Len(p.tcp) : r.tcpAttempts[i] = "tcp-connected"
                             /\ Len(r.attempts) = (IF r.tlsAttempted THEN 2 ELSE 0) /\ r.attempts = p.tls
                             /\ r.tcpStoppedAfterSuccess => r.tcpAttempts[r.tcpAttemptsMade] = "tcp-connected"
    BY DEF AttemptsFollowThePlan
  <2> DEFINE p == probe[t]
             r == Report(p)
  <2>1. Plan(p) /\ p.at \in Steps
    BY ProbeFields DEF ProbeInv, PlanInv, Plan
  <2>2. Len(p.tcp) \in Nat
    BY <2>1, ReachableMeans
  <2> HIDE DEF p
  <2>3. \A i \in 1..Len(p.tcp) - 1 : ~p.tcp[i].connected
    BY <2>1, <2>2 DEF Plan, Attempts
  <2>4. p.tls # <<>> => Reachable(p.tcp)
    BY <2>1 DEF Plan, Attempts, Steps
  <2>5. p.at # "target" => HighHalf(p.target) \in PrivateHighHalves
    BY <2>1, PrivateIsPrivate DEF Plan, Aim
  <2>6. ASSUME p.at = "told"
        PROVE  /\ r.tcpReachable \/ r.tcpAttemptsMade = MaximumTcpAttempts
               /\ r.tcpReachable <=> \E i \in 1..Len(p.tcp) : r.tcpAttempts[i] = "tcp-connected"
               /\ Len(r.attempts) = (IF r.tlsAttempted THEN 2 ELSE 0) /\ r.attempts = p.tls
               /\ r.tcpStoppedAfterSuccess => r.tcpAttempts[r.tcpAttemptsMade] = "tcp-connected"
    <3>1. /\ r.tcpReachable = Reachable(p.tcp) /\ r.tcpAttemptsMade = Len(p.tcp)
          /\ \A i \in 1..Len(p.tcp) : r.tcpAttempts[i] = TcpOutcome(p.tcp[i])
          /\ r.tlsAttempted = Reachable(p.tcp)
          /\ r.attempts = IF Reachable(p.tcp) THEN p.tls ELSE <<>>
          /\ r.tcpStoppedAfterSuccess => Reachable(p.tcp)
      BY ReportFields
    <3> HIDE DEF r
    <3>2. IF Reachable(p.tcp) THEN Len(p.tls) = 2
          ELSE p.tls = <<>> /\ Len(p.tcp) = MaximumTcpAttempts
      BY <2>1, <2>6 DEF Plan, Attempts
    <3>3. \A i \in 1..Len(p.tcp) : r.tcpAttempts[i] = "tcp-connected" <=> p.tcp[i].connected
      BY <2>1, <3>1, OutcomesOf
    <3>4. /\ Reachable(p.tcp) <=> \E i \in 1..Len(p.tcp) : p.tcp[i].connected
          /\ Reachable(p.tcp) => Len(p.tcp) \in 1..Len(p.tcp) /\ p.tcp[Len(p.tcp)].connected
      BY <2>1, ReachableMeans
    <3>5. r.tcpReachable \/ r.tcpAttemptsMade = MaximumTcpAttempts
      BY <3>1, <3>2
    <3>6. r.tcpReachable <=> \E i \in 1..Len(p.tcp) : r.tcpAttempts[i] = "tcp-connected"
      BY <3>1, <3>3, <3>4
    <3>7. Len(r.attempts) = (IF r.tlsAttempted THEN 2 ELSE 0) /\ r.attempts = p.tls
      BY <3>1, <3>2, Len(<<>>) = 0
    <3>8. r.tcpStoppedAfterSuccess => r.tcpAttempts[r.tcpAttemptsMade] = "tcp-connected"
      BY <3>1, <3>3, <3>4
    <3> QED
      BY <3>5, <3>6, <3>7, <3>8
  <2> QED
    BY <2>3, <2>4, <2>5, <2>6 DEF p, Reported
<1> QED
  BY <1>1, ProbeInvariant, PTL

-----------------------------------------------------------------------------
(* The diagnosis *)

\* An octet agrees with another under a netmask when it is one of the numbers
\* that start where the other's network does.
LEMMA MaskedMeans ==
  ASSUME NEW a \in Octets, NEW b \in Octets, NEW m \in NetmaskOctets
  PROVE  Masked(a, m) = Masked(b, m) <=> b \in Masked(a, m) .. Masked(a, m) + 255 - m
<1> USE DEF Masked, Octets
<1>1. CASE m = 0
  BY <1>1
<1>2. CASE m = 128
  BY <1>2
<1>3. CASE m = 192
  BY <1>3
<1>4. CASE m = 224
  BY <1>4
<1>5. CASE m = 240
  BY <1>5
<1>6. CASE m = 248
  BY <1>6
<1>7. CASE m = 252
  BY <1>7
<1>8. CASE m = 254
  BY <1>8
<1>9. CASE m = 255
  BY <1>9
<1> QED
  BY <1>1, <1>2, <1>3, <1>4, <1>5, <1>6, <1>7, <1>8, <1>9 DEF NetmaskOctets

LEMMA SubnetMeans ==
  ASSUME NEW ip, IsAddress(ip)
  PROVE  SameSubnet(Station.address, ip, Station.mask) <=> InStationsSubnet(ip)
<1>1. \A i \in 1..4 : /\ Station.address[i] \in Octets /\ Station.mask[i] \in NetmaskOctets
                      /\ ip[i] \in Octets
  BY StationAssumption DEF IsAddress
<1> QED
  BY <1>1, MaskedMeans DEF SameSubnet, InStationsSubnet

\* Without an address every target seems to lie on the subnet.
LEMMA NoSubnet ==
  ASSUME NEW ip, IsAddress(ip) PROVE SameSubnet(AnyAddress, ip, AnyAddress)
<1>1. ASSUME NEW i \in 1..4 PROVE Masked(AnyAddress[i], AnyAddress[i]) = Masked(ip[i], AnyAddress[i])
  <2>1. AnyAddress[i] = 0
    BY DEF AnyAddress
  <2>2. \A o \in Octets : Masked(0, 0) = Masked(o, 0)
    BY DEF Octets, Masked
  <2>3. ip[i] \in Octets
    BY DEF IsAddress
  <2> QED
    BY <2>1, <2>2, <2>3
<1> QED
  BY <1>1 DEF SameSubnet

\* The diagnosis of the document calls the target present exactly when an
\* attempt or ARP showed it to be, blames the route only for a target outside
\* the station's subnet, and the subnet only for one inside it or where the
\* document shows no address: for every station, mask and target.
THEOREM DiagnosisIsRight == ProbeSpec => []DiagnosisSeesTheTarget
<1>1. ProbeInv => DiagnosisSeesTheTarget
  <2> SUFFICES ASSUME ProbeInv, NEW t \in Runs, Reported(t)
               PROVE  LET r == Report(probe[t])
                          seen == r.arp.resolved
                                    \/ \E i \in 1..r.tcpAttemptsMade :
                                         r.tcpAttempts[i] \in {"tcp-connected", "connection-refused"}
                      IN /\ r.diagnosis \in {"connected", "refused", "on-link"} <=> seen
                         /\ r.diagnosis = "routed" => r.localIp # AnyAddress /\ ~InStationsSubnet(r.targetIp)
                         /\ r.diagnosis \in {"local", "no-arp-reply", "on-link"} =>
                              r.localIp = AnyAddress \/ InStationsSubnet(r.targetIp)
    BY DEF DiagnosisSeesTheTarget
  <2> DEFINE p == probe[t]
             r == Report(p)
             seen == r.arp.resolved
                       \/ \E i \in 1..r.tcpAttemptsMade :
                            r.tcpAttempts[i] \in {"tcp-connected", "connection-refused"}
  <2>1. Plan(p) /\ p.at = "told"
    BY DEF ProbeInv, PlanInv, Reported
  <2> HIDE DEF p
  <2>2. /\ r.targetIp = p.target /\ r.localIp = p.network.address /\ r.arp = p.arp
        /\ r.tcpAttemptsMade = Len(p.tcp) /\ r.diagnosis = TcpDiagnosis(p)
        /\ \A i \in 1..Len(p.tcp) : r.tcpAttempts[i] = TcpOutcome(p.tcp[i])
    BY ReportFields
  <2> HIDE DEF r
  <2>3. \A i \in 1..Len(p.tcp) :
          /\ r.tcpAttempts[i] = "tcp-connected" <=> p.tcp[i].connected
          /\ r.tcpAttempts[i] = "connection-refused" <=> p.tcp[i].error = "ECONNREFUSED"
    BY <2>1, <2>2, OutcomesOf
  <2>4. seen <=> p.arp.resolved \/ Reachable(p.tcp) \/ Refused(p.tcp)
    BY <2>1, <2>2, <2>3, ReachableMeans DEF Refused
  <2> HIDE DEF seen
  <2>5. r.diagnosis \in {"connected", "refused", "on-link"} <=> seen
    BY <2>2, <2>4 DEF TcpDiagnosis
  <2>6. /\ IsAddress(p.target) /\ p.network \in Networks
        /\ p.local <=> SameSubnet(p.network.address, p.target, p.network.mask)
        /\ p.arp.resolved => p.local
    BY <2>1, ProbeFields DEF Plan, Aim, Probeable
  <2>7. CASE p.network = Station
    <3>1. p.local <=> InStationsSubnet(p.target)
      BY <2>6, <2>7, SubnetMeans
    <3>2. p.network.address # AnyAddress
      BY <2>7, StationAssumption
    <3>3. /\ r.diagnosis = "routed" => ~p.local
          /\ r.diagnosis \in {"local", "no-arp-reply", "on-link"} => p.local
      BY <2>2, <2>6 DEF TcpDiagnosis
    <3> QED
      BY <2>2, <2>5, <3>1, <3>2, <3>3 DEF p, r, seen
  <2>8. CASE p.network = [address |-> AnyAddress, mask |-> AnyAddress]
    <3>1. p.network.address = AnyAddress /\ p.network.mask = AnyAddress
      BY <2>8
    <3>2. p.local
      BY <2>6, <3>1, NoSubnet
    <3>3. r.diagnosis # "routed"
      BY <2>2, <3>2 DEF TcpDiagnosis
    <3> QED
      BY <2>2, <2>5, <3>1, <3>3 DEF p, r, seen
  <2> QED
    BY <2>6, <2>7, <2>8 DEF Networks
<1> QED
  BY <1>1, ProbeInvariant, PTL
=============================================================================
