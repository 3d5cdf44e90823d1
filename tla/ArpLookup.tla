------------------------------ MODULE ArpLookup ------------------------------
(***************************************************************************)
(* captureArpEvidence of src/tls_evidence.cpp and the lwIP thread it talks *)
(* to.  The probe task may not touch lwIP's ARP table itself: it posts     *)
(* callbacks that fill a context on its own stack.  tcpip_callback returns *)
(* when the callback is in the thread's mailbox, not when it has run, so   *)
(* the task reads the context while the callback may still be to come, be  *)
(* half done, or outlive the context.  One lookup runs at a time.          *)
(***************************************************************************)
EXTENDS Integers, Sequences

VARIABLES
  lookup,   \* captureArpEvidence: the step it is at, and its ArpEvidence
  context,  \* the ArpLookupContext on the stack of the probe task
  mailbox,  \* tcpip_thread (external): callbacks posted and not finished
  table,    \* lwIP (external): the ARP table holds the target
  sighted   \* history: it has held it since the lookup began

arpVars == <<lookup, context, mailbox, table, sighted>>

Outcomes == {"none", "not-local-subnet", "station-netif-unavailable",
             "lwip-netif-unavailable", "arp-cache-check-callback-failed",
             "resolved-from-cache", "arp-request-callback-failed",
             "arp-request-failed", "arp-result-callback-failed",
             "resolved-after-request", "no-arp-reply"}

\* The mac is `zero` when it was formatted before it was copied.
ArpEvidence == [eligible : BOOLEAN, attempted : BOOLEAN, resolved : BOOLEAN,
                cacheHit : BOOLEAN, requestError : BOOLEAN,
                mac : {"none", "zero", "target"}, outcome : Outcomes]
NoEvidence == [eligible |-> FALSE, attempted |-> FALSE, resolved |-> FALSE,
               cacheHit |-> FALSE, requestError |-> FALSE, mac |-> "none",
               outcome |-> "none"]

NoContext == [live |-> FALSE, found |-> FALSE, mac |-> "zero", failed |-> FALSE]
NewContext == [NoContext EXCEPT !.live = TRUE]

ArpTypeOK ==
  /\ lookup \in [at : {"idle", "netif", "cache", "request", "wait", "result"},
                 evidence : ArpEvidence]
  /\ context \in [live : BOOLEAN, found : BOOLEAN, mac : {"zero", "target"},
                  failed : BOOLEAN]
  /\ mailbox \in Seq({"find", "copy", "request"})
  /\ {table, sighted} \subseteq BOOLEAN

ArpInit ==
  /\ lookup = [at |-> "idle", evidence |-> NoEvidence]
  /\ context = NoContext /\ mailbox = <<>> /\ table = FALSE /\ sighted = FALSE

\* A lookup whose result has been taken, and a restart.
ArpReset ==
  /\ lookup' = [at |-> "idle", evidence |-> NoEvidence]
  /\ context' = NoContext /\ mailbox' = <<>> /\ table' = FALSE /\ sighted' = FALSE

-----------------------------------------------------------------------------
(* The probe task *)

\* The task leaves captureArpEvidence: its context is gone.
Return(evidence) ==
  /\ lookup' = [at |-> "idle", evidence |-> evidence]
  /\ context' = NoContext

\* What is written to the document of a context that was found to be resolved.
Resolved(outcome) ==
  [lookup.evidence EXCEPT !.resolved = TRUE, !.mac = context.mac, !.outcome = outcome]

ReturnOutcome(outcome) == Return([lookup.evidence EXCEPT !.outcome = outcome])

\* runInTcpipThread: the callback is in the mailbox, or it could not be posted.
Post(callback) == mailbox' = Append(mailbox, callback)

\* The table may hold the target from earlier traffic.
BeginLookup(local) ==
  /\ lookup.at = "idle"
  /\ \/ /\ local
        /\ lookup' = [at |-> "netif", evidence |-> [NoEvidence EXCEPT !.eligible = TRUE]]
        /\ table' \in BOOLEAN /\ sighted' = table'
        /\ UNCHANGED context
     \/ /\ ~local
        /\ Return([NoEvidence EXCEPT !.outcome = "not-local-subnet"])
        /\ sighted' = FALSE /\ UNCHANGED table
  /\ UNCHANGED mailbox

FindInterface ==
  /\ lookup.at = "netif"
  /\ \/ /\ \E outcome \in {"station-netif-unavailable", "lwip-netif-unavailable",
                           "arp-cache-check-callback-failed"} : ReturnOutcome(outcome)
        /\ UNCHANGED mailbox
     \/ /\ lookup' = [lookup EXCEPT !.at = "cache"]
        /\ context' = NewContext
        /\ Post("find")
  /\ UNCHANGED <<table, sighted>>

ReadCache ==
  /\ lookup.at = "cache"
  /\ \/ /\ context.found
        /\ Return([Resolved("resolved-from-cache") EXCEPT !.cacheHit = TRUE])
        /\ UNCHANGED mailbox
     \/ /\ ~context.found
        /\ lookup' = [at |-> "request", evidence |-> [lookup.evidence EXCEPT !.attempted = TRUE]]
        /\ UNCHANGED context /\ Post("request")
     \/ /\ ~context.found
        /\ Return([lookup.evidence EXCEPT !.attempted = TRUE,
                                          !.outcome = "arp-request-callback-failed"])
        /\ UNCHANGED mailbox
  /\ UNCHANGED <<table, sighted>>

ReadRequest ==
  /\ lookup.at = "request"
  /\ \/ /\ context.failed
        /\ Return([lookup.evidence EXCEPT !.requestError = TRUE,
                                          !.outcome = "arp-request-failed"])
     \/ /\ ~context.failed
        /\ lookup' = [lookup EXCEPT !.at = "wait"] /\ UNCHANGED context
  /\ UNCHANGED <<mailbox, table, sighted>>

\* After kArpReplyWaitMs.
LookAgain ==
  /\ lookup.at = "wait"
  /\ \/ /\ lookup' = [lookup EXCEPT !.at = "result"]
        /\ context' = [context EXCEPT !.found = FALSE]
        /\ Post("find")
     \/ /\ ReturnOutcome("arp-result-callback-failed")
        /\ UNCHANGED mailbox
  /\ UNCHANGED <<table, sighted>>

\* Mutant: the request counts as its answer.
AnsweredOnceSent == ~lookup.evidence.requestError

Answered == context.found

ReadResult ==
  /\ lookup.at = "result"
  /\ IF Answered THEN Return(Resolved("resolved-after-request"))
     ELSE ReturnOutcome("no-arp-reply")
  /\ UNCHANGED <<mailbox, table, sighted>>

LookupStep == FindInterface \/ ReadCache \/ ReadRequest \/ LookAgain \/ ReadResult

-----------------------------------------------------------------------------
(* tcpip_thread *)

\* A callback that runs after its context is gone writes to a stack frame that
\* is in use for something else: what it spoils there is not modelled.
Write(new) == context' = IF context.live THEN new ELSE context

\* Mutant: the index that etharp_find_addr returns is not compared with 0.
FindsAnything == TRUE

FindsAddress == table

\* findArpEntryInTcpipThread: first `found`, then the address is copied.
RunFind ==
  /\ mailbox # <<>> /\ Head(mailbox) = "find"
  /\ Write([context EXCEPT !.found = FindsAddress])
  /\ mailbox' = IF FindsAddress THEN <<"copy">> \o Tail(mailbox) ELSE Tail(mailbox)
  /\ UNCHANGED <<lookup, table, sighted>>

CopyMac ==
  /\ mailbox # <<>> /\ Head(mailbox) = "copy"
  /\ Write([context EXCEPT !.mac = "target"])
  /\ mailbox' = Tail(mailbox)
  /\ UNCHANGED <<lookup, table, sighted>>

\* requestArpInTcpipThread: the request goes out, or etharp_request fails.
RunRequest ==
  /\ mailbox # <<>> /\ Head(mailbox) = "request"
  /\ \E failed \in BOOLEAN : Write([context EXCEPT !.failed = failed])
  /\ mailbox' = Tail(mailbox)
  /\ UNCHANGED <<lookup, table, sighted>>

\* A reply or other traffic of the target; entries age.  Nobody looks at the
\* table outside a lookup.
TableChanges ==
  /\ lookup.at # "idle"
  /\ table' = ~table /\ sighted' = (sighted \/ table')
  /\ UNCHANGED <<lookup, context, mailbox>>

Network == RunFind \/ CopyMac \/ RunRequest \/ TableChanges

-----------------------------------------------------------------------------

\* "The target resolved by ARP": its address was in lwIP's table at some time
\* of this lookup, although the task reads the answer of a callback that may
\* still be running, may come late, or may answer the question before.
ResolvedWasSeen == lookup.evidence.resolved => sighted
=============================================================================
