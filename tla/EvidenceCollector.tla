-------------------------- MODULE EvidenceCollector --------------------------
(***************************************************************************)
(* scripts/collect_hardware_evidence.py against the evidence server: the   *)
(* collector waits for the device, sees the main probe through, starts a   *)
(* TLS probe, polls for its document and keeps what it accepts.  Requests  *)
(* and answers may be lost or late, the device may restart, other clients  *)
(* use the same server, and the collector may be run again.                *)
(***************************************************************************)
EXTENDS EvidenceServer

VARIABLES
  collector,  \* the script: where it is in main(), and what it holds
  mainProbe   \* the main probe of the device (external)

allVars == <<vars, collector, mainProbe>>

\* `tried` is manual_start_attempted.  `own` is history: the run that the
\* accepted POST started; `boundary`: the runs of the boots before it.
Collectors == [at : {"health", "tlsHealth", "main", "results", "post", "posted",
                     "poll", "polled", "validate", "done", "failed"},
               tried : BOOLEAN, own : 0..MaxRuns, boundary : 0..MaxRuns, doc : Docs]
NewCollector == [at |-> "health", tried |-> FALSE, own |-> 0, boundary |-> 0,
                 doc |-> NotRun]
Failed == [NewCollector EXCEPT !.at = "failed"]

\* What the task of a run has written names the trigger of that run.
Named(doc) == doc.run # 0 => doc.trigger \in Triggers

\* The collector decides by the trigger a document names, so wherever a document
\* of a run can be (memory, either file, an answer, the collector) it names one.
CollectorTypeOK ==
  /\ TypeOK
  /\ collector \in Collectors /\ mainProbe \in {"idle", "active", "completed"}
  /\ \A doc \in {evidence, file.doc, temp.doc, loop.doc, collector.doc} : Named(doc)

Advance(from, to) == collector.at = from /\ collector' = [collector EXCEPT !.at = to]

-----------------------------------------------------------------------------
(* Up to the POST *)

WaitForHealth ==
  /\ \/ wifi /\ Advance("health", "tlsHealth")
     \/ wifi /\ started /\ Advance("tlsHealth", "main")
  /\ UNCHANGED <<vars, mainProbe>>

MainCompleted ==
  /\ mainProbe = "completed" /\ collector.at = "main"
  /\ collector' = [NewCollector EXCEPT !.at = "results"]
  /\ UNCHANGED <<vars, mainProbe>>

\* One manual start for an idle main probe.  The flag is set before the
\* request, which may be lost: wait_until swallows the error and polls on.
StartMainProbe ==
  /\ collector.at = "main" /\ mainProbe = "idle" /\ ~collector.tried
  /\ collector' = [collector EXCEPT !.tried = TRUE]
  /\ mainProbe' \in {"idle", "active"}
  /\ UNCHANGED vars

\* The results must still say completed: the device may have restarted.
ReadResults ==
  /\ \/ mainProbe = "completed" /\ Advance("results", "post")
     \/ mainProbe # "completed" /\ collector.at = "results" /\ collector' = Failed
  /\ UNCHANGED <<vars, mainProbe>>

-----------------------------------------------------------------------------
(* The TLS probe *)

\* POST /probe.  A refusal leaves the collector where it is: it asks again.
PostProbe ==
  /\ HandleProbe("collector")
  /\ Advance("post", "posted")
  /\ UNCHANGED mainProbe

\* The answer to the POST: 202 with the task running, 409 without it.
StartAnswered(to) ==
  collector' = IF loop.who = "collector" /\ collector.at = "posted"
               THEN [collector EXCEPT !.at = to,
                                      !.own = IF to = "poll" THEN loop.run ELSE 0,
                                      !.boundary = IF to = "poll" THEN booted ELSE 0]
               ELSE collector

Accepted202 == CreateTask /\ StartAnswered("poll") /\ UNCHANGED mainProbe
Refused409 == CreateFails /\ StartAnswered("post") /\ UNCHANGED mainProbe

GetEvidence ==
  /\ CopyEvidence("collector")
  /\ Advance("poll", "polled")
  /\ UNCHANGED mainProbe

Acceptable(doc) == doc.state = "completed" /\ doc.trigger = "manual-http"

\* Any other document, an error document too, means: ask again.
Answered ==
  /\ Reply
  /\ collector' = IF loop.who = "collector" /\ collector.at = "polled"
                  THEN IF Acceptable(loop.doc)
                       THEN [collector EXCEPT !.at = "validate", !.doc = loop.doc]
                       ELSE [collector EXCEPT !.at = "poll"]
                  ELSE collector
  /\ UNCHANGED mainProbe

\* validate_tls_result may find another target than the one expected.
Validate ==
  /\ \/ Advance("validate", "done")
     \/ collector.at = "validate" /\ collector' = Failed
  /\ UNCHANGED <<vars, mainProbe>>

\* A phase times out or a request outside wait_until fails.
GiveUp ==
  /\ collector.at \notin {"validate", "done", "failed"}
  /\ collector' = Failed
  /\ UNCHANGED <<vars, mainProbe>>

\* A GET that fails inside wait_until is only repeated.
GetLost ==
  /\ Advance("polled", "poll")
  /\ UNCHANGED <<vars, mainProbe>>

RunAgain ==
  /\ collector.at \in {"done", "failed"} /\ collector' = NewCollector
  /\ UNCHANGED <<vars, mainProbe>>

-----------------------------------------------------------------------------
(* The device and the world *)

MainProbeStarts ==
  /\ mainProbe = "idle" /\ mainProbe' = "active"
  /\ UNCHANGED <<vars, collector>>

MainProbeCompletes ==
  /\ mainProbe = "active" /\ mainProbe' = "completed"
  /\ mainFile' = TRUE
  /\ UNCHANGED <<wifi, clock, started, auto, memory, loop, task, flash, history, collector>>

DeviceRestarts ==
  /\ Restart /\ mainProbe' = "idle"
  /\ collector' = CASE collector.at = "posted" -> Failed
                    [] collector.at = "polled" -> [collector EXCEPT !.at = "poll"]
                    [] OTHER -> collector

Elsewhere == UNCHANGED <<collector, mainProbe>>

LoopAlone ==
  \/ StartServer \/ ServeNothing \/ StartRemovesFile \/ StartRemovesTemp
  \/ OpenEvidence \/ AutoProbe \/ AutoLater

LoopRuns == (LoopAlone /\ Elsewhere) \/ Accepted202 \/ Refused409 \/ Answered

OthersServed == (HandleProbe("other") \/ CopyEvidence("other")) /\ Elsewhere

Script ==
  \/ WaitForHealth \/ MainCompleted \/ StartMainProbe \/ ReadResults
  \/ PostProbe \/ GetEvidence \/ Validate \/ GiveUp \/ GetLost \/ RunAgain

Outside == (Tick \/ WifiChanges) /\ Elsewhere

Next ==
  \/ LoopRuns \/ OthersServed \/ Script
  \/ \E t \in Runs : TaskStep(t) /\ Elsewhere
  \/ MainProbeStarts \/ MainProbeCompletes \/ DeviceRestarts \/ Outside

SystemInit == Init /\ collector = NewCollector /\ mainProbe = "idle"

Spec == SystemInit /\ [][Next]_allVars

-----------------------------------------------------------------------------
(* Properties *)

\* tlsProbeActive admits one probe at a time: never two tasks before their
\* publication, nor one beside a start, and the flag is up exactly then.
OneProbe ==
  LET starting == loop.at \in {"announced", "removing", "creating"}
  IN /\ Cardinality(At(Probing)) <= 1
     /\ starting => At(Probing) = {}
     /\ active <=> starting \/ At(Probing) # {}

\* saveEvidence never leaves a short document under the final name, through any
\* failure or restart, as long as nothing was being saved when the latest run
\* cleared the file: two savers share the temporary file.
EvidenceFileIsWhole == file.kind = "torn" => overlap

\* Under the same condition, what is on the flash once a start has cleared it
\* is the document of that run or nothing.
FileIsOfTheLatestRun ==
  ~overlap /\ file.kind # "absent" => file.doc.run >= cleared

\* While a probe is active GET / never answers with a finished document.
ActiveHidesOldEvidence ==
  active /\ loop.at \in {"reading", "replying"} => loop.doc.state = "running"

\* "Forces a new manual TLS evidence run rather than accepting persisted output
\* from a previous boot": an accepted document is of a run that was started in
\* the boot that took the POST, or later.
NoOldBootAccepted ==
  collector.at \in {"validate", "done"} => collector.doc.run > collector.boundary

\* "TLS result was not produced by the accepted manual run": so says the error
\* of validate_tls_result, whose test of the trigger should exclude other runs.
AcceptedIsTheRunsOwn ==
  collector.at = "done" => collector.doc.run >= collector.own
=============================================================================
