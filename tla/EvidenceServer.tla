---------------------------- MODULE EvidenceServer ---------------------------
(***************************************************************************)
(* src/tls_evidence.cpp: the evidence server on port 81.  serialEventRun,  *)
(* called from the Arduino loop task, serves HTTP and starts probes; every *)
(* probe is a FreeRTOS task that publishes its document in memory and then *)
(* saves it through a temporary file.  Every critical section of tlsMutex  *)
(* is one step; all else the loop task and the probe tasks do interleaves. *)
(* What a probe finds out is the matter of TlsProbe.                       *)
(***************************************************************************)
EXTENDS Naturals, FiniteSets

CONSTANTS
  ServerAfter,  \* millis() when the server may start: 3000 in the code
  AutoAfter,    \* kFallbackAutoStartAfterMs
  WordSize,     \* 2^32: millis() is a uint32_t
  MaxRuns       \* bound: probes ever accepted

ASSUME EvidenceAssumption ==
  /\ {ServerAfter, AutoAfter, MaxRuns} \subseteq Nat /\ WordSize \in Nat \ {0}

Runs == 1..MaxRuns
Triggers == {"manual-http", "main-probe-complete", "fallback-delay-elapsed"}

VARIABLES
  wifi,      \* WiFi.status() = WL_CONNECTED
  clock,     \* millis()
  mainFile,  \* /rtk3-probe.json exists: the main probe has finished once
  started,   \* tlsServerStarted
  auto,      \* autoProbeStarted
  active,    \* tlsProbeActive
  trigger,   \* tlsProbeTrigger
  evidence,  \* tlsEvidence
  loop,      \* the loop task: where it is in serialEventRun, and for whom
  task,      \* the probe tasks, by the number of their run
  file,      \* /rtk3-tls-evidence.json
  temp,      \* /rtk3-tls-evidence.tmp
  runs,      \* history: probes accepted so far, over all boots
  cleared,   \* history: the run whose start removed the old file last
  overlap,   \* history: it did so while another run was being saved
  booted     \* history: `runs` at the last boot

memory == <<active, trigger, evidence>>
flash == <<file, temp>>
history == <<runs, cleared, overlap, booted>>
vars == <<wifi, clock, mainFile, started, auto, memory, loop, task, flash, history>>

-----------------------------------------------------------------------------
(* Documents, files, threads *)

\* A JSON document: its state, its trigger, the run it tells of.
Docs == [state : {"not-run", "running", "completed", "error"},
         trigger : Triggers \cup {"none"}, run : 0..MaxRuns]
Doc(state, by, run) == [state |-> state, trigger |-> by, run |-> run]
NotRun == Doc("not-run", "none", 0)
Running == Doc("running", "none", 0)

\* A file: the run whose document it holds, or 0 for none, and how much of it.
NoFile == [kind |-> "absent", doc |-> NotRun]
Files == [kind : {"absent", "torn", "whole"}, doc : Docs]

Clients == {"collector", "other"}
Idle == [at |-> "client", who |-> "other", run |-> 0, doc |-> NotRun, fresh |-> FALSE]
Loops == [at : {"client", "announced", "removing", "creating", "copied",
                "reading", "replying", "auto"},
          who : Clients \cup {"auto"}, run : 0..MaxRuns, doc : Docs, fresh : BOOLEAN]

NoTask == [at |-> "none", by |-> "none", state |-> "not-run"]
Probing == {"begin", "probe", "publish"}
Saving == {"saving", "opening", "printing", "short", "removing", "renaming", "dropping"}
Tasks == [at : {"none", "done"} \cup Probing \cup Saving,
          by : Triggers \cup {"none"}, state : {"not-run", "completed", "error"}]

At(steps) == {t \in Runs : task[t].at \in steps}

\* LittleFS (external): a path that is open can be neither removed nor renamed.
TempOpen == At({"printing"}) # {}
FileOpen == loop.at = "reading"
Removed(content, open) == IF open THEN content ELSE NoFile

TypeOK ==
  /\ {wifi, mainFile, started, auto, active, overlap} \subseteq BOOLEAN
  /\ clock \in 0 .. WordSize - 1
  /\ trigger \in Triggers \cup {"none"} /\ evidence \in Docs
  /\ loop \in Loops /\ task \in [Runs -> Tasks]
  /\ file \in Files /\ temp \in Files
  /\ {runs, cleared, booted} \subseteq 0..MaxRuns

-----------------------------------------------------------------------------
(* startTlsProbe *)

\* Mutant: no look at tlsProbeActive.
MayStartAny == wifi

MayStart == wifi /\ ~active

\* Mutant: the trigger is not stored.
TriggerKept(by) == trigger

AnnouncedTrigger(by) == by

\* The first critical section.  `runs` counts the probes begun here.
Announce(by, who) ==
  /\ MayStart /\ runs < MaxRuns
  /\ active' = TRUE /\ trigger' = AnnouncedTrigger(by) /\ evidence' = Running
  /\ runs' = runs + 1
  /\ loop' = [Idle EXCEPT !.at = "announced", !.who = who, !.run = runs + 1]
  /\ UNCHANGED <<wifi, clock, mainFile, started, auto, task, flash, cleared, overlap, booted>>

\* Mutant: the evidence of the last run stays.
KeepEvidence == file

RemoveEvidence == Removed(file, FileOpen)

StartRemovesFile ==
  /\ loop.at = "announced"
  /\ file' = RemoveEvidence
  /\ cleared' = loop.run /\ overlap' = (At(Saving) # {})
  /\ loop' = [loop EXCEPT !.at = "removing"]
  /\ UNCHANGED <<wifi, clock, mainFile, started, auto, memory, task, temp, runs, booted>>

StartRemovesTemp ==
  /\ loop.at = "removing"
  /\ temp' = Removed(temp, TempOpen)
  /\ loop' = [loop EXCEPT !.at = "creating"]
  /\ UNCHANGED <<wifi, clock, mainFile, started, auto, memory, task, file, history>>

\* Where the loop goes from a start: serialEventRun looks at autoProbeStarted
\* after handleClient, and that is the end of its turn.
AfterStart == [Idle EXCEPT !.at = IF loop.who = "auto" THEN "client" ELSE "auto"]

CreateTask ==
  /\ loop.at = "creating"
  /\ task' = [task EXCEPT ![loop.run].at = "begin"]
  /\ auto' = (auto \/ loop.who = "auto")
  /\ loop' = AfterStart
  /\ UNCHANGED <<wifi, clock, mainFile, started, memory, flash, history>>

\* Mutant: the flag stays when xTaskCreate fails.
StillActive == active

NotActive == FALSE

CreateFails ==
  /\ loop.at = "creating"
  /\ active' = NotActive /\ evidence' = Doc("error", "none", 0)
  /\ loop' = AfterStart
  /\ UNCHANGED <<wifi, clock, mainFile, started, auto, trigger, task, flash, history>>

-----------------------------------------------------------------------------
(* serialEventRun: the server, one request, the automatic probe *)

\* initializeTlsEvidenceServer; nothing changes when the mutex cannot be made.
StartServer ==
  /\ loop.at = "client" /\ ~started /\ wifi /\ clock > ServerAfter
  /\ started' = TRUE
  /\ UNCHANGED <<wifi, clock, mainFile, auto, memory, loop, task, flash, history>>

\* No request, one that only reads, or one that is refused.
ServeNothing ==
  /\ loop.at = "client"
  /\ loop' = [Idle EXCEPT !.at = "auto"]
  /\ UNCHANGED <<wifi, clock, mainFile, started, auto, memory, task, flash, history>>

MainProbeMayBeActive == ~mainFile /\ clock < AutoAfter

HandleProbe(who) ==
  /\ loop.at = "client" /\ started /\ ~MainProbeMayBeActive
  /\ Announce("manual-http", who)

\* Mutant: the file is preferred whether or not a probe is active.
PreferFile == TRUE

FileCounts == ~active

\* currentEvidence: a copy under the mutex, then perhaps the file.
CopyEvidence(who) ==
  /\ loop.at = "client" /\ started
  /\ loop' = [Idle EXCEPT !.at = "copied", !.who = who, !.doc = evidence,
                          !.fresh = FileCounts]
  /\ UNCHANGED <<wifi, clock, mainFile, started, auto, memory, task, flash, history>>

\* exists and open are one step: the file is there when it is opened, or the
\* copy is the answer whenever and why ever it was not.
OpenEvidence ==
  /\ loop.at = "copied"
  /\ \/ /\ loop.fresh /\ file.kind # "absent"
        /\ loop' = [loop EXCEPT !.at = "reading", !.doc = file.doc]
     \/ /\ ~loop.fresh \/ file.kind = "absent"
        /\ loop' = [loop EXCEPT !.at = "replying"]
  /\ UNCHANGED <<wifi, clock, mainFile, started, auto, memory, task, flash, history>>

\* The answer to GET / goes out.
Reply ==
  /\ loop.at \in {"reading", "replying"}
  /\ loop' = [Idle EXCEPT !.at = "auto"]
  /\ UNCHANGED <<wifi, clock, mainFile, started, auto, memory, task, flash, history>>

AutoTrigger == IF mainFile THEN "main-probe-complete" ELSE "fallback-delay-elapsed"

AutoDue == ~auto /\ started /\ (mainFile \/ clock >= AutoAfter)

AutoProbe ==
  /\ loop.at = "auto" /\ AutoDue
  /\ Announce(AutoTrigger, "auto")

\* Nothing due, or startTlsProbe refused it: the next turn looks again.
AutoLater ==
  /\ loop.at = "auto" /\ ~(AutoDue /\ MayStart /\ runs < MaxRuns)
  /\ loop' = Idle
  /\ UNCHANGED <<wifi, clock, mainFile, started, auto, memory, task, flash, history>>

-----------------------------------------------------------------------------
(* tlsProbeTask *)

Goto(t, at) == task' = [task EXCEPT ![t].at = at]
Finish(t) == task' = [task EXCEPT ![t] = [NoTask EXCEPT !.at = "done"]]
OnlyTask == UNCHANGED <<wifi, clock, mainFile, started, auto, memory, loop, flash, history>>
OnlyFlash == UNCHANGED <<wifi, clock, mainFile, started, auto, memory, loop, history>>

\* The target from NVS, and the trigger under the mutex.
BeginTask(t) ==
  /\ task[t].at = "begin"
  /\ task' = [task EXCEPT ![t].at = "probe", ![t].by = trigger]
  /\ OnlyTask

Probe(t) ==
  /\ task[t].at = "probe"
  /\ \E state \in {"completed", "error"} :
       task' = [task EXCEPT ![t].at = "publish", ![t].state = state]
  /\ OnlyTask

Result(t) == Doc(task[t].state, task[t].by, t)

\* The last critical section comes before the file is written.
Publish(t) ==
  /\ task[t].at = "publish"
  /\ evidence' = Result(t) /\ active' = FALSE
  /\ Goto(t, "saving")
  /\ UNCHANGED <<wifi, clock, mainFile, started, auto, trigger, loop, flash, history>>

SaveRemovesTemp(t) ==
  /\ task[t].at = "saving"
  /\ temp' = Removed(temp, TempOpen)
  /\ Goto(t, "opening")
  /\ UNCHANGED file /\ OnlyFlash

OpenTemp(t) ==
  /\ task[t].at = "opening"
  /\ \/ temp' = [kind |-> "torn", doc |-> NotRun] /\ Goto(t, "printing")
     \/ temp' = temp /\ Finish(t)
  /\ UNCHANGED file /\ OnlyFlash

\* Mutant: the length written is not compared.
AfterShortPrint == "removing"

AfterShort == "short"

\* print, flush and close; the whole document or a part of it.
PrintTemp(t) ==
  /\ task[t].at = "printing"
  /\ \/ temp' = [kind |-> "whole", doc |-> Result(t)] /\ Goto(t, "removing")
     \/ temp' = [kind |-> "torn", doc |-> Result(t)] /\ Goto(t, AfterShort)
  /\ UNCHANGED file /\ OnlyFlash

SaveRemovesFile(t) ==
  /\ task[t].at = "removing"
  /\ file' = Removed(file, FileOpen)
  /\ Goto(t, "renaming")
  /\ UNCHANGED temp /\ OnlyFlash

Rename(t) ==
  /\ task[t].at = "renaming"
  /\ \/ /\ temp.kind # "absent" /\ ~TempOpen /\ ~FileOpen
        /\ file' = temp /\ temp' = NoFile
        /\ Finish(t)
     \/ UNCHANGED flash /\ Goto(t, "dropping")
  /\ OnlyFlash

\* After a short write, or a rename that failed.
DropTemp(t) ==
  /\ task[t].at \in {"short", "dropping"}
  /\ temp' = Removed(temp, TempOpen)
  /\ Finish(t)
  /\ UNCHANGED file /\ OnlyFlash

-----------------------------------------------------------------------------
(* The world *)

Later == (clock + 1) % WordSize

Tick ==
  /\ clock' = Later
  /\ UNCHANGED <<wifi, mainFile, started, auto, memory, loop, task, flash, history>>

WifiChanges ==
  /\ wifi' = ~wifi
  /\ UNCHANGED <<clock, mainFile, started, auto, memory, loop, task, flash, history>>

\* The main probe of the earlier firmware leaves its result file.
MainProbeFinishes ==
  /\ ~mainFile /\ mainFile' = TRUE
  /\ UNCHANGED <<wifi, clock, started, auto, memory, loop, task, flash, history>>

Restart ==
  /\ wifi' = FALSE /\ clock' = 0 /\ started' = FALSE /\ auto' = FALSE
  /\ active' = FALSE /\ trigger' = "none" /\ evidence' = NotRun
  /\ loop' = Idle /\ task' = [t \in Runs |-> NoTask]
  /\ booted' = runs
  /\ UNCHANGED <<mainFile, flash, runs, cleared, overlap>>

Init ==
  /\ wifi = FALSE /\ clock = 0 /\ mainFile \in BOOLEAN
  /\ started = FALSE /\ auto = FALSE
  /\ active = FALSE /\ trigger = "none" /\ evidence = NotRun
  /\ loop = Idle /\ task = [t \in Runs |-> NoTask]
  /\ file = NoFile /\ temp = NoFile
  /\ runs = 0 /\ cleared = 0 /\ overlap = FALSE /\ booted = 0

SaveTask(t) ==
  \/ SaveRemovesTemp(t) \/ OpenTemp(t) \/ PrintTemp(t)
  \/ SaveRemovesFile(t) \/ Rename(t) \/ DropTemp(t)

TaskStep(t) == BeginTask(t) \/ Probe(t) \/ Publish(t) \/ SaveTask(t)

\* What the loop does by itself; the requests it serves come from outside.
LoopStep ==
  \/ StartServer \/ ServeNothing
  \/ StartRemovesFile \/ StartRemovesTemp \/ CreateTask \/ CreateFails
  \/ OpenEvidence \/ Reply
  \/ AutoProbe \/ AutoLater

Serve(who) == HandleProbe(who) \/ CopyEvidence(who)

-----------------------------------------------------------------------------
(* The abstract specification *)

Job == INSTANCE ProbeJob WITH busy <- active, by <- trigger, number <- runs,
                              known <- evidence

\* tlsProbeActive, tlsProbeTrigger and tlsEvidence keep the promise of ProbeJob
\* through every interleaving of the loop task with the probe tasks, which read
\* the trigger long after it was written.
ImplementsProbeJob == Job!Spec
=============================================================================
