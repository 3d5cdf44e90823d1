------------------------ MODULE EvidenceServer_proofs ------------------------
(***************************************************************************)
(* The evidence server by itself: whatever a step of it is part of, types  *)
(* stay, at most one probe is before its publication, and every step is a  *)
(* step of ProbeJob or none.  The proofs need to know of each probe task   *)
(* which run it is of and under whose trigger.  EvidenceCollector_proofs   *)
(* and TlsProbe_proofs apply this to the two systems the server is part of.*)
(***************************************************************************)
EXTENDS EvidenceServer, FiniteSetTheorems, TLAPS

\* Every step of the system is one of these for the server, or none.
MainFileAppears ==
  /\ mainFile' = TRUE
  /\ UNCHANGED <<wifi, clock, started, auto, memory, loop, task, flash, history>>

ServerStep ==
  \/ LoopStep
  \/ \E who \in Clients : Serve(who)
  \/ \E t \in Runs : TaskStep(t)
  \/ Tick \/ WifiChanges \/ MainFileAppears \/ Restart

-----------------------------------------------------------------------------
(* Types *)

LEMMA DocTypes ==
  /\ NotRun \in Docs /\ Running \in Docs /\ Doc("error", "none", 0) \in Docs
  /\ NoFile \in Files /\ Idle \in Loops /\ NoTask \in Tasks
BY EvidenceAssumption DEF NotRun, Running, Doc, Docs, NoFile, Files, Idle, Loops, Clients,
   NoTask, Tasks, Triggers

LEMMA RemovedType == ASSUME NEW f \in Files, NEW open PROVE Removed(f, open) \in Files
BY DocTypes DEF Removed

\* The loop task.
LEMMA AnnounceType ==
  ASSUME TypeOK, NEW by \in Triggers, NEW who \in Clients \cup {"auto"}, Announce(by, who)
  PROVE  TypeOK'
<1>1. runs + 1 \in 0..MaxRuns
  BY EvidenceAssumption DEF TypeOK, Announce
<1>2. loop' \in Loops
  BY <1>1, DocTypes DEF Announce, Loops, Idle
<1> QED
  BY <1>1, <1>2, DocTypes DEF TypeOK, Announce, AnnouncedTrigger, flash

LEMMA LoopType == ASSUME TypeOK, LoopStep PROVE TypeOK'
<1>1. CASE StartServer \/ ServeNothing \/ AutoLater
  BY <1>1, DocTypes DEF StartServer, ServeNothing, AutoLater, TypeOK, memory, flash, history,
     Loops, Idle
<1>2. CASE StartRemovesFile
  <2>1. loop' \in Loops /\ cleared' \in 0..MaxRuns
    BY <1>2 DEF StartRemovesFile, TypeOK, Loops
  <2>2. file' \in Files
    BY <1>2, RemovedType DEF StartRemovesFile, RemoveEvidence, TypeOK
  <2> QED
    BY <1>2, <2>1, <2>2 DEF StartRemovesFile, TypeOK, memory
<1>3. CASE StartRemovesTemp
  <2>1. loop' \in Loops
    BY <1>3 DEF StartRemovesTemp, TypeOK, Loops
  <2>2. temp' \in Files
    BY <1>3, RemovedType DEF StartRemovesTemp, TypeOK
  <2> QED
    BY <1>3, <2>1, <2>2 DEF StartRemovesTemp, TypeOK, memory, history
<1>4. CASE CreateTask
  <2>1. AfterStart \in Loops
    BY DocTypes DEF AfterStart, Loops, Idle
  <2>2. task' \in [Runs -> Tasks]
    BY ZenonT(60), <1>4 DEF CreateTask, TypeOK, Tasks, Probing
  <2> QED
    BY <1>4, <2>1, <2>2 DEF CreateTask, TypeOK, memory, flash, history
<1>5. CASE CreateFails
  <2>1. AfterStart \in Loops
    BY DocTypes DEF AfterStart, Loops, Idle
  <2> QED
    BY <1>5, <2>1, DocTypes DEF CreateFails, NotActive, TypeOK, flash, history
<1>6. CASE OpenEvidence \/ Reply
  <2>1. file.doc \in Docs
    BY DEF TypeOK, Files
  <2>2. loop' \in Loops
    BY <1>6, <2>1, DocTypes DEF OpenEvidence, Reply, TypeOK, Loops, Idle
  <2> QED
    BY <1>6, <2>2 DEF OpenEvidence, Reply, TypeOK, memory, flash, history
<1>7. CASE AutoProbe
  BY <1>7, AnnounceType DEF AutoProbe, AutoTrigger, Triggers
<1> QED
  BY <1>1, <1>2, <1>3, <1>4, <1>5, <1>6, <1>7 DEF LoopStep

LEMMA ServeType == ASSUME TypeOK, NEW who \in Clients, Serve(who) PROVE TypeOK'
<1>1. CASE HandleProbe(who)
  BY <1>1, AnnounceType DEF HandleProbe, Triggers
<1>2. CASE CopyEvidence(who)
  <2>1. loop' \in Loops
    BY <1>2, DocTypes DEF CopyEvidence, FileCounts, TypeOK, Loops, Idle
  <2> QED
    BY <1>2, <2>1 DEF CopyEvidence, TypeOK, memory, flash, history
<1> QED
  BY <1>1, <1>2 DEF Serve

\* The probe tasks.
LEMMA GotoType ==
  ASSUME TypeOK, NEW t \in Runs, NEW at \in Probing \cup Saving, Goto(t, at)
  PROVE  task' \in [Runs -> Tasks]
BY DEF TypeOK, Goto, Tasks

LEMMA FinishType ==
  ASSUME TypeOK, NEW t \in Runs, Finish(t) PROVE task' \in [Runs -> Tasks]
<1>1. [NoTask EXCEPT !.at = "done"] \in Tasks
  BY DEF NoTask, Tasks
<1> QED
  BY <1>1 DEF TypeOK, Finish

LEMMA ResultType ==
  ASSUME TypeOK, NEW t \in Runs PROVE Result(t) \in Docs
<1>1. t \in 0..MaxRuns
  BY EvidenceAssumption DEF Runs
<1>2. task[t] \in Tasks
  BY DEF TypeOK
<1>3. task[t].state \in {"not-run", "completed", "error"} /\ task[t].by \in Triggers \cup {"none"}
  BY <1>2 DEF Tasks
<1> QED
  BY <1>1, <1>3 DEF Result, Doc, Docs

LEMMA SaveType == ASSUME TypeOK, NEW t \in Runs, SaveTask(t) PROVE TypeOK'
<1> USE DEF Saving
<1>1. task' \in [Runs -> Tasks]
  BY GotoType, FinishType DEF SaveTask, SaveRemovesTemp, OpenTemp, PrintTemp, AfterShort,
     SaveRemovesFile, Rename, DropTemp
<1>2. \A doc \in Docs : [kind |-> "torn", doc |-> doc] \in Files /\ [kind |-> "whole", doc |-> doc] \in Files
  BY DEF Files
<1>3. file' \in Files /\ temp' \in Files
  BY <1>2, RemovedType, ResultType, DocTypes DEF SaveTask, SaveRemovesTemp, OpenTemp, PrintTemp,
     SaveRemovesFile, Rename, DropTemp, TypeOK, flash
<1>4. OnlyFlash
  BY DEF SaveTask, SaveRemovesTemp, OpenTemp, PrintTemp, SaveRemovesFile, Rename, DropTemp
<1> QED
  BY <1>1, <1>3, <1>4 DEF OnlyFlash, TypeOK, memory, history

LEMMA TaskType == ASSUME TypeOK, NEW t \in Runs, TaskStep(t) PROVE TypeOK'
<1>1. CASE BeginTask(t) \/ Probe(t)
  <2>1. task' \in [Runs -> Tasks]
    BY <1>1 DEF BeginTask, Probe, TypeOK, Tasks, Probing
  <2> QED
    BY <1>1, <2>1 DEF BeginTask, Probe, OnlyTask, TypeOK, memory, flash, history
<1>2. CASE Publish(t)
  <2>1. task' \in [Runs -> Tasks]
    BY <1>2, GotoType DEF Publish, Saving
  <2> QED
    BY <1>2, <2>1, ResultType DEF Publish, TypeOK, flash, history
<1>3. CASE SaveTask(t)
  BY <1>3, SaveType
<1> QED
  BY <1>1, <1>2, <1>3 DEF TaskStep

LEMMA WorldType ==
  ASSUME TypeOK, Tick \/ WifiChanges \/ MainFileAppears \/ Restart PROVE TypeOK'
<1>1. CASE Tick
  <2>1. clock' \in 0 .. WordSize - 1
    BY <1>1, EvidenceAssumption DEF Tick, Later, TypeOK
  <2> QED
    BY <1>1, <2>1 DEF Tick, TypeOK, memory, flash, history
<1>2. CASE WifiChanges \/ MainFileAppears
  BY <1>2 DEF WifiChanges, MainFileAppears, TypeOK, memory, flash, history
<1>3. CASE Restart
  <2>1. 0 \in 0 .. WordSize - 1
    BY EvidenceAssumption
  <2> QED
    BY <1>3, <2>1, DocTypes DEF Restart, TypeOK, flash
<1> QED
  BY <1>1, <1>2, <1>3

LEMMA ServerTypeStep == ASSUME TypeOK, ServerStep \/ UNCHANGED vars PROVE TypeOK'
<1>1. CASE UNCHANGED vars
  BY <1>1 DEF vars, memory, flash, history, TypeOK
<1>2. CASE ServerStep
  BY <1>2, LoopType, ServeType, TaskType, WorldType DEF ServerStep
<1> QED
  BY <1>1, <1>2

LEMMA ServerTypeInit == ASSUME Init PROVE TypeOK
<1>1. 0 \in 0 .. WordSize - 1 /\ 0 \in 0..MaxRuns
  BY EvidenceAssumption
<1>2. [t \in Runs |-> NoTask] \in [Runs -> Tasks]
  BY DocTypes
<1> QED
  BY <1>1, <1>2, DocTypes DEF Init, TypeOK

-----------------------------------------------------------------------------
(* Which run a probe task is of *)

\* startTlsProbe has set the flag and has not made the task yet.
Starting == loop.at \in {"announced", "removing", "creating"}

Prober(t) == task[t].at \in Probing

\* The flag is up for one start or one task, which is of the latest run and,
\* once it has looked, under the trigger that is still in tlsProbeTrigger.
FlagInv ==
  /\ Starting => active /\ loop.run = runs /\ runs # 0
  /\ \A t \in Runs : Prober(t) => active /\ ~Starting /\ t = runs
  /\ \A t \in Runs : task[t].at \in {"probe", "publish"} => task[t].by = trigger
  /\ \A t \in Runs : task[t].at = "publish" => task[t].state \in {"completed", "error"}
  /\ active => Starting \/ \E t \in Runs : Prober(t)

IndInv == TypeOK /\ FlagInv

LEMMA FlagInit == ASSUME Init PROVE FlagInv
BY DEF Init, FlagInv, Starting, Prober, Idle, NoTask, Probing

\* Steps that change neither the flag nor who it is up for.
LEMMA FlagStays ==
  ASSUME FlagInv, active' = active, trigger' = trigger, runs' = runs, task' = task,
         loop'.at \in {"announced", "removing", "creating"} <=> Starting,
         Starting => loop'.run = loop.run
  PROVE  FlagInv'
BY DEF FlagInv, Starting, Prober

LEMMA AnnounceFlag ==
  ASSUME IndInv, NEW by, NEW who, Announce(by, who) PROVE FlagInv'
<1>1. /\ ~active /\ active' /\ runs' = runs + 1 /\ runs' # 0 /\ task' = task
      /\ loop'.at = "announced" /\ loop'.run = runs + 1
  BY EvidenceAssumption DEF Announce, MayStart, Idle, IndInv, TypeOK
<1>2. \A t \in Runs : ~Prober(t)
  BY <1>1 DEF IndInv, FlagInv
<1> QED
  BY <1>1, <1>2 DEF FlagInv, Starting, Prober, Probing

LEMMA LoopFlag == ASSUME IndInv, LoopStep PROVE FlagInv'
<1> USE DEF IndInv
<1>1. CASE StartServer \/ ServeNothing \/ AutoLater \/ OpenEvidence \/ Reply
  <2>1. /\ ~Starting /\ loop'.at \notin {"announced", "removing", "creating"}
        /\ UNCHANGED <<active, trigger, runs, task>>
    <3>1. CASE StartServer \/ ServeNothing \/ AutoLater \/ Reply
      BY <3>1 DEF StartServer, ServeNothing, AutoLater, Reply, Starting, Idle, memory, history
    <3>2. CASE OpenEvidence
      BY <3>2 DEF OpenEvidence, Starting, memory, history, TypeOK, Loops
    <3> QED
      BY <1>1, <3>1, <3>2
  <2> QED
    BY <2>1, FlagStays
<1>2. CASE StartRemovesFile \/ StartRemovesTemp
  <2>1. /\ Starting /\ loop'.at \in {"removing", "creating"} /\ loop'.run = loop.run
        /\ UNCHANGED <<active, trigger, runs, task>>
    BY <1>2 DEF StartRemovesFile, StartRemovesTemp, Starting, memory, history, TypeOK, Loops
  <2> QED
    BY <2>1, FlagStays
<1>3. CASE CreateTask
  <2>1. /\ Starting /\ active /\ loop.run = runs /\ runs \in Runs
        /\ \A t \in Runs : ~Prober(t)
    BY <1>3, EvidenceAssumption DEF CreateTask, Starting, FlagInv, TypeOK, Runs
  <2>2. /\ task' = [task EXCEPT ![runs].at = "begin"] /\ task \in [Runs -> Tasks]
        /\ UNCHANGED <<active, trigger, runs>> /\ loop'.at \in {"client", "auto"}
    BY <1>3, <2>1 DEF CreateTask, AfterStart, Idle, memory, history, TypeOK
  <2>3. /\ task'[runs].at = "begin" /\ \A t \in Runs : t # runs => task'[t] = task[t]
    BY <2>1, <2>2 DEF Tasks
  <2> QED
    BY <2>1, <2>2, <2>3 DEF FlagInv, Starting, Prober, Probing
<1>4. CASE CreateFails
  <2>1. Starting /\ \A t \in Runs : ~Prober(t)
    BY <1>4 DEF CreateFails, Starting, FlagInv
  <2>2. ~active' /\ loop'.at \in {"client", "auto"} /\ task' = task
    BY <1>4 DEF CreateFails, NotActive, AfterStart, Idle
  <2> QED
    BY <2>1, <2>2 DEF FlagInv, Starting, Prober, Probing
<1>5. CASE AutoProbe
  BY <1>5, AnnounceFlag DEF AutoProbe
<1> QED
  BY <1>1, <1>2, <1>3, <1>4, <1>5 DEF LoopStep

LEMMA ServeFlag == ASSUME IndInv, NEW who \in Clients, Serve(who) PROVE FlagInv'
<1>1. CASE HandleProbe(who)
  BY <1>1, AnnounceFlag DEF HandleProbe
<1>2. CASE CopyEvidence(who)
  <2>1. /\ ~Starting /\ loop'.at = "copied" /\ UNCHANGED <<active, trigger, runs, task>>
    BY <1>2 DEF CopyEvidence, Starting, Idle, memory, history
  <2> QED
    BY <2>1, FlagStays DEF IndInv
<1> QED
  BY <1>1, <1>2 DEF Serve

\* A step of a task that is, and stays, before or after its publication.
LEMMA TaskFlag == ASSUME IndInv, NEW t \in Runs, TaskStep(t) PROVE FlagInv'
<1> USE DEF IndInv
<1>1. task[t] \in Tasks /\ DOMAIN task = Runs /\ task \in [Runs -> Tasks]
  BY DEF TypeOK
<1>2. CASE BeginTask(t) \/ Probe(t)
  <2>1. UNCHANGED <<active, trigger, runs, loop>> /\ Prober(t)
    BY <1>2 DEF BeginTask, Probe, OnlyTask, memory, history, Prober, Probing
  <2>2. /\ task'[t].at \in {"probe", "publish"} /\ task'[t].by = trigger
        /\ task'[t].at = "publish" => task'[t].state \in {"completed", "error"}
        /\ \A u \in Runs : u # t => task'[u] = task[u]
    BY <1>1, <1>2 DEF BeginTask, Probe, FlagInv, Tasks
  <2> QED
    BY <2>1, <2>2 DEF FlagInv, Starting, Prober, Probing
<1>3. CASE Publish(t)
  <2>1. Prober(t) /\ ~Starting /\ \A u \in Runs : u # t => ~Prober(u)
    BY <1>3 DEF Publish, Prober, Probing, FlagInv
  <2>2. /\ ~active' /\ loop' = loop /\ task'[t].at = "saving"
        /\ \A u \in Runs : u # t => task'[u] = task[u]
    BY <1>1, <1>3 DEF Publish, Goto, Tasks
  <2> QED
    BY <2>1, <2>2 DEF FlagInv, Starting, Prober, Probing
<1>4. CASE SaveTask(t)
  <2>1. /\ task[t].at \in Saving
        /\ \/ \E at \in Saving : Goto(t, at)
           \/ Finish(t)
    BY <1>4 DEF SaveTask, SaveRemovesTemp, OpenTemp, PrintTemp, AfterShort, SaveRemovesFile,
       Rename, DropTemp, Saving
  <2>2. /\ task'[t].at \notin Probing /\ task[t].at \notin Probing
        /\ \A u \in Runs : u # t => task'[u] = task[u]
    BY <1>1, <2>1 DEF Goto, Finish, Saving, Probing, Tasks, NoTask
  <2>3. UNCHANGED <<active, trigger, runs, loop>>
    BY <1>4 DEF SaveTask, SaveRemovesTemp, OpenTemp, PrintTemp, SaveRemovesFile, Rename, DropTemp,
       OnlyFlash, memory, history
  <2> QED
    BY <2>2, <2>3 DEF FlagInv, Starting, Prober, Probing
<1> QED
  BY <1>2, <1>3, <1>4 DEF TaskStep

LEMMA FlagStep == ASSUME IndInv, ServerStep \/ UNCHANGED vars PROVE FlagInv'
<1>1. CASE UNCHANGED vars \/ Tick \/ WifiChanges \/ MainFileAppears
  <2>1. UNCHANGED <<active, trigger, runs, task, loop>>
    BY <1>1 DEF vars, Tick, WifiChanges, MainFileAppears, memory, history
  <2> QED
    BY <2>1 DEF IndInv, FlagInv, Starting, Prober
<1>2. CASE Restart
  BY <1>2 DEF Restart, Idle, NoTask, FlagInv, Starting, Prober, Probing
<1> QED
  BY <1>1, <1>2, LoopFlag, ServeFlag, TaskFlag DEF ServerStep

-----------------------------------------------------------------------------
(* The refinement *)

\* Every step of the server is a step of ProbeJob or leaves its variables alone.
LEMMA StartRefines ==
  ASSUME IndInv, NEW by \in Triggers, NEW who, Announce(by, who) PROVE Job!Start(by)
BY DEF Announce, AnnouncedTrigger, MayStart, Running, Doc, IndInv, TypeOK, Job!Start,
   Job!Document

LEMMA FailureRefines == ASSUME IndInv, CreateFails PROVE Job!Abandon
<1>1. active
  BY DEF CreateFails, IndInv, FlagInv, Starting
<1> QED
  BY <1>1 DEF CreateFails, NotActive, history, Doc, Job!Abandon, Job!Document

LEMMA PublishRefines ==
  ASSUME IndInv, NEW t \in Runs, Publish(t) PROVE Job!Finish
<1>1. /\ active /\ t = runs /\ task[t].by = trigger
      /\ task[t].state \in {"completed", "error"}
  BY DEF Publish, IndInv, FlagInv, Prober, Probing
<1> QED
  BY <1>1 DEF Publish, Result, Doc, history, Job!Finish, Job!Document

LEMMA RestartRefines == ASSUME Restart PROVE Job!Forget
BY DEF Restart, NotRun, Doc, Job!Forget, Job!Nothing, Job!Document

LEMMA OthersStutter ==
  ASSUME \/ StartServer \/ ServeNothing \/ StartRemovesFile \/ StartRemovesTemp \/ CreateTask
         \/ OpenEvidence \/ Reply \/ AutoLater \/ Tick \/ WifiChanges \/ MainFileAppears
         \/ \E who \in Clients : CopyEvidence(who)
         \/ \E t \in Runs : BeginTask(t) \/ Probe(t) \/ SaveTask(t)
  PROVE  UNCHANGED <<active, trigger, runs, evidence>>
BY DEF StartServer, ServeNothing, StartRemovesFile, StartRemovesTemp, CreateTask, OpenEvidence,
   Reply, AutoLater, Tick, WifiChanges, MainFileAppears, CopyEvidence, BeginTask, Probe, OnlyTask,
   SaveTask, SaveRemovesTemp, OpenTemp, PrintTemp, SaveRemovesFile, Rename, DropTemp, OnlyFlash,
   memory, history

LEMMA StepRefines ==
  ASSUME IndInv, ServerStep \/ UNCHANGED vars PROVE [Job!Next]_(Job!jobVars)
<1> USE DEF Job!Next, Job!jobVars
<1>1. CASE UNCHANGED vars
  BY <1>1 DEF vars, memory, history
<1>2. CASE \E who \in Clients : HandleProbe(who)
  BY <1>2, StartRefines DEF HandleProbe, Triggers
<1>3. CASE AutoProbe
  BY <1>3, StartRefines DEF AutoProbe, AutoTrigger, Triggers
<1>4. CASE CreateFails
  BY <1>4, FailureRefines
<1>5. CASE \E t \in Runs : Publish(t)
  BY <1>5, PublishRefines
<1>6. CASE Restart
  BY <1>6, RestartRefines
<1> QED
  BY <1>1, <1>2, <1>3, <1>4, <1>5, <1>6, OthersStutter DEF ServerStep, LoopStep, Serve, TaskStep

-----------------------------------------------------------------------------
(* What a client is told while a probe is active *)

\* A request that found the flag up was given the copy in memory and no leave
\* to look at the file; the flag cannot rise while the loop serves it.
HideInv ==
  active =>
    /\ evidence = Running
    /\ loop.at \in {"copied", "reading", "replying"} =>
         loop.doc = Running /\ loop.at # "reading" /\ (loop.at = "copied" => ~loop.fresh)

LEMMA HideStep == ASSUME IndInv, HideInv, ServerStep \/ UNCHANGED vars PROVE HideInv'
<1> USE DEF HideInv
<1>1. CASE \/ UNCHANGED vars \/ Tick \/ WifiChanges \/ MainFileAppears
           \/ \E t \in Runs : BeginTask(t) \/ Probe(t) \/ SaveTask(t)
  <2>1. UNCHANGED <<active, evidence, loop>>
    BY <1>1 DEF vars, Tick, WifiChanges, MainFileAppears, BeginTask, Probe, OnlyTask, SaveTask,
       SaveRemovesTemp, OpenTemp, PrintTemp, SaveRemovesFile, Rename, DropTemp, OnlyFlash, memory
  <2> QED
    BY <2>1
<1>2. CASE Restart \/ CreateFails \/ \E t \in Runs : Publish(t)
  <2>1. ~active'
    BY <1>2 DEF Restart, CreateFails, NotActive, Publish
  <2> QED
    BY <2>1
<1>3. ASSUME NEW by, NEW who, Announce(by, who) PROVE HideInv'
  BY <1>3 DEF Announce, Idle
<1>4. CASE \/ StartServer \/ ServeNothing \/ AutoLater \/ Reply
           \/ StartRemovesFile \/ StartRemovesTemp \/ CreateTask
  <2>1. UNCHANGED <<active, evidence>>
    BY <1>4 DEF StartServer, ServeNothing, AutoLater, Reply, StartRemovesFile, StartRemovesTemp,
       CreateTask, memory
  <2>2. loop' = loop \/ loop'.at \notin {"copied", "reading", "replying"}
    <3>1. CASE StartRemovesFile \/ StartRemovesTemp
      BY <3>1 DEF StartRemovesFile, StartRemovesTemp, IndInv, TypeOK, Loops
    <3>2. CASE StartServer \/ ServeNothing \/ AutoLater \/ Reply \/ CreateTask
      BY <3>2 DEF StartServer, ServeNothing, AutoLater, Reply, CreateTask, AfterStart, Idle
    <3> QED
      BY <1>4, <3>1, <3>2
  <2> QED
    BY <2>1, <2>2
<1>5. CASE OpenEvidence
  BY <1>5 DEF OpenEvidence, memory, IndInv, TypeOK, Loops
<1>6. CASE \E who \in Clients : CopyEvidence(who)
  <2> SUFFICES ASSUME active PROVE HideInv'
    BY <1>6 DEF CopyEvidence, memory
  <2>1. FileCounts = FALSE
    BY DEF FileCounts
  <2>2. loop'.at = "copied" /\ loop'.doc = evidence /\ loop'.fresh = FALSE
    BY <1>6, <2>1 DEF CopyEvidence, Idle
  <2>3. evidence' = evidence
    BY <1>6 DEF CopyEvidence, memory
  <2> QED
    BY <2>2, <2>3
<1> QED
  BY <1>1, <1>2, <1>3, <1>4, <1>5, <1>6
     DEF ServerStep, LoopStep, Serve, TaskStep, HandleProbe, AutoProbe
=============================================================================
