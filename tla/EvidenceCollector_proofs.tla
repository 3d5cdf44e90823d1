----------------------- MODULE EvidenceCollector_proofs -----------------------
(***************************************************************************)
(* The evidence server in the company of the collector, for every number   *)
(* of runs, size of the clock's word and delay, through every interleaving,*)
(* loss, restart and failing file: it keeps the promise of ProbeJob; what  *)
(* saveEvidence leaves under the final name is whole and of the run that   *)
(* cleared it last, as long as nothing was being saved when that run       *)
(* cleared it; and the collector accepts no document of an earlier boot.   *)
(***************************************************************************)
EXTENDS EvidenceCollector, EvidenceServer_proofs

\* Every step of the system is a step of the server, or none.
LEMMA StepOfServer == ASSUME [Next]_allVars PROVE ServerStep \/ UNCHANGED vars
<1>1. CASE UNCHANGED allVars
  BY <1>1 DEF allVars
<1>2. CASE LoopRuns
  BY <1>2 DEF LoopRuns, LoopAlone, Accepted202, Refused409, Answered, LoopStep, ServerStep
<1>3. CASE OthersServed
  BY <1>3 DEF OthersServed, Serve, Clients, ServerStep
<1>4. CASE Script
  BY <1>4 DEF Script, WaitForHealth, MainCompleted, StartMainProbe, ReadResults, PostProbe,
     GetEvidence, Validate, GiveUp, GetLost, RunAgain, Serve, Clients, ServerStep
<1>5. CASE \E t \in Runs : TaskStep(t) /\ Elsewhere
  BY <1>5 DEF ServerStep
<1>6. CASE MainProbeStarts \/ MainProbeCompletes \/ DeviceRestarts \/ Outside
  BY <1>6 DEF MainProbeStarts, MainProbeCompletes, DeviceRestarts, Outside, MainFileAppears,
     ServerStep
<1> QED
  BY <1>1, <1>2, <1>3, <1>4, <1>5, <1>6 DEF Next

\* What the server knows of its tasks holds in the company of the collector too.
THEOREM Invariance == Spec => []IndInv
<1>1. SystemInit => IndInv
  BY ServerTypeInit, FlagInit DEF SystemInit, IndInv
<1>2. IndInv /\ [Next]_allVars => IndInv'
  BY StepOfServer, ServerTypeStep, FlagStep DEF IndInv
<1> QED
  BY <1>1, <1>2, PTL DEF Spec

-----------------------------------------------------------------------------
(* Types *)

\* CollectorTypeOK but for what documents name.
CollectorTyped ==
  /\ TypeOK
  /\ collector \in Collectors /\ mainProbe \in {"idle", "active", "completed"}

\* The steps of the collector.
LEMMA CollectorTypeStep ==
  ASSUME TypeOK', CollectorTyped, [Next]_allVars PROVE CollectorTyped'
<1> USE DEF CollectorTyped, Collectors
<1>1. NewCollector \in Collectors /\ Failed \in Collectors
  <2>1. 0 \in 0..MaxRuns
    BY EvidenceAssumption
  <2>2. NewCollector \in Collectors
    BY <2>1, DocTypes DEF NewCollector
  <2> QED
    BY <2>2 DEF Failed
<1>2. loop.run \in 0..MaxRuns /\ loop.doc \in Docs /\ booted \in 0..MaxRuns
  BY DEF TypeOK, Loops
<1>3. CASE UNCHANGED allVars
  BY <1>3 DEF allVars
<1>4. CASE LoopRuns
  <2>1. ASSUME NEW to \in {"poll", "post"}, StartAnswered(to) PROVE collector' \in Collectors
    <3>1. 0 \in 0..MaxRuns /\ collector \in Collectors
      BY EvidenceAssumption
    <3>2. IF to = "poll" THEN loop.run \in 0..MaxRuns /\ booted \in 0..MaxRuns ELSE TRUE
      BY <1>2
    <3> QED
      BY <2>1, <3>1, <3>2 DEF StartAnswered
  <2>2. ASSUME Answered PROVE collector' \in Collectors
    BY <1>2, <2>2 DEF Answered
  <2> QED
    BY <1>4, <2>1, <2>2 DEF LoopRuns, LoopAlone, Accepted202, Refused409, Answered, Elsewhere
<1>5. CASE Script
  BY ZenonT(60), <1>1, <1>5 DEF Script, WaitForHealth, MainCompleted, StartMainProbe, ReadResults, PostProbe,
     GetEvidence, Validate, GiveUp, GetLost, RunAgain, Advance
<1>6. CASE DeviceRestarts
  BY <1>1, <1>6 DEF DeviceRestarts
<1>7. CASE \/ OthersServed \/ MainProbeStarts \/ MainProbeCompletes \/ Outside
           \/ \E t \in Runs : TaskStep(t) /\ Elsewhere
  BY <1>7 DEF OthersServed, MainProbeStarts, MainProbeCompletes, Outside, Elsewhere
<1> QED
  BY <1>3, <1>4, <1>5, <1>6, <1>7 DEF Next

\* From the start of a probe to its publication its trigger is in memory, from
\* its begin to the end of its save also in the task, which writes it wherever a
\* document goes.
NamedInv ==
  /\ active => trigger \in Triggers
  /\ \A t \in Runs : task[t].at \in {"probe", "publish"} \cup Saving => task[t].by \in Triggers
  /\ Named(evidence) /\ Named(file.doc) /\ Named(temp.doc) /\ Named(loop.doc)

LEMMA NothingNamed == Named(NotRun) /\ Named(Running) /\ Named(Doc("error", "none", 0))
BY DEF Named, NotRun, Running, Doc

LEMMA RemovedNamed ==
  ASSUME NEW f, NEW open, Named(f.doc) PROVE Named(Removed(f, open).doc)
BY NothingNamed DEF Removed, NoFile

LEMMA AnnounceNamed ==
  ASSUME NamedInv, NEW by \in Triggers, NEW who, Announce(by, who) PROVE NamedInv'
<1>1. trigger' \in Triggers /\ evidence' = Running /\ loop'.doc = NotRun
  BY DEF Announce, AnnouncedTrigger, Idle
<1>2. UNCHANGED <<task, file, temp>>
  BY DEF Announce, flash
<1> QED
  BY <1>1, <1>2, NothingNamed DEF NamedInv, Named

LEMMA LoopNamed == ASSUME IndInv, NamedInv, LoopStep PROVE NamedInv'
<1> USE DEF IndInv
<1>1. CASE StartServer \/ ServeNothing \/ AutoLater \/ OpenEvidence \/ Reply
  <2>1. UNCHANGED <<active, trigger, task, evidence, file, temp>>
    BY <1>1 DEF StartServer, ServeNothing, AutoLater, OpenEvidence, Reply, memory, flash
  <2>2. loop'.doc \in {loop.doc, file.doc, NotRun}
    <3>1. CASE StartServer \/ ServeNothing \/ AutoLater \/ Reply
      BY <3>1 DEF StartServer, ServeNothing, AutoLater, Reply, Idle
    <3>2. CASE OpenEvidence
      BY <3>2 DEF OpenEvidence, TypeOK, Loops
    <3> QED
      BY <1>1, <3>1, <3>2
  <2> QED
    BY <2>1, <2>2, NothingNamed DEF NamedInv, Named
<1>2. CASE StartRemovesFile \/ StartRemovesTemp
  <2>1. UNCHANGED <<active, trigger, task, evidence>> /\ loop'.doc = loop.doc
    BY <1>2 DEF StartRemovesFile, StartRemovesTemp, memory, TypeOK, Loops
  <2>2. Named(file'.doc) /\ Named(temp'.doc)
    BY <1>2, RemovedNamed DEF StartRemovesFile, StartRemovesTemp, RemoveEvidence, NamedInv, Named
  <2> QED
    BY <2>1, <2>2 DEF NamedInv, Named
<1>3. CASE CreateTask
  <2>1. UNCHANGED <<active, trigger, evidence, file, temp>> /\ loop'.doc = NotRun
    BY <1>3 DEF CreateTask, AfterStart, Idle, memory, flash
  <2>2. \A t \in Runs : task'[t] = task[t] \/ task'[t].at = "begin"
    BY <1>3 DEF CreateTask, TypeOK, Tasks
  <2> QED
    BY <2>1, <2>2, NothingNamed DEF NamedInv, Named, Saving
<1>4. CASE CreateFails
  <2>1. ~active' /\ evidence' = Doc("error", "none", 0) /\ loop'.doc = NotRun
    BY <1>4 DEF CreateFails, NotActive, AfterStart, Idle
  <2>2. UNCHANGED <<task, file, temp>>
    BY <1>4 DEF CreateFails, flash
  <2> QED
    BY <2>1, <2>2, NothingNamed DEF NamedInv, Named
<1>5. CASE AutoProbe
  BY <1>5, AnnounceNamed DEF AutoProbe, AutoTrigger, Triggers
<1> QED
  BY <1>1, <1>2, <1>3, <1>4, <1>5 DEF LoopStep

LEMMA ServeNamed == ASSUME NamedInv, NEW who, Serve(who) PROVE NamedInv'
<1>1. CASE HandleProbe(who)
  BY <1>1, AnnounceNamed DEF HandleProbe, Triggers
<1>2. CASE CopyEvidence(who)
  <2>1. loop'.doc = evidence /\ UNCHANGED <<active, trigger, evidence, task, file, temp>>
    BY <1>2 DEF CopyEvidence, Idle, memory, flash
  <2> QED
    BY <2>1 DEF NamedInv, Named
<1> QED
  BY <1>1, <1>2 DEF Serve

LEMMA TaskNamed == ASSUME IndInv, NamedInv, NEW t \in Runs, TaskStep(t) PROVE NamedInv'
<1> USE DEF IndInv
<1>1. loop' = loop /\ trigger' = trigger /\ (active' => active)
  BY DEF TaskStep, BeginTask, Probe, Publish, SaveTask, SaveRemovesTemp, OpenTemp, PrintTemp,
     SaveRemovesFile, Rename, DropTemp, OnlyTask, OnlyFlash, memory
<1>2. \A s \in Runs : s # t => task'[s] = task[s]
  BY DEF TaskStep, BeginTask, Probe, Publish, SaveTask, SaveRemovesTemp, OpenTemp, PrintTemp,
     SaveRemovesFile, Rename, DropTemp, Goto, Finish, TypeOK
<1>3. CASE BeginTask(t)
  <2>1. task'[t].by = trigger /\ active
    BY <1>3 DEF BeginTask, FlagInv, Prober, Probing, TypeOK, Tasks
  <2>2. UNCHANGED <<evidence, file, temp>>
    BY <1>3 DEF BeginTask, OnlyTask, memory, flash
  <2> QED
    BY <1>1, <1>2, <2>1, <2>2 DEF NamedInv, Named
<1>4. CASE Probe(t) \/ Publish(t) \/ SaveTask(t)
  <2>1. task[t].at \in {"probe", "publish"} \cup Saving /\ task[t].by \in Triggers
    BY <1>4 DEF Probe, Publish, SaveTask, SaveRemovesTemp, OpenTemp, PrintTemp, SaveRemovesFile,
       Rename, DropTemp, Saving, NamedInv
  <2>2. Named(Result(t))
    BY <2>1 DEF Named, Result, Doc
  <2>3. task'[t].at = "done" \/ task'[t].by = task[t].by
    BY <1>4 DEF Probe, Publish, SaveTask, SaveRemovesTemp, OpenTemp, PrintTemp, SaveRemovesFile,
       Rename, DropTemp, Goto, Finish, NoTask, TypeOK, Tasks
  <2>4. Named(evidence')
    BY <1>4, <2>2 DEF Probe, Publish, SaveTask, SaveRemovesTemp, OpenTemp, PrintTemp,
       SaveRemovesFile, Rename, DropTemp, OnlyTask, OnlyFlash, memory, NamedInv
  <2>5. Named(temp'.doc) /\ Named(file'.doc)
    <3>1. CASE Probe(t) \/ Publish(t)
      BY <3>1 DEF Probe, Publish, OnlyTask, flash, NamedInv, Named
    <3>2. CASE SaveRemovesTemp(t) \/ DropTemp(t) \/ SaveRemovesFile(t)
      BY <3>2, RemovedNamed DEF SaveRemovesTemp, DropTemp, SaveRemovesFile, NamedInv
    <3>3. CASE OpenTemp(t) \/ PrintTemp(t)
      BY <3>3, <2>2, NothingNamed DEF OpenTemp, PrintTemp, NamedInv
    <3>4. CASE Rename(t)
      BY <3>4, NothingNamed DEF Rename, flash, NoFile, NamedInv
    <3> QED
      BY <1>4, <3>1, <3>2, <3>3, <3>4 DEF SaveTask
  <2>6. \A s \in Runs : task'[s].at \in {"probe", "publish"} \cup Saving => task'[s].by \in Triggers
    BY <1>2, <2>1, <2>3 DEF NamedInv, Saving
  <2> QED
    BY <1>1, <2>4, <2>5, <2>6 DEF NamedInv, Named
<1> QED
  BY <1>3, <1>4 DEF TaskStep

LEMMA NamedStep ==
  ASSUME IndInv, NamedInv, ServerStep \/ UNCHANGED vars PROVE NamedInv'
<1>1. CASE UNCHANGED vars \/ Tick \/ WifiChanges \/ MainFileAppears
  <2>1. UNCHANGED <<active, trigger, loop, task, evidence, file, temp>>
    BY <1>1 DEF vars, Tick, WifiChanges, MainFileAppears, memory, flash
  <2> QED
    BY <2>1 DEF NamedInv, Named
<1>2. CASE Restart
  <2>1. /\ ~active' /\ evidence' = NotRun /\ loop'.doc = NotRun /\ UNCHANGED <<file, temp>>
        /\ \A t \in Runs : task'[t].at = "none"
    BY <1>2 DEF Restart, Idle, NoTask, flash
  <2> QED
    BY <2>1, NothingNamed DEF NamedInv, Named, Saving
<1> QED
  BY <1>1, <1>2, LoopNamed, ServeNamed, TaskNamed DEF ServerStep

\* The collector holds nothing, or what it was answered with.
LEMMA HeldNamed ==
  ASSUME CollectorTyped, NamedInv, Named(collector.doc), [Next]_allVars
  PROVE  Named(collector'.doc)
<1>1. collector'.doc \in {collector.doc, loop.doc, NotRun}
  <2> USE DEF CollectorTyped, Collectors, NewCollector, Failed
  <2>1. CASE LoopRuns
    BY <2>1 DEF LoopRuns, LoopAlone, Accepted202, Refused409, Answered, StartAnswered, Elsewhere
  <2>2. CASE Script
    BY <2>2 DEF Script, WaitForHealth, MainCompleted, StartMainProbe, ReadResults, PostProbe,
       GetEvidence, Validate, GiveUp, GetLost, RunAgain, Advance
  <2>3. CASE DeviceRestarts
    BY <2>3 DEF DeviceRestarts
  <2>4. CASE \/ UNCHANGED allVars \/ OthersServed \/ MainProbeStarts \/ MainProbeCompletes
             \/ Outside \/ \E t \in Runs : TaskStep(t) /\ Elsewhere
    BY <2>4 DEF allVars, OthersServed, MainProbeStarts, MainProbeCompletes, Outside, Elsewhere
  <2> QED
    BY <2>1, <2>2, <2>3, <2>4 DEF Next
<1> QED
  BY <1>1, NothingNamed DEF NamedInv

LEMMA TypedInvariant == Spec => [](CollectorTyped /\ NamedInv /\ Named(collector.doc))
<1>1. SystemInit => IndInv /\ CollectorTyped /\ NamedInv /\ Named(collector.doc)
  <2> SUFFICES ASSUME SystemInit
               PROVE  IndInv /\ CollectorTyped /\ NamedInv /\ Named(collector.doc)
    OBVIOUS
  <2>1. TypeOK /\ FlagInv
    BY ServerTypeInit, FlagInit DEF SystemInit
  <2>2. NewCollector \in Collectors
    BY EvidenceAssumption, DocTypes DEF NewCollector, Collectors
  <2>3. NamedInv
    BY NothingNamed DEF SystemInit, Init, NamedInv, Idle, NoTask, NoFile, Saving
  <2>4. collector.doc = NotRun
    BY DEF SystemInit, NewCollector
  <2> QED
    BY <2>1, <2>2, <2>3, <2>4, NothingNamed DEF SystemInit, IndInv, CollectorTyped
<1>2. IndInv /\ CollectorTyped /\ NamedInv /\ Named(collector.doc) /\ [Next]_allVars
      => IndInv' /\ CollectorTyped' /\ NamedInv' /\ Named(collector.doc)'
  BY StepOfServer, ServerTypeStep, FlagStep, CollectorTypeStep, NamedStep, HeldNamed DEF IndInv
<1> QED
  BY <1>1, <1>2, PTL DEF Spec

\* Type correctness of the server and its collector (tls_evidence.cpp and
\* collect_hardware_evidence.py): every document, file and run number stays in
\* its type, no more than MaxRuns probes are ever numbered, and every document of
\* a run names the trigger of a probe, however the tasks, the saves, restarts and
\* the collector's requests interleave.
THEOREM TypeCorrect == Spec => []CollectorTypeOK
<1>1. CollectorTyped /\ NamedInv /\ Named(collector.doc) => CollectorTypeOK
  BY DEF CollectorTyped, NamedInv, CollectorTypeOK
<1> QED
  BY <1>1, TypedInvariant, PTL

-----------------------------------------------------------------------------
(* What the server does *)

\* The flag of startTlsProbe admits one probe at a time, for every number of
\* runs and through restarts: never two tasks before their publication, nor one
\* beside a start.
THEOREM OneProbeAtATime == Spec => []OneProbe
<1>1. IndInv => OneProbe
  <2> SUFFICES ASSUME IndInv PROVE OneProbe
    OBVIOUS
  <2>1. At(Probing) \subseteq {runs}
    BY DEF IndInv, FlagInv, At, Prober
  <2>2. Cardinality(At(Probing)) <= 1
    <3>1. IsFiniteSet({runs}) /\ Cardinality({runs}) = 1
      BY FS_Singleton
    <3>2. Cardinality(At(Probing)) <= Cardinality({runs})
      BY <2>1, <3>1, FS_Subset
    <3> QED
      BY <3>1, <3>2
  <2>3. At(Probing) # {} <=> \E t \in Runs : Prober(t)
    BY DEF At, Prober
  <2> QED
    BY <2>2, <2>3 DEF IndInv, FlagInv, Starting, OneProbe
<1> QED
  BY <1>1, Invariance, PTL

\* The evidence server implements ProbeJob: it starts a probe only when none is
\* active, ends it with a document of that very run under the trigger that
\* started it, whatever the loop task, the probe tasks, their saves and the
\* collector do in between.
THEOREM ServerImplementsProbeJob == Spec => ImplementsProbeJob
<1>1. SystemInit => Job!Init
  BY DEF SystemInit, Init, NotRun, Doc, Job!Init, Job!Nothing, Job!Document
<1>2. IndInv /\ [Next]_allVars => [Job!Next]_(Job!jobVars)
  BY StepOfServer, StepRefines
<1> QED
  BY <1>1, <1>2, Invariance, PTL DEF Spec, ImplementsProbeJob, Job!Spec

\* GET / of port 81 never answers with a finished document while a probe is
\* active, although the file of an older run may still be written meanwhile.
THEOREM OldEvidenceIsHidden == Spec => []ActiveHidesOldEvidence
<1>1. SystemInit => HideInv
  BY DEF SystemInit, Init, HideInv
<1>2. IndInv /\ HideInv /\ [Next]_allVars => HideInv'
  BY StepOfServer, HideStep
<1>3. HideInv => ActiveHidesOldEvidence
  BY DEF HideInv, ActiveHidesOldEvidence, Running, Doc
<1> QED
  BY <1>1, <1>2, <1>3, Invariance, PTL DEF Spec

-----------------------------------------------------------------------------
(* The file: without an overlap only one task at a time uses the temporary one *)

Saver(t) == task[t].at \in Saving

\* Each run clears the file before its task begins; without an overlap the only
\* saver is the task of that run, and the temporary file is its own.
FileInv ==
  /\ loop.at \in {"removing", "creating"} =>
       cleared = loop.run /\ (~overlap => \A t \in Runs : ~Saver(t))
  /\ \A t \in Runs : Prober(t) => t = cleared
  /\ ~overlap =>
       /\ \A t \in Runs : Saver(t) => t = cleared
       /\ \A t \in Runs : task[t].at \in {"removing", "renaming"} =>
                            temp.kind = "whole" /\ temp.doc.run = t
       /\ file.kind # "torn"
       /\ file.kind # "absent" => file.doc.run >= cleared

LEMMA FileInit == ASSUME Init PROVE FileInv
BY DEF Init, FileInv, Idle, NoTask, NoFile, Saver, Prober, Saving, Probing

\* Steps that leave tasks, files and what was cleared alone.
LEMMA FileStays ==
  ASSUME FileInv, UNCHANGED <<task, flash, cleared, overlap>>,
         \/ loop'.at \notin {"removing", "creating"}
         \/ loop'.at \in {"removing", "creating"} /\ loop' = loop
  PROVE  FileInv'
BY DEF FileInv, Saver, Prober, flash

LEMMA LoopFile == ASSUME IndInv, FileInv, LoopStep PROVE FileInv'
<1>1. CASE StartServer \/ ServeNothing \/ AutoLater \/ Reply \/ CreateFails \/ AutoProbe
  <2>1. UNCHANGED <<task, flash, cleared, overlap>>
    BY <1>1 DEF StartServer, ServeNothing, AutoLater, Reply, CreateFails, AutoProbe, Announce,
       history
  <2>2. CASE StartServer
    BY <2>1, <2>2, FileStays DEF StartServer
  <2>3. CASE ServeNothing \/ AutoLater \/ Reply
    <3>1. loop'.at \in {"client", "auto"}
      BY <2>3 DEF ServeNothing, AutoLater, Reply, Idle
    <3> QED
      BY <2>1, <3>1, FileStays
  <2>4. CASE AutoProbe
    <3>1. loop'.at = "announced"
      BY <2>4 DEF AutoProbe, Announce, Idle
    <3> QED
      BY <2>1, <3>1, FileStays
  <2>5. CASE CreateFails
    <3>1. loop'.at \in {"client", "auto"}
      BY <2>5 DEF CreateFails, AfterStart, Idle
    <3> QED
      BY <2>1, <3>1, FileStays
  <2> QED
    BY <1>1, <2>2, <2>3, <2>4, <2>5
<1>2. CASE OpenEvidence
  <2>1. loop'.at \notin {"removing", "creating"}
    BY <1>2 DEF OpenEvidence, IndInv, TypeOK, Loops
  <2> QED
    BY <1>2, <2>1, FileStays DEF OpenEvidence, history
<1>3. CASE StartRemovesFile
  <2>1. Starting /\ \A t \in Runs : ~Prober(t)
    BY <1>3 DEF StartRemovesFile, Starting, IndInv, FlagInv
  <2>2. /\ loop'.at = "removing" /\ loop'.run = loop.run /\ cleared' = loop.run
        /\ file' = NoFile /\ task' = task
    BY <1>3 DEF StartRemovesFile, RemoveEvidence, Removed, FileOpen, IndInv, TypeOK, Loops
  <2>3. ~overlap' => \A t \in Runs : ~Saver(t)
    BY <1>3 DEF StartRemovesFile, At, Saver
  <2> QED
    BY <2>1, <2>2, <2>3 DEF FileInv, Saver, Prober, Saving, NoFile
<1>4. CASE StartRemovesTemp
  <2>1. loop.at = "removing" /\ loop'.at = "creating" /\ loop'.run = loop.run
    BY <1>4 DEF StartRemovesTemp, IndInv, TypeOK, Loops
  <2>2. UNCHANGED <<task, file, cleared, overlap>>
    BY <1>4 DEF StartRemovesTemp, history
  <2> QED
    BY <2>1, <2>2 DEF FileInv, Saver, Prober, Saving
<1>5. CASE CreateTask
  <2>1. loop'.at \notin {"removing", "creating"} /\ UNCHANGED <<file, temp, cleared, overlap>>
    BY <1>5 DEF CreateTask, AfterStart, Idle, flash, history
  <2>2. cleared = loop.run
    BY <1>5 DEF CreateTask, FileInv
  <2>3. \A t \in Runs : task'[t].at # task[t].at => t = loop.run /\ task'[t].at = "begin"
    BY <1>5 DEF CreateTask, IndInv, TypeOK, Tasks
  <2> QED
    BY <2>1, <2>2, <2>3 DEF FileInv, Saver, Prober, Saving
<1> QED
  BY <1>1, <1>2, <1>3, <1>4, <1>5 DEF LoopStep

LEMMA ServeFile == ASSUME FileInv, NEW who, Serve(who) PROVE FileInv'
<1>1. loop'.at \notin {"removing", "creating"} /\ UNCHANGED <<task, flash, cleared, overlap>>
  BY DEF Serve, HandleProbe, CopyEvidence, Announce, Idle, history
<1> QED
  BY <1>1, FileStays

LEMMA TaskFile == ASSUME IndInv, FileInv, NEW t \in Runs, TaskStep(t) PROVE FileInv'
<1>1. UNCHANGED <<loop, cleared, overlap>>
  BY DEF TaskStep, BeginTask, Probe, Publish, SaveTask, SaveRemovesTemp, OpenTemp, PrintTemp,
     SaveRemovesFile, Rename, DropTemp, OnlyTask, OnlyFlash, history
<1>2. \A s \in Runs : s # t => task'[s] = task[s]
  BY DEF TaskStep, BeginTask, Probe, Publish, SaveTask, SaveRemovesTemp, OpenTemp, PrintTemp,
     SaveRemovesFile, Rename, DropTemp, Goto, Finish, IndInv, TypeOK
<1> USE DEF Saver, Prober, Saving, Probing
<1>3. CASE BeginTask(t) \/ Probe(t)
  <2>1. Prober(t) /\ task'[t].at \in {"probe", "publish"} /\ UNCHANGED flash
    BY <1>3 DEF BeginTask, Probe, OnlyTask, IndInv, TypeOK, Tasks
  <2> QED
    BY <1>1, <1>2, <2>1 DEF FileInv, flash
<1>4. CASE Publish(t)
  <2>1. Prober(t) /\ task'[t].at = "saving" /\ UNCHANGED flash
    BY <1>4 DEF Publish, Goto, IndInv, TypeOK, Tasks
  <2>2. t = cleared /\ loop.at \notin {"removing", "creating"}
    BY <2>1 DEF FileInv, IndInv, FlagInv, Starting
  <2> QED
    BY <1>1, <1>2, <2>1, <2>2 DEF FileInv, flash
<1>5. CASE SaveTask(t)
  <2>1. Saver(t) /\ ~Prober(t)'
    BY <1>5 DEF SaveTask, SaveRemovesTemp, OpenTemp, PrintTemp, SaveRemovesFile, Rename,
       DropTemp, Goto, Finish, NoTask, AfterShort, IndInv, TypeOK, Tasks
  <2>2. SUFFICES ASSUME ~overlap
        PROVE  /\ task'[t].at \in {"removing", "renaming"} =>
                    temp'.kind = "whole" /\ temp'.doc.run = t
               /\ file'.kind # "torn"
               /\ file'.kind # "absent" => file'.doc.run >= cleared
    <3>1. ~overlap => t = cleared /\ \A s \in Runs : s # t => ~Saver(s)
      BY <2>1 DEF FileInv
    <3>2. ~overlap => loop.at \notin {"removing", "creating"}
      BY <2>1 DEF FileInv
    <3> QED
      BY <1>1, <1>2, <2>1, <3>1, <3>2 DEF FileInv
  <2>3. /\ t = cleared /\ cleared \in Int
        /\ task[t].at \in {"removing", "renaming"} => temp.kind = "whole" /\ temp.doc.run = t
        /\ file.kind # "torn" /\ (file.kind # "absent" => file.doc.run >= cleared)
    BY <2>1, <2>2, EvidenceAssumption DEF FileInv, IndInv, TypeOK
  <2>4. CASE SaveRemovesTemp(t) \/ OpenTemp(t) \/ DropTemp(t)
    BY <2>3, <2>4 DEF SaveRemovesTemp, OpenTemp, DropTemp, Goto, Finish, NoTask, IndInv, TypeOK,
       Tasks
  <2>5. CASE PrintTemp(t)
    <3>1. CASE temp' = [kind |-> "whole", doc |-> Result(t)]
      BY <2>3, <2>5, <3>1 DEF PrintTemp, Result, Doc
    <3>2. CASE Goto(t, AfterShort)
      BY <2>3, <2>5, <3>2 DEF PrintTemp, Goto, AfterShort, IndInv, TypeOK, Tasks
    <3> QED
      BY <2>5, <3>1, <3>2 DEF PrintTemp
  <2>6. CASE SaveRemovesFile(t)
    BY <2>3, <2>6 DEF SaveRemovesFile, Removed, NoFile
  <2>7. CASE Rename(t)
    BY <2>3, <2>7 DEF Rename, Goto, Finish, NoTask, flash, IndInv, TypeOK, Tasks
  <2> QED
    BY <1>5, <2>4, <2>5, <2>6, <2>7 DEF SaveTask
<1> QED
  BY <1>3, <1>4, <1>5 DEF TaskStep

LEMMA FileStep == ASSUME IndInv, FileInv, ServerStep \/ UNCHANGED vars PROVE FileInv'
<1>1. CASE UNCHANGED vars \/ Tick \/ WifiChanges \/ MainFileAppears
  BY <1>1, FileStays DEF vars, Tick, WifiChanges, MainFileAppears, history
<1>2. CASE Restart
  BY <1>2 DEF Restart, Idle, NoTask, FileInv, Saver, Prober, Saving, Probing, flash
<1> QED
  BY <1>1, <1>2, LoopFile, ServeFile, TaskFile DEF ServerStep

LEMMA FileInvariant == Spec => []FileInv
<1>1. SystemInit => FileInv
  BY FileInit DEF SystemInit
<1>2. IndInv /\ FileInv /\ [Next]_allVars => FileInv'
  BY StepOfServer, FileStep
<1> QED
  BY <1>1, <1>2, Invariance, PTL DEF Spec

\* saveEvidence never publishes a short document, through any failure or restart
\* and for every number of runs, unless a run began beside a save.
THEOREM FileIsWhole == Spec => []EvidenceFileIsWhole
<1>1. FileInv => EvidenceFileIsWhole
  BY DEF FileInv, EvidenceFileIsWhole
<1> QED
  BY <1>1, FileInvariant, PTL

\* Nor does the file hold the document of a run before the one that cleared it.
THEOREM FileIsTheLatest == Spec => []FileIsOfTheLatestRun
<1>1. FileInv => FileIsOfTheLatestRun
  BY DEF FileInv, FileIsOfTheLatestRun
<1> QED
  BY <1>1, FileInvariant, PTL

-----------------------------------------------------------------------------
(* Freshness: what the collector is answered with is a copy of the memory, which *)
(* a restart clears, or of the file, which its own start has removed; and what is *)
(* written to the file later is written by tasks of this boot or of a later one. *)

\* The result of a probe, if it is one, is of a run after the b-th.
Since(doc, b) == doc.state = "completed" => doc.run > b

Holding == {"copied", "reading", "replying"}
Written == {"printing", "short", "removing", "renaming", "dropping"}

\* The tasks, the memory and, once a task has opened it, the temporary file are
\* of this boot; so is the file from its removal to the end of the start.
BootInv ==
  /\ booted <= runs
  /\ loop.at \in {"announced", "removing", "creating"} => loop.run > booted
  /\ \A t \in Runs : task[t].at \notin {"none", "done"} => t > booted
  /\ \A t \in Runs : task[t].at \in Written => Since(temp.doc, booted)
  /\ Since(evidence, booted)
  /\ loop.at \in {"removing", "creating"} => Since(file.doc, booted)

\* What the collector was told of, and what it may be told.
AcceptInv ==
  /\ collector.at \in {"poll", "polled"} =>
       /\ collector.boundary <= booted
       /\ Since(file.doc, collector.boundary)
       /\ loop.at \in Holding => Since(loop.doc, collector.boundary)
  /\ collector.at \in {"validate", "done"} => collector.doc.run > collector.boundary

-----------------------------------------------------------------------------
(* The boot *)

LEMMA Numbers == ASSUME TypeOK PROVE {runs, booted, loop.run} \subseteq Int /\ Runs \subseteq Int
BY EvidenceAssumption DEF TypeOK, Loops, Runs

LEMMA NothingIsOld == ASSUME NEW b PROVE Since(NotRun, b) /\ Since(Running, b)
                                         /\ Since(Doc("error", "none", 0), b)
BY DEF Since, NotRun, Running, Doc

LEMMA RemovedSince ==
  ASSUME NEW f, NEW open, NEW b, Since(f.doc, b) PROVE Since(Removed(f, open).doc, b)
BY NothingIsOld DEF Removed, NoFile

LEMMA ResultSince ==
  ASSUME NEW t \in Runs, t > booted PROVE Since(Result(t), booted)
BY DEF Since, Result, Doc

LEMMA AnnounceBoot ==
  ASSUME TypeOK, BootInv, NEW by, NEW who, Announce(by, who) PROVE BootInv'
<1>1. loop'.at = "announced" /\ loop'.run = runs + 1 /\ runs' = runs + 1 /\ evidence' = Running
  BY DEF Announce, Idle
<1>2. UNCHANGED <<task, file, temp, booted>>
  BY DEF Announce, flash
<1> QED
  BY <1>1, <1>2, Numbers, NothingIsOld DEF BootInv, Since

LEMMA LoopBoot == ASSUME TypeOK, BootInv, LoopStep PROVE BootInv'
<1>1. CASE StartServer \/ ServeNothing \/ AutoLater \/ OpenEvidence \/ Reply
  <2>1. UNCHANGED <<runs, booted, task, evidence, file, temp>>
    BY <1>1 DEF StartServer, ServeNothing, AutoLater, OpenEvidence, Reply, memory, flash, history
  <2>2. loop' = loop \/ loop'.at \notin {"announced", "removing", "creating"}
    <3>1. CASE StartServer \/ ServeNothing \/ AutoLater \/ Reply
      BY <3>1 DEF StartServer, ServeNothing, AutoLater, Reply, Idle
    <3>2. CASE OpenEvidence
      BY <3>2 DEF OpenEvidence, TypeOK, Loops
    <3> QED
      BY <1>1, <3>1, <3>2
  <2> QED
    BY <2>1, <2>2 DEF BootInv, Since
<1>2. CASE StartRemovesFile
  <2>1. file' = NoFile /\ loop' = [loop EXCEPT !.at = "removing"]
    BY <1>2 DEF StartRemovesFile, RemoveEvidence, Removed, FileOpen
  <2>2. loop'.at = "removing" /\ loop'.run = loop.run /\ loop.at = "announced"
    BY <1>2, <2>1 DEF StartRemovesFile, TypeOK, Loops
  <2> QED
    BY <1>2, <2>1, <2>2, NothingIsOld DEF StartRemovesFile, BootInv, memory, NoFile, Since
<1>3. CASE StartRemovesTemp
  <2>1. loop'.at = "creating" /\ loop'.run = loop.run /\ loop.at = "removing"
    BY <1>3 DEF StartRemovesTemp, TypeOK, Loops
  <2>2. \A t \in Runs : task[t].at \in Written => Since(temp'.doc, booted)
    BY <1>3, RemovedSince DEF StartRemovesTemp, BootInv
  <2>3. UNCHANGED <<runs, booted, task, evidence, file>>
    BY <1>3 DEF StartRemovesTemp, memory, history
  <2> QED
    BY <2>1, <2>2, <2>3 DEF BootInv, Since
<1>4. CASE CreateTask
  <2>1. loop'.at \notin {"announced", "removing", "creating"}
    BY <1>4 DEF CreateTask, AfterStart, Idle
  <2>2. \A t \in Runs : task'[t].at # task[t].at => t = loop.run /\ task'[t].at = "begin"
    BY <1>4 DEF CreateTask, TypeOK, Tasks
  <2>3. loop.run > booted
    BY <1>4 DEF CreateTask, BootInv
  <2>4. UNCHANGED <<runs, booted, evidence, file, temp>>
    BY <1>4 DEF CreateTask, memory, flash, history
  <2> QED
    BY <2>1, <2>2, <2>3, <2>4 DEF BootInv, Since, Written
<1>5. CASE CreateFails
  <2>1. loop'.at \notin {"announced", "removing", "creating"} /\ Since(evidence', booted)
    BY <1>5, NothingIsOld DEF CreateFails, AfterStart, Idle
  <2>2. UNCHANGED <<runs, booted, task, file, temp>>
    BY <1>5 DEF CreateFails, flash, history
  <2> QED
    BY <2>1, <2>2 DEF BootInv, Since
<1>6. CASE AutoProbe
  BY <1>6, AnnounceBoot DEF AutoProbe
<1> QED
  BY <1>1, <1>2, <1>3, <1>4, <1>5, <1>6 DEF LoopStep

LEMMA ServeBoot == ASSUME TypeOK, BootInv, NEW who, Serve(who) PROVE BootInv'
<1>1. CASE HandleProbe(who)
  BY <1>1, AnnounceBoot DEF HandleProbe
<1>2. CASE CopyEvidence(who)
  <2>1. loop'.at = "copied" /\ UNCHANGED <<runs, booted, task, evidence, file, temp>>
    BY <1>2 DEF CopyEvidence, Idle, memory, flash, history
  <2> QED
    BY <2>1 DEF BootInv, Since
<1> QED
  BY <1>1, <1>2 DEF Serve

\* Whatever a task writes is of this boot.
LEMMA TaskBoot == ASSUME TypeOK, BootInv, NEW t \in Runs, TaskStep(t) PROVE BootInv'
<1>1. UNCHANGED <<loop, runs, booted>>
  BY DEF TaskStep, BeginTask, Probe, Publish, SaveTask, SaveRemovesTemp, OpenTemp, PrintTemp,
     SaveRemovesFile, Rename, DropTemp, OnlyTask, OnlyFlash, history
<1>2. task[t].at \notin {"none", "done"} /\ \A s \in Runs : s # t => task'[s] = task[s]
  BY DEF TaskStep, BeginTask, Probe, Publish, SaveTask, SaveRemovesTemp, OpenTemp, PrintTemp,
     SaveRemovesFile, Rename, DropTemp, Goto, Finish, TypeOK
<1>3. t > booted
  BY <1>2 DEF BootInv
<1>4. Since(evidence', booted)
  <2>1. evidence' = evidence \/ evidence' = Result(t)
    BY DEF TaskStep, BeginTask, Probe, Publish, SaveTask, SaveRemovesTemp, OpenTemp, PrintTemp,
       SaveRemovesFile, Rename, DropTemp, OnlyTask, OnlyFlash, memory
  <2> QED
    BY <1>3, <2>1, ResultSince DEF BootInv
<1>5. \/ temp' = temp
      \/ Since(temp'.doc, booted)
  <2>1. CASE SaveTask(t)
    <3>1. CASE SaveRemovesTemp(t) \/ DropTemp(t)
      BY <3>1, NothingIsOld DEF SaveRemovesTemp, DropTemp, Removed, NoFile
    <3>2. CASE OpenTemp(t)
      BY <3>2, NothingIsOld DEF OpenTemp
    <3>3. CASE PrintTemp(t)
      BY <1>3, <3>3, ResultSince DEF PrintTemp
    <3>4. CASE SaveRemovesFile(t) \/ Rename(t)
      BY <3>4, NothingIsOld DEF SaveRemovesFile, Rename, NoFile, flash
    <3> QED
      BY <2>1, <3>1, <3>2, <3>3, <3>4 DEF SaveTask
  <2>2. CASE BeginTask(t) \/ Probe(t) \/ Publish(t)
    BY <2>2 DEF BeginTask, Probe, Publish, OnlyTask, flash
  <2> QED
    BY <2>1, <2>2 DEF TaskStep
<1>6. task'[t].at \in Written => task[t].at \in Written \/ Since(temp'.doc, booted)
  <2>1. CASE OpenTemp(t)
    BY <2>1, NothingIsOld DEF OpenTemp, Finish, NoTask, Written, TypeOK
  <2>2. CASE BeginTask(t) \/ Probe(t) \/ Publish(t) \/ SaveRemovesTemp(t)
    BY <2>2 DEF BeginTask, Probe, Publish, SaveRemovesTemp, Goto, Written, TypeOK, Tasks
  <2>3. CASE PrintTemp(t) \/ SaveRemovesFile(t) \/ Rename(t) \/ DropTemp(t)
    BY <2>3 DEF PrintTemp, SaveRemovesFile, Rename, DropTemp, Written
  <2> QED
    BY <2>1, <2>2, <2>3 DEF TaskStep, SaveTask
<1>7. \A s \in Runs : task'[s].at \in Written => Since(temp'.doc, booted)
  BY <1>2, <1>5, <1>6 DEF BootInv
<1>8. Since(file.doc, booted) => Since(file'.doc, booted)
  <2>1. CASE Rename(t)
    BY <2>1 DEF Rename, flash, BootInv, Written
  <2>2. CASE SaveRemovesFile(t)
    BY <2>2, RemovedSince DEF SaveRemovesFile
  <2>3. CASE \/ BeginTask(t) \/ Probe(t) \/ Publish(t) \/ SaveRemovesTemp(t)
             \/ OpenTemp(t) \/ PrintTemp(t) \/ DropTemp(t)
    BY <2>3 DEF BeginTask, Probe, Publish, SaveRemovesTemp, OpenTemp, PrintTemp, DropTemp,
       OnlyTask, flash
  <2> QED
    BY <2>1, <2>2, <2>3 DEF TaskStep, SaveTask
<1> QED
  <2>1. \A s \in Runs : task'[s].at \notin {"none", "done"} => s > booted
    BY <1>2, <1>3 DEF BootInv
  <2> QED
    BY <1>1, <1>4, <1>7, <1>8, <2>1 DEF BootInv

LEMMA BootStep == ASSUME TypeOK, BootInv, ServerStep \/ UNCHANGED vars PROVE BootInv'
<1>1. CASE UNCHANGED vars \/ Tick \/ WifiChanges \/ MainFileAppears
  <2>1. UNCHANGED <<runs, booted, loop, task, evidence, file, temp>>
    BY <1>1 DEF vars, Tick, WifiChanges, MainFileAppears, memory, flash, history
  <2> QED
    BY <2>1 DEF BootInv, Since
<1>2. CASE Restart
  <2>1. /\ booted' = runs /\ runs' = runs /\ loop'.at = "client" /\ evidence' = NotRun
        /\ \A t \in Runs : task'[t].at = "none"
    BY <1>2 DEF Restart, Idle, NoTask
  <2> QED
    BY <2>1, Numbers, NothingIsOld DEF BootInv, Since, Written
<1> QED
  BY <1>1, <1>2, LoopBoot, ServeBoot, TaskBoot DEF ServerStep
-----------------------------------------------------------------------------
(* The collector *)

\* Its start has cleared the file when the 202 goes out.
LEMMA AcceptStart ==
  ASSUME TypeOK, CollectorTyped, BootInv, AcceptInv, Accepted202 PROVE AcceptInv'
<1>1. UNCHANGED <<file, booted>> /\ loop'.at \notin Holding
  BY DEF Accepted202, CreateTask, AfterStart, Idle, Holding, flash, history
<1>2. Since(file.doc, booted)
  BY DEF Accepted202, CreateTask, BootInv
<1>3. CASE collector' = collector
  BY <1>1, <1>3 DEF AcceptInv, Since
<1>4. CASE collector' = [collector EXCEPT !.at = "poll", !.own = loop.run, !.boundary = booted]
  <2>1. collector'.at = "poll" /\ collector'.boundary = booted
    BY <1>4 DEF CollectorTyped, Collectors
  <2> QED
    BY <1>1, <1>2, <2>1, Numbers DEF AcceptInv, Since
<1> QED
  BY <1>3, <1>4 DEF Accepted202, StartAnswered

LEMMA AcceptAnswer ==
  ASSUME TypeOK, CollectorTyped, AcceptInv, Answered PROVE AcceptInv'
<1>1. UNCHANGED <<file, booted>> /\ loop'.at \notin Holding /\ loop.at \in Holding
  BY DEF Answered, Reply, Idle, Holding, flash, history
<1>2. CASE \/ collector' = collector
           \/ collector.at = "polled" /\ collector' = [collector EXCEPT !.at = "poll"]
  BY <1>1, <1>2 DEF AcceptInv, Since, CollectorTyped, Collectors
<1>3. CASE /\ collector' = [collector EXCEPT !.at = "validate", !.doc = loop.doc]
           /\ collector.at = "polled" /\ Acceptable(loop.doc)
  <2>1. loop.doc.run > collector.boundary
    BY <1>1, <1>3 DEF AcceptInv, Since, Acceptable
  <2>2. /\ collector'.at = "validate" /\ collector'.doc = loop.doc
        /\ collector'.boundary = collector.boundary
    BY <1>3 DEF CollectorTyped, Collectors
  <2> QED
    BY <2>1, <2>2 DEF AcceptInv
<1> QED
  BY <1>2, <1>3 DEF Answered

\* Steps of the collector that leave the server alone.
LEMMA AcceptAlone ==
  ASSUME CollectorTyped, AcceptInv, UNCHANGED vars,
         \/ collector' = collector
         \/ /\ collector' = [collector EXCEPT !.at = collector'.at]
            /\ \/ collector'.at \notin {"poll", "polled", "validate", "done"}
               \/ collector.at = "polled" /\ collector'.at = "poll"
               \/ collector.at = "validate" /\ collector'.at = "done"
         \/ collector'.at \notin {"poll", "polled", "validate", "done"}
  PROVE  AcceptInv'
BY DEF AcceptInv, Since, CollectorTyped, Collectors, vars, flash, history

\* Steps of the server that leave the collector alone, or poll for it.
LEMMA AcceptServer ==
  ASSUME TypeOK, CollectorTyped, BootInv, AcceptInv,
         \/ LoopAlone \/ (\E who \in Clients : Serve(who)) \/ (\E t \in Runs : TaskStep(t))
         \/ Tick \/ WifiChanges \/ MainFileAppears \/ UNCHANGED vars,
         \/ collector' = collector
         \/ collector.at = "poll" /\ collector' = [collector EXCEPT !.at = "polled"]
         \/ collector.at = "post" /\ collector' = [collector EXCEPT !.at = "posted"]
  PROVE  AcceptInv'
<1> DEFINE b == collector.boundary
<1>1. /\ collector'.at \in {"poll", "polled"} => collector.at \in {"poll", "polled"}
      /\ collector'.at \in {"validate", "done"} => collector.at \in {"validate", "done"}
      /\ collector'.boundary = b /\ collector'.doc = collector.doc
  BY DEF CollectorTyped, Collectors
<1>2. SUFFICES ASSUME collector.at \in {"poll", "polled"}
               PROVE  /\ booted' = booted
                      /\ Since(file'.doc, b)
                      /\ loop'.at \in Holding => Since(loop'.doc, b)
  BY <1>1 DEF AcceptInv
<1>3. b <= booted /\ Since(file.doc, b) /\ (loop.at \in Holding => Since(loop.doc, b))
  BY <1>2 DEF AcceptInv
<1>4. b \in Int /\ booted \in Int
  BY Numbers, EvidenceAssumption DEF CollectorTyped, Collectors
<1>5. \A doc \in Docs : Since(doc, booted) => Since(doc, b)
  BY <1>3, <1>4, EvidenceAssumption DEF Since, Docs
<1>6. CASE LoopAlone
  <2>1. CASE StartServer \/ ServeNothing \/ AutoLater
    BY <1>3, <2>1 DEF StartServer, ServeNothing, AutoLater, flash, history, Idle, Holding
  <2>2. CASE AutoProbe
    BY <1>3, <2>2 DEF AutoProbe, Announce, flash, Idle, Holding
  <2>3. CASE StartRemovesFile
    BY <1>3, <2>3, RemovedSince DEF StartRemovesFile, RemoveEvidence, TypeOK, Loops, Holding
  <2>4. CASE StartRemovesTemp
    BY <1>3, <2>4 DEF StartRemovesTemp, history, TypeOK, Loops, Holding
  <2>5. CASE OpenEvidence
    <3>1. loop.at \in Holding /\ loop'.doc \in {loop.doc, file.doc}
      BY <2>5 DEF OpenEvidence, TypeOK, Loops, Holding
    <3> QED
      BY <1>3, <2>5, <3>1 DEF OpenEvidence, flash, history
  <2> QED
    BY <1>6, <2>1, <2>2, <2>3, <2>4, <2>5 DEF LoopAlone
<1>7. ASSUME NEW who \in Clients, Serve(who)
      PROVE  booted' = booted /\ Since(file'.doc, b) /\ Since(loop'.doc, b)
  <2>1. CASE HandleProbe(who)
    BY <1>3, <2>1, NothingIsOld DEF HandleProbe, Announce, flash, Idle
  <2>2. CASE CopyEvidence(who)
    <3>1. loop'.doc = evidence /\ evidence \in Docs /\ UNCHANGED <<file, booted>>
      BY <2>2 DEF CopyEvidence, Idle, TypeOK, flash, history
    <3> QED
      BY <1>3, <1>5, <3>1 DEF BootInv
  <2> QED
    BY <1>7, <2>1, <2>2 DEF Serve
<1>8. ASSUME NEW t \in Runs, TaskStep(t)
      PROVE  booted' = booted /\ loop' = loop /\ Since(file'.doc, b)
  <2>1. CASE Rename(t)
    <3>1. Since(temp.doc, booted) /\ temp.doc \in Docs
      BY <2>1 DEF Rename, BootInv, Written, TypeOK, Files
    <3> QED
      BY <1>3, <1>5, <2>1, <3>1 DEF Rename, OnlyFlash, flash, history
  <2>2. CASE SaveRemovesFile(t)
    BY <1>3, <2>2, RemovedSince DEF SaveRemovesFile, OnlyFlash, history
  <2>3. CASE \/ BeginTask(t) \/ Probe(t) \/ Publish(t) \/ SaveRemovesTemp(t)
             \/ OpenTemp(t) \/ PrintTemp(t) \/ DropTemp(t)
    BY <1>3, <2>3 DEF BeginTask, Probe, Publish, SaveRemovesTemp, OpenTemp, PrintTemp, DropTemp,
       OnlyTask, OnlyFlash, flash, history
  <2> QED
    BY <1>8, <2>1, <2>2, <2>3 DEF TaskStep, SaveTask
<1>9. CASE Tick \/ WifiChanges \/ MainFileAppears \/ UNCHANGED vars
  BY <1>3, <1>9 DEF Tick, WifiChanges, MainFileAppears, vars, flash, history
<1> QED
  BY <1>3, <1>6, <1>7, <1>8, <1>9

LEMMA AcceptStep ==
  ASSUME TypeOK, CollectorTyped, BootInv, AcceptInv, [Next]_allVars PROVE AcceptInv'
<1>1. CASE UNCHANGED allVars
  BY <1>1, AcceptAlone DEF allVars
<1>2. CASE LoopRuns
  <2>1. CASE LoopAlone /\ Elsewhere
    BY <2>1, AcceptServer DEF Elsewhere
  <2>2. CASE Refused409
    <3>1. UNCHANGED <<file, booted>> /\ loop'.at \notin Holding
      BY <2>2 DEF Refused409, CreateFails, AfterStart, Idle, Holding, flash, history
    <3>2. collector' = collector \/ collector'.at = "post"
      BY <2>2 DEF Refused409, StartAnswered, CollectorTyped, Collectors
    <3> QED
      BY <3>1, <3>2 DEF AcceptInv, Since
  <2> QED
    BY <1>2, <2>1, <2>2, AcceptStart, AcceptAnswer DEF LoopRuns
<1>3. CASE OthersServed
  BY <1>3, AcceptServer DEF OthersServed, Serve, Clients, Elsewhere
<1>4. CASE PostProbe \/ GetEvidence
  BY <1>4, AcceptServer DEF PostProbe, GetEvidence, Serve, Clients, Advance
<1>5. CASE Script /\ ~PostProbe /\ ~GetEvidence
  BY <1>5, AcceptAlone
     DEF Script, WaitForHealth, MainCompleted, StartMainProbe, ReadResults, Validate, GiveUp,
         GetLost, RunAgain, Advance, NewCollector, Failed, CollectorTyped, Collectors
<1>6. CASE \E t \in Runs : TaskStep(t) /\ Elsewhere
  BY <1>6, AcceptServer DEF Elsewhere
<1>7. CASE MainProbeStarts \/ MainProbeCompletes \/ Outside
  BY <1>7, AcceptServer DEF MainProbeStarts, MainProbeCompletes, Outside, Elsewhere,
     MainFileAppears
<1>8. CASE DeviceRestarts
  <2>1. booted' = runs /\ file' = file /\ loop'.at \notin Holding /\ booted <= runs
    BY <1>8 DEF DeviceRestarts, Restart, Idle, Holding, flash, BootInv
  <2>2. \/ collector' = collector
        \/ collector.at = "polled" /\ collector' = [collector EXCEPT !.at = "poll"]
        \/ collector'.at = "failed"
    BY <1>8 DEF DeviceRestarts, Failed, NewCollector
  <2>3. {runs, booted, collector.boundary} \subseteq Int
    BY Numbers, EvidenceAssumption DEF CollectorTyped, Collectors
  <2> QED
    BY <2>1, <2>2, <2>3 DEF AcceptInv, Since, CollectorTyped, Collectors
<1> QED
  BY <1>1, <1>2, <1>3, <1>4, <1>5, <1>6, <1>7, <1>8 DEF Next

\* "Forces a new manual TLS evidence run rather than accepting persisted output
\* from a previous boot" (collect_hardware_evidence.py): for every number of
\* runs, restarts, lost answers and failing files.
THEOREM NoneOfAnOldBoot == Spec => []NoOldBootAccepted
<1>1. SystemInit => BootInv /\ AcceptInv
  <2> SUFFICES ASSUME SystemInit PROVE BootInv /\ AcceptInv
    OBVIOUS
  <2>1. BootInv
    BY NothingIsOld DEF SystemInit, Init, BootInv, Idle, NoTask, Written
  <2>2. AcceptInv
    BY DEF SystemInit, NewCollector, AcceptInv
  <2> QED
    BY <2>1, <2>2
<1>2. IndInv /\ CollectorTyped /\ BootInv /\ AcceptInv /\ [Next]_allVars => BootInv' /\ AcceptInv'
  BY StepOfServer, BootStep, AcceptStep DEF IndInv
<1>3. AcceptInv => NoOldBootAccepted
  BY DEF AcceptInv, NoOldBootAccepted
<1> QED
  BY <1>1, <1>2, <1>3, Invariance, TypedInvariant, PTL DEF Spec
=============================================================================
