------------------------------ MODULE ProbeJob ------------------------------
(***************************************************************************)
(* What port 81 promises of its probes, tasks and locks left out: there is *)
(* at most one at a time; from its start it hides what was known; it ends  *)
(* with a document of its own, under the trigger it was started with, or   *)
(* is given up; and it does end, unless the device restarts.               *)
(* EvidenceServer implements it.                                           *)
(***************************************************************************)
EXTENDS Naturals

CONSTANTS Triggers

VARIABLES
  busy,    \* a probe is active
  by,      \* what started the latest one
  number,  \* how many have been started
  known    \* the document held in memory

jobVars == <<busy, by, number, known>>

Document(state, trigger, run) == [state |-> state, trigger |-> trigger, run |-> run]
Nothing == Document("not-run", "none", 0)

Init == ~busy /\ by = "none" /\ number = 0 /\ known = Nothing

Start(trigger) ==
  /\ ~busy /\ busy' = TRUE
  /\ by' = trigger /\ number' = number + 1
  /\ known' = Document("running", "none", 0)

\* A completed document, or one that says why there was nothing to probe.
Finish ==
  /\ busy /\ busy' = FALSE
  /\ known' \in {Document(state, by, number) : state \in {"completed", "error"}}
  /\ UNCHANGED <<by, number>>

\* It could not even begin.
Abandon ==
  /\ busy /\ busy' = FALSE
  /\ known' = Document("error", "none", 0)
  /\ UNCHANGED <<by, number>>

\* A restart forgets the probe and its document, not that it was counted.
Forget ==
  /\ busy' = FALSE /\ by' = "none" /\ known' = Nothing
  /\ UNCHANGED number

Next == (\E trigger \in Triggers : Start(trigger)) \/ Finish \/ Abandon \/ Forget

Spec == Init /\ [][Next]_jobVars

FairSpec == Spec /\ WF_jobVars(Finish \/ Abandon)
=============================================================================
