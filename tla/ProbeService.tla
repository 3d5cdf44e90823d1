---------------------------- MODULE ProbeService ----------------------------
(***************************************************************************)
(* What src/main.cpp promises to its HTTP clients, without the loop, the   *)
(* serial port, the clock or the files that make it so: one job at a time, *)
(* a sweep that goes through the bauds in order and comes to an end, and a *)
(* published summary that is withdrawn before the next sweep begins and    *)
(* never says more than the sweep achieved.                                *)
(***************************************************************************)
EXTENDS Naturals

CONSTANT BaudCount  \* the bauds of a sweep, at least one

VARIABLES
  mode,      \* the job that holds the serial port
  position,  \* samples of the latest sweep that have been finished
  verdict,   \* how the latest sweep ended, as the firmware remembers it
  published  \* what /summary.json says of a sweep, across power cuts

vars == <<mode, position, verdict, published>>

Verdicts == {"none", "partial", "complete"}

TypeOK ==
  /\ mode \in {"idle", "sweep", "stream"}
  /\ position \in 0..BaudCount
  /\ verdict \in Verdicts
  /\ published \in Verdicts \cup {"damaged"}

Init == mode = "idle" /\ position = 0 /\ verdict = "none" /\ published = "none"

\* The old summary goes before anything else of the old sweep does.
Withdraw ==
  /\ mode = "idle"
  /\ published' = "none"
  /\ UNCHANGED <<mode, position, verdict>>

StartSweep ==
  /\ mode = "idle" /\ published = "none"
  /\ mode' = "sweep" /\ position' = 0 /\ verdict' = "none"
  /\ UNCHANGED published

FinishSample ==
  /\ mode = "sweep" /\ position + 1 < BaudCount
  /\ position' = position + 1
  /\ UNCHANGED <<mode, verdict, published>>

FinishSweep ==
  /\ mode = "sweep" /\ position + 1 = BaudCount
  /\ mode' = "idle" /\ position' = BaudCount /\ verdict' = "complete"
  /\ UNCHANGED published

StopSweep ==
  /\ mode = "sweep"
  /\ mode' = "idle" /\ verdict' = "partial"
  /\ UNCHANGED <<position, published>>

\* A summary is damaged while it is written, and for good if that fails.
Publish ==
  /\ mode = "idle" /\ verdict # "none"
  /\ published \in {"none", "damaged"}
  /\ published' \in {"damaged", verdict}
  /\ UNCHANGED <<mode, position, verdict>>

StartStream == mode = "idle" /\ mode' = "stream" /\ UNCHANGED <<position, verdict, published>>
StopStream == mode = "stream" /\ mode' = "idle" /\ UNCHANGED <<position, verdict, published>>

\* A power cut loses everything but the flash, which may need formatting.
PowerCut ==
  /\ mode' = "idle" /\ position' = 0 /\ verdict' = "none"
  /\ published' \in {published, "none"}

Advance == FinishSample \/ FinishSweep

Next ==
  \/ Withdraw \/ StartSweep \/ Advance \/ StopSweep \/ Publish
  \/ StartStream \/ StopStream \/ PowerCut

\* A sweep that nobody stops goes on to its end.
Spec == Init /\ [][Next]_vars /\ WF_vars(Advance)
=============================================================================
