----------------------------- MODULE MCEvidence -----------------------------
(***************************************************************************)
(* The evidence server and the collector for TLC, which takes steps that   *)
(* nothing can tell apart in one order only:                               *)
(*   - within a request or a start the loop reads nothing of the world     *)
(*     outside, which moves before or after it;                            *)
(*   - a script that neither asks nor waits for the server is alone: the   *)
(*     server does not see how far it is, and goes on once it asks again;  *)
(*   - the evidence is asked for while the network is up; others ask while *)
(*     a probe task lives, whose file operations are all that an open file *)
(*     gets in the way of.                                                 *)
(***************************************************************************)
EXTENDS EvidenceCollector

Between == loop.at \in {"client", "auto"}
WithServer == collector.at \in {"health", "post", "posted", "poll", "polled"}

WorldWaits ==
  \/ Between \/ loop'.at \in {"client", "auto"}
  \/ UNCHANGED <<wifi, clock, mainFile, mainProbe>>

ScriptAlone ==
  /\ loop.at = "client" \/ collector.at # "health" \/ UNCHANGED collector
  /\ IF WithServer THEN mainProbe' \in {mainProbe, "idle"}
     ELSE \/ collector' # collector
          \/ mainProbe' # mainProbe /\ collector.at \in {"main", "results"}

OthersMatter ==
  loop'.at = "copied" => wifi /\ (loop'.who = "other" => At({"none", "done"}) # Runs)

OneOrder == WorldWaits /\ ScriptAlone /\ OthersMatter
=============================================================================
