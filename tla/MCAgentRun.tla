----------------------------- MODULE MCAgentRun -----------------------------
(* The Agent on small instances: one extra fault and no frame beyond the   *)
(* greeting, so that every schedule of Run against the chain is explored.  *)
EXTENDS AgentRun

OneWatchURL == {"url"}
AllSetups   == {s \in Setup : s.mode = "start" => ~s.serve /\ ~s.shutdown}
ServedSetups == {s \in AllSetups : s.serve}
UnservedSetups == {s \in AllSetups : s.mode = "run" /\ ~s.serve}
=============================================================================
