----------------------------- MODULE TunnelLife -----------------------------
(***************************************************************************)
(* What the connection loop relies on of an openconnect run (the tunnels   *)
(* of module DaemonState): it starts once, its port opens at most once, it *)
(* exits once and for good, an exited run is not marked as stopped by us,  *)
(* and one that was marked ends.                                           *)
(***************************************************************************)
VARIABLES phase, byUs
vars == <<phase, byUs>>

Phases == {"new", "up", "ready", "killed", "exited"}

Init == phase = "new" /\ byUs = FALSE

Spawns == phase = "new" /\ phase' = "up" /\ UNCHANGED byUs

\* Start failed: the loop drops the run.
Fails == phase = "new" /\ phase' = "exited" /\ byUs' = FALSE

OpensPort == phase = "up" /\ phase' = "ready" /\ UNCHANGED byUs

\* The end of Start after a stop that came while the process was being started.
Killed == phase \in {"up", "ready"} /\ byUs /\ phase' = "killed" /\ UNCHANGED byUs

MarkStopping == phase # "exited" /\ byUs' = TRUE /\ UNCHANGED phase

Exits == phase \in {"up", "ready", "killed"} /\ phase' = "exited" /\ UNCHANGED byUs

\* The core ends before there is a process.
Lost == phase = "new" /\ phase' = "exited" /\ UNCHANGED byUs

Next == Spawns \/ Fails \/ OpensPort \/ Killed \/ MarkStopping \/ Exits \/ Lost

Safety == Init /\ [][Next]_vars

Spec == Safety /\ WF_vars(byUs /\ Exits)
=============================================================================
