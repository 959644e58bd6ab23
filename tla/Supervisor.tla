----------------------------- MODULE Supervisor -----------------------------
(***************************************************************************)
(* What run_cvd relies on its process monitor for: the processes of a      *)
(* device appear only under a live monitor, and once a requested stop has  *)
(* succeeded there are none and there will be none.  ProcessMonitor        *)
(* implements this specification; ServerLoop is built on it.               *)
(***************************************************************************)
CONSTANT Proc   \* the processes of a device

VARIABLES
  phase,   \* off, none (the monitor could not be forked), up, stopping (a stop was
           \* requested), stopped, lost (the monitor has ended otherwise)
  alive    \* the processes that run

supervisorVars == <<phase, alive>>

SupervisorInit == phase = "off" /\ alive = {}

\* StartAndMonitorProcesses; the fork of the monitor may fail unnoticed.
StartMonitor == phase = "off" /\ phase' \in {"up", "none"} /\ alive' = alive

\* A process is started or restarted, also while a stop is under way.
Spawn(p) == phase \in {"up", "stopping"} /\ alive' = alive \cup {p} /\ phase' = phase

\* A process exits: by itself, because it is stopped, or because of SIGHUP.
Exit(p) == p \in alive /\ alive' = alive \ {p} /\ phase' = phase

RequestStop == phase = "up" /\ phase' = "stopping" /\ alive' = alive

\* The monitor exits with status 0.
Stopped == phase = "stopping" /\ alive = {} /\ phase' = "stopped" /\ alive' = alive

\* The monitor ends in any other way.
LoseMonitor == phase \in {"up", "stopping"} /\ phase' = "lost" /\ alive' = alive

SupervisorNext ==
  \/ StartMonitor \/ RequestStop \/ Stopped \/ LoseMonitor
  \/ \E p \in Proc : Spawn(p) \/ Exit(p)

SupervisorSpec == SupervisorInit /\ [][SupervisorNext]_supervisorVars
=============================================================================
