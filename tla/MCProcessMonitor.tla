-------------------------- MODULE MCProcessMonitor --------------------------
(* Instances of ProcessMonitor for TLC.                                    *)
EXTENDS ProcessMonitor

\* The middle entry is critical, so that entries are stopped on both sides of it.
MCCritical == {2}
NoFaults == {}
AllFaults == {"fork", "monitor", "run_cvd"}
RunCvdFault == {"run_cvd"}
=============================================================================
