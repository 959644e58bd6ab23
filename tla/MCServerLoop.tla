---------------------------- MODULE MCServerLoop ----------------------------
EXTENDS ServerLoop

CONSTANTS c1, c2, p1

TwoClients == {c1, c2}
OneProc == {p1}
AllFaults == {"setup", "fork", "monitor", "run_cvd", "exec", "files", "timeout"}
=============================================================================
