------------------------- MODULE MCBootStateMachine -------------------------
EXTENDS BootStateMachine

CONSTANT s1

OneOther == {s1}
BootFirst == <<Boot, s1>>
AllFaults == {"run_cvd", "monitor", "klm", "fg", "client", "log"}
ClientFault == {"client"}
NoFaults == {}
=============================================================================
