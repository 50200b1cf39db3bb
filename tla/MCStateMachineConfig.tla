------------------------ MODULE MCStateMachineConfig ------------------------
(* Every configuration of three states with one terminal state, for TLC.   *)
EXTENDS StateMachineConfig

OneTerminal == <<"failed">>
=============================================================================
