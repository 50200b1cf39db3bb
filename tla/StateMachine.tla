---------------------------- MODULE StateMachine ----------------------------
(***************************************************************************)
(* What the scheduler and the check of its configuration both read of a    *)
(* StateMachineConfig (pkg/task/sm_factory.go).                            *)
(***************************************************************************)
EXTENDS Naturals, Sequences

CONSTANTS
    States,         \* the keys of StateMachineConfig.States
    InitialState,   \* StateMachineConfig.InitialState
    TerminalStates  \* StateMachineConfig.TerminalStates, in their order

Terminal == {TerminalStates[i] : i \in 1..Len(TerminalStates)}

=============================================================================
