---------------------------- MODULE MCStateMachine ----------------------------
(* StateMachine on small instances; the configurations say which commands, *)
(* which pinned states and which faults each question needs.               *)
EXTENDS StateMachine
=============================================================================
