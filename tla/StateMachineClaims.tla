-------------------------- MODULE StateMachineClaims --------------------------
(***************************************************************************)
(* What the documents of the repository say of an instance and the engine  *)
(* does not do: the run claim_TerminalIsFinal shows a behaviour of         *)
(* StateMachine that refutes it.                                           *)
(***************************************************************************)
EXTENDS StateMachine

(* StateMachineSpec.md:235: after a terminal state "SSE connections are    *)
(* closed with a final state_change event": none can follow it, short of a *)
(* CLEAR.  A run that outlived a PAUSE ends after the abort and moves on.  *)
TerminalIsFinal ==
  [][IsTerminal(state) => state = "ABORTED" /\ state' = "CLEARING"]_state
=============================================================================
