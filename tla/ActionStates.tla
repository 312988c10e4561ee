----------------------------- MODULE ActionStates -----------------------------
(***************************************************************************)
(* The states an action instance can be in, the commands that move it, and *)
(* the two tables of packages/engine/src/state-machine/transitions.ts.     *)
(*                                                                         *)
(* A table is a relation: <<from, command, to>> for the transition tables, *)
(* <<from, to>> for the auto-advance maps.  "SC" ("state complete") is the *)
(* engine's own event and never arrives from a client.                     *)
(***************************************************************************)

ObservableStates ==
  {"STARTING", "EXECUTING", "COMPLETING", "COMPLETED", "PAUSING", "PAUSED",
   "UNPAUSING", "HOLDING", "HELD", "UNHOLDING", "ABORTING", "ABORTED",
   "CLEARING", "STOPPING"}

OpaqueStates == {"POSTED", "RECEIVED", "IN_PROGRESS", "COMPLETED"}

ActionState == ObservableStates \cup OpaqueStates

AnyActiveStates ==
  {"STARTING", "EXECUTING", "COMPLETING", "PAUSING", "PAUSED", "UNPAUSING",
   "HOLDING", "HELD", "UNHOLDING"}

TerminalStates == {"COMPLETED", "ABORTED"}

ClientCommand ==
  {"PAUSE", "RESUME", "HOLD", "UNHOLD", "ABORT", "STOP", "CLEAR"}

Command == ClientCommand \cup {"SC"}

Visibility == {"observable", "opaque"}

-----------------------------------------------------------------------------
(* buildTransitionTable: what an observable instance does on each command. *)
HoldFromExecutingOnly ==  \* mutant: HOLD has one row, as PAUSE does
  {<<"EXECUTING", "PAUSE", "PAUSING">>,
   <<"PAUSED", "RESUME", "UNPAUSING">>,
   <<"HELD", "UNHOLD", "UNHOLDING">>,
   <<"EXECUTING", "HOLD", "HOLDING">>,
   <<"ABORTED", "CLEAR", "CLEARING">>}
  \cup {<<s, "ABORT", "ABORTING">> : s \in AnyActiveStates}
  \cup {<<s, "STOP", "STOPPING">> : s \in AnyActiveStates}

ObservableTable ==
  {<<"EXECUTING", "PAUSE", "PAUSING">>,
   <<"PAUSED", "RESUME", "UNPAUSING">>,
   <<"HELD", "UNHOLD", "UNHOLDING">>,
   <<"ABORTED", "CLEAR", "CLEARING">>}
  \cup {<<s, "HOLD", "HOLDING">> : s \in AnyActiveStates}
  \cup {<<s, "ABORT", "ABORTING">> : s \in AnyActiveStates}
  \cup {<<s, "STOP", "STOPPING">> : s \in AnyActiveStates}
  \cup {<<"STARTING", "SC", "EXECUTING">>,
        <<"EXECUTING", "SC", "COMPLETING">>,
        <<"COMPLETING", "SC", "COMPLETED">>,
        <<"PAUSING", "SC", "PAUSED">>,
        <<"UNPAUSING", "SC", "EXECUTING">>,
        <<"HOLDING", "SC", "HELD">>,
        <<"UNHOLDING", "SC", "EXECUTING">>,
        <<"ABORTING", "SC", "ABORTED">>,
        <<"STOPPING", "SC", "COMPLETED">>,
        <<"CLEARING", "SC", "COMPLETED">>}

(* buildOpaqueTransitionTable: opaque instances only know SC, ABORT, STOP. *)
OpaqueActive == {"POSTED", "RECEIVED", "IN_PROGRESS"}

OpaqueTable ==
  {<<"POSTED", "SC", "RECEIVED">>,
   <<"RECEIVED", "SC", "IN_PROGRESS">>,
   <<"IN_PROGRESS", "SC", "COMPLETED">>,
   <<"ABORTING", "SC", "ABORTED">>,
   <<"STOPPING", "SC", "COMPLETED">>}
  \cup {<<s, "ABORT", "ABORTING">> : s \in OpaqueActive}
  \cup {<<s, "STOP", "STOPPING">> : s \in OpaqueActive}

TransitionTable(visibility) ==
  IF visibility = "opaque" THEN OpaqueTable ELSE ObservableTable

(* The auto-advance maps, which the engine consults instead of the SC rows *)
(* of the tables above.  PAUSED, HELD and the terminal states have none.   *)
ObservableAdvance ==
  {<<"STARTING", "EXECUTING">>, <<"EXECUTING", "COMPLETING">>,
   <<"COMPLETING", "COMPLETED">>, <<"PAUSING", "PAUSED">>,
   <<"UNPAUSING", "EXECUTING">>, <<"HOLDING", "HELD">>,
   <<"UNHOLDING", "EXECUTING">>, <<"ABORTING", "ABORTED">>,
   <<"STOPPING", "COMPLETED">>, <<"CLEARING", "COMPLETED">>}

OpaqueAdvance ==
  {<<"POSTED", "RECEIVED">>, <<"RECEIVED", "IN_PROGRESS">>,
   <<"IN_PROGRESS", "COMPLETED">>, <<"ABORTING", "ABORTED">>,
   <<"STOPPING", "COMPLETED">>}

AutoAdvanceMap(visibility) ==
  IF visibility = "opaque" THEN OpaqueAdvance ELSE ObservableAdvance

-----------------------------------------------------------------------------
(* validateCommand: the states the command may lead to, none if it is      *)
(* rejected with InvalidStateTransitionError.                              *)
ValidateCommand(state, command, visibility) ==
  {to \in ActionState : <<state, command, to>> \in TransitionTable(visibility)}

IsTerminal(state) == state \in TerminalStates

InitialState(visibility) ==
  IF visibility = "observable" THEN "STARTING" ELSE "POSTED"

(* RECOVERY_TERMINAL: where a state whose own code failed is forced to.    *)
RecoveryTerminal ==
  {<<"ABORTING", "ABORTED">>, <<"STOPPING", "COMPLETED">>,
   <<"CLEARING", "COMPLETED">>}

(* Commands that sendCommand keeps back while the instance executes code.  *)
Deferrable == {"HOLD", "STOP", "ABORT", "CLEAR"}

(* _ALLOWED_REQUEST_COMMANDS of the Python sidecar.                        *)
Requestable == {"ABORT", "STOP", "HOLD", "UNHOLD", "PAUSE"}

=============================================================================
