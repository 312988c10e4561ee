-------------------------------- MODULE Console --------------------------------
(***************************************************************************)
(* A browser tab of the console, on one of three pages: the code editor,   *)
(* the settings or the execution log, against the server's tables.  The    *)
(* router mounts one page at a time and a page's state goes with it, so a  *)
(* visit of a page starts as that page's initial state.                    *)
(***************************************************************************)
EXTENDS CodeEditor, SettingsForm, ExecutionLog

VARIABLE route  \* the page of the visit

vars == <<route, editorVars, settingsVars, formVars, logVars>>

Init ==
  /\ route \in {"editor", "settings", "log"}
  /\ EditorInit /\ SettingsInit /\ FormInit /\ LogInit

OnEditor ==
  /\ route = "editor"
  /\ EditorNext
  /\ UNCHANGED <<route, settingsVars, formVars, logVars>>

OnSettings ==
  /\ route = "settings"
  /\ FormNext
  /\ UNCHANGED <<route, editorVars, logVars>>

OnLog ==
  /\ route = "log"
  /\ LogNext
  /\ UNCHANGED <<route, editorVars, formVars>>

Next == OnEditor \/ OnSettings \/ OnLog

Spec == Init /\ [][Next]_vars
=============================================================================
