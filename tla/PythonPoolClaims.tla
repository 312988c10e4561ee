--------------------------- MODULE PythonPoolClaims ---------------------------
(***************************************************************************)
(* What pool.ts says of itself in a comment and does not do.               *)
(***************************************************************************)
EXTENDS MCPythonPool

(* pool.ts:279: "Terminate the worker currently executing code for the     *)
(* given instanceId."  A worker that answers before SIGTERM takes effect   *)
(* is handed, dying, to the next instance.                                 *)
KillHitsItsInstance ==
  \A c \in CallsAt({"running"}) :
    proc[call[c].worker] = "term" => c \in killed
=============================================================================
