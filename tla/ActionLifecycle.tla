--------------------------- MODULE ActionLifecycle ---------------------------
(***************************************************************************)
(* What an action instance promises its clients, whatever code is attached *)
(* to its states: once recovery (ABORTING, STOPPING, CLEARING) or an end   *)
(* (COMPLETED, ABORTED) is reached, the action never goes back to work.    *)
(* "working" stands for every other state, wait states included.           *)
(***************************************************************************)
VARIABLE phase

Phases == {"working", "aborting", "stopping", "aborted", "clearing", "completed"}

TypeOK == phase \in Phases

Init == phase = "working"

Move(from, to) == phase \in from /\ phase' = to

(* Work and an orderly stop end in COMPLETED, so does clearing an abort.   *)
Finish == Move({"working", "stopping", "clearing"}, "completed")

Stop == Move({"working"}, "stopping")

(* A failure or an illegal request aborts anything that is not over yet.   *)
Fail == Move({"working", "stopping", "clearing", "aborting"}, "aborting")

Abort == Move({"aborting"}, "aborted")

Clear == Move({"aborted"}, "clearing")

Next == Finish \/ Stop \/ Fail \/ Abort \/ Clear

Spec == Init /\ [][Next]_phase
=============================================================================
