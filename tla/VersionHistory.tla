---------------------------- MODULE VersionHistory ----------------------------
(***************************************************************************)
(* What a store of code promises of the versions of each slot, to whoever  *)
(* shows a history of them: a version that is listed keeps its number and  *)
(* its text, a new one is numbered above all others and is in force, the   *)
(* one in force is never removed alone, and nothing else moves the choice  *)
(* than a choice.                                                          *)
(***************************************************************************)
EXTENDS Naturals

CONSTANTS
  Slot,
  NoVersion  \* nothing is in force

VARIABLES
  history,  \* the versions of each slot: number and source
  current   \* the one in force of each

vars == <<history, current>>

Init ==
  /\ history = [s \in Slot |-> {}]
  /\ current = [s \in Slot |-> NoVersion]

Stays(s) == history'[s] = history[s] /\ current'[s] = current[s]

(* v is put above what is there.                                           *)
Above(v, old) == \A w \in old : w.number < v.number

Adds(s, old) ==
  \E v \in history'[s] :
    /\ Above(v, old)
    /\ history'[s] = old \cup {v}
    /\ current'[s] = v

Saves(s) == Adds(s, history[s])

(* Two files of one request.                                               *)
SavesTwice(s) ==
  \E v \in history'[s] : Above(v, history[s]) /\ Adds(s, history[s] \cup {v})

Clears(s) == history'[s] = {} /\ current'[s] = NoVersion

(* Cleared and saved again, in one request.                                *)
Restarts(s) == Adds(s, {})

Deploy ==
  \A s \in Slot : Stays(s) \/ Saves(s) \/ SavesTwice(s) \/ Clears(s) \/ Restarts(s)

Activates(s) == history'[s] = history[s] /\ current'[s] \in history[s]

Removes(s) ==
  /\ \E v \in history[s] : v # current[s] /\ history'[s] = history[s] \ {v}
  /\ current'[s] = current[s]

Change(s) ==
  /\ Activates(s) \/ Removes(s)
  /\ \A t \in Slot \ {s} : Stays(t)

Next == Deploy \/ \E s \in Slot : Change(s)

Spec == Init /\ [][Next]_vars
=============================================================================
