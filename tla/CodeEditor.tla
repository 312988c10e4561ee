------------------------------ MODULE CodeEditor ------------------------------
(***************************************************************************)
(* The console's code editor page (InlineCodeEditorPage) for one user,     *)
(* with its query cache, while others change the same code.  The effects   *)
(* of the page run after every render whose dependencies changed, so they  *)
(* belong to the step that changes them.  What the server does with a      *)
(* version is in Catalog; here are the versions and which is in force.     *)
(* The answer to a query is what the server has when it arrives.           *)
(***************************************************************************)
EXTENDS Naturals, FiniteSets

CONSTANTS
  Slot,         \* pairs of an action and one of its states
  Source,       \* texts that are typed,
  Template,     \*   the generated one
  Empty,        \*   and no text
  None,         \* no version, no request
  MaxVersions,  \* bound on the versions ever made
  MaxPending    \* bound on the versions clicked and not yet shown

ASSUME EditorAssumption ==
  /\ {Template, Empty} \cap Source = {}
  /\ None \notin Nat
  /\ MaxVersions \in Nat /\ MaxPending \in Nat

VARIABLES
  made,     \* every version ever stored: its id, slot, source
  present,  \* ids of those that are in the table
  active,   \* the version in force of each slot, or None
  query,    \* the cached query of each slot's active code
  slot,     \* the slot in the URL
  ed,       \* editorCode, viewingVersionId, isDirty
  pending,  \* versions clicked in the history whose source is awaited
  dialog,   \* the save dialog is open
  saving    \* the save that is awaited

serverVars == <<made, present, active>>
editorVars == <<made, present, active, query, slot, ed, pending, dialog, saving>>

Opened == [text |-> Empty, viewing |-> None, dirty |-> FALSE]
NeverFetched == [data |-> None, status |-> "pending", busy |-> FALSE]

SourceOf(id) == (CHOOSE v \in made : v.id = id).source

EditorInit ==
  /\ made = {} /\ present = {}
  /\ active = [s \in Slot |-> None]
  /\ slot \in Slot
  /\ query = [s \in Slot |-> [NeverFetched EXCEPT !.busy = (s = slot)]]
  /\ ed = Opened
  /\ pending = {} /\ dialog = FALSE /\ saving = None

-----------------------------------------------------------------------------
(* Effects.                                                                *)

LoadedAlways(e, q) ==  \* mutant: viewingVersionId is not looked at
  IF q.status = "success" /\ q.data # None
  THEN [e EXCEPT !.text = SourceOf(q.data), !.dirty = FALSE] ELSE e

(* Active code fills the editor unless an old version is being viewed.     *)
Loaded(e, q) ==
  IF q.status = "success" /\ q.data # None /\ e.viewing = None
  THEN [e EXCEPT !.text = SourceOf(q.data), !.dirty = FALSE] ELSE e

(* A failed query is taken for a slot without code.                        *)
Templated(e, q) ==
  IF q.status = "error"
  THEN [text |-> Template, viewing |-> None, dirty |-> TRUE] ELSE e

(* What the effects make of the editor when the query of its slot goes     *)
(* from q0 to q1.                                                          *)
Rendered(e, q0, q1) ==
  LET e1 == IF q0.data # q1.data \/ (q0.status = "success") # (q1.status = "success")
            THEN Loaded(e, q1) ELSE e
  IN IF (q0.status = "error") # (q1.status = "error") THEN Templated(e1, q1) ELSE e1

(* A fetch; without data the query is pending again.                       *)
Fetched(q) ==
  [q EXCEPT !.busy = TRUE, !.status = IF q.data = None THEN "pending" ELSE @]

(* invalidateQueries of a slot: the query on screen is fetched again, one  *)
(* that is not when it is shown next.                                      *)
Invalidated(s) == [query EXCEPT ![s] = IF s = slot THEN Fetched(@) ELSE @]

-----------------------------------------------------------------------------
(* The server, for this user and the others.                               *)

StoreVersion(s, src) ==
  LET id == Cardinality(made) + 1
  IN /\ id <= MaxVersions
     /\ made' = made \cup {[id |-> id, slot |-> s, source |-> src]}
     /\ present' = present \cup {id}
     /\ active' = [active EXCEPT ![s] = id]

PutInForce(v) ==
  /\ v.id \in present
  /\ active' = [active EXCEPT ![v.slot] = v.id]
  /\ UNCHANGED <<made, present>>

RemoveVersion(v) ==
  /\ v.id \in present
  /\ active[v.slot] # v.id
  /\ present' = present \ {v.id}
  /\ UNCHANGED <<made, active>>

RemoveAll(s) ==
  /\ present' = present \ {v.id : v \in {w \in made : w.slot = s}}
  /\ active' = [active EXCEPT ![s] = None]
  /\ UNCHANGED made

OthersAct ==
  /\ \/ \E s \in Slot, src \in Source : StoreVersion(s, src)
     \/ \E v \in made : PutInForce(v) \/ RemoveVersion(v)
     \/ \E s \in Slot : RemoveAll(s)
  /\ UNCHANGED <<query, slot, ed, pending, dialog, saving>>

-----------------------------------------------------------------------------
(* Queries.  404 and other failures end in the same status, and a query    *)
(* keeps the data it had.                                                  *)

QueryAnswers(s) ==
  /\ query[s].busy
  /\ \E ok \in BOOLEAN :
       LET q == IF ok /\ active[s] # None
                THEN [data |-> active[s], status |-> "success", busy |-> FALSE]
                ELSE [query[s] EXCEPT !.status = "error", !.busy = FALSE]
       IN /\ query' = [query EXCEPT ![s] = q]
          /\ ed' = IF s = slot THEN Rendered(ed, query[s], q) ELSE ed
  /\ UNCHANGED <<serverVars, slot, pending, dialog, saving>>

(* The action's own query brings something new; the template depends on it.*)
ActionChanges ==
  /\ ed' = Templated(ed, query[slot])
  /\ UNCHANGED <<serverVars, query, slot, pending, dialog, saving>>

(* Another slot in the URL keeps the component: the editor is reset, what  *)
(* is awaited is not.  A query with data is fetched again when it is stale.*)
Navigate(s) ==
  /\ s # slot
  /\ slot' = s
  /\ \E q \in {Fetched(query[s])} \cup IF query[s].data = None THEN {} ELSE {query[s]} :
       /\ query' = [query EXCEPT ![s] = q]
       /\ ed' = Templated(Loaded(Opened, q), q)
  /\ UNCHANGED <<serverVars, pending, dialog, saving>>

-----------------------------------------------------------------------------
(* The user.  The dialog is modal, so the editor and the history are out   *)
(* of reach while it is open; it can be closed while its save is awaited.  *)

ReadOnly == ed.viewing # None

Type(src) ==
  /\ ~dialog /\ ~ReadOnly
  /\ ed' = [ed EXCEPT !.text = src, !.dirty = TRUE]
  /\ UNCHANGED <<serverVars, query, slot, pending, dialog, saving>>

(* handleSelectVersion until its await.                                    *)
SelectVersion(v) ==
  /\ ~dialog
  /\ v.slot = slot
  /\ IF v.id = query[slot].data
     THEN /\ ed' = [text |-> v.source, viewing |-> None, dirty |-> FALSE]
          /\ UNCHANGED pending
     ELSE /\ Cardinality(pending) < MaxPending
          /\ pending' = pending \cup {v.id}
          /\ UNCHANGED ed
  /\ UNCHANGED <<serverVars, query, slot, dialog, saving>>

(* ... and after it, in whatever order the answers come.                   *)
VersionArrives(id) ==
  /\ id \in pending
  /\ pending' = pending \ {id}
  /\ ed' = IF id \in present
           THEN [text |-> SourceOf(id), viewing |-> id, dirty |-> FALSE] ELSE ed
  /\ UNCHANGED <<serverVars, query, slot, dialog, saving>>

(* viewingVersionId becomes null, which makes the load effect run.         *)
EditThisVersion ==
  /\ ~dialog /\ ReadOnly
  /\ ed' = Loaded([ed EXCEPT !.viewing = None, !.dirty = TRUE], query[slot])
  /\ UNCHANGED <<serverVars, query, slot, pending, dialog, saving>>

BackToActive ==
  /\ ~dialog /\ ReadOnly
  /\ LET data == query[slot].data
     IN ed' = IF data = None THEN Opened
              ELSE [text |-> SourceOf(data), viewing |-> None, dirty |-> FALSE]
  /\ UNCHANGED <<serverVars, query, slot, pending, dialog, saving>>

OpenDialog ==
  /\ ~dialog /\ ~ReadOnly /\ ed.text # Empty
  /\ dialog' = TRUE
  /\ UNCHANGED <<serverVars, query, slot, ed, pending, saving>>

CloseDialog ==
  /\ dialog
  /\ dialog' = FALSE
  /\ UNCHANGED <<serverVars, query, slot, ed, pending, saving>>

Save ==
  /\ dialog /\ saving = None
  /\ saving' = [slot |-> slot, text |-> ed.text]
  /\ UNCHANGED <<serverVars, query, slot, ed, pending, dialog>>

(* Stored, the dialog closed, onSaved; or refused.  Another slot's effects *)
(* and a fetch that gave way can have left an empty text, which is stored. *)
SaveAnswers ==
  /\ saving # None
  /\ saving' = None
  /\ \/ /\ StoreVersion(saving.slot, saving.text)
        /\ query' = Invalidated(saving.slot)
        /\ dialog' = FALSE
        /\ ed' = [ed EXCEPT !.dirty = FALSE]
     \/ UNCHANGED <<serverVars, query, dialog, ed>>
  /\ UNCHANGED <<slot, pending>>

(* Activate and Delete in the history.                                     *)
ChangeVersion(v) ==
  /\ ~dialog
  /\ v.slot = slot
  /\ active[slot] # v.id
  /\ PutInForce(v) \/ RemoveVersion(v)
  /\ query' = Invalidated(slot)
  /\ ed' = Rendered(ed, query[slot], query'[slot])
  /\ UNCHANGED <<slot, pending, dialog, saving>>

-----------------------------------------------------------------------------
EditorNext ==
  \/ OthersAct
  \/ \E s \in Slot : QueryAnswers(s) \/ Navigate(s)
  \/ ActionChanges
  \/ \E src \in Source : Type(src)
  \/ \E v \in made : SelectVersion(v) \/ ChangeVersion(v)
  \/ \E id \in pending : VersionArrives(id)
  \/ EditThisVersion \/ BackToActive
  \/ OpenDialog \/ CloseDialog \/ Save \/ SaveAnswers

EditorSpec == EditorInit /\ [][EditorNext]_editorVars

-----------------------------------------------------------------------------
(* What is shown read-only as an old version is the text of that version,  *)
(* unedited: whatever is fetched again meanwhile, in whatever order the    *)
(* awaited versions arrive, and when they arrive after a navigation.       *)
ViewedIsStored ==
  ReadOnly => ~ed.dirty /\ \E v \in made : v.id = ed.viewing /\ v.source = ed.text
=============================================================================
