------------------------------- MODULE Catalog -------------------------------
(***************************************************************************)
(* The management API over the catalog: environments, actions, the code of *)
(* their states in versions, and the instances that pin versions.  One     *)
(* action per route that changes a table; a request that is refused (4xx)  *)
(* or rolled back (500) changes nothing and is not a step.                 *)
(***************************************************************************)
EXTENDS CatalogTables

CONSTANTS
  CodeStates,   \* for each action, the states its state machine can reach
  Files,        \* the files that are uploaded,
  Pairs,        \*   and the pairs of files that one request carries
  CodeImports,  \* the contents of the .WFactionCode files
  Snapshots,    \* the snapshots that are imported
  MaxNumber     \* bound on version numbers

ASSUME InputAssumption ==
  /\ CodeStates \in [Action -> SUBSET State]
  /\ Files \subseteq UploadedFile
  /\ Pairs \subseteq Files \X Files
  /\ CodeImports \subseteq CodeFiles
  /\ Snapshots \subseteq SnapshotFile
  /\ \A f \in Snapshots, a \in Action : f.action[a] # NoRow => f.action[a].env \in f.env
  /\ MaxNumber \in Nat

VARIABLE db

Init == db = EmptyTables

(* A transaction's result is stored unless it threw.  Bounds: MaxNumber,   *)
(* and one id that stays free for a version to come.                       *)
Store(d) ==
  /\ d # Failed
  /\ UsedIds(d) # Uuid
  /\ \A v \in d.code : v.number <= MaxNumber
  /\ db' = d

-----------------------------------------------------------------------------
(* Code routes.                                                            *)

SaveCode(a, s, src) ==
  /\ db.action[a] # NoRow
  /\ s \in CodeStates[a]
  /\ Store(SaveAndActivate(db, [t \in {<<a, s>>} |-> src]))

ActivateVersion(v) ==
  /\ v \in db.code
  /\ Store(Activate(db, v))

DeleteUnpinnedOrNot(v) ==  \* mutant: pins are not looked up
  /\ v \in db.code
  /\ ~v.active
  /\ Store([db EXCEPT !.code = @ \ {v}])

DeleteVersion(v) ==
  /\ v \in db.code
  /\ ~v.active
  /\ IdOf(v) \notin Pinned(db)
  /\ Store([db EXCEPT !.code = @ \ {v}])

ClearCode(a, s) ==
  LET versions == {v \in db.code : SlotOf(v) = <<a, s>>}
  IN /\ db.action[a] # NoRow
     /\ {IdOf(v) : v \in versions} \cap Pinned(db) = {}
     /\ Store([db EXCEPT !.code = @ \ versions])

ImportCode(a) ==
  \E files \in CodeImports :
    /\ \A s \in DOMAIN files : s[1] = a
    /\ Store(PutCode(db, a, files))

-----------------------------------------------------------------------------
(* Environments and actions.                                               *)

Upload(f) == Store(PutFile(db, f))

UploadTwo(f, g) == Store(PutTwo(db, f, g))

SetTimeout(a, t) ==
  /\ db.action[a] # NoRow
  /\ Store([db EXCEPT !.action[a].timeout = t])

DeleteAnyEnv(e) ==  \* mutant: no guard
  /\ db.env[e] # NoRow
  /\ Store(DeletedEnv(db, e))

(* The guard looks at the instances of the actions that are in e now.      *)
DeleteEnv(e) ==
  /\ db.env[e] # NoRow
  /\ \A a \in ActionsIn(db, e) : InstancesOf(db, a) \cap Running(db) = {}
  /\ Store(DeletedEnv(db, e))

ImportSnapshot(f) == Store(Replaced(db, f))

-----------------------------------------------------------------------------
(* Instances, as far as the catalog is concerned: an instance pins the     *)
(* versions in force and remembers the environment of its action; it is    *)
(* done when completed_at is set; a force delete takes its row whatever    *)
(* its state.                                                              *)

Invoke(a, i) ==
  /\ db.action[a] # NoRow
  /\ db.inst[i] = NoRow
  /\ Store([db EXCEPT !.inst[i] = [action |-> a, env |-> db.action[a].env,
                                   pins |-> Pins(db, a), done |-> FALSE]])

Complete(i) ==
  /\ i \in Running(db)
  /\ Store([db EXCEPT !.inst[i].done = TRUE])

ForceDelete(i) ==
  /\ db.inst[i] # NoRow
  /\ Store(DropInstances(db, {i}))

-----------------------------------------------------------------------------
Next ==
  \/ \E a \in Action, s \in State, src \in Source : SaveCode(a, s, src)
  \/ \E v \in db.code : ActivateVersion(v) \/ DeleteVersion(v)
  \/ \E a \in Action, s \in State : ClearCode(a, s)
  \/ \E a \in Action : ImportCode(a)
  \/ \E f \in Files : Upload(f)
  \/ \E p \in Pairs : UploadTwo(p[1], p[2])
  \/ \E a \in Action, t \in Timeout \cup {NoTimeout} : SetTimeout(a, t)
  \/ \E e \in Env : DeleteEnv(e)
  \/ \E f \in Snapshots : ImportSnapshot(f)
  \/ \E a \in Action, i \in Instance : Invoke(a, i)
  \/ \E i \in Instance : Complete(i) \/ ForceDelete(i)

Spec == Init /\ [][Next]_db

-----------------------------------------------------------------------------
(* The tables hold rows of their types.                                    *)
TypeOK == db \in Tables

(* A state of an action that has any version of code has exactly one in    *)
(* force: what invoke pins and the console shows never depends on a choice,*)
(* and code never silently stops being used.                               *)
OneInForce ==
  \A v \in db.code :
    /\ \E w \in db.code : SlotOf(w) = SlotOf(v) /\ w.active
    /\ \A w \in db.code : (SlotOf(w) = SlotOf(v) /\ w.active /\ v.active) => w = v

(* The versions of a state have numbers of their own, although the number  *)
(* of a deleted version may be given again.                                *)
NumbersDiffer ==
  \A v, w \in db.code : (SlotOf(v) = SlotOf(w) /\ v.number = w.number) => v = w

(* The versions that a running instance has pinned are in the table, in    *)
(* whatever way versions, actions, environments and snapshots come and go, *)
(* so that the instance runs the code it was invoked with.                 *)
RunningCodeIsKept ==
  \A i \in Running(db) : db.inst[i].pins \subseteq {IdOf(v) : v \in db.code}

(* No row refers to a row that is gone: actions to their environment, code *)
(* to its action, instances to both.                                       *)
NothingDangles ==
  /\ \A a \in Action : db.action[a] # NoRow => db.env[db.action[a].env] # NoRow
  /\ \A v \in db.code : db.action[v.action] # NoRow
  /\ \A i \in Instance : db.inst[i] # NoRow =>
       db.action[db.inst[i].action] # NoRow /\ db.env[db.inst[i].env] # NoRow

(* Deleting an environment takes no running instance whose action is still *)
(* in the environment it was invoked in.                                   *)
DeleteSparesItsOwn ==
  [][\A e \in Env : DeleteEnv(e) =>
       \A i \in Running(db) :
         db.action[db.inst[i].action].env = db.inst[i].env => i \in Running(db)']_db

(* The tables seen as the histories of the slots, which the console lists. *)
HistoryIn(d) ==
  [s \in Slot |-> {[number |-> v.number, source |-> v.source] :
                     v \in {w \in d.code : SlotOf(w) = s}}]

CurrentIn(d) ==
  [s \in Slot |->
     IF \E v \in d.code : SlotOf(v) = s /\ v.active
     THEN LET v == CHOOSE w \in d.code : SlotOf(w) = s /\ w.active
          IN [number |-> v.number, source |-> v.source]
     ELSE NoRow]

History ==
  INSTANCE VersionHistory WITH
    history <- HistoryIn(db), current <- CurrentIn(db), NoVersion <- NoRow

(* Whatever the route, a version that stays keeps its number and its text, *)
(* and code changes by being saved on top, activated, or cleared whole: no *)
(* upload, import or deletion rewrites the history of a slot or leaves a   *)
(* part of it.                                                             *)
ImplementsHistory == History!Spec
=============================================================================
