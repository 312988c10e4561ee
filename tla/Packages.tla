------------------------------ MODULE Packages ------------------------------
(***************************************************************************)
(* What the export routes write, and what is left of the catalog when the  *)
(* file comes back through the import of its kind.  Exports read tables    *)
(* and change none, so the questions are about every state of Catalog.     *)
(* Actions of an environment have names of their own here: the ZIP of a    *)
(* .WFenvirX keeps one file per name.                                      *)
(***************************************************************************)
EXTENDS Catalog

NewestSources(d, as) ==  \* mutant: latest for active
  LET own == {v \in d.code : v.action \in as}
  IN [s \in {SlotOf(v) : v \in own} |->
        (CHOOSE v \in own : SlotOf(v) = s /\
           \A w \in own : SlotOf(w) = s => w.number <= v.number).source]

(* What getActive gives for each state of the actions.                     *)
ActiveSources(d, as) ==
  LET active == {v \in d.code : v.active /\ v.action \in as}
  IN [s \in {SlotOf(v) : v \in active} |->
        (CHOOSE v \in active : SlotOf(v) = s).source]

(* A .WFenvirX: rows with their lifecycle states, no code.                 *)
EnvirX(d, e) ==
  [kind |-> "single", env |-> e, life |-> d.env[e],
   lives |-> [a \in ActionsIn(d, e) |-> d.action[a].life],
   code |-> [s \in {} |-> NoRow]]

(* A .WFenvirBundleX: active code, and no lifecycle states: an upload      *)
(* takes them for drafts.                                                  *)
Bundle(d, e) ==
  [kind |-> "spec", env |-> e, life |-> Draft,
   lives |-> [a \in ActionsIn(d, e) |-> Draft],
   code |-> ActiveSources(d, ActionsIn(d, e))]

(* A .WFactionCode: the active code of one action.                         *)
ActionCode(d, a) == ActiveSources(d, {a})

(* A .WFsnapshot: environments, actions with their timeouts, active code.  *)
Snapshot(d) ==
  [env |-> {e \in Env : d.env[e] # NoRow},
   action |-> [a \in Action |->
      IF d.action[a] = NoRow THEN NoRow
      ELSE [env |-> d.action[a].env, timeout |-> d.action[a].timeout]],
   code |-> ActiveSources(d, Action)]

-----------------------------------------------------------------------------
InForce(d) == {<<SlotOf(v), v.source>> : v \in {w \in d.code : w.active}}

(* Uploading the .WFenvirX of an environment again changes no table.       *)
EnvirXIsNeutral ==
  \A e \in Env : db.env[e] # NoRow => PutFile(db, EnvirX(db, e)) = db

(* Uploading a bundle, or importing an action's code, where it came from   *)
(* leaves every source that is in force in force, the timeouts, and the    *)
(* instances; nothing refuses it.                                          *)
CodeComesBack ==
  LET same(d) == /\ d # Failed
                 /\ InForce(d) = InForce(db)
                 /\ d.inst = db.inst
                 /\ \A a \in Action : db.action[a] # NoRow =>
                      d.action[a].timeout = db.action[a].timeout
  IN /\ \A e \in Env : db.env[e] # NoRow => same(PutFile(db, Bundle(db, e)))
     /\ \A a \in Action : db.action[a] # NoRow => same(PutCode(db, a, ActionCode(db, a)))

(* A snapshot imported where it was taken restores the environments, the   *)
(* actions with their timeouts and the sources in force, of each a first   *)
(* version only, and makes every lifecycle state a draft; it is refused    *)
(* exactly when there is an instance, running or not.                      *)
SnapshotRestores ==
  LET d == Replaced(db, Snapshot(db)) IN
  IF \E i \in Instance : db.inst[i] # NoRow THEN d = Failed ELSE
    /\ d # Failed
    /\ InForce(d) = InForce(db)
    /\ \A e \in Env : d.env[e] = NoRow <=> db.env[e] = NoRow
    /\ \A a \in Action : IF db.action[a] = NoRow THEN d.action[a] = NoRow
                       ELSE d.action[a] = [db.action[a] EXCEPT !.life = Draft]
    /\ \A v \in d.code : v.number = 1 /\ v.active
    /\ \A e \in Env : d.env[e] \in {Draft, NoRow}
=============================================================================
