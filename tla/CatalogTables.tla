---------------------------- MODULE CatalogTables ----------------------------
(***************************************************************************)
(* The tables of @trajectory/storage that hold the deployed catalog and    *)
(* what the server's management routes do to them.  Every operator takes   *)
(* the tables and returns the tables; Failed stands for a transaction that *)
(* throws and is rolled back.  SQLite calls are synchronous and a          *)
(* transaction is one JavaScript call, so each operator is one step.       *)
(*                                                                         *)
(* Left out of the rows: names of their own, versions, dates, parameter    *)
(* and property specifications, which no operation below looks at.         *)
(***************************************************************************)
EXTENDS Naturals, FiniteSets

CONSTANTS
  Env, Action, State, Instance,  \* oids, code states, instance ids
  Source,                        \* source texts
  Life,                          \* lifecycle states
  Draft,                         \* the default lifecycle state
  NoTimeout, Timeout,            \* timeout_seconds: NULL and the other values
  Uuid,                          \* ids of code versions
  NoRow, Failed                  \* no row of that key; a rolled-back transaction

Slot == Action \X State
VersionId == [action : Action, state : State, id : Uuid]
Version == [action : Action, state : State, id : Uuid, number : Nat \ {0},
            source : Source, active : BOOLEAN]
ActionRow == [env : Env, life : Life, timeout : Timeout \cup {NoTimeout}]
InstanceRow == [action : Action, env : Env, pins : SUBSET VersionId, done : BOOLEAN]

SnapshotRow == [env : Env, timeout : Timeout \cup {NoTimeout}]

Tables ==
  [ env    : [Env -> Life \cup {NoRow}],
    action : [Action -> ActionRow \cup {NoRow}],
    inst   : [Instance -> InstanceRow \cup {NoRow}],
    code   : SUBSET Version ]

ASSUME CatalogAssumption ==
  /\ Draft \in Life
  /\ NoRow \notin Life \cup ActionRow \cup InstanceRow \cup SnapshotRow
  /\ NoTimeout \notin Timeout
  /\ Failed \notin Tables
  /\ Uuid # {}

EmptyTables ==
  [ env |-> [e \in Env |-> NoRow], action |-> [a \in Action |-> NoRow],
    inst |-> [i \in Instance |-> NoRow], code |-> {} ]

SlotOf(v) == <<v.action, v.state>>
IdOf(v) == [action |-> v.action, state |-> v.state, id |-> v.id]

ActionsIn(d, e) == {a \in Action : d.action[a] # NoRow /\ d.action[a].env = e}
InstancesOf(d, a) == {i \in Instance : d.inst[i] # NoRow /\ d.inst[i].action = a}
Running(d) == {i \in Instance : d.inst[i] # NoRow /\ ~d.inst[i].done}
ActiveCode(d, a) == {v \in d.code : v.action = a /\ v.active}
Pins(d, a) == {IdOf(v) : v \in ActiveCode(d, a)}
Pinned(d) == UNION {d.inst[i].pins : i \in Running(d)}

-----------------------------------------------------------------------------
(* Code versions.                                                          *)

(* randomUUID: an id that no row has.  The versions of one transaction are *)
(* of different slots, which tell them apart.                              *)
UsedIds(d) ==
  {v.id : v \in d.code} \cup
  UNION {{p.id : p \in d.inst[i].pins} : i \in {j \in Instance : d.inst[j] # NoRow}}

NewId(d) == CHOOSE u \in Uuid : u \notin UsedIds(d)

NextNumberFromZero(d, s) ==  \* mutant: off by one
  LET numbers == {v.number : v \in {w \in d.code : SlotOf(w) = s}}
  IN CHOOSE n \in {0} \cup {m + 1 : m \in numbers} : \A m \in numbers : m < n
NextNumberByCount(d, s) ==  \* mutant: count for maximum
  Cardinality({v \in d.code : SlotOf(v) = s}) + 1

(* One more than the greatest number in the slot, from 1.                  *)
NextNumber(d, s) ==
  LET numbers == {v.number : v \in {w \in d.code : SlotOf(w) = s}}
  IN CHOOSE n \in {1} \cup {m + 1 : m \in numbers} : \A m \in numbers : m < n

NewVersion(d, s, src) ==
  [action |-> s[1], state |-> s[2], id |-> NewId(d),
   number |-> NextNumber(d, s), source |-> src, active |-> TRUE]

SaveAsActive(d, files) ==  \* mutant: no deactivation
  IF UsedIds(d) = Uuid THEN Failed ELSE
  [d EXCEPT !.code = @ \cup {NewVersion(d, s, files[s]) : s \in DOMAIN files}]

(* Of each slot of DOMAIN files a new version is saved and the one in      *)
(* force; the others of the slot are no longer.  (No id is left only where *)
(* Uuid is a small set.)                                                   *)
SaveAndActivate(d, files) ==
  IF UsedIds(d) = Uuid THEN Failed ELSE
  [d EXCEPT
     !.code = {[v EXCEPT !.active = @ /\ SlotOf(v) \notin DOMAIN files] : v \in @}
                \cup {NewVersion(d, s, files[s]) : s \in DOMAIN files}]

Activate(d, v) ==
  [d EXCEPT !.code =
     {[w EXCEPT !.active = IF SlotOf(w) = SlotOf(v) THEN w = v ELSE @] : w \in @}]

WithoutCodeOf(d, as) == [d EXCEPT !.code = {v \in @ : v.action \notin as}]

-----------------------------------------------------------------------------
(* Environments and actions.                                               *)

PutEnv(d, e, life) == [d EXCEPT !.env[e] = life]

PutActionsResetting(d, lives, e) ==  \* mutant: rows are replaced
  [d EXCEPT !.action = [a \in Action |->
     IF a \in DOMAIN lives
     THEN [env |-> e, life |-> lives[a], timeout |-> NoTimeout]
     ELSE d.action[a]]]

(* An upsert moves an existing action to e; its timeout is not among the   *)
(* fields of an uploaded action and stays.  lives gives each action of the *)
(* file its lifecycle state.                                               *)
PutActions(d, lives, e) ==
  [d EXCEPT !.action = [a \in Action |->
     IF a \in DOMAIN lives
     THEN [env |-> e, life |-> lives[a],
           timeout |-> IF d.action[a] = NoRow THEN NoTimeout ELSE d.action[a].timeout]
     ELSE d.action[a]]]

DropActionsUnchecked(d, as) ==  \* mutant: no foreign keys
  [WithoutCodeOf(d, as) EXCEPT
     !.action = [a \in Action |-> IF a \in as THEN NoRow ELSE d.action[a]]]

(* instances.action_oid is a foreign key without a cascade.                *)
DropActions(d, as) ==
  IF \E a \in as : InstancesOf(d, a) # {} THEN Failed
  ELSE [WithoutCodeOf(d, as) EXCEPT
          !.action = [a \in Action |-> IF a \in as THEN NoRow ELSE d.action[a]]]

DropInstances(d, is) ==
  [d EXCEPT !.inst = [i \in Instance |-> IF i \in is THEN NoRow ELSE d.inst[i]]]

(* Nor has instances.environment_oid; the actions go by cascade.           *)
DropEnvRow(d, e) ==
  IF \E i \in Instance : d.inst[i] # NoRow /\ d.inst[i].env = e THEN Failed
  ELSE LET d1 == DropActions(d, ActionsIn(d, e))
       IN IF d1 = Failed THEN Failed ELSE [d1 EXCEPT !.env[e] = NoRow]

(* DELETE /environments/:oid after its guards: the code of the actions,    *)
(* the instances recorded under the environment, the actions, the row.     *)
DeletedEnv(d, e) ==
  LET own == {i \in Instance : d.inst[i] # NoRow /\ d.inst[i].env = e}
  IN DropEnvRow(DropInstances(WithoutCodeOf(d, ActionsIn(d, e)), own), e)

-----------------------------------------------------------------------------
(* Upload.  A file is read into entries of three kinds:                    *)
(*   spec    an environment with the actions it includes                   *)
(*   single  the environment of a package, with all its actions            *)
(*   action  one action                                                    *)
(* with the lifecycle states of its environment and of its actions, and    *)
(* code for some states.                                                   *)

CodeFiles == UNION {[ss -> Source] : ss \in SUBSET Slot}

ParsedFile ==
  [kind : {"spec", "single", "action"}, env : Env, life : Life,
   lives : UNION {[as -> Life] : as \in SUBSET Action}, code : CodeFiles]

Codeless(f) == DOMAIN f.code = {}

(* What each format can be read into.  A file that cannot be read, or is   *)
(* an action or step library, fails the request before anything is stored. *)
(* A library with several environments gives an entry for each.            *)
WFactionCodeX ==
  {f \in ParsedFile : f.kind = "action" /\ \E a \in Action : DOMAIN f.lives = {a}}
WFaction == {f \in WFactionCodeX : Codeless(f)}
WFenvirBundleX == {f \in ParsedFile : f.kind = "spec"}
WFenvir == {f \in WFenvirBundleX : Codeless(f)}
WFenvirLibX == WFenvir
WFenvirXLibrary == WFenvirLibX
WFenvirXPackage == {f \in ParsedFile : f.kind = "single" /\ Codeless(f)}

(* A .WFenvirX is one or the other, by its manifest.                       *)
WFenvirX == WFenvirXPackage \cup WFenvirXLibrary

UploadedFile ==
  WFaction \cup WFactionCodeX \cup WFenvir \cup WFenvirX \cup WFenvirLibX
    \cup WFenvirBundleX

CodeOf(f) == [s \in {t \in DOMAIN f.code : t[1] \in DOMAIN f.lives} |-> f.code[s]]

WithRowsOf(d, f) == PutActions(PutEnv(d, f.env, f.life), f.lives, f.env)

(* What the environment has and the file does not list.                    *)
Orphans(d, f) == ActionsIn(d, f.env) \ DOMAIN f.lives

(* processEnvSpec: an orphan is dropped, its instances are not.            *)
PutSpec(d, f) ==
  LET d1 == DropActions(WithRowsOf(d, f), Orphans(d, f))
  IN IF d1 = Failed THEN Failed ELSE SaveAndActivate(d1, CodeOf(f))

(* Single environment: the instances of an orphan go with it, and the file *)
(* has no code.                                                            *)
PutSingle(d, f) ==
  DropActions(DropInstances(WithRowsOf(d, f),
                            UNION {InstancesOf(d, a) : a \in Orphans(d, f)}),
              Orphans(d, f))

(* actions.environment_oid is a foreign key; so is it when it is missing   *)
(* and stored as ''.                                                       *)
PutAction(d, f) ==
  IF d.env[f.env] = NoRow THEN Failed
  ELSE SaveAndActivate(PutActions(d, f.lives, f.env), CodeOf(f))

PutFile(d, f) ==
  CASE f.kind = "spec" -> PutSpec(d, f)
    [] f.kind = "single" -> PutSingle(d, f)
    [] f.kind = "action" -> PutAction(d, f)

(* Two files of one request: stored in order, both or neither.             *)
PutTwo(d, f, g) ==
  LET d1 == PutFile(d, f) IN IF d1 = Failed THEN Failed ELSE PutFile(d1, g)

-----------------------------------------------------------------------------
(* Imports.                                                                *)

(* A .WFactionCode has the active code of one action; the action may be    *)
(* gone when the ZIP is read.                                              *)
PutCode(d, a, files) ==
  IF d.action[a] = NoRow THEN Failed ELSE SaveAndActivate(d, files)

SnapshotFile ==
  [env : SUBSET Env,
   action : [Action -> SnapshotRow \cup {NoRow}],
   code : CodeFiles]

ReplacedKeepingCode(d, f) ==  \* mutant: code is not deleted first
  LET d1 == [d EXCEPT
        !.env = [e \in Env |-> IF e \in f.env THEN Draft ELSE NoRow],
        !.action = [a \in Action |->
           IF f.action[a] = NoRow THEN NoRow
           ELSE [env |-> f.action[a].env, life |-> Draft,
                 timeout |-> f.action[a].timeout]]]
  IN IF \E i \in Instance : d.inst[i] # NoRow THEN Failed
     ELSE SaveAndActivate(d1, f.code)

(* Every action and environment is deleted, with nothing done about the    *)
(* instances; those of the snapshot are created, all as drafts, then its   *)
(* code, whose actions must be among them.                                 *)
Replaced(d, f) ==
  LET d1 == DropActions(d, {a \in Action : d.action[a] # NoRow})
      d2 == [d1 EXCEPT
        !.env = [e \in Env |-> IF e \in f.env THEN Draft ELSE NoRow],
        !.action = [a \in Action |->
           IF f.action[a] = NoRow THEN NoRow
           ELSE [env |-> f.action[a].env, life |-> Draft,
                 timeout |-> f.action[a].timeout]]]
  IN IF \/ d1 = Failed
        \/ \E i \in Instance : d.inst[i] # NoRow
        \/ \E s \in DOMAIN f.code : f.action[s[1]] = NoRow
     THEN Failed ELSE SaveAndActivate(d2, f.code)
=============================================================================
