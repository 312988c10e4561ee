---------------------------- MODULE PackagesProofs ----------------------------
(***************************************************************************)
(* What holds of Packages for every set of environments, actions, states,  *)
(* instances and sources: what an export writes, the import of its kind    *)
(* puts back.                                                              *)
(***************************************************************************)
EXTENDS CatalogProofs, Packages

(* The tables between two requests: consistent, with an id to give.        *)
Ready(d) == Consistent(d) /\ UsedIds(d) # Uuid

LEMMA InitReady == Init => Ready(db)
<1> SUFFICES ASSUME Init PROVE Ready(db)
  OBVIOUS
<1>1. db = EmptyTables
  BY DEF Init
<1>2. UsedIds(EmptyTables) = {}
  BY DEF UsedIds, EmptyTables
<1> QED BY <1>1, <1>2, InitConsistent, CatalogAssumption DEF Ready

LEMMA NextReady == Ready(db) /\ [Next]_db => Ready(db)'
<1> SUFFICES ASSUME Ready(db), [Next]_db PROVE Ready(db)'
  OBVIOUS
<1>1. Consistent(db)'
  BY NextConsistent DEF Ready
<1>2. UsedIds(db') # Uuid
  BY DEF Ready, Next, Store, SaveCode, ActivateVersion, DeleteVersion, ClearCode, ImportCode,
         Upload, UploadTwo, SetTimeout, DeleteEnv, ImportSnapshot, Invoke, Complete, ForceDelete
<1>3. UsedIds(db)' # Uuid
  BY <1>2 DEF UsedIds
<1> QED BY <1>1, <1>3 DEF Ready

LEMMA AlwaysReady == Spec => []Ready(db)
BY InitReady, NextReady, PTL DEF Spec

-----------------------------------------------------------------------------
(* What getActive gives is the source in force, of each state that has one.*)
LEMMA ActiveSourcesAre ==
  ASSUME NEW d, Consistent(d), NEW as
  PROVE  /\ ActiveSources(d, as) \in CodeFiles
         /\ DOMAIN ActiveSources(d, as) =
              {SlotOf(v) : v \in {w \in d.code : w.active /\ w.action \in as}}
         /\ \A v \in d.code : v.active /\ v.action \in as =>
              ActiveSources(d, as)[SlotOf(v)] = v.source
<1> DEFINE active == {v \in d.code : v.active /\ v.action \in as}
           slots == {SlotOf(v) : v \in active}
           pick(s) == CHOOSE v \in active : SlotOf(v) = s
           f == ActiveSources(d, as)
<1>1. f = [s \in slots |-> pick(s).source]
  BY DEF ActiveSources
<1>2. \A v \in d.code : v \in Version /\ SlotOf(v) \in Slot
  BY RowTypes DEF Consistent, Tables
<1>3. \A s \in slots : pick(s) \in active /\ SlotOf(pick(s)) = s
  OBVIOUS
<1>4. \A v \in active : pick(SlotOf(v)) = v
  BY <1>3 DEF Consistent, Codes
<1> HIDE DEF pick
<1>5. slots \in SUBSET Slot /\ \A s \in slots : pick(s).source \in Source
  BY <1>2, <1>3 DEF Version
<1>6. f \in [slots -> Source]
  BY <1>1, <1>5
<1>7. f \in CodeFiles
  BY <1>5, <1>6 DEF CodeFiles
<1>8. \A v \in active : f[SlotOf(v)] = v.source
  BY <1>1, <1>4
<1> QED BY <1>1, <1>7, <1>8

(* Saving puts the sources of the files in force, and leaves the other     *)
(* states what they had.                                                   *)
LEMMA SavePutsInForce ==
  ASSUME NEW d, Ready(d), NEW files \in CodeFiles,
         \A v \in d.code : v.active /\ SlotOf(v) \in DOMAIN files => files[SlotOf(v)] = v.source,
         \A s \in DOMAIN files : \E v \in d.code : v.active /\ SlotOf(v) = s
  PROVE  LET d1 == SaveAndActivate(d, files) IN
         /\ d1 # Failed /\ InForce(d1) = InForce(d)
         /\ d1.inst = d.inst /\ d1.env = d.env /\ d1.action = d.action
<1> DEFINE d1 == SaveAndActivate(d, files)
           Off(v) == [v EXCEPT !.active = @ /\ SlotOf(v) \notin DOMAIN files]
           New(s) == NewVersion(d, s, files[s])
           code == {Off(v) : v \in d.code} \cup {New(s) : s \in DOMAIN files}
<1>1. d \in Tables /\ Numbers(d) /\ UsedIds(d) # Uuid /\ Consistent(d)
  BY DEF Ready, Consistent
<1>2. DOMAIN files \subseteq Slot /\ \A s \in DOMAIN files : files[s] \in Source
  BY DEF CodeFiles
<1>3. \A s \in DOMAIN files : d.action[s[1]] # NoRow
  <2> SUFFICES ASSUME NEW s \in DOMAIN files PROVE d.action[s[1]] # NoRow
    OBVIOUS
  <2>1. PICK v \in d.code : SlotOf(v) = s
    OBVIOUS
  <2> QED BY <1>1, <2>1 DEF Consistent, Owners, SlotOf
<1>4. d1 # Failed
  BY <1>1, <1>3, SaveStores, CatalogAssumption DEF Consistent
<1>5. /\ d1 = [d EXCEPT !.code = code] /\ d1.code = code
      /\ d1.inst = d.inst /\ d1.env = d.env /\ d1.action = d.action
  BY <1>1 DEF SaveAndActivate, Tables
<1>6. \A v \in d.code : /\ SlotOf(Off(v)) = SlotOf(v) /\ Off(v).source = v.source
                        /\ Off(v).active <=> v.active /\ SlotOf(v) \notin DOMAIN files
  BY <1>1 DEF Tables, Version, SlotOf
<1>7. \A s \in DOMAIN files : SlotOf(New(s)) = s /\ New(s).active = TRUE /\ New(s).source = files[s]
  BY <1>1, <1>2, NewVersionIsNew DEF NewVersion
<1> HIDE DEF d1, Off, New
<1>8. InForce(d1) \subseteq InForce(d)
  <2> SUFFICES ASSUME NEW v \in code, v.active PROVE <<SlotOf(v), v.source>> \in InForce(d)
    BY <1>5 DEF InForce
  <2>1. CASE \E w \in d.code : v = Off(w)
    BY <1>6, <2>1 DEF InForce
  <2>2. CASE \E s \in DOMAIN files : v = New(s)
    BY <1>7, <2>2 DEF InForce
  <2> QED BY <2>1, <2>2
<1>9. InForce(d) \subseteq InForce(d1)
  <2> SUFFICES ASSUME NEW v \in d.code, v.active PROVE <<SlotOf(v), v.source>> \in InForce(d1)
    BY DEF InForce
  <2>1. CASE SlotOf(v) \in DOMAIN files
    <3>1. New(SlotOf(v)) \in code /\ New(SlotOf(v)).active
      BY <1>7, <2>1
    <3> QED BY <1>5, <1>7, <2>1, <3>1 DEF InForce
  <2>2. CASE SlotOf(v) \notin DOMAIN files
    <3>1. Off(v) \in code /\ Off(v).active
      BY <1>6, <2>2
    <3> QED BY <1>5, <1>6, <3>1 DEF InForce
  <2> QED BY <2>1, <2>2
<1> QED BY <1>4, <1>5, <1>8, <1>9 DEF d1

-----------------------------------------------------------------------------
(* Dropping nothing changes nothing.                                       *)
LEMMA DropNothing ==
  ASSUME NEW d \in Tables
  PROVE  DropActions(d, {}) = d /\ DropInstances(d, {}) = d
<1>1. WithoutCodeOf(d, {}) = d
  BY DEF WithoutCodeOf, Tables
<1>2. [a \in Action |-> IF a \in {} THEN NoRow ELSE d.action[a]] = d.action
  BY DEF Tables
<1>3. [i \in Instance |-> IF i \in {} THEN NoRow ELSE d.inst[i]] = d.inst
  BY DEF Tables
<1>4. [d EXCEPT !.action = d.action] = d /\ [d EXCEPT !.inst = d.inst] = d
  BY DEF Tables
<1>5. DropActions(d, {}) = [WithoutCodeOf(d, {}) EXCEPT
          !.action = [a \in Action |-> IF a \in {} THEN NoRow ELSE d.action[a]]]
  BY DEF DropActions
<1>6. DropInstances(d, {}) = [d EXCEPT
          !.inst = [i \in Instance |-> IF i \in {} THEN NoRow ELSE d.inst[i]]]
  BY DEF DropInstances
<1> QED BY <1>1, <1>2, <1>3, <1>4, <1>5, <1>6

(* Uploading a .WFenvirX again changes nothing.                            *)
LEMMA EnvirXNeutral ==
  ASSUME NEW d \in Tables, NEW e \in Env, d.env[e] # NoRow
  PROVE  PutFile(d, EnvirX(d, e)) = d
<1> DEFINE f == EnvirX(d, e)
           as == ActionsIn(d, e)
<1>1. /\ f.kind = "single" /\ f.env = e /\ f.life = d.env[e]
      /\ f.lives = [a \in as |-> d.action[a].life] /\ DOMAIN f.lives = as
  BY DEF EnvirX
<1> HIDE DEF f
<1>2. PutEnv(d, e, d.env[e]) = d
  BY DEF PutEnv, Tables
<1>3. PutActions(d, f.lives, e) = d
  <2>1. \A a \in as : d.action[a] \in ActionRow /\ d.action[a].env = e /\ d.action[a] # NoRow
    BY RowTypes DEF ActionsIn
  <2>2. \A a \in as : [env |-> e, life |-> d.action[a].life, timeout |-> d.action[a].timeout]
                        = d.action[a]
    BY <2>1 DEF ActionRow
  <2>3. [a \in Action |->
           IF a \in as
           THEN [env |-> e, life |-> f.lives[a],
                 timeout |-> IF d.action[a] = NoRow THEN NoTimeout ELSE d.action[a].timeout]
           ELSE d.action[a]] = d.action
    <3>1. d.action = [a \in Action |-> d.action[a]]
      BY DEF Tables
    <3>2. \A a \in as : f.lives[a] = d.action[a].life
      BY <1>1
    <3> HIDE DEF as
    <3> QED BY <2>1, <2>2, <3>1, <3>2
  <2>4. [d EXCEPT !.action = d.action] = d
    BY DEF Tables
  <2> QED BY <1>1, <2>3, <2>4 DEF PutActions
<1>4. WithRowsOf(d, f) = d
  BY <1>1, <1>2, <1>3 DEF WithRowsOf
<1>5. Orphans(d, f) = {}
  BY <1>1 DEF Orphans
<1>6. PutFile(d, f) = PutSingle(d, f)
  BY <1>1 DEF PutFile
<1>7. UNION {InstancesOf(d, a) : a \in {}} = {}
  OBVIOUS
<1>8. PutSingle(d, f) = DropActions(DropInstances(d, {}), {})
  BY <1>4, <1>5, <1>7 DEF PutSingle
<1> QED BY <1>6, <1>8, DropNothing DEF f

(* Code that comes back is in force as before.                             *)
SameCode(d, d1) ==
  /\ d1 # Failed
  /\ InForce(d1) = InForce(d)
  /\ d1.inst = d.inst
  /\ \A a \in Action : d.action[a] # NoRow => d1.action[a].timeout = d.action[a].timeout

LEMMA CodeImported ==
  ASSUME NEW d, Ready(d), NEW a \in Action, d.action[a] # NoRow
  PROVE  SameCode(d, PutCode(d, a, ActionCode(d, a)))
<1> DEFINE as == {a}
           files == ActiveSources(d, as)
<1>1. Consistent(d)
  BY DEF Ready
<1> HIDE DEF as
<1>2. /\ files \in CodeFiles
      /\ DOMAIN files = {SlotOf(v) : v \in {w \in d.code : w.active /\ w.action \in as}}
      /\ \A v \in d.code : v.active /\ v.action \in as => files[SlotOf(v)] = v.source
  BY <1>1, ActiveSourcesAre
<1> HIDE DEF files
<1> USE DEF as
<1>3. \A s \in DOMAIN files : s[1] = a /\ \E v \in d.code : v.active /\ SlotOf(v) = s
  BY <1>2 DEF SlotOf
<1>4. \A v \in d.code : v.active /\ SlotOf(v) \in DOMAIN files => files[SlotOf(v)] = v.source
  BY <1>2, <1>3 DEF SlotOf
<1>5. PutCode(d, a, files) = SaveAndActivate(d, files)
  BY DEF PutCode
<1>6. SameCode(d, SaveAndActivate(d, files))
  BY <1>2, <1>3, <1>4, SavePutsInForce DEF SameCode
<1>7. ActionCode(d, a) = files
  BY DEF ActionCode, files
<1> QED BY <1>5, <1>6, <1>7

LEMMA BundleImported ==
  ASSUME NEW d, Ready(d), NEW e \in Env, d.env[e] # NoRow
  PROVE  SameCode(d, PutFile(d, Bundle(d, e)))
<1> DEFINE f == Bundle(d, e)
           as == ActionsIn(d, e)
           files == ActiveSources(d, as)
           d0 == WithRowsOf(d, f)
<1>1. Consistent(d) /\ d \in Tables /\ UsedIds(d) # Uuid
  BY DEF Ready, Consistent
<1>2. /\ files \in CodeFiles
      /\ DOMAIN files = {SlotOf(v) : v \in {w \in d.code : w.active /\ w.action \in as}}
      /\ \A v \in d.code : v.active /\ v.action \in as => files[SlotOf(v)] = v.source
  BY <1>1, ActiveSourcesAre
<1>3. /\ f.kind = "spec" /\ f.env = e /\ f.life = Draft
      /\ f.lives = [a \in as |-> Draft] /\ DOMAIN f.lives = as /\ f.code = files
  BY DEF Bundle
<1>4. as \in SUBSET Action
  BY DEF ActionsIn
<1>5. f \in ParsedFile
  <2>1. f.lives \in UNION {[bs -> Life] : bs \in SUBSET Action}
    BY <1>3, <1>4, CatalogAssumption
  <2>2. f = [kind |-> "spec", env |-> e, life |-> Draft, lives |-> f.lives, code |-> f.code]
    BY DEF Bundle
  <2> HIDE DEF f, files
  <2> QED BY <1>2, <1>3, <2>1, <2>2, CatalogAssumption DEF ParsedFile
<1> HIDE DEF f, files, as
<1>6. Consistent(d0)
  BY <1>1, <1>5, WithRowsKeeps
<1>7. /\ d0.code = d.code /\ d0.inst = d.inst
      /\ \A a \in Action : d.action[a] # NoRow => d0.action[a].timeout = d.action[a].timeout
  BY <1>1, <1>3, <1>4 DEF WithRowsOf, PutActions, PutEnv, Tables
<1>8. Orphans(d, f) = {}
  BY <1>3 DEF Orphans, as
<1> HIDE DEF d0
<1>9. DropActions(d0, {}) = d0 /\ d0 # Failed
  BY <1>6, DropNothing, CatalogAssumption DEF Consistent
<1>a. \A s \in DOMAIN files :
        /\ \E v \in d.code : v.active /\ SlotOf(v) = s
        /\ s[1] \in as
  <2>1. \A v : SlotOf(v)[1] = v.action
    BY DEF SlotOf
  <2>2. \A s \in DOMAIN files : \E v \in d.code : v.active /\ v.action \in as /\ SlotOf(v) = s
    BY <1>2
  <2> QED BY <2>1, <2>2
<1>10. CodeOf(f) = files
  <2>1. {t \in DOMAIN files : t[1] \in as} = DOMAIN files
    BY <1>a
  <2>2. files = [s \in DOMAIN files |-> files[s]]
    BY <1>2 DEF CodeFiles
  <2> QED BY <1>3, <2>1, <2>2 DEF CodeOf
<1>11. PutFile(d, f) = SaveAndActivate(d0, files)
  <2>1. PutFile(d, f) = PutSpec(d, f)
    BY <1>3 DEF PutFile
  <2> QED BY <1>8, <1>9, <1>10, <2>1 DEF PutSpec, d0
<1>12. Ready(d0)
  BY <1>1, <1>6, <1>7 DEF Ready, UsedIds
<1>13. \A s \in DOMAIN files : s[1] \in as /\ \E v \in d0.code : v.active /\ SlotOf(v) = s
  BY <1>7, <1>a
<1>14. \A v \in d0.code : v.active /\ SlotOf(v) \in DOMAIN files => files[SlotOf(v)] = v.source
  BY <1>2, <1>7, <1>13 DEF SlotOf
<1>15. /\ SaveAndActivate(d0, files) # Failed
       /\ InForce(SaveAndActivate(d0, files)) = InForce(d0)
       /\ SaveAndActivate(d0, files).inst = d0.inst
       /\ SaveAndActivate(d0, files).action = d0.action
  BY <1>2, <1>12, <1>13, <1>14, SavePutsInForce
<1>16. InForce(d0) = InForce(d)
  BY <1>7 DEF InForce
<1> QED BY <1>7, <1>11, <1>15, <1>16 DEF SameCode, f

(* Uploading the .WFenvirX that was exported changes no table.             *)
THEOREM PackagesEnvirX == Spec => []EnvirXIsNeutral
<1>1. Ready(db) => EnvirXIsNeutral
  BY EnvirXNeutral DEF Ready, Consistent, EnvirXIsNeutral
<1> QED BY <1>1, AlwaysReady, PTL

(* A bundle, and the code of an action, come back as they were in force;   *)
(* nothing refuses them.                                                   *)
THEOREM PackagesCode == Spec => []CodeComesBack
<1>1. Ready(db) => CodeComesBack
  BY CodeImported, BundleImported DEF CodeComesBack, SameCode
<1> QED BY <1>1, AlwaysReady, PTL

-----------------------------------------------------------------------------
(* A snapshot comes back only to a database without instances, and then    *)
(* what it had in force is all the code there is, in first versions.       *)
LEMMA SnapshotFileIs ==
  ASSUME NEW d, Consistent(d)
  PROVE  LET f == Snapshot(d) IN
         /\ f \in SnapshotFile
         /\ f.env = {e \in Env : d.env[e] # NoRow}
         /\ \A a \in Action : d.action[a] = NoRow => f.action[a] = NoRow
         /\ \A a \in Action : d.action[a] # NoRow =>
              /\ f.action[a] = [env |-> d.action[a].env, timeout |-> d.action[a].timeout]
              /\ f.action[a] # NoRow
              /\ f.action[a].env \in f.env
         /\ f.code = ActiveSources(d, Action)
<1> DEFINE f == Snapshot(d)
           row(a) == [env |-> d.action[a].env, timeout |-> d.action[a].timeout]
<1>1. /\ f.env = {e \in Env : d.env[e] # NoRow}
      /\ f.action = [a \in Action |-> IF d.action[a] = NoRow THEN NoRow ELSE row(a)]
      /\ f.code = ActiveSources(d, Action)
      /\ f = [env |-> f.env, action |-> f.action, code |-> f.code]
  BY DEF Snapshot
<1>2. \A a \in Action : d.action[a] # NoRow =>
        row(a) \in SnapshotRow /\ row(a) # NoRow /\ row(a).env \in {e \in Env : d.env[e] # NoRow}
  <2> SUFFICES ASSUME NEW a \in Action, d.action[a] # NoRow
               PROVE  /\ row(a) \in SnapshotRow /\ row(a) # NoRow
                      /\ row(a).env \in {e \in Env : d.env[e] # NoRow}
    OBVIOUS
  <2>1. d.action[a] \in ActionRow /\ d.action[a].env \in Env
    BY RowTypes DEF Consistent
  <2>2. row(a) \in SnapshotRow
    BY <2>1 DEF ActionRow, SnapshotRow
  <2> QED BY <2>1, <2>2, CatalogAssumption DEF Consistent, Homes
<1> HIDE DEF f, row
<1>3. f.action \in [Action -> SnapshotRow \cup {NoRow}]
  <2>1. \A a \in Action : (IF d.action[a] = NoRow THEN NoRow ELSE row(a)) \in SnapshotRow \cup {NoRow}
    BY <1>2
  <2> QED BY <1>1, <2>1
<1>4. f.code \in CodeFiles
  <2>1. ActiveSources(d, Action) \in CodeFiles
    BY ActiveSourcesAre
  <2> QED BY <1>1, <2>1
<1>5. f \in SnapshotFile
  BY <1>1, <1>3, <1>4 DEF SnapshotFile
<1> QED BY <1>1, <1>2, <1>5 DEF f, row

LEMMA SnapshotRefused ==
  ASSUME NEW d, NEW f, \E i \in Instance : d.inst[i] # NoRow
  PROVE  Replaced(d, f) = Failed
BY DEF Replaced

(* The tables after the import: every state of the snapshot that had code  *)
(* has it, as its first and only version.                                  *)
LEMMA SnapshotImported ==
  ASSUME NEW d, Ready(d), \A i \in Instance : d.inst[i] = NoRow
  PROVE  LET d1 == Replaced(d, Snapshot(d)) IN
         /\ d1 # Failed
         /\ InForce(d1) = InForce(d)
         /\ \A e \in Env : d1.env[e] = IF d.env[e] = NoRow THEN NoRow ELSE Draft
         /\ \A a \in Action : IF d.action[a] = NoRow THEN d1.action[a] = NoRow
                              ELSE d1.action[a] = [d.action[a] EXCEPT !.life = Draft]
         /\ \A v \in d1.code : v.number = 1 /\ v.active
<1> DEFINE f == Snapshot(d)
           all == {a \in Action : d.action[a] # NoRow}
           row(a) == [env |-> f.action[a].env, life |-> Draft,
                      timeout |-> f.action[a].timeout]
           e0 == [e \in Env |-> IF e \in f.env THEN Draft ELSE NoRow]
           a0 == [a \in Action |-> IF f.action[a] = NoRow THEN NoRow ELSE row(a)]
           d0 == DropActions(d, all)
           d2 == [d0 EXCEPT !.env = e0, !.action = a0]
           files == f.code
           New(s) == NewVersion(d2, s, files[s])
           d1 == Replaced(d, f)
<1>1. Consistent(d) /\ d \in Tables
  BY DEF Ready, Consistent
<1>2. /\ f \in SnapshotFile
      /\ f.env = {e \in Env : d.env[e] # NoRow}
      /\ \A a \in Action : d.action[a] = NoRow => f.action[a] = NoRow
      /\ \A a \in Action : d.action[a] # NoRow =>
           /\ f.action[a] = [env |-> d.action[a].env, timeout |-> d.action[a].timeout]
           /\ f.action[a] # NoRow
           /\ f.action[a].env \in f.env
      /\ files = ActiveSources(d, Action)
  BY <1>1, SnapshotFileIs
<1>3. /\ files \in CodeFiles
      /\ DOMAIN files = {SlotOf(v) : v \in {w \in d.code : w.active /\ w.action \in Action}}
      /\ \A v \in d.code : v.active /\ v.action \in Action => files[SlotOf(v)] = v.source
  <2>1. /\ ActiveSources(d, Action) \in CodeFiles
        /\ DOMAIN ActiveSources(d, Action) =
             {SlotOf(v) : v \in {w \in d.code : w.active /\ w.action \in Action}}
        /\ \A v \in d.code : v.active /\ v.action \in Action =>
             ActiveSources(d, Action)[SlotOf(v)] = v.source
    BY <1>1, ActiveSourcesAre
  <2> HIDE DEF files
  <2> QED BY <1>2, <2>1
<1>4. d0 = [d EXCEPT !.code = {}, !.action = [a \in Action |-> IF a \in all THEN NoRow ELSE d.action[a]]]
  <2>1. \A a \in all : InstancesOf(d, a) = {}
    BY DEF InstancesOf
  <2>2. {v \in d.code : v.action \notin all} = {}
    BY <1>1, RowTypes DEF Consistent, Owners
  <2> HIDE DEF all
  <2> QED BY <2>1, <2>2 DEF DropActions, WithoutCodeOf
<1>5. /\ d0.code = {} /\ d0.inst = d.inst
      /\ d0 = [env |-> d0.env, action |-> d0.action, inst |-> d.inst, code |-> {}]
      /\ d0 \in Tables
  <2>1. [a \in Action |-> IF a \in all THEN NoRow ELSE d.action[a]] \in [Action -> ActionRow \cup {NoRow}]
    BY <1>1 DEF Tables
  <2> HIDE DEF d0, all
  <2> QED BY <1>1, <1>4, <2>1 DEF Tables
<1> HIDE DEF d0, files, f
<1> HIDE DEF e0, a0
<1>6. d2 = [env |-> e0, action |-> a0, inst |-> d.inst, code |-> {}]
  <2>1. d2 = [[env |-> d0.env, action |-> d0.action, inst |-> d.inst, code |-> {}]
                EXCEPT !.env = e0, !.action = a0]
    BY <1>5
  <2> HIDE DEF d2
  <2> QED BY <2>1
<1>7. \A s \in DOMAIN files : s \in Slot /\ files[s] \in Source /\ f.action[s[1]] # NoRow
  <2>0. \A s \in DOMAIN files : s \in Slot /\ files[s] \in Source
    BY <1>3 DEF CodeFiles
  <2>1. \A v : SlotOf(v)[1] = v.action
    BY DEF SlotOf
  <2>2. \A s \in DOMAIN files : \E v \in d.code : v.action \in Action /\ SlotOf(v) = s
    BY <1>3
  <2>3. \A v \in d.code : v.action \in Action => f.action[v.action] # NoRow
    BY <1>1, <1>2 DEF Consistent, Owners
  <2> QED BY <2>0, <2>1, <2>2, <2>3
<1>8. d1 = SaveAndActivate(d2, files)
  <2>1. d0 # Failed
    BY <1>5, CatalogAssumption
  <2> QED BY <1>7, <2>1 DEF Replaced, d0, files, e0, a0
<1> HIDE DEF d2, d1, e0, a0
<1>9. UsedIds(d2) = {}
  BY <1>6 DEF UsedIds
<1>10. d2 \in Tables
  <2>1. e0 \in [Env -> Life \cup {NoRow}]
    BY CatalogAssumption DEF e0
  <2>2. \A a \in Action : f.action[a] # NoRow => row(a) \in ActionRow
    BY <1>2, CatalogAssumption DEF SnapshotFile, SnapshotRow, ActionRow
  <2>3. a0 \in [Action -> ActionRow \cup {NoRow}]
    <3> HIDE DEF row
    <3>1. \A a \in Action : (IF f.action[a] = NoRow THEN NoRow ELSE row(a)) \in ActionRow \cup {NoRow}
      BY <2>2
    <3> QED BY <3>1 DEF a0
  <2> QED BY <1>1, <1>6, <2>1, <2>3 DEF Tables
<1>11. Numbers(d2)
  BY <1>6 DEF Numbers
<1>12. \A s \in DOMAIN files :
         /\ New(s) \in Version /\ SlotOf(New(s)) = s /\ New(s).active = TRUE
         /\ New(s).source = files[s] /\ New(s).number = 1
  <2> SUFFICES ASSUME NEW s \in DOMAIN files
               PROVE  /\ New(s) \in Version /\ SlotOf(New(s)) = s /\ New(s).active = TRUE
                      /\ New(s).source = files[s] /\ New(s).number = 1
    OBVIOUS
  <2>1. NextNumber(d2, s) = 1
    <3>1. {v.number : v \in {w \in d2.code : SlotOf(w) = s}} = {}
      BY <1>6
    <3> QED BY <3>1 DEF NextNumber
  <2> QED BY <1>7, <1>9, <1>10, <1>11, <2>1, CatalogAssumption, NewVersionIsNew DEF NewVersion
<1>13. d1 = [d2 EXCEPT !.code = {New(s) : s \in DOMAIN files}]
  <2>1. UsedIds(d2) # Uuid
    BY <1>9, CatalogAssumption
  <2>2. {[v EXCEPT !.active = @ /\ SlotOf(v) \notin DOMAIN files] : v \in d2.code} = {}
    BY <1>6
  <2> QED BY <1>8, <2>1, <2>2 DEF SaveAndActivate
<1> HIDE DEF New
<1>14. /\ d1 = [env |-> e0, action |-> a0, inst |-> d.inst, code |-> {New(s) : s \in DOMAIN files}]
       /\ d1 \in Tables
  <2> DEFINE code == {New(s) : s \in DOMAIN files}
  <2>1. code \subseteq Version
    BY <1>12
  <2> HIDE DEF code
  <2>2. d1 = [env |-> e0, action |-> a0, inst |-> d.inst, code |-> code]
    BY <1>6, <1>13 DEF code
  <2>3. d1 \in Tables
    BY <1>6, <1>10, <2>1, <2>2 DEF Tables
  <2> QED BY <2>2, <2>3 DEF code
<1>15. d1 # Failed
  BY <1>14, CatalogAssumption
<1>16. \A e \in Env : d1.env[e] = IF d.env[e] = NoRow THEN NoRow ELSE Draft
  BY <1>2, <1>14 DEF e0
<1>17. \A a \in Action : IF d.action[a] = NoRow THEN d1.action[a] = NoRow
                         ELSE d1.action[a] = [d.action[a] EXCEPT !.life = Draft]
  <2> TAKE a \in Action
  <2>1. d1.action[a] = IF f.action[a] = NoRow THEN NoRow ELSE row(a)
    BY <1>14 DEF a0
  <2>2. d.action[a] # NoRow => d.action[a] \in ActionRow
    BY <1>1, RowTypes
  <2>3. CASE d.action[a] = NoRow
    BY <1>2, <2>1, <2>3
  <2>4. CASE d.action[a] # NoRow
    <3>1. d1.action[a] = [env |-> d.action[a].env, life |-> Draft, timeout |-> d.action[a].timeout]
      <4>1. d1.action[a] = row(a)
        BY <1>2, <2>1, <2>4
      <4>2. f.action[a] = [env |-> d.action[a].env, timeout |-> d.action[a].timeout]
        BY <1>2, <2>4
      <4>3. f.action[a].env = d.action[a].env /\ f.action[a].timeout = d.action[a].timeout
        BY <4>2
      <4> QED BY <4>1, <4>3
    <3> QED BY <2>2, <2>4, <3>1 DEF ActionRow
  <2> QED BY <2>3, <2>4
<1>18. InForce(d1) = InForce(d)
  <2>1. InForce(d1) \subseteq InForce(d)
    <3> SUFFICES ASSUME NEW s \in DOMAIN files PROVE <<SlotOf(New(s)), New(s).source>> \in InForce(d)
      BY <1>14 DEF InForce
    <3>1. PICK v \in d.code : v.active /\ v.action \in Action /\ SlotOf(v) = s
      BY <1>3
    <3>2. SlotOf(New(s)) = SlotOf(v) /\ New(s).source = v.source
      BY <1>3, <1>12, <3>1
    <3> QED BY <3>1, <3>2 DEF InForce
  <2>2. InForce(d) \subseteq InForce(d1)
    <3> SUFFICES ASSUME NEW v \in d.code, v.active PROVE <<SlotOf(v), v.source>> \in InForce(d1)
      BY DEF InForce
    <3>1. SlotOf(v) \in DOMAIN files /\ files[SlotOf(v)] = v.source
      BY <1>1, <1>3, RowTypes
    <3>2. New(SlotOf(v)) \in d1.code
      BY <1>14, <3>1
    <3> QED BY <1>12, <3>1, <3>2 DEF InForce
  <2> QED BY <2>1, <2>2
<1>19. \A v \in d1.code : v.number = 1 /\ v.active
  BY <1>12, <1>14
<1> QED BY <1>15, <1>16, <1>17, <1>18, <1>19 DEF d1, f

(* A snapshot imported where it was taken restores what was in force, and  *)
(* is refused exactly when there is an instance.                           *)
THEOREM PackagesSnapshot == Spec => []SnapshotRestores
<1>1. Ready(db) => SnapshotRestores
  <2> SUFFICES ASSUME Ready(db) PROVE SnapshotRestores
    OBVIOUS
  <2>1. CASE \E i \in Instance : db.inst[i] # NoRow
    BY <2>1, SnapshotRefused DEF SnapshotRestores
  <2>2. CASE \A i \in Instance : db.inst[i] = NoRow
    <3>1. Draft # NoRow
      BY CatalogAssumption
    <3> QED BY <2>2, <3>1, SnapshotImported DEF SnapshotRestores
  <2> QED BY <2>1, <2>2
<1> QED BY <1>1, AlwaysReady, PTL
=============================================================================
