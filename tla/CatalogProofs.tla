---------------------------- MODULE CatalogProofs ----------------------------
(***************************************************************************)
(* What holds of Catalog for every set of environments, actions, states,   *)
(* instances, sources, files and snapshots, and for every bound.           *)
(***************************************************************************)
EXTENDS Catalog, TLAPS, WellFoundedInduction

LEMMA LeastNumber ==
  ASSUME NEW S \in SUBSET Nat, S # {}
  PROVE  \E m \in S : \A k \in S : m <= k
<1>1. PICK m \in S : \A k \in S : <<k, m>> \notin OpToRel(<, Nat)
  BY WFMin, NatLessThanWellFounded, Zenon
<1>2. \A k \in S : ~(k < m)
  BY <1>1, Zenon DEF OpToRel
<1> QED BY <1>2

-----------------------------------------------------------------------------
(* The invariant, of tables d.  Pins are of the instance's own action, so  *)
(* that what an action loses only its own instances can miss; and there is *)
(* a greatest number in every slot, so that the next one is well defined.  *)
Codes(d) ==
  /\ \A v \in d.code : \E w \in d.code : SlotOf(w) = SlotOf(v) /\ w.active
  /\ \A v, w \in d.code :
       (SlotOf(w) = SlotOf(v) /\ w.active /\ v.active) => w = v

Numbers(d) ==
  /\ \A v, w \in d.code : (SlotOf(v) = SlotOf(w) /\ v.number = w.number) => v = w
  /\ \E b \in Nat : \A v \in d.code : v.number <= b

Homes(d) == \A a \in Action : d.action[a] # NoRow => d.env[d.action[a].env] # NoRow

Owners(d) == \A v \in d.code : d.action[v.action] # NoRow

Hosts(d) ==
  \A i \in Instance : d.inst[i] # NoRow =>
    d.action[d.inst[i].action] # NoRow /\ d.env[d.inst[i].env] # NoRow

Keeps(d) ==
  \A i \in Instance : d.inst[i] # NoRow =>
    \A u \in d.inst[i].pins :
      /\ u.action = d.inst[i].action
      /\ ~d.inst[i].done => \E v \in d.code : IdOf(v) = u

Consistent(d) ==
  /\ d \in Tables
  /\ Codes(d) /\ Numbers(d)
  /\ Homes(d) /\ Owners(d) /\ Hosts(d)
  /\ Keeps(d)

-----------------------------------------------------------------------------
(* The number given to a new version of slot s is above all of the slot's, *)
(* and at most one above all of the table's.                               *)
LEMMA NextNumberIsAbove ==
  ASSUME NEW d \in Tables, NEW s, Numbers(d)
  PROVE  /\ NextNumber(d, s) \in Nat \ {0}
         /\ \A v \in d.code : SlotOf(v) = s => v.number < NextNumber(d, s)
         /\ \A b \in Nat :
              (\A v \in d.code : v.number <= b) => NextNumber(d, s) <= b + 1
<1> DEFINE own == {w \in d.code : SlotOf(w) = s}
           numbers == {v.number : v \in own}
           bounds == {b \in Nat : \A m \in numbers : m <= b}
           nexts == {1} \cup {m + 1 : m \in numbers}
<1>1. numbers \subseteq Nat \ {0}
  BY DEF Tables, Version
<1>2. bounds # {} /\ bounds \subseteq Nat
  BY DEF Numbers
<1>3. PICK b \in bounds : \A k \in bounds : b <= k
  BY <1>2, LeastNumber
<1>4. \E n \in nexts : \A m \in numbers : m < n
  <2>1. CASE numbers = {}
    BY <2>1
  <2>2. CASE numbers # {}
    <3>1. b \in numbers
      <4> SUFFICES ASSUME b \notin numbers PROVE FALSE
        OBVIOUS
      <4>1. b # 0
        BY <1>1, <2>2, <1>3
      <4>2. b - 1 \in bounds
        BY <4>1, <1>1, <1>3
      <4> QED BY <4>2, <1>3
    <3>2. b + 1 \in nexts
      BY <3>1
    <3>3. \A m \in numbers : m < b + 1
      <4> HIDE DEF numbers
      <4> QED BY <1>1
    <3> QED BY <3>2, <3>3
  <2> QED BY <2>1, <2>2
<1>5. /\ NextNumber(d, s) \in nexts
      /\ \A m \in numbers : m < NextNumber(d, s)
  BY <1>4 DEF NextNumber
<1>6. nexts \subseteq Nat \ {0}
  BY <1>1
<1>7. \A v \in d.code : SlotOf(v) = s => v.number \in numbers
  OBVIOUS
<1>8. ASSUME NEW c \in Nat, \A v \in d.code : v.number <= c
      PROVE  \A n \in nexts : n <= c + 1
  BY <1>1, <1>8
<1> HIDE DEF nexts, numbers
<1> QED BY <1>5, <1>6, <1>7, <1>8
-----------------------------------------------------------------------------
LEMMA RowTypes ==
  ASSUME NEW d \in Tables
  PROVE  /\ \A v \in d.code : v.action \in Action /\ SlotOf(v) \in Slot
         /\ \A a \in Action : d.action[a] # NoRow =>
              d.action[a] \in ActionRow /\ d.action[a].env \in Env
         /\ \A i \in Instance : d.inst[i] # NoRow =>
              /\ d.inst[i] \in InstanceRow
              /\ d.inst[i].action \in Action /\ d.inst[i].env \in Env
              /\ d.inst[i].pins \subseteq VersionId
BY DEF Tables, Version, ActionRow, InstanceRow, SlotOf, Slot

LEMMA UsedIdsType ==
  ASSUME NEW d \in Tables
  PROVE  UsedIds(d) \subseteq Uuid
BY DEF UsedIds, Tables, Version, InstanceRow, VersionId, CatalogAssumption

(* A new version is the active one of its slot, above all others there.    *)
LEMMA NewVersionIsNew ==
  ASSUME NEW d \in Tables, Numbers(d), UsedIds(d) # Uuid,
         NEW s \in Slot, NEW src \in Source
  PROVE  /\ NewVersion(d, s, src) \in Version
         /\ SlotOf(NewVersion(d, s, src)) = s
         /\ NewVersion(d, s, src).action = s[1]
         /\ NewVersion(d, s, src).active = TRUE
         /\ \A v \in d.code : SlotOf(v) = s => v.number < NewVersion(d, s, src).number
         /\ \A b \in Nat :
              (\A v \in d.code : v.number <= b) => NewVersion(d, s, src).number <= b + 1
<1>1. NewId(d) \in Uuid
  BY UsedIdsType DEF NewId
<1>2. s[1] \in Action /\ s[2] \in State /\ s = <<s[1], s[2]>>
  BY DEF Slot
<1> QED BY <1>1, <1>2, NextNumberIsAbove DEF NewVersion, Version, SlotOf

LEMMA SaveStores ==
  ASSUME NEW d, Consistent(d), NEW files \in CodeFiles,
         \A s \in DOMAIN files : d.action[s[1]] # NoRow,
         UsedIds(d) # Uuid
  PROVE  Consistent(SaveAndActivate(d, files))
<1> DEFINE Off(v) == [v EXCEPT !.active = @ /\ SlotOf(v) \notin DOMAIN files]
           New(s) == NewVersion(d, s, files[s])
           code == {Off(v) : v \in d.code} \cup {New(s) : s \in DOMAIN files}
           d1 == [d EXCEPT !.code = code]
<1> USE DEF Consistent
<1>1. UsedIds(d) # Uuid /\ SaveAndActivate(d, files) = d1
  BY DEF SaveAndActivate
<1>2. DOMAIN files \subseteq Slot /\ \A s \in DOMAIN files : files[s] \in Source
  BY DEF CodeFiles
<1>3. \A s \in DOMAIN files :
        /\ New(s) \in Version /\ SlotOf(New(s)) = s /\ New(s).action = s[1]
        /\ New(s).active = TRUE
        /\ \A v \in d.code : SlotOf(v) = s => v.number < New(s).number
        /\ \A b \in Nat : (\A v \in d.code : v.number <= b) => New(s).number <= b + 1
  BY <1>1, <1>2, NewVersionIsNew
<1>4. \A v \in d.code :
        /\ v \in Version /\ Off(v) \in Version
        /\ SlotOf(Off(v)) = SlotOf(v) /\ IdOf(Off(v)) = IdOf(v)
        /\ Off(v).action = v.action /\ Off(v).number = v.number
        /\ Off(v).active <=> v.active /\ SlotOf(v) \notin DOMAIN files
  BY DEF Tables, Version, SlotOf, IdOf
<1>5. /\ d1.env = d.env /\ d1.action = d.action /\ d1.inst = d.inst
      /\ d1.code = code /\ d1 \in Tables
  BY <1>3, <1>4 DEF Tables
<1> HIDE DEF Off, New
<1>6. Codes(d1)
  <2>1. \A v \in code : \E w \in code : SlotOf(w) = SlotOf(v) /\ w.active
    <3> SUFFICES ASSUME NEW v \in code
                 PROVE  \E w \in code : SlotOf(w) = SlotOf(v) /\ w.active
      OBVIOUS
    <3>1. CASE SlotOf(v) \in DOMAIN files
      BY <3>1, <1>3
    <3>2. CASE SlotOf(v) \notin DOMAIN files
      BY <3>2, <1>3, <1>4 DEF Codes
    <3> QED BY <3>1, <3>2
  <2>2. ASSUME NEW v \in code, NEW w \in code, SlotOf(w) = SlotOf(v), w.active, v.active
        PROVE  w = v
    <3>1. CASE SlotOf(v) \in DOMAIN files
      BY <3>1, <2>2, <1>3, <1>4
    <3>2. CASE SlotOf(v) \notin DOMAIN files
      BY <3>2, <2>2, <1>3, <1>4 DEF Codes
    <3> QED BY <3>1, <3>2
  <2> QED BY <2>1, <2>2, <1>5 DEF Codes
<1>7. Numbers(d1)
  <2>1. ASSUME NEW v \in code, NEW w \in code,
               SlotOf(v) = SlotOf(w), v.number = w.number
        PROVE  v = w
    BY <2>1, <1>3, <1>4 DEF Numbers, Version
  <2>2. \E b \in Nat : \A v \in code : v.number <= b
    <3>1. PICK b \in Nat : \A v \in d.code : v.number <= b
      BY DEF Numbers
    <3>2. \A v \in code : v.number <= b + 1
      BY <3>1, <1>3, <1>4 DEF Version
    <3> QED BY <3>2
  <2> QED BY <2>1, <2>2, <1>5 DEF Numbers
<1>8. Homes(d1) /\ Hosts(d1)
  BY <1>5 DEF Homes, Hosts
<1>9. Owners(d1)
  BY <1>3, <1>4, <1>5 DEF Owners
<1>10. Keeps(d1)
  BY <1>4, <1>5 DEF Keeps
<1> QED BY <1>1, <1>5, <1>6, <1>7, <1>8, <1>9, <1>10

LEMMA SaveKeeps ==
  ASSUME NEW d, Consistent(d), NEW files \in CodeFiles,
         \A s \in DOMAIN files : d.action[s[1]] # NoRow,
         SaveAndActivate(d, files) # Failed
  PROVE  Consistent(SaveAndActivate(d, files))
<1>1. UsedIds(d) # Uuid
  BY DEF SaveAndActivate
<1> QED BY <1>1, SaveStores
-----------------------------------------------------------------------------
LEMMA PutEnvKeeps ==
  ASSUME NEW d, Consistent(d), NEW e \in Env, NEW life \in Life
  PROVE  Consistent(PutEnv(d, e, life)) /\ PutEnv(d, e, life).env[e] # NoRow
<1> DEFINE d1 == PutEnv(d, e, life)
<1>1. /\ d1 \in Tables /\ d1.env = [d.env EXCEPT ![e] = life]
      /\ d1.action = d.action /\ d1.inst = d.inst /\ d1.code = d.code
  BY DEF PutEnv, Tables, Consistent
<1>2. life # NoRow /\ d.env \in [Env -> Life \cup {NoRow}]
  BY CatalogAssumption DEF Consistent, Tables
<1>3. \A x \in Env : d.env[x] # NoRow => d1.env[x] # NoRow
  BY <1>1, <1>2
<1>4. /\ \A a \in Action : d.action[a] # NoRow => d.action[a].env \in Env
      /\ \A i \in Instance : d.inst[i] # NoRow => d.inst[i].env \in Env
  BY DEF Consistent, Tables, ActionRow, InstanceRow
<1>5. Codes(d1) /\ Numbers(d1) /\ Owners(d1) /\ Keeps(d1)
  BY <1>1 DEF Consistent, Codes, Numbers, Owners, Keeps
<1>6. Homes(d1) /\ Hosts(d1)
  BY <1>1, <1>3, <1>4 DEF Consistent, Homes, Hosts
<1> QED BY <1>1, <1>2, <1>5, <1>6 DEF Consistent

LEMMA PutActionsKeeps ==
  ASSUME NEW d, Consistent(d), NEW e \in Env, d.env[e] # NoRow,
         NEW as \in SUBSET Action, NEW lives \in [as -> Life]
  PROVE  /\ Consistent(PutActions(d, lives, e))
         /\ \A a \in as : PutActions(d, lives, e).action[a] # NoRow
<1> DEFINE d1 == PutActions(d, lives, e)
           row(a) == [env |-> e, life |-> lives[a],
                      timeout |-> IF d.action[a] = NoRow THEN NoTimeout
                                  ELSE d.action[a].timeout]
<1>1. /\ d1.action = [a \in Action |-> IF a \in as THEN row(a) ELSE d.action[a]]
      /\ d1.env = d.env /\ d1.inst = d.inst /\ d1.code = d.code
      /\ d1 = [d EXCEPT !.action = d1.action]
  BY DEF PutActions, Tables, Consistent
<1>2. \A a \in as : row(a) \in ActionRow /\ row(a).env = e
  BY DEF Consistent, Tables, ActionRow
<1>3. \A a \in as : row(a) # NoRow
  BY <1>2, CatalogAssumption
<1>4. /\ d1.action \in [Action -> ActionRow \cup {NoRow}]
      /\ \A a \in as : d1.action[a] = row(a)
      /\ \A a \in Action \ as : d1.action[a] = d.action[a]
  <2> HIDE DEF d1
  <2>1. /\ \A a \in as : d1.action[a] = row(a)
        /\ \A a \in Action \ as : d1.action[a] = d.action[a]
    BY <1>1
  <2>2. d.action \in [Action -> ActionRow \cup {NoRow}]
    BY DEF Consistent, Tables
  <2> HIDE DEF row
  <2>3. d1.action \in [Action -> ActionRow \cup {NoRow}]
    <3>1. \A a \in Action :
            (IF a \in as THEN row(a) ELSE d.action[a]) \in ActionRow \cup {NoRow}
      BY <1>2, <2>2
    <3> QED BY <3>1, <1>1
  <2> QED BY <2>1, <2>3
<1> HIDE DEF row, d1
<1>5. Codes(d1) /\ Numbers(d1) /\ Keeps(d1)
  BY <1>1 DEF Consistent, Codes, Numbers, Keeps
<1>6. \A a \in Action : d.action[a] # NoRow => d1.action[a] # NoRow
  BY <1>3, <1>4
<1>7. Homes(d1)
  <2>1. \A a \in as : d1.env[d1.action[a].env] # NoRow
    BY <1>1, <1>2, <1>4
  <2>2. \A a \in Action \ as : d1.action[a] # NoRow => d1.env[d1.action[a].env] # NoRow
    BY <1>1, <1>4 DEF Consistent, Homes
  <2> QED BY <2>1, <2>2 DEF Homes
<1>8. Owners(d1) /\ Hosts(d1)
  BY <1>1, <1>6, RowTypes DEF Consistent, Owners, Hosts
<1>9. \A a \in as : d1.action[a] # NoRow
  BY <1>3, <1>4
<1>10. d1 \in Tables
  BY <1>1, <1>4 DEF Consistent, Tables
<1> QED BY <1>10, <1>5, <1>7, <1>8, <1>9 DEF Consistent, d1

LEMMA DropActionsKeeps ==
  ASSUME NEW d, Consistent(d), NEW as \in SUBSET Action, DropActions(d, as) # Failed
  PROVE  /\ Consistent(DropActions(d, as))
         /\ DropActions(d, as).env = d.env /\ DropActions(d, as).inst = d.inst
         /\ DropActions(d, as).code = {v \in d.code : v.action \notin as}
         /\ DropActions(d, as).action =
              [a \in Action |-> IF a \in as THEN NoRow ELSE d.action[a]]
<1> DEFINE d1 == DropActions(d, as)
<1>1. /\ d1.env = d.env /\ d1.inst = d.inst
      /\ d1.code = {v \in d.code : v.action \notin as}
      /\ d1.action = [a \in Action |-> IF a \in as THEN NoRow ELSE d.action[a]]
      /\ d1 \in Tables
  BY DEF DropActions, WithoutCodeOf, Tables, Consistent
<1>2. \A i \in Instance : d.inst[i] # NoRow => d.inst[i].action \notin as
  BY DEF DropActions, InstancesOf
<1> HIDE DEF d1
<1>3. Codes(d1)
  <2>1. \A v, w \in d.code : SlotOf(v) = SlotOf(w) => v.action = w.action
    BY DEF SlotOf
  <2> QED BY <1>1, <2>1 DEF Consistent, Codes
<1>4. Numbers(d1)
  BY <1>1 DEF Consistent, Numbers
<1>5. Homes(d1)
  BY <1>1 DEF Consistent, Homes
<1>6. Owners(d1)
  BY <1>1 DEF Consistent, Owners, Tables, Version
<1>7. Hosts(d1)
  BY <1>1, <1>2 DEF Consistent, Hosts, Tables, InstanceRow
<1>8. Keeps(d1)
  <2>1. \A v, u : IdOf(v) = u => v.action = u.action
    BY DEF IdOf
  <2> SUFFICES ASSUME NEW i \in Instance, d.inst[i] # NoRow, NEW u \in d.inst[i].pins
               PROVE  /\ u.action = d.inst[i].action
                      /\ ~d.inst[i].done => \E v \in d1.code : IdOf(v) = u
    BY <1>1 DEF Keeps
  <2>2. /\ u.action = d.inst[i].action
        /\ ~d.inst[i].done => \E v \in d.code : IdOf(v) = u
    BY DEF Consistent, Keeps
  <2>3. d.inst[i].action \notin as
    BY <1>2
  <2>4. ASSUME NEW v \in d.code, IdOf(v) = u
        PROVE  v \in d1.code
    <3>1. v.action = u.action
      BY <2>4, <2>1
    <3> QED BY <3>1, <2>2, <2>3, <1>1
  <2> QED BY <2>2, <2>4
<1> QED BY <1>1, <1>3, <1>4, <1>5, <1>6, <1>7, <1>8 DEF Consistent, d1

LEMMA DropInstancesKeeps ==
  ASSUME NEW d, Consistent(d), NEW is \in SUBSET Instance
  PROVE  /\ Consistent(DropInstances(d, is))
         /\ DropInstances(d, is).env = d.env
         /\ DropInstances(d, is).action = d.action
         /\ DropInstances(d, is).code = d.code
<1> DEFINE d1 == DropInstances(d, is)
<1>1. /\ d1.env = d.env /\ d1.action = d.action /\ d1.code = d.code
      /\ d1.inst = [i \in Instance |-> IF i \in is THEN NoRow ELSE d.inst[i]]
      /\ d1 \in Tables
  BY DEF DropInstances, Tables, Consistent
<1> HIDE DEF d1
<1>2. Codes(d1) /\ Numbers(d1) /\ Homes(d1) /\ Owners(d1)
  BY <1>1 DEF Consistent, Codes, Numbers, Homes, Owners
<1>3. Hosts(d1) /\ Keeps(d1)
  BY <1>1 DEF Consistent, Hosts, Keeps
<1> QED BY <1>1, <1>2, <1>3 DEF Consistent, d1
(* Dropping the row of an environment that no instance refers to.          *)
LEMMA DropEnvRowKeeps ==
  ASSUME NEW d, Consistent(d), NEW e \in Env, DropEnvRow(d, e) # Failed
  PROVE  Consistent(DropEnvRow(d, e))
<1> DEFINE d1 == DropActions(d, ActionsIn(d, e))
           d2 == [d1 EXCEPT !.env[e] = NoRow]
<1>1. ActionsIn(d, e) \in SUBSET Action
  BY DEF ActionsIn
<1>2. /\ d1 # Failed /\ DropEnvRow(d, e) = d2
      /\ \A i \in Instance : d.inst[i] # NoRow => d.inst[i].env # e
  BY DEF DropEnvRow
<1>3. /\ Consistent(d1) /\ d1.inst = d.inst
      /\ d1.action = [a \in Action |-> IF a \in ActionsIn(d, e) THEN NoRow
                                      ELSE d.action[a]]
  BY <1>1, <1>2, DropActionsKeeps
<1> HIDE DEF d1
<1>4. /\ d2.env = [d1.env EXCEPT ![e] = NoRow] /\ d2 \in Tables
      /\ d2.action = d1.action /\ d2.inst = d1.inst /\ d2.code = d1.code
  BY <1>3 DEF Consistent, Tables
<1>5. \A x \in Env : x # e => d2.env[x] = d1.env[x]
  BY <1>3, <1>4 DEF Consistent, Tables
<1>6. \A a \in Action : d1.action[a] # NoRow => d1.action[a].env # e
  BY <1>3 DEF ActionsIn
<1> HIDE DEF d2
<1>7. Codes(d2) /\ Numbers(d2) /\ Owners(d2) /\ Keeps(d2)
  BY <1>3, <1>4 DEF Consistent, Codes, Numbers, Owners, Keeps
<1>8. Homes(d2)
  BY <1>3, <1>4, <1>5, <1>6, RowTypes DEF Consistent, Homes
<1>9. Hosts(d2)
  BY <1>2, <1>3, <1>4, <1>5, RowTypes DEF Consistent, Hosts
<1> QED BY <1>2, <1>4, <1>7, <1>8, <1>9 DEF Consistent

(* Deleting the code of the actions first changes nothing: it goes with    *)
(* the actions.                                                            *)
LEMMA DeletedEnvKeeps ==
  ASSUME NEW d, Consistent(d), NEW e \in Env, DeletedEnv(d, e) # Failed
  PROVE  Consistent(DeletedEnv(d, e))
<1> DEFINE own == {i \in Instance : d.inst[i] # NoRow /\ d.inst[i].env = e}
           as == ActionsIn(d, e)
           da == DropInstances(d, own)
           db0 == DropInstances(WithoutCodeOf(d, as), own)
<1>1. own \in SUBSET Instance /\ as \in SUBSET Action
  BY DEF ActionsIn
<1>2. Consistent(da)
  BY <1>1, DropInstancesKeeps
<1>3. /\ da.env = d.env /\ da.action = d.action /\ da.code = d.code
      /\ da.inst = [i \in Instance |-> IF i \in own THEN NoRow ELSE d.inst[i]]
      /\ da \in Tables
  BY <1>2 DEF DropInstances, Consistent, Tables
<1>4. /\ db0.env = d.env /\ db0.action = d.action
      /\ db0.code = {v \in d.code : v.action \notin as}
      /\ db0.inst = [i \in Instance |-> IF i \in own THEN NoRow ELSE d.inst[i]]
      /\ db0 \in Tables
  <2>1. da.inst \in [Instance -> InstanceRow \cup {NoRow}]
    BY <1>3 DEF Tables
  <2> HIDE DEF own, as
  <2> QED BY <2>1, <1>3 DEF DropInstances, WithoutCodeOf, Consistent, Tables
<1> HIDE DEF da, db0, own
<1>5. ActionsIn(da, e) = as /\ ActionsIn(db0, e) = as
  BY <1>3, <1>4 DEF ActionsIn
<1>6. \A a \in Action : InstancesOf(da, a) = InstancesOf(db0, a)
  BY <1>3, <1>4 DEF InstancesOf
<1> HIDE DEF as
<1>7. DropActions(da, as) = DropActions(db0, as)
  <2>1. [WithoutCodeOf(da, as) EXCEPT
           !.action = [a \in Action |-> IF a \in as THEN NoRow ELSE da.action[a]]]
        = [WithoutCodeOf(db0, as) EXCEPT
           !.action = [a \in Action |-> IF a \in as THEN NoRow ELSE db0.action[a]]]
    BY <1>3, <1>4 DEF WithoutCodeOf, Tables
  <2>2. (\E a \in as : InstancesOf(da, a) # {}) <=> (\E a \in as : InstancesOf(db0, a) # {})
    BY <1>1, <1>6
  <2> QED BY <2>1, <2>2 DEF DropActions
<1>8. DropEnvRow(da, e) = DropEnvRow(db0, e)
  <2>1. da.inst = db0.inst
    BY <1>3, <1>4
  <2> QED BY <2>1, <1>5, <1>7 DEF DropEnvRow
<1>9. DeletedEnv(d, e) = DropEnvRow(db0, e)
  BY DEF DeletedEnv, db0, own, as
<1> QED BY <1>2, <1>8, <1>9, DropEnvRowKeeps
-----------------------------------------------------------------------------
LEMMA ActivateKeeps ==
  ASSUME NEW d, Consistent(d), NEW x \in d.code
  PROVE  Consistent(Activate(d, x))
<1> DEFINE Set(w) == [w EXCEPT !.active = IF SlotOf(w) = SlotOf(x) THEN w = x ELSE @]
           code == {Set(w) : w \in d.code}
           d1 == [d EXCEPT !.code = code]
<1>1. Activate(d, x) = d1
  BY DEF Activate
<1>2. \A v \in d.code :
        /\ v \in Version /\ Set(v) \in Version
        /\ SlotOf(Set(v)) = SlotOf(v) /\ IdOf(Set(v)) = IdOf(v)
        /\ Set(v).action = v.action /\ Set(v).number = v.number
        /\ SlotOf(v) = SlotOf(x) => (Set(v).active <=> v = x)
        /\ SlotOf(v) # SlotOf(x) => (Set(v).active <=> v.active)
  BY DEF Consistent, Tables, Version, SlotOf, IdOf
<1>3. /\ d1.env = d.env /\ d1.action = d.action /\ d1.inst = d.inst
      /\ d1.code = code /\ d1 \in Tables
  BY <1>2 DEF Consistent, Tables
<1> HIDE DEF Set
<1>4. Codes(d1)
  <2>1. ASSUME NEW v \in d.code
        PROVE  \E w \in d.code : SlotOf(w) = SlotOf(v) /\ Set(w).active
    <3>1. CASE SlotOf(v) = SlotOf(x)
      BY <3>1, <1>2
    <3>2. CASE SlotOf(v) # SlotOf(x)
      BY <3>2, <1>2 DEF Consistent, Codes
    <3> QED BY <3>1, <3>2
  <2>2. ASSUME NEW v \in d.code, NEW w \in d.code, SlotOf(w) = SlotOf(v),
               Set(w).active, Set(v).active
        PROVE  w = v
    <3>1. CASE SlotOf(v) = SlotOf(x)
      BY <3>1, <2>2, <1>2
    <3>2. CASE SlotOf(v) # SlotOf(x)
      BY <3>2, <2>2, <1>2 DEF Consistent, Codes
    <3> QED BY <3>1, <3>2
  <2> QED BY <2>1, <2>2, <1>2, <1>3 DEF Codes
<1>5. Numbers(d1)
  BY <1>2, <1>3 DEF Consistent, Numbers
<1>6. Homes(d1) /\ Hosts(d1)
  BY <1>3 DEF Consistent, Homes, Hosts
<1>7. Owners(d1)
  BY <1>2, <1>3 DEF Consistent, Owners
<1>8. Keeps(d1)
  BY <1>2, <1>3 DEF Consistent, Keeps
<1> QED BY <1>1, <1>3, <1>4, <1>5, <1>6, <1>7, <1>8 DEF Consistent

(* Versions may go when no running instance has pinned them and the active *)
(* one goes only with the whole slot.                                      *)
LEMMA RemovalKeeps ==
  ASSUME NEW d, Consistent(d), NEW gone \in SUBSET d.code,
         \A v \in gone : IdOf(v) \notin Pinned(d),
         \A v \in gone, w \in d.code : v.active /\ SlotOf(w) = SlotOf(v) => w \in gone
  PROVE  Consistent([d EXCEPT !.code = @ \ gone])
<1> DEFINE d1 == [d EXCEPT !.code = @ \ gone]
<1>1. /\ d1.env = d.env /\ d1.action = d.action /\ d1.inst = d.inst
      /\ d1.code = d.code \ gone /\ d1 \in Tables
  BY DEF Consistent, Tables
<1> HIDE DEF d1
<1>2. Codes(d1) /\ Numbers(d1)
  <2>1. \A v \in d1.code : \E w \in d1.code : SlotOf(w) = SlotOf(v) /\ w.active
    <3> SUFFICES ASSUME NEW v \in d1.code
                 PROVE  \E w \in d1.code : SlotOf(w) = SlotOf(v) /\ w.active
      OBVIOUS
    <3>1. PICK w \in d.code : SlotOf(w) = SlotOf(v) /\ w.active
      BY <1>1 DEF Consistent, Codes
    <3> QED BY <3>1, <1>1
  <2> QED BY <2>1, <1>1 DEF Consistent, Codes, Numbers
<1>3. Homes(d1) /\ Hosts(d1) /\ Owners(d1)
  BY <1>1 DEF Consistent, Homes, Hosts, Owners
<1>4. Keeps(d1)
  <2> SUFFICES ASSUME NEW i \in Instance, d.inst[i] # NoRow, NEW u \in d.inst[i].pins
               PROVE  /\ u.action = d.inst[i].action
                      /\ ~d.inst[i].done => \E v \in d1.code : IdOf(v) = u
    BY <1>1 DEF Keeps
  <2>1. /\ u.action = d.inst[i].action
        /\ ~d.inst[i].done => \E v \in d.code : IdOf(v) = u
    BY DEF Consistent, Keeps
  <2>2. ~d.inst[i].done => u \in Pinned(d)
    BY DEF Pinned, Running
  <2> QED BY <2>1, <2>2, <1>1
<1> QED BY <1>1, <1>2, <1>3, <1>4 DEF Consistent, d1

LEMMA InvokeKeeps ==
  ASSUME NEW d, Consistent(d), NEW a \in Action, d.action[a] # NoRow,
         NEW i \in Instance
  PROVE  Consistent([d EXCEPT !.inst[i] =
           [action |-> a, env |-> d.action[a].env, pins |-> Pins(d, a), done |-> FALSE]])
<1> DEFINE row == [action |-> a, env |-> d.action[a].env,
                   pins |-> Pins(d, a), done |-> FALSE]
           d1 == [d EXCEPT !.inst[i] = row]
<1>1. d.action[a].env \in Env /\ d.env[d.action[a].env] # NoRow
  BY RowTypes DEF Consistent, Homes
<1>2. \A u \in Pins(d, a) : u \in VersionId /\ u.action = a
                            /\ \E v \in d.code : IdOf(v) = u
  BY DEF Pins, ActiveCode, IdOf, VersionId, Consistent, Tables, Version
<1>3. row \in InstanceRow /\ row.pins = Pins(d, a) /\ row.action = a
      /\ row.env = d.action[a].env /\ row.done = FALSE
  BY <1>1, <1>2 DEF InstanceRow
<1> HIDE DEF row
<1>4. /\ d1.env = d.env /\ d1.action = d.action /\ d1.code = d.code
      /\ d1.inst = [d.inst EXCEPT ![i] = row] /\ d1 \in Tables
      /\ d1.inst[i] = row /\ \A j \in Instance : j # i => d1.inst[j] = d.inst[j]
  BY <1>3 DEF Consistent, Tables
<1> HIDE DEF d1
<1>5. Codes(d1) /\ Numbers(d1) /\ Homes(d1) /\ Owners(d1)
  BY <1>4 DEF Consistent, Codes, Numbers, Homes, Owners
<1>6. Hosts(d1)
  BY <1>1, <1>3, <1>4 DEF Consistent, Hosts
<1>7. Keeps(d1)
  BY <1>2, <1>3, <1>4 DEF Consistent, Keeps
<1> QED BY <1>4, <1>5, <1>6, <1>7 DEF Consistent, d1, row

LEMMA CompleteKeeps ==
  ASSUME NEW d, Consistent(d), NEW i \in Instance, d.inst[i] # NoRow
  PROVE  Consistent([d EXCEPT !.inst[i].done = TRUE])
<1> DEFINE row == [d.inst[i] EXCEPT !.done = TRUE]
           d1 == [d EXCEPT !.inst[i].done = TRUE]
<1>1. /\ row \in InstanceRow /\ row.action = d.inst[i].action
      /\ row.env = d.inst[i].env /\ row.pins = d.inst[i].pins /\ row.done = TRUE
  BY RowTypes DEF Consistent, InstanceRow
<1>2. /\ d1.env = d.env /\ d1.action = d.action /\ d1.code = d.code
      /\ d1 \in Tables
      /\ d1.inst[i] = row /\ \A j \in Instance : j # i => d1.inst[j] = d.inst[j]
  BY <1>1 DEF Consistent, Tables
<1> HIDE DEF d1, row
<1>3. Codes(d1) /\ Numbers(d1) /\ Homes(d1) /\ Owners(d1)
  BY <1>2 DEF Consistent, Codes, Numbers, Homes, Owners
<1>4. Hosts(d1) /\ Keeps(d1)
  BY <1>1, <1>2 DEF Consistent, Hosts, Keeps
<1> QED BY <1>2, <1>3, <1>4 DEF Consistent, d1

LEMMA SetTimeoutKeeps ==
  ASSUME NEW d, Consistent(d), NEW a \in Action, d.action[a] # NoRow,
         NEW t \in Timeout \cup {NoTimeout}
  PROVE  Consistent([d EXCEPT !.action[a].timeout = t])
<1> DEFINE row == [d.action[a] EXCEPT !.timeout = t]
           d1 == [d EXCEPT !.action[a].timeout = t]
<1>1. row \in ActionRow /\ row.env = d.action[a].env /\ row # NoRow
  BY RowTypes, CatalogAssumption DEF Consistent, ActionRow
<1>2. /\ d1.env = d.env /\ d1.inst = d.inst /\ d1.code = d.code
      /\ d1 \in Tables
      /\ d1.action[a] = row /\ \A b \in Action : b # a => d1.action[b] = d.action[b]
  BY <1>1 DEF Consistent, Tables
<1> HIDE DEF d1, row
<1>3. Codes(d1) /\ Numbers(d1) /\ Keeps(d1)
  BY <1>2 DEF Consistent, Codes, Numbers, Keeps
<1>4. Homes(d1)
  BY <1>1, <1>2 DEF Consistent, Homes
<1>5. Owners(d1) /\ Hosts(d1)
  BY <1>1, <1>2, RowTypes DEF Consistent, Owners, Hosts
<1> QED BY <1>2, <1>3, <1>4, <1>5 DEF Consistent, d1
-----------------------------------------------------------------------------
(* What an upload, an import and a snapshot store.                         *)

LEMMA FilesParsed == Files \subseteq ParsedFile
BY InputAssumption
   DEF UploadedFile, WFaction, WFactionCodeX, WFenvir, WFenvirX, WFenvirXLibrary,
       WFenvirXPackage, WFenvirLibX, WFenvirBundleX

LEMMA FileTypes ==
  ASSUME NEW f \in ParsedFile
  PROVE  /\ f.env \in Env /\ f.life \in Life
         /\ DOMAIN f.lives \in SUBSET Action /\ f.lives \in [DOMAIN f.lives -> Life]
         /\ CodeOf(f) \in CodeFiles
         /\ \A s \in DOMAIN CodeOf(f) : s[1] \in DOMAIN f.lives
         /\ f.kind \in {"spec", "single", "action"}
<1>1. PICK as \in SUBSET Action : f.lives \in [as -> Life]
  BY DEF ParsedFile
<1>2. PICK ss \in SUBSET Slot : f.code \in [ss -> Source]
  BY DEF ParsedFile, CodeFiles
<1>3. DOMAIN CodeOf(f) \in SUBSET Slot /\ CodeOf(f) \in [DOMAIN CodeOf(f) -> Source]
  BY <1>2 DEF CodeOf
<1>4. CodeOf(f) \in CodeFiles
  BY <1>3 DEF CodeFiles
<1>5. \A s \in DOMAIN CodeOf(f) : s[1] \in DOMAIN f.lives
  BY DEF CodeOf
<1> QED BY <1>1, <1>4, <1>5 DEF ParsedFile

LEMMA WithRowsKeeps ==
  ASSUME NEW d, Consistent(d), NEW f \in ParsedFile
  PROVE  /\ Consistent(WithRowsOf(d, f))
         /\ \A a \in DOMAIN f.lives : WithRowsOf(d, f).action[a] # NoRow
BY FileTypes, PutEnvKeeps, PutActionsKeeps DEF WithRowsOf

LEMMA PutSpecKeeps ==
  ASSUME NEW d, Consistent(d), NEW f \in ParsedFile, PutSpec(d, f) # Failed
  PROVE  Consistent(PutSpec(d, f))
<1> DEFINE d0 == WithRowsOf(d, f)
           d1 == DropActions(d0, Orphans(d, f))
<1>1. Consistent(d0) /\ \A a \in DOMAIN f.lives : d0.action[a] # NoRow
  BY WithRowsKeeps
<1>2. Orphans(d, f) \in SUBSET Action /\ Orphans(d, f) \cap DOMAIN f.lives = {}
  BY DEF Orphans, ActionsIn
<1>3. d1 # Failed /\ PutSpec(d, f) = SaveAndActivate(d1, CodeOf(f))
  BY DEF PutSpec
<1> HIDE DEF d0
<1>4. /\ Consistent(d1)
      /\ d1.action = [a \in Action |-> IF a \in Orphans(d, f) THEN NoRow ELSE d0.action[a]]
  BY <1>1, <1>2, <1>3, DropActionsKeeps
<1> HIDE DEF d1
<1>5. \A s \in DOMAIN CodeOf(f) : d1.action[s[1]] # NoRow
  BY <1>1, <1>2, <1>4, FileTypes
<1> QED BY <1>3, <1>4, <1>5, FileTypes, SaveKeeps

LEMMA PutSingleKeeps ==
  ASSUME NEW d, Consistent(d), NEW f \in ParsedFile, PutSingle(d, f) # Failed
  PROVE  Consistent(PutSingle(d, f))
<1>1. Orphans(d, f) \in SUBSET Action
  BY DEF Orphans, ActionsIn
<1>2. UNION {InstancesOf(d, a) : a \in Orphans(d, f)} \in SUBSET Instance
  BY DEF InstancesOf
<1> QED BY <1>1, <1>2, WithRowsKeeps, DropInstancesKeeps, DropActionsKeeps DEF PutSingle

LEMMA PutActionKeeps ==
  ASSUME NEW d, Consistent(d), NEW f \in ParsedFile, PutAction(d, f) # Failed
  PROVE  Consistent(PutAction(d, f))
<1> DEFINE d1 == PutActions(d, f.lives, f.env)
<1>1. d.env[f.env] # NoRow /\ PutAction(d, f) = SaveAndActivate(d1, CodeOf(f))
  BY DEF PutAction
<1>2. Consistent(d1) /\ \A a \in DOMAIN f.lives : d1.action[a] # NoRow
  BY <1>1, FileTypes, PutActionsKeeps
<1> HIDE DEF d1
<1> QED BY <1>1, <1>2, FileTypes, SaveKeeps

LEMMA PutFileKeeps ==
  ASSUME NEW d, Consistent(d), NEW f \in ParsedFile, PutFile(d, f) # Failed
  PROVE  Consistent(PutFile(d, f))
<1>1. CASE f.kind = "spec"
  BY <1>1, PutSpecKeeps DEF PutFile
<1>2. CASE f.kind = "single"
  BY <1>2, PutSingleKeeps DEF PutFile
<1>3. CASE f.kind = "action"
  BY <1>3, PutActionKeeps DEF PutFile
<1> QED BY <1>1, <1>2, <1>3, FileTypes

LEMMA ReplacedKeeps ==
  ASSUME NEW d, Consistent(d), NEW f \in SnapshotFile,
         \A a \in Action : f.action[a] # NoRow => f.action[a].env \in f.env,
         Replaced(d, f) # Failed
  PROVE  Consistent(Replaced(d, f))
<1> DEFINE all == {a \in Action : d.action[a] # NoRow}
           d1 == DropActions(d, all)
           row(a) == [env |-> f.action[a].env, life |-> Draft,
                      timeout |-> f.action[a].timeout]
           d2 == [d1 EXCEPT
                    !.env = [e \in Env |-> IF e \in f.env THEN Draft ELSE NoRow],
                    !.action = [a \in Action |->
                       IF f.action[a] = NoRow THEN NoRow ELSE row(a)]]
<1>1. /\ d1 # Failed /\ \A i \in Instance : d.inst[i] = NoRow
      /\ \A s \in DOMAIN f.code : f.action[s[1]] # NoRow
      /\ Replaced(d, f) = SaveAndActivate(d2, f.code)
  BY DEF Replaced
<1>2. /\ Consistent(d1) /\ d1.inst = d.inst
      /\ d1.code = {v \in d.code : v.action \notin all}
  <2>1. all \in SUBSET Action
    OBVIOUS
  <2>2. DropActions(d, all) # Failed
    BY <1>1
  <2> HIDE DEF all
  <2> QED BY <2>1, <2>2, DropActionsKeeps
<1>3. d1.code = {}
  BY <1>2, RowTypes DEF Consistent, Owners
<1>4. /\ f.env \in SUBSET Env /\ f.code \in CodeFiles
      /\ \A a \in Action : f.action[a] # NoRow =>
           /\ f.action[a].env \in f.env
           /\ f.action[a].timeout \in Timeout \cup {NoTimeout}
  BY DEF SnapshotFile, SnapshotRow
<1>5. \A a \in Action : f.action[a] # NoRow =>
        row(a) \in ActionRow /\ row(a) # NoRow /\ row(a).env = f.action[a].env
  BY <1>4, CatalogAssumption DEF ActionRow
<1> HIDE DEF d1, row
<1>6. /\ d2.env = [e \in Env |-> IF e \in f.env THEN Draft ELSE NoRow]
      /\ d2.action = [a \in Action |-> IF f.action[a] = NoRow THEN NoRow ELSE row(a)]
      /\ d2.inst = d1.inst /\ d2.code = {}
  BY <1>2, <1>3 DEF Consistent, Tables
<1>7. d2 \in Tables
  <2>1. d2.env \in [Env -> Life \cup {NoRow}]
    BY <1>6, CatalogAssumption
  <2>2. d2.action \in [Action -> ActionRow \cup {NoRow}]
    <3>1. \A a \in Action :
            (IF f.action[a] = NoRow THEN NoRow ELSE row(a)) \in ActionRow \cup {NoRow}
      BY <1>5
    <3> QED BY <3>1, <1>6
  <2> QED BY <2>1, <2>2, <1>2, <1>6 DEF Consistent, Tables
<1> HIDE DEF d2
<1>8. Codes(d2) /\ Numbers(d2) /\ Owners(d2)
  BY <1>6 DEF Codes, Numbers, Owners
<1>9. Homes(d2)
  <2>1. Draft # NoRow
    BY CatalogAssumption
  <2> QED BY <2>1, <1>4, <1>5, <1>6 DEF Homes
<1>10. Hosts(d2) /\ Keeps(d2)
  BY <1>1, <1>2, <1>6 DEF Hosts, Keeps
<1>11. \A s \in DOMAIN f.code : d2.action[s[1]] # NoRow
  <2>1. \A s \in DOMAIN f.code : s[1] \in Action
    BY <1>4 DEF CodeFiles, Slot
  <2> QED BY <2>1, <1>1, <1>5, <1>6
<1>12. Consistent(d2)
  BY <1>7, <1>8, <1>9, <1>10 DEF Consistent
<1>13. SaveAndActivate(d2, f.code) # Failed
  BY <1>1
<1> QED BY <1>1, <1>4, <1>11, <1>12, <1>13, SaveKeeps
-----------------------------------------------------------------------------
LEMMA InitConsistent == Init => Consistent(db)
BY DEF Init, EmptyTables, Consistent, Tables, Codes, Numbers, Homes, Owners, Hosts, Keeps

(* Each route keeps the tables consistent.                                 *)
LEMMA NextConsistent == Consistent(db) /\ [Next]_db => Consistent(db)'
<1> SUFFICES ASSUME Consistent(db), [Next]_db
             PROVE  Consistent(db')
  BY DEF Consistent, Codes, Numbers, Homes, Owners, Hosts, Keeps
<1>1. ASSUME NEW a \in Action, NEW s \in State, NEW src \in Source, SaveCode(a, s, src)
      PROVE  Consistent(db')
  <2> DEFINE files == [t \in {<<a, s>>} |-> src]
  <2>1. files \in CodeFiles /\ \A t \in DOMAIN files : t[1] = a
    <3>1. {<<a, s>>} \in SUBSET Slot /\ files \in [{<<a, s>>} -> Source]
      BY DEF Slot
    <3>2. DOMAIN files = {<<a, s>>}
      OBVIOUS
    <3> HIDE DEF files
    <3>3. files \in CodeFiles
      BY <3>1 DEF CodeFiles
    <3>4. \A t \in DOMAIN files : t[1] = a
      BY <3>2
    <3> QED BY <3>3, <3>4
  <2>2. /\ db.action[a] # NoRow /\ SaveAndActivate(db, files) # Failed
        /\ db' = SaveAndActivate(db, files)
    BY <1>1 DEF SaveCode, Store
  <2> HIDE DEF files
  <2> QED BY <2>1, <2>2, SaveKeeps
<1>2. ASSUME NEW v \in db.code, ActivateVersion(v)
      PROVE  Consistent(db')
  BY <1>2, ActivateKeeps DEF ActivateVersion, Store
<1>3. ASSUME NEW v \in db.code, DeleteVersion(v)
      PROVE  Consistent(db')
  BY <1>3, RemovalKeeps DEF DeleteVersion, Store
<1>4. ASSUME NEW a \in Action, NEW s \in State, ClearCode(a, s)
      PROVE  Consistent(db')
  <2> DEFINE gone == {v \in db.code : SlotOf(v) = <<a, s>>}
  <2>1. \A v \in gone : IdOf(v) \notin Pinned(db)
    BY <1>4 DEF ClearCode
  <2>2. db' = [db EXCEPT !.code = @ \ gone]
    BY <1>4 DEF ClearCode, Store
  <2> QED BY <2>1, <2>2, RemovalKeeps
<1>5. ASSUME NEW a \in Action, ImportCode(a)
      PROVE  Consistent(db')
  <2>1. PICK files \in CodeImports :
          /\ \A s \in DOMAIN files : s[1] = a
          /\ Store(PutCode(db, a, files))
    BY <1>5 DEF ImportCode
  <2>2. files \in CodeFiles
    BY InputAssumption
  <2> QED BY <2>1, <2>2, SaveKeeps DEF PutCode, Store
<1>6. ASSUME NEW f \in Files, Upload(f)
      PROVE  Consistent(db')
  BY <1>6, FilesParsed, PutFileKeeps DEF Upload, Store
<1>7. ASSUME NEW f \in Files, NEW g \in Files, UploadTwo(f, g)
      PROVE  Consistent(db')
  BY <1>7, FilesParsed, PutFileKeeps DEF UploadTwo, PutTwo, Store
<1>8. ASSUME NEW a \in Action, NEW t \in Timeout \cup {NoTimeout}, SetTimeout(a, t)
      PROVE  Consistent(db')
  BY <1>8, SetTimeoutKeeps DEF SetTimeout, Store
<1>9. ASSUME NEW e \in Env, DeleteEnv(e)
      PROVE  Consistent(db')
  BY <1>9, DeletedEnvKeeps DEF DeleteEnv, Store
<1>10. ASSUME NEW f \in Snapshots, ImportSnapshot(f)
       PROVE  Consistent(db')
  <2>1. f \in SnapshotFile /\ \A a \in Action : f.action[a] # NoRow => f.action[a].env \in f.env
    BY InputAssumption
  <2>2. Replaced(db, f) # Failed /\ db' = Replaced(db, f)
    BY <1>10 DEF ImportSnapshot, Store
  <2> QED BY <2>1, <2>2, ReplacedKeeps
<1>11. ASSUME NEW a \in Action, NEW i \in Instance, Invoke(a, i)
       PROVE  Consistent(db')
  BY <1>11, InvokeKeeps DEF Invoke, Store
<1>12. ASSUME NEW i \in Instance, Complete(i)
       PROVE  Consistent(db')
  BY <1>12, CompleteKeeps DEF Complete, Store, Running
<1>13. ASSUME NEW i \in Instance, ForceDelete(i)
       PROVE  Consistent(db')
  BY <1>13, DropInstancesKeeps DEF ForceDelete, Store
<1>14. CASE UNCHANGED db
  BY <1>14
<1>15. \A p \in Pairs : p[1] \in Files /\ p[2] \in Files
  BY InputAssumption
<1> QED BY <1>1, <1>2, <1>3, <1>4, <1>5, <1>6, <1>7, <1>8, <1>9, <1>10, <1>11,
           <1>12, <1>13, <1>14, <1>15 DEF Next

(* The invariant of every run of the catalog.                              *)
THEOREM AlwaysConsistent == Spec => []Consistent(db)
BY InitConsistent, NextConsistent, PTL DEF Spec

(* Every table holds rows of their types, version numbers included: the    *)
(* number of a new version exists and is at least 1.                       *)
THEOREM CatalogTyped == Spec => []TypeOK
<1>1. Consistent(db) => TypeOK
  BY DEF Consistent, TypeOK
<1> QED BY <1>1, AlwaysConsistent, PTL

(* A state that has code has one version in force.                         *)
THEOREM CatalogInForce == Spec => []OneInForce
<1>1. Consistent(db) => OneInForce
  BY DEF Consistent, Codes, OneInForce
<1> QED BY <1>1, AlwaysConsistent, PTL

(* Version numbers stay distinct in a state, whatever is deleted.          *)
THEOREM CatalogNumbers == Spec => []NumbersDiffer
<1>1. Consistent(db) => NumbersDiffer
  BY DEF Consistent, Numbers, NumbersDiffer
<1> QED BY <1>1, AlwaysConsistent, PTL

(* No upload, import or deletion takes code that a running instance pins.  *)
THEOREM CatalogKeepsPinned == Spec => []RunningCodeIsKept
<1>1. Consistent(db) => RunningCodeIsKept
  <2> SUFFICES ASSUME Consistent(db), NEW i \in Running(db), NEW u \in db.inst[i].pins
               PROVE  \E v \in db.code : IdOf(v) = u
    BY DEF RunningCodeIsKept
  <2> QED BY DEF Consistent, Keeps, Running
<1> QED BY <1>1, AlwaysConsistent, PTL

(* The references between the tables hold.                                 *)
THEOREM CatalogReferences == Spec => []NothingDangles
<1>1. Consistent(db) => NothingDangles
  BY DEF Consistent, Homes, Owners, Hosts, NothingDangles
<1> QED BY <1>1, AlwaysConsistent, PTL

(* Deleting an environment spares the running instances whose action is    *)
(* still where they were invoked.                                          *)
THEOREM CatalogDeleteSpares == Spec => DeleteSparesItsOwn
<1>1. ASSUME Consistent(db), NEW e \in Env, DeleteEnv(e), NEW i \in Running(db),
             db.action[db.inst[i].action].env = db.inst[i].env
      PROVE  i \in Running(db')
  <2> DEFINE own == {j \in Instance : db.inst[j] # NoRow /\ db.inst[j].env = e}
             d1 == DropInstances(WithoutCodeOf(db, ActionsIn(db, e)), own)
  <2>1. /\ i \in Instance /\ db.inst[i] # NoRow
        /\ db.inst[i].action \in Action /\ db.action[db.inst[i].action] # NoRow
    BY <1>1, RowTypes DEF Running, Consistent, Hosts
  <2>2. i \notin own
    <3> SUFFICES ASSUME i \in own PROVE FALSE
      OBVIOUS
    <3>1. db.inst[i].action \in ActionsIn(db, e)
      BY <1>1, <2>1 DEF ActionsIn
    <3>2. i \in InstancesOf(db, db.inst[i].action)
      BY <2>1 DEF InstancesOf
    <3> QED BY <1>1, <3>1, <3>2 DEF DeleteEnv
  <2>3. d1.inst[i] = db.inst[i] /\ d1 \in Tables
    BY <1>1, <2>1, <2>2 DEF DropInstances, WithoutCodeOf, Consistent, Tables
  <2>4. db' = DropEnvRow(d1, e) /\ db' # Failed
    BY <1>1 DEF DeleteEnv, DeletedEnv, Store
  <2> HIDE DEF d1
  <2>5. DropActions(d1, ActionsIn(d1, e)) # Failed
    BY <2>4 DEF DropEnvRow
  <2>6. db'.inst = d1.inst
    BY <2>3, <2>4, <2>5 DEF DropEnvRow, DropActions, WithoutCodeOf, Tables
  <2> QED BY <1>1, <2>1, <2>3, <2>6 DEF Running
<1>2. Consistent(db) => [\A e \in Env : DeleteEnv(e) =>
        \A i \in Running(db) :
          db.action[db.inst[i].action].env = db.inst[i].env => i \in Running(db)']_db
  BY <1>1 DEF Running
<1> QED BY <1>2, AlwaysConsistent, PTL DEF DeleteSparesItsOwn
-----------------------------------------------------------------------------
(* The refinement of VersionHistory, slot by slot.                         *)
Entry(v) == [number |-> v.number, source |-> v.source]

Hist(d, s) == {Entry(v) : v \in {w \in d.code : SlotOf(w) = s}}

Cur(d, s) ==
  IF \E v \in d.code : SlotOf(v) = s /\ v.active
  THEN Entry(CHOOSE w \in d.code : SlotOf(w) = s /\ w.active)
  ELSE NoRow

LEMMA HistoryIs ==
  ASSUME NEW d, NEW s \in Slot
  PROVE  HistoryIn(d)[s] = Hist(d, s) /\ CurrentIn(d)[s] = Cur(d, s)
BY DEF HistoryIn, CurrentIn, Hist, Cur, Entry

(* The version in force is the active one.                                 *)
LEMMA CurrentIs ==
  ASSUME NEW d, Codes(d), NEW s
  PROVE  /\ \A v \in d.code : SlotOf(v) = s /\ v.active => Cur(d, s) = Entry(v)
         /\ (\A v \in d.code : SlotOf(v) # s) => Cur(d, s) = NoRow /\ Hist(d, s) = {}
<1>1. ASSUME NEW v \in d.code, SlotOf(v) = s, v.active PROVE Cur(d, s) = Entry(v)
  <2> DEFINE w == CHOOSE x \in d.code : SlotOf(x) = s /\ x.active
  <2>1. w \in d.code /\ SlotOf(w) = s /\ w.active
    BY <1>1
  <2>2. Cur(d, s) = Entry(w)
    BY <1>1 DEF Cur
  <2> HIDE DEF w
  <2>3. w = v
    BY <1>1, <2>1 DEF Codes
  <2> QED BY <2>2, <2>3
<1>2. (\A v \in d.code : SlotOf(v) # s) => Cur(d, s) = NoRow /\ Hist(d, s) = {}
  BY DEF Cur, Hist
<1> QED BY <1>1, <1>2

(* What becomes of a slot.                                                 *)
Same(d, d1, s) == Hist(d1, s) = Hist(d, s) /\ Cur(d1, s) = Cur(d, s)

Added(d1, s, old) ==
  \E v \in Hist(d1, s) :
    /\ \A w \in old : w.number < v.number
    /\ Hist(d1, s) = old \cup {v}
    /\ Cur(d1, s) = v

Emptied(d1, s) == Hist(d1, s) = {} /\ Cur(d1, s) = NoRow

(* What one file does.                                                     *)
OneFile(d, d1) ==
  \A s \in Slot : Same(d, d1, s) \/ Added(d1, s, Hist(d, s)) \/ Emptied(d1, s)

(* A slot stays as it is if its versions do, flags included.               *)
LEMMA SlotStays ==
  ASSUME NEW d, Codes(d), NEW d1, Codes(d1), NEW s,
         \A v : SlotOf(v) = s => (v \in d.code <=> v \in d1.code)
  PROVE  Same(d, d1, s)
<1>1. Hist(d1, s) = Hist(d, s)
  BY DEF Hist
<1>2. CASE \E v \in d.code : SlotOf(v) = s
  <2>1. PICK v \in d.code : SlotOf(v) = s /\ v.active
    BY <1>2 DEF Codes
  <2>2. Cur(d, s) = Entry(v) /\ Cur(d1, s) = Entry(v)
    BY <2>1, CurrentIs
  <2> QED BY <1>1, <2>2 DEF Same
<1>3. CASE ~\E v \in d.code : SlotOf(v) = s
  <2>1. Cur(d, s) = NoRow /\ Cur(d1, s) = NoRow
    BY <1>3, CurrentIs
  <2> QED BY <1>1, <2>1 DEF Same
<1> QED BY <1>2, <1>3

LEMMA CodeStays ==
  ASSUME NEW d, Codes(d), NEW d1, Codes(d1), d1.code = d.code
  PROVE  \A s : Same(d, d1, s)
BY SlotStays

(* One after the other.                                                    *)
LEMMA SameFirst ==
  ASSUME NEW d, NEW d1, NEW d2, NEW s, Same(d, d1, s)
  PROVE  /\ Same(d1, d2, s) => Same(d, d2, s)
         /\ Added(d2, s, Hist(d1, s)) => Added(d2, s, Hist(d, s))
BY DEF Same

LEMMA SameThen ==
  ASSUME NEW d1, NEW d2, NEW s, Same(d1, d2, s)
  PROVE  /\ Emptied(d1, s) => Emptied(d2, s)
         /\ \A old : Added(d1, s, old) => Added(d2, s, old)
BY DEF Same, Emptied, Added

(* saveMany: a version on top of each slot of files.                       *)
LEMMA SaveAdds ==
  ASSUME NEW d, Consistent(d), NEW files \in CodeFiles,
         \A s \in DOMAIN files : d.action[s[1]] # NoRow,
         SaveAndActivate(d, files) # Failed
  PROVE  /\ \A s \in Slot : s \in DOMAIN files => Added(SaveAndActivate(d, files), s, Hist(d, s))
         /\ \A s \in Slot : s \notin DOMAIN files => Same(d, SaveAndActivate(d, files), s)
<1> DEFINE Off(v) == [v EXCEPT !.active = @ /\ SlotOf(v) \notin DOMAIN files]
           New(s) == NewVersion(d, s, files[s])
           code == {Off(v) : v \in d.code} \cup {New(s) : s \in DOMAIN files}
           d1 == SaveAndActivate(d, files)
<1>1. UsedIds(d) # Uuid /\ d1 = [d EXCEPT !.code = code]
  BY DEF SaveAndActivate
<1>2. DOMAIN files \subseteq Slot /\ \A s \in DOMAIN files : files[s] \in Source
  BY DEF CodeFiles
<1>3. \A s \in DOMAIN files :
        /\ New(s) \in Version /\ SlotOf(New(s)) = s /\ New(s).active = TRUE
        /\ \A v \in d.code : SlotOf(v) = s => v.number < New(s).number
  BY <1>1, <1>2, NewVersionIsNew DEF Consistent
<1>4. \A v \in d.code :
        /\ v \in Version /\ Off(v) \in Version
        /\ SlotOf(Off(v)) = SlotOf(v) /\ Entry(Off(v)) = Entry(v)
        /\ SlotOf(v) \notin DOMAIN files => Off(v) = v
  BY DEF Consistent, Tables, Version, SlotOf, Entry
<1>5. d1.code = code /\ Consistent(d1)
  BY <1>1, SaveKeeps DEF Consistent, Tables
<1>6. Codes(d) /\ Codes(d1)
  BY <1>5 DEF Consistent
<1> HIDE DEF Off, New, d1
<1>7. ASSUME NEW s \in Slot, s \in DOMAIN files PROVE Added(d1, s, Hist(d, s))
  <2>1. New(s) \in d1.code /\ SlotOf(New(s)) = s /\ New(s).active
    BY <1>3, <1>5, <1>7
  <2>2. Cur(d1, s) = Entry(New(s))
    BY <1>6, <2>1, CurrentIs
  <2>3. Hist(d1, s) = Hist(d, s) \cup {Entry(New(s))}
    <3>1. \A v \in d1.code : SlotOf(v) = s => Entry(v) \in Hist(d, s) \cup {Entry(New(s))}
      <4> SUFFICES ASSUME NEW v \in code, SlotOf(v) = s
                   PROVE  Entry(v) \in Hist(d, s) \cup {Entry(New(s))}
        BY <1>5
      <4>1. CASE \E w \in d.code : v = Off(w)
        BY <4>1, <1>4 DEF Hist
      <4>2. CASE \E t \in DOMAIN files : v = New(t)
        BY <4>2, <1>3
      <4> QED BY <4>1, <4>2
    <3>2. \A v \in d.code : SlotOf(v) = s => Entry(v) \in Hist(d1, s)
      BY <1>4, <1>5 DEF Hist
    <3> QED BY <3>1, <3>2, <2>1 DEF Hist
  <2>4. \A e \in Hist(d, s) : e.number < Entry(New(s)).number
    BY <1>3, <1>7 DEF Hist, Entry
  <2> QED BY <2>2, <2>3, <2>4 DEF Added
<1>8. ASSUME NEW s \in Slot, s \notin DOMAIN files PROVE Same(d, d1, s)
  <2>1. \A v : SlotOf(v) = s => (v \in d.code <=> v \in d1.code)
    BY <1>3, <1>4, <1>5, <1>8
  <2> QED BY <1>6, <2>1, SlotStays
<1> QED BY <1>7, <1>8 DEF d1

(* What is dropped is dropped whole.                                       *)
LEMMA DropEmpties ==
  ASSUME NEW d, Consistent(d), NEW d1, Codes(d1), NEW as,
         d1.code = {v \in d.code : v.action \notin as}
  PROVE  \A s \in Slot : IF s[1] \in as THEN Emptied(d1, s) ELSE Same(d, d1, s)
<1>1. \A v \in d.code : SlotOf(v)[1] = v.action
  BY DEF SlotOf
<1>2. ASSUME NEW s \in Slot, s[1] \in as PROVE Emptied(d1, s)
  BY <1>1, <1>2, CurrentIs DEF Emptied
<1>3. ASSUME NEW s \in Slot, s[1] \notin as PROVE Same(d, d1, s)
  <2>1. \A v : SlotOf(v) = s => (v \in d.code <=> v \in d1.code)
    BY <1>1, <1>3
  <2> QED BY <2>1, SlotStays DEF Consistent
<1> QED BY <1>2, <1>3

LEMMA RowsStay ==
  ASSUME NEW d, Consistent(d), NEW f \in ParsedFile
  PROVE  \A s \in Slot : Same(d, WithRowsOf(d, f), s)
<1>1. WithRowsOf(d, f).code = d.code
  BY DEF WithRowsOf, PutActions, PutEnv, Consistent, Tables
<1>2. Codes(d) /\ Codes(WithRowsOf(d, f))
  BY WithRowsKeeps DEF Consistent
<1> QED BY <1>1, <1>2, CodeStays

LEMMA PutSpecIsOne ==
  ASSUME NEW d, Consistent(d), NEW f \in ParsedFile, PutSpec(d, f) # Failed
  PROVE  OneFile(d, PutSpec(d, f))
<1> DEFINE d0 == WithRowsOf(d, f)
           d1 == DropActions(d0, Orphans(d, f))
           d2 == PutSpec(d, f)
<1>1. Consistent(d0) /\ \A a \in DOMAIN f.lives : d0.action[a] # NoRow
  BY WithRowsKeeps
<1>2. Orphans(d, f) \in SUBSET Action /\ Orphans(d, f) \cap DOMAIN f.lives = {}
  BY DEF Orphans, ActionsIn
<1>3. d1 # Failed /\ d2 = SaveAndActivate(d1, CodeOf(f))
  BY DEF PutSpec
<1>4. \A s \in Slot : Same(d, d0, s)
  BY RowsStay
<1> HIDE DEF d0
<1>5. /\ Consistent(d1)
      /\ d1.code = {v \in d0.code : v.action \notin Orphans(d, f)}
      /\ d1.action = [a \in Action |-> IF a \in Orphans(d, f) THEN NoRow ELSE d0.action[a]]
  BY <1>1, <1>2, <1>3, DropActionsKeeps
<1> HIDE DEF d1, d2
<1>6. \A s \in Slot : IF s[1] \in Orphans(d, f) THEN Emptied(d1, s) ELSE Same(d0, d1, s)
  BY <1>1, <1>5, DropEmpties DEF Consistent
<1>7. \A s \in DOMAIN CodeOf(f) : d1.action[s[1]] # NoRow /\ s[1] \notin Orphans(d, f)
  BY <1>1, <1>2, <1>5, FileTypes
<1>8. d2 # Failed
  BY DEF d2
<1>9. /\ \A s \in Slot : s \in DOMAIN CodeOf(f) => Added(d2, s, Hist(d1, s))
      /\ \A s \in Slot : s \notin DOMAIN CodeOf(f) => Same(d1, d2, s)
  BY <1>3, <1>5, <1>7, <1>8, FileTypes, SaveAdds
<1>10. ASSUME NEW s \in Slot
       PROVE  Same(d, d2, s) \/ Added(d2, s, Hist(d, s)) \/ Emptied(d2, s)
  <2>1. CASE s[1] \in Orphans(d, f)
    BY <2>1, <1>6, <1>7, <1>9, SameThen
  <2>2. CASE s[1] \notin Orphans(d, f)
    <3>1. Same(d, d1, s)
      BY <2>2, <1>4, <1>6, SameFirst
    <3> QED BY <3>1, <1>9, SameFirst
  <2> QED BY <2>1, <2>2
<1> QED BY <1>10 DEF OneFile, d2

LEMMA PutFileIsOne ==
  ASSUME NEW d, Consistent(d), NEW f \in ParsedFile, PutFile(d, f) # Failed
  PROVE  OneFile(d, PutFile(d, f))
<1>1. CASE f.kind = "spec"
  BY <1>1, PutSpecIsOne DEF PutFile
<1>2. CASE f.kind = "single"
  <2> DEFINE is == UNION {InstancesOf(d, a) : a \in Orphans(d, f)}
             d0 == WithRowsOf(d, f)
             d1 == DropInstances(d0, is)
             d2 == DropActions(d1, Orphans(d, f))
  <2>1. Orphans(d, f) \in SUBSET Action /\ is \in SUBSET Instance
    BY DEF Orphans, ActionsIn, InstancesOf
  <2>2. PutFile(d, f) = d2
    BY <1>2 DEF PutFile, PutSingle
  <2> HIDE DEF is
  <2>3. Consistent(d0) /\ \A s \in Slot : Same(d, d0, s)
    BY WithRowsKeeps, RowsStay
  <2> HIDE DEF d0
  <2>4. Consistent(d1) /\ d1.code = d0.code
    BY <2>1, <2>3, DropInstancesKeeps
  <2>5. \A s \in Slot : Same(d0, d1, s)
    BY <2>3, <2>4, CodeStays DEF Consistent
  <2> HIDE DEF d1
  <2>6. Codes(d2) /\ d2.code = {v \in d1.code : v.action \notin Orphans(d, f)}
    <3>1. d2 # Failed
      BY <2>2
    <3>2. Consistent(d2) /\ d2.code = {v \in d1.code : v.action \notin Orphans(d, f)}
      BY <2>1, <2>4, <3>1, DropActionsKeeps
    <3> HIDE DEF d2
    <3> QED BY <3>2 DEF Consistent
  <2>7. \A s \in Slot : Emptied(d2, s) \/ Same(d1, d2, s)
    BY <2>4, <2>6, DropEmpties
  <2> HIDE DEF d2
  <2> QED BY <2>2, <2>3, <2>5, <2>7, SameFirst DEF OneFile
<1>3. CASE f.kind = "action"
  <2> DEFINE d1 == PutActions(d, f.lives, f.env)
             d2 == SaveAndActivate(d1, CodeOf(f))
  <2>1. d.env[f.env] # NoRow /\ PutFile(d, f) = d2
    BY <1>3 DEF PutFile, PutAction
  <2>2. /\ Consistent(d1) /\ \A a \in DOMAIN f.lives : d1.action[a] # NoRow
        /\ d1.code = d.code
    <3>1. Consistent(d1) /\ \A a \in DOMAIN f.lives : d1.action[a] # NoRow
      BY <2>1, FileTypes, PutActionsKeeps
    <3>2. d1.code = d.code
      BY DEF PutActions, Consistent, Tables
    <3> QED BY <3>1, <3>2
  <2>3. \A s \in Slot : Same(d, d1, s)
    BY <2>2, CodeStays DEF Consistent
  <2> HIDE DEF d1
  <2>4. \A s \in Slot : Added(d2, s, Hist(d1, s)) \/ Same(d1, d2, s)
    BY <2>1, <2>2, FileTypes, SaveAdds
  <2> HIDE DEF d2
  <2> QED BY <2>1, <2>3, <2>4, SameFirst DEF OneFile
<1> QED BY <1>1, <1>2, <1>3, FileTypes

(* A step that stores one file, or two, deploys.                           *)
Deploys(d, d2) ==
  \A s \in Slot :
    \/ Same(d, d2, s) \/ Added(d2, s, Hist(d, s)) \/ Emptied(d2, s) \/ Added(d2, s, {})
    \/ \E v \in Hist(d2, s) : (\A w \in Hist(d, s) : w.number < v.number)
                              /\ Added(d2, s, Hist(d, s) \cup {v})

LEMMA OneDeploys ==
  ASSUME NEW d, NEW d1, OneFile(d, d1) PROVE Deploys(d, d1)
BY DEF OneFile, Deploys

LEMMA TwoDeploy ==
  ASSUME NEW d, NEW d1, NEW d2, OneFile(d, d1), OneFile(d1, d2)
  PROVE  Deploys(d, d2)
<1> SUFFICES ASSUME NEW s \in Slot
             PROVE \/ Same(d, d2, s) \/ Added(d2, s, Hist(d, s)) \/ Emptied(d2, s)
                   \/ Added(d2, s, {})
                   \/ \E v \in Hist(d2, s) : (\A w \in Hist(d, s) : w.number < v.number)
                                             /\ Added(d2, s, Hist(d, s) \cup {v})
  BY DEF Deploys
<1>1. CASE Same(d, d1, s)
  BY <1>1, SameFirst DEF OneFile
<1>2. CASE Emptied(d1, s)
  <2>1. Hist(d1, s) = {}
    BY <1>2 DEF Emptied
  <2> QED BY <1>2, <2>1, SameThen DEF OneFile
<1>3. CASE Added(d1, s, Hist(d, s))
  <2>1. CASE Same(d1, d2, s)
    BY <1>3, <2>1, SameThen
  <2>2. CASE Added(d2, s, Hist(d1, s))
    <3>1. PICK v \in Hist(d1, s) : /\ \A w \in Hist(d, s) : w.number < v.number
                                   /\ Hist(d1, s) = Hist(d, s) \cup {v}
      BY <1>3 DEF Added
    <3>2. Hist(d1, s) \subseteq Hist(d2, s)
      BY <2>2 DEF Added
    <3> QED BY <2>2, <3>1, <3>2
  <2> QED BY <2>1, <2>2 DEF OneFile
<1> QED BY <1>1, <1>2, <1>3 DEF OneFile
LEMMA ImportDeploys ==
  ASSUME NEW d, Consistent(d), NEW f \in SnapshotFile,
         \A a \in Action : f.action[a] # NoRow => f.action[a].env \in f.env,
         Replaced(d, f) # Failed
  PROVE  Deploys(d, Replaced(d, f))
<1> DEFINE all == {a \in Action : d.action[a] # NoRow}
           d1 == DropActions(d, all)
           d2 == [d1 EXCEPT
                    !.env = [e \in Env |-> IF e \in f.env THEN Draft ELSE NoRow],
                    !.action = [a \in Action |->
                       IF f.action[a] = NoRow THEN NoRow
                       ELSE [env |-> f.action[a].env, life |-> Draft,
                             timeout |-> f.action[a].timeout]]]
           d3 == Replaced(d, f)
<1>1. /\ d1 # Failed /\ d3 = SaveAndActivate(d2, f.code)
      /\ \A s \in DOMAIN f.code : f.action[s[1]] # NoRow
  BY DEF Replaced
<1>2. all \in SUBSET Action
  OBVIOUS
<1>3. Consistent(d1) /\ d1.code = {v \in d.code : v.action \notin all}
  <2>1. d1 # Failed
    BY <1>1
  <2> HIDE DEF all
  <2> QED BY <2>1, <1>2, DropActionsKeeps
<1>4. d1.code = {}
  <2>1. \A v \in d.code : v.action \in all
    BY RowTypes DEF Consistent, Owners
  <2> HIDE DEF all, d1
  <2> QED BY <1>3, <2>1
<1>5. d2.code = {}
  <2> HIDE DEF d1
  <2> QED BY <1>4, <1>3 DEF Consistent, Tables
<1>6. Consistent(d3)
  BY ReplacedKeeps
<1>7. f.code \in CodeFiles
  BY DEF SnapshotFile
<1> DEFINE New(s) == NewVersion(d2, s, f.code[s])
<1>8. d3.code = {New(s) : s \in DOMAIN f.code}
  <2> DEFINE Off(v) == [v EXCEPT !.active = @ /\ SlotOf(v) \notin DOMAIN f.code]
  <2>1. d3 # Failed
    OBVIOUS
  <2>2. d2 \in [{"env", "action", "inst", "code"} -> {d2.env, d2.action, d2.inst, d2.code}]
    <3> HIDE DEF d1
    <3> QED BY <1>3 DEF Consistent, Tables
  <2> HIDE DEF d2, d3
  <2>3. d3 = [d2 EXCEPT !.code = {Off(v) : v \in @} \cup {New(s) : s \in DOMAIN f.code}]
    BY <1>1, <2>1 DEF SaveAndActivate
  <2>4. {Off(v) : v \in d2.code} = {}
    BY <1>5
  <2> QED BY <2>2, <2>3, <2>4
<1>9. \A s \in DOMAIN f.code : SlotOf(New(s)) = s /\ New(s).active = TRUE
  <2>1. \A s \in DOMAIN f.code : s = <<s[1], s[2]>>
    BY <1>7 DEF CodeFiles, Slot
  <2> QED BY <2>1 DEF NewVersion, SlotOf
<1> HIDE DEF d3, New
<1>10. ASSUME NEW s \in Slot PROVE Added(d3, s, {}) \/ Emptied(d3, s)
  <2>1. CASE s \in DOMAIN f.code
    <3>1. Hist(d3, s) = {Entry(New(s))}
      BY <1>8, <1>9, <2>1 DEF Hist
    <3>2. Cur(d3, s) = Entry(New(s))
      BY <1>6, <1>8, <1>9, <2>1, CurrentIs DEF Consistent
    <3> QED BY <3>1, <3>2 DEF Added
  <2>2. CASE s \notin DOMAIN f.code
    <3>1. \A v \in d3.code : SlotOf(v) # s
      BY <1>8, <1>9, <2>2
    <3> QED BY <1>6, <3>1, CurrentIs DEF Consistent, Emptied
  <2> QED BY <2>1, <2>2
<1> QED BY <1>10 DEF Deploys, d3

LEMMA DeletedEnvIsOne ==
  ASSUME NEW d, Consistent(d), NEW e \in Env, DeletedEnv(d, e) # Failed
  PROVE  OneFile(d, DeletedEnv(d, e))
<1> DEFINE own == {i \in Instance : d.inst[i] # NoRow /\ d.inst[i].env = e}
           as == ActionsIn(d, e)
           d0 == DropInstances(WithoutCodeOf(d, as), own)
           d1 == DropActions(d0, as)
           d2 == DeletedEnv(d, e)
<1>1. d0.action = d.action /\ d0.code = {v \in d.code : v.action \notin as}
  BY DEF DropInstances, WithoutCodeOf, Consistent, Tables
<1>2. ActionsIn(d0, e) = as
  <2> HIDE DEF d0
  <2> QED BY <1>1 DEF ActionsIn
<1>3. d1 # Failed /\ d2 = [d1 EXCEPT !.env[e] = NoRow]
  <2>1. d2 = DropEnvRow(d0, e)
    BY DEF DeletedEnv
  <2> HIDE DEF d0
  <2> QED BY <1>2, <2>1 DEF DropEnvRow
<1>4. d2.code = {v \in d0.code : v.action \notin as}
  <2>1. d0 = [env |-> d0.env, action |-> d0.action, inst |-> d0.inst, code |-> d0.code]
    <3> DEFINE dc == WithoutCodeOf(d, as)
    <3>1. dc = [env |-> dc.env, action |-> dc.action, inst |-> dc.inst, code |-> dc.code]
      <4>1. d = [env |-> d.env, action |-> d.action, inst |-> d.inst, code |-> d.code]
        BY DEF Consistent, Tables
      <4>2. dc = [d EXCEPT !.code = {v \in d.code : v.action \notin as}]
        BY DEF WithoutCodeOf
      <4> HIDE DEF dc, as
      <4> QED BY <4>1, <4>2
    <3>2. d0 = DropInstances(dc, own)
      OBVIOUS
    <3> HIDE DEF dc, d0, own
    <3> QED BY <3>1, <3>2 DEF DropInstances
  <2> HIDE DEF d0
  <2>2. d1 = [WithoutCodeOf(d0, as) EXCEPT
                !.action = [a \in Action |-> IF a \in as THEN NoRow ELSE d0.action[a]]]
    BY <1>3 DEF DropActions
  <2> HIDE DEF d1, d2
  <2> QED BY <1>3, <2>1, <2>2 DEF WithoutCodeOf
<1>5. d2.code = {v \in d.code : v.action \notin as}
  <2> HIDE DEF d0, d2
  <2> QED BY <1>1, <1>4
<1>6. Codes(d2)
  BY DeletedEnvKeeps DEF Consistent
<1> HIDE DEF as, d2
<1>7. \A s \in Slot : Emptied(d2, s) \/ Same(d, d2, s)
  BY <1>5, <1>6, DropEmpties
<1> QED BY <1>7 DEF OneFile, d2

LEMMA ClearIsOne ==
  ASSUME NEW d, Consistent(d), NEW t,
         Consistent([d EXCEPT !.code = @ \ {v \in d.code : SlotOf(v) = t}])
  PROVE  OneFile(d, [d EXCEPT !.code = @ \ {v \in d.code : SlotOf(v) = t}])
<1> DEFINE d1 == [d EXCEPT !.code = @ \ {v \in d.code : SlotOf(v) = t}]
<1>1. d1.code = {v \in d.code : SlotOf(v) # t} /\ Codes(d1) /\ Codes(d)
  BY DEF Consistent, Tables
<1> HIDE DEF d1
<1>2. Emptied(d1, t)
  BY <1>1, CurrentIs DEF Emptied
<1>3. \A s : s # t => Same(d, d1, s)
  BY <1>1, SlotStays
<1> QED BY <1>2, <1>3 DEF OneFile, d1

(* Activating moves the choice of one slot.                                *)
LEMMA ActivateChooses ==
  ASSUME NEW d, Consistent(d), NEW x \in d.code
  PROVE  LET t == SlotOf(x) IN
         /\ t \in Slot
         /\ Hist(Activate(d, x), t) = Hist(d, t) /\ Cur(Activate(d, x), t) \in Hist(d, t)
         /\ \A s : s # t => Same(d, Activate(d, x), s)
<1> DEFINE Set(w) == [w EXCEPT !.active = IF SlotOf(w) = SlotOf(x) THEN w = x ELSE @]
           code == {Set(w) : w \in d.code}
           d1 == Activate(d, x)
           t == SlotOf(x)
<1>1. d1.code = code
  BY DEF Activate, Consistent, Tables
<1>2. \A v \in d.code :
        /\ v \in Version /\ SlotOf(Set(v)) = SlotOf(v) /\ Entry(Set(v)) = Entry(v)
        /\ SlotOf(v) # t => Set(v) = v
  BY DEF Consistent, Tables, Version, SlotOf, Entry
<1>3. Set(x) \in d1.code /\ Set(x).active
  BY <1>1, <1>2 DEF Version
<1>4. Codes(d) /\ Codes(d1) /\ t \in Slot
  BY ActivateKeeps, RowTypes DEF Consistent
<1> HIDE DEF Set, d1, t
<1>5. Hist(d1, t) = Hist(d, t)
  BY <1>1, <1>2 DEF Hist
<1>6. Cur(d1, t) = Entry(x) /\ Entry(x) \in Hist(d, t)
  BY <1>2, <1>3, <1>4, CurrentIs DEF Hist, t
<1>7. ASSUME NEW s, s # t PROVE Same(d, d1, s)
  <2>1. \A v : SlotOf(v) = s => (v \in d.code <=> v \in d1.code)
    BY <1>1, <1>2, <1>7
  <2> QED BY <1>4, <2>1, SlotStays
<1> QED BY <1>4, <1>5, <1>6, <1>7 DEF d1, t

(* Deleting takes one version, not the one in force.                       *)
LEMMA DeleteRemoves ==
  ASSUME NEW d, Consistent(d), NEW x \in d.code, ~x.active,
         Consistent([d EXCEPT !.code = @ \ {x}])
  PROVE  LET t == SlotOf(x)
             d1 == [d EXCEPT !.code = @ \ {x}] IN
         /\ t \in Slot
         /\ \E v \in Hist(d, t) : v # Cur(d, t) /\ Hist(d1, t) = Hist(d, t) \ {v}
         /\ Cur(d1, t) = Cur(d, t)
         /\ \A s : s # t => Same(d, d1, s)
<1> DEFINE t == SlotOf(x)
           d1 == [d EXCEPT !.code = @ \ {x}]
<1>1. d1.code = d.code \ {x} /\ Codes(d1) /\ Codes(d) /\ Numbers(d)
  BY DEF Consistent, Tables
<1>2. t \in Slot
  BY RowTypes DEF Consistent
<1> HIDE DEF d1, t
<1>3. PICK w \in d.code : SlotOf(w) = t /\ w.active
  BY <1>1 DEF Codes, t
<1>4. w # x /\ w \in d1.code
  BY <1>1, <1>3
<1>5. Cur(d, t) = Entry(w) /\ Cur(d1, t) = Entry(w)
  BY <1>1, <1>3, <1>4, CurrentIs
<1>6. \A v \in d.code : SlotOf(v) = t /\ Entry(v) = Entry(x) => v = x
  BY <1>1 DEF Numbers, Entry, t
<1>7. Entry(x) \in Hist(d, t) /\ Entry(x) # Cur(d, t)
  BY <1>3, <1>4, <1>5, <1>6 DEF Hist, t
<1>8. Hist(d1, t) = Hist(d, t) \ {Entry(x)}
  BY <1>1, <1>6 DEF Hist
<1>9. ASSUME NEW s, s # t PROVE Same(d, d1, s)
  BY <1>1, <1>9, SlotStays DEF t
<1> QED BY <1>2, <1>5, <1>7, <1>8, <1>9 DEF d1, t
LEMMA NextIsHistory == Consistent(db) /\ [Next]_db => [History!Next]_<<HistoryIn(db), CurrentIn(db)>>
<1> SUFFICES ASSUME Consistent(db), Next
             PROVE  [History!Next]_<<HistoryIn(db), CurrentIn(db)>>
  BY DEF HistoryIn, CurrentIn
<1>0. Consistent(db')
  BY NextConsistent DEF Consistent, Codes, Numbers, Homes, Owners, Hosts, Keeps
<1>a. /\ HistoryIn(db)' = HistoryIn(db') /\ CurrentIn(db)' = CurrentIn(db')
      /\ \A s \in Slot : /\ HistoryIn(db)[s] = Hist(db, s) /\ CurrentIn(db)[s] = Cur(db, s)
                         /\ HistoryIn(db')[s] = Hist(db', s) /\ CurrentIn(db')[s] = Cur(db', s)
  BY HistoryIs DEF HistoryIn, CurrentIn
<1>b. ASSUME Deploys(db, db') PROVE History!Next
  BY <1>a, <1>b DEF History!Next, History!Deploy, History!Stays, History!Saves, History!SavesTwice,
     History!Clears, History!Restarts, History!Adds, History!Above, Deploys, Same, Added, Emptied
<1>c. ASSUME db'.code = db.code PROVE History!Next
  BY <1>0, <1>b, <1>c, CodeStays DEF Deploys, Consistent
<1>1. ASSUME NEW a \in Action, NEW s \in State, NEW src \in Source, SaveCode(a, s, src)
      PROVE  History!Next
  <2> DEFINE files == [t \in {<<a, s>>} |-> src]
  <2>1. files \in CodeFiles /\ \A t \in DOMAIN files : t[1] = a
    <3>1. {<<a, s>>} \in SUBSET Slot /\ files \in [{<<a, s>>} -> Source]
      BY DEF Slot
    <3>2. DOMAIN files = {<<a, s>>}
      OBVIOUS
    <3> HIDE DEF files
    <3>3. files \in CodeFiles
      BY <3>1 DEF CodeFiles
    <3>4. \A t \in DOMAIN files : t[1] = a
      BY <3>2
    <3> QED BY <3>3, <3>4
  <2>2. /\ db.action[a] # NoRow /\ SaveAndActivate(db, files) # Failed
        /\ db' = SaveAndActivate(db, files)
    BY <1>1 DEF SaveCode, Store
  <2> HIDE DEF files
  <2>3. \A t \in Slot : Added(db', t, Hist(db, t)) \/ Same(db, db', t)
    BY <2>1, <2>2, SaveAdds
  <2> QED BY <2>3, <1>b DEF Deploys
<1>2. ASSUME NEW v \in db.code, ActivateVersion(v) PROVE History!Next
  <2>1. db' = Activate(db, v)
    BY <1>2 DEF ActivateVersion, Store
  <2>2. PICK t \in Slot : /\ Hist(db', t) = Hist(db, t) /\ Cur(db', t) \in Hist(db, t)
                          /\ \A s : s # t => Same(db, db', s)
    BY <2>1, ActivateChooses
  <2>3. History!Change(t)
    BY <2>2, <1>a DEF History!Change, History!Activates, History!Stays, Same
  <2> QED BY <2>3 DEF History!Next
<1>3. ASSUME NEW v \in db.code, DeleteVersion(v) PROVE History!Next
  <2>1. ~v.active /\ db' = [db EXCEPT !.code = @ \ {v}]
    BY <1>3 DEF DeleteVersion, Store
  <2>2. PICK t \in Slot : /\ \E w \in Hist(db, t) : w # Cur(db, t) /\ Hist(db', t) = Hist(db, t) \ {w}
                          /\ Cur(db', t) = Cur(db, t)
                          /\ \A s : s # t => Same(db, db', s)
    BY <2>1, <1>0, DeleteRemoves
  <2>3. History!Change(t)
    BY <2>2, <1>a DEF History!Change, History!Removes, History!Stays, Same
  <2> QED BY <2>3 DEF History!Next
<1>4. ASSUME NEW a \in Action, NEW s \in State, ClearCode(a, s) PROVE History!Next
  <2>1. db' = [db EXCEPT !.code = @ \ {v \in db.code : SlotOf(v) = <<a, s>>}]
    BY <1>4 DEF ClearCode, Store
  <2> DEFINE d1 == [db EXCEPT !.code = @ \ {v \in db.code : SlotOf(v) = <<a, s>>}]
  <2>2. Consistent(d1)
    BY <2>1, <1>0
  <2>3. OneFile(db, d1)
    BY <2>2, ClearIsOne
  <2> HIDE DEF d1
  <2>4. OneFile(db, db')
    BY <2>1, <2>3 DEF d1
  <2> QED BY <2>4, <1>b, OneDeploys
<1>5. ASSUME NEW a \in Action, ImportCode(a) PROVE History!Next
  <2>1. PICK files \in CodeImports :
          /\ \A s \in DOMAIN files : s[1] = a
          /\ Store(PutCode(db, a, files))
    BY <1>5 DEF ImportCode
  <2>2. files \in CodeFiles
    BY InputAssumption
  <2>3. /\ db.action[a] # NoRow /\ SaveAndActivate(db, files) # Failed
        /\ db' = SaveAndActivate(db, files)
    BY <2>1 DEF PutCode, Store
  <2>4. \A t \in Slot : Added(db', t, Hist(db, t)) \/ Same(db, db', t)
    BY <2>1, <2>2, <2>3, SaveAdds
  <2> QED BY <2>4, <1>b DEF Deploys
<1>6. ASSUME NEW f \in Files, Upload(f) PROVE History!Next
  <2>1. PutFile(db, f) # Failed /\ db' = PutFile(db, f)
    BY <1>6 DEF Upload, Store
  <2> QED BY <2>1, <1>b, FilesParsed, PutFileIsOne, OneDeploys
<1>7. ASSUME NEW f \in Files, NEW g \in Files, UploadTwo(f, g) PROVE History!Next
  <2> DEFINE d1 == PutFile(db, f)
  <2>1. d1 # Failed /\ PutFile(d1, g) # Failed /\ db' = PutFile(d1, g)
    BY <1>7 DEF UploadTwo, PutTwo, Store
  <2>2. Consistent(d1) /\ OneFile(db, d1)
    BY <2>1, FilesParsed, PutFileKeeps, PutFileIsOne
  <2> HIDE DEF d1
  <2>3. OneFile(d1, db')
    BY <2>1, <2>2, FilesParsed, PutFileIsOne
  <2> QED BY <2>2, <2>3, <1>b, TwoDeploy
<1>8. ASSUME NEW e \in Env, DeleteEnv(e) PROVE History!Next
  <2>1. DeletedEnv(db, e) # Failed /\ db' = DeletedEnv(db, e)
    BY <1>8 DEF DeleteEnv, Store
  <2> QED BY <2>1, <1>b, DeletedEnvIsOne, OneDeploys
<1>9. ASSUME NEW f \in Snapshots, ImportSnapshot(f) PROVE History!Next
  <2>1. f \in SnapshotFile /\ \A a \in Action : f.action[a] # NoRow => f.action[a].env \in f.env
    BY InputAssumption
  <2>2. Replaced(db, f) # Failed /\ db' = Replaced(db, f)
    BY <1>9 DEF ImportSnapshot, Store
  <2> QED BY <2>1, <2>2, <1>b, ImportDeploys
<1>10. ASSUME \/ \E a \in Action, t \in Timeout \cup {NoTimeout} : SetTimeout(a, t)
              \/ \E a \in Action, i \in Instance : Invoke(a, i)
              \/ \E i \in Instance : Complete(i) \/ ForceDelete(i)
       PROVE  History!Next
  <2>1. db'.code = db.code
    BY <1>10 DEF SetTimeout, Invoke, Complete, ForceDelete, DropInstances, Store, Consistent, Tables
  <2> QED BY <2>1, <1>c
<1>11. \A p \in Pairs : p[1] \in Files /\ p[2] \in Files
  BY InputAssumption
<1> QED BY <1>1, <1>2, <1>3, <1>4, <1>5, <1>6, <1>7, <1>8, <1>9, <1>10, <1>11 DEF Next

(* No route rewrites the history of a slot or leaves a part of it: the     *)
(* catalog implements VersionHistory.                                      *)
THEOREM CatalogHistory == Spec => ImplementsHistory
<1>1. Init => History!Init
  BY DEF Init, EmptyTables, History!Init, HistoryIn, CurrentIn
<1>2. Consistent(db) /\ [Next]_db => [History!Next]_History!vars
  BY NextIsHistory DEF History!vars
<1> QED BY <1>1, <1>2, AlwaysConsistent, PTL DEF Spec, ImplementsHistory, History!Spec
=============================================================================
