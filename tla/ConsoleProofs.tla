---------------------------- MODULE ConsoleProofs ----------------------------
(***************************************************************************)
(* What holds of Console for every set of slots, texts, keys and statuses, *)
(* for every size of page and log, and for every bound.                    *)
(***************************************************************************)
EXTENDS Console, FiniteSetTheorems, TLAPS

-----------------------------------------------------------------------------
(* The code editor.  What is awaited was once stored, so that what arrives *)
(* has a text; ed has the fields it is made of.                            *)
Ids == {v.id : v \in made}
Fields(e) == e = [text |-> e.text, viewing |-> e.viewing, dirty |-> e.dirty]

EditorInv ==
  /\ pending \subseteq Ids
  /\ Fields(ed)
  /\ ViewedIsStored

LEMMA EditorStarts == EditorInit => EditorInv
BY DEF EditorInit, EditorInv, Fields, Opened, ViewedIsStored, ReadOnly

(* The effects change nothing of what is viewed.                           *)
LEMMA Effects ==
  ASSUME NEW e, Fields(e)
  PROVE  /\ \A q : /\ Fields(Loaded(e, q)) /\ Loaded(e, q).viewing = e.viewing
                   /\ e.viewing # None => Loaded(e, q) = e
         /\ \A q : /\ Fields(Templated(e, q))
                   /\ Templated(e, q) # e => Templated(e, q).viewing = None
         /\ \A q, r : /\ Fields(Rendered(e, q, r))
                      /\ Rendered(e, q, r).viewing # None => Rendered(e, q, r) = e
<1>0. e = [text |-> e.text, viewing |-> e.viewing, dirty |-> e.dirty]
  BY DEF Fields
<1>1. \A q : /\ Fields(Loaded(e, q)) /\ Loaded(e, q).viewing = e.viewing
             /\ e.viewing # None => Loaded(e, q) = e
  BY <1>0 DEF Loaded, Fields
<1>2. \A x, q : Fields(x) => /\ Fields(Templated(x, q))
                             /\ Templated(x, q) # x => Templated(x, q).viewing = None
  BY DEF Templated, Fields
<1>3. \A q, r : /\ Fields(Rendered(e, q, r))
                /\ Rendered(e, q, r).viewing # None => Rendered(e, q, r) = e
  <2> TAKE q, r
  <2> DEFINE x == IF q.data # r.data \/ (q.status = "success") # (r.status = "success")
                  THEN Loaded(e, r) ELSE e
  <2>1. Fields(x) /\ (x.viewing # None => x = e)
    BY <1>1
  <2>2. Rendered(e, q, r) = IF (q.status = "error") # (r.status = "error")
                            THEN Templated(x, r) ELSE x
    BY DEF Rendered
  <2> HIDE DEF x
  <2> QED
    BY <1>2, <2>1, <2>2
<1> QED
  BY <1>1, <1>2, <1>3

(* An editor that shows no version, or what it showed before.              *)
LEMMA StaysStored ==
  ASSUME EditorInv, Fields(ed)', made \subseteq made', pending' \subseteq Ids,
         ed'.viewing = None \/ ed' = ed
  PROVE  EditorInv'
<1>1. Ids \subseteq Ids'
  BY DEF Ids
<1> QED
  BY <1>1 DEF EditorInv, ViewedIsStored, ReadOnly

LEMMA EditorSteps == EditorInv /\ EditorNext => EditorInv'
<1> SUFFICES ASSUME EditorInv, EditorNext PROVE EditorInv'
  OBVIOUS
<1>0. pending \subseteq Ids /\ Fields(ed) /\ ViewedIsStored
  BY DEF EditorInv
<1>a. ed = [text |-> ed.text, viewing |-> ed.viewing, dirty |-> ed.dirty]
  BY <1>0 DEF Fields
<1>b. ed' = ed => Fields(ed)'
  BY <1>0 DEF Fields
<1> USE DEF serverVars
<1>1. CASE OthersAct
  BY <1>0, <1>1, <1>b, StaysStored DEF OthersAct, StoreVersion, PutInForce, RemoveVersion, RemoveAll
<1>2. ASSUME NEW s \in Slot, QueryAnswers(s) PROVE EditorInv'
  <2>1. \/ ed' = ed
        \/ \E q : ed' = Rendered(ed, query[s], q)
    BY <1>2 DEF QueryAnswers
  <2>2. Fields(ed)' /\ (ed'.viewing = None \/ ed' = ed)
    BY <1>0, <1>b, <2>1, Effects DEF Fields
  <2> QED
    BY <1>0, <1>2, <2>2, StaysStored DEF QueryAnswers
<1>3. ASSUME NEW s \in Slot, Navigate(s) PROVE EditorInv'
  <2>1. PICK q : ed' = Templated(Loaded(Opened, q), q)
    BY <1>3 DEF Navigate
  <2>2. Fields(Opened) /\ Opened.viewing = None
    BY DEF Fields, Opened
  <2>3. Fields(Loaded(Opened, q)) /\ Loaded(Opened, q).viewing = None
    BY <2>2, Effects
  <2>4. Fields(ed)' /\ ed'.viewing = None
    BY <2>1, <2>3, Effects DEF Fields
  <2> QED
    BY <1>0, <1>3, <2>4, StaysStored DEF Navigate
<1>4. CASE ActionChanges
  <2>1. Fields(ed)' /\ (ed'.viewing = None \/ ed' = ed)
    BY <1>0, <1>4, Effects DEF ActionChanges, Fields
  <2> QED
    BY <1>0, <1>4, <2>1, StaysStored DEF ActionChanges
<1>5. ASSUME NEW src \in Source, Type(src) PROVE EditorInv'
  <2>1. Fields(ed)' /\ ed'.viewing = None
    BY <1>a, <1>5 DEF Type, ReadOnly, Fields
  <2> QED
    BY <1>0, <1>5, <2>1, StaysStored DEF Type
<1>6. ASSUME NEW v \in made, SelectVersion(v) PROVE EditorInv'
  <2>1. Fields(ed)' /\ (ed'.viewing = None \/ ed' = ed)
    BY <1>6, <1>b DEF SelectVersion, Fields
  <2>2. pending' \subseteq Ids
    BY <1>0, <1>6 DEF SelectVersion, Ids
  <2> QED
    BY <1>6, <2>1, <2>2, StaysStored DEF SelectVersion
<1>7. ASSUME NEW v \in made, ChangeVersion(v) PROVE EditorInv'
  <2>1. PICK q, r : ed' = Rendered(ed, q, r)
    BY <1>7 DEF ChangeVersion
  <2>2. Fields(ed)' /\ (ed'.viewing = None \/ ed' = ed)
    BY <1>0, <2>1, Effects DEF Fields
  <2> QED
    BY <1>0, <1>7, <2>2, StaysStored DEF ChangeVersion, PutInForce, RemoveVersion
<1>8. ASSUME NEW id \in pending, VersionArrives(id) PROVE EditorInv'
  <2>1. pending' \subseteq Ids /\ made' = made
    BY <1>0, <1>8 DEF VersionArrives
  <2>2. CASE ed' = ed
    BY <1>b, <2>1, <2>2, StaysStored
  <2>3. CASE ed' = [text |-> SourceOf(id), viewing |-> id, dirty |-> FALSE]
    <3>1. \E v \in made : v.id = id
      BY <1>0 DEF Ids
    <3>2. \E v \in made : v.id = id /\ v.source = SourceOf(id)
      BY <3>1 DEF SourceOf
    <3>3. ViewedIsStored'
      BY <2>1, <2>3, <3>2 DEF ViewedIsStored, ReadOnly
    <3>4. Fields(ed)'
      BY <2>3 DEF Fields
    <3> QED
      BY <2>1, <3>3, <3>4 DEF EditorInv, Ids
  <2> QED
    BY <1>8, <2>2, <2>3 DEF VersionArrives
<1>9. CASE EditThisVersion
  <2> DEFINE e == [ed EXCEPT !.viewing = None, !.dirty = TRUE]
  <2>0. e = [text |-> ed.text, viewing |-> None, dirty |-> TRUE]
    <3> DEFINE f == [ed EXCEPT !.viewing = None]
    <3>1. f = [text |-> ed.text, viewing |-> None, dirty |-> ed.dirty]
      BY <1>a
    <3>2. e = [f EXCEPT !.dirty = TRUE]
      OBVIOUS
    <3> HIDE DEF f, e
    <3> QED
      BY <3>1, <3>2
  <2>1. Fields(e) /\ e.viewing = None
    BY <2>0 DEF Fields
  <2>2. ed' = Loaded(e, query[slot])
    BY <1>9 DEF EditThisVersion
  <2> HIDE DEF e
  <2>3. Fields(ed)' /\ ed'.viewing = None
    BY <2>1, <2>2, Effects DEF Fields
  <2> QED
    BY <1>0, <1>9, <2>3, StaysStored DEF EditThisVersion
<1>10. CASE BackToActive
  <2>1. Fields(ed)' /\ ed'.viewing = None
    BY <1>10 DEF BackToActive, Fields, Opened
  <2> QED
    BY <1>0, <1>10, <2>1, StaysStored DEF BackToActive
<1>11. CASE OpenDialog \/ CloseDialog \/ Save
  BY <1>0, <1>11, <1>b, StaysStored DEF OpenDialog, CloseDialog, Save
<1>12. CASE SaveAnswers
  <2>1. made \subseteq made' /\ pending' = pending
    BY <1>12 DEF SaveAnswers, StoreVersion
  <2>2. ed' = ed \/ ed' = [ed EXCEPT !.dirty = FALSE]
    BY <1>12 DEF SaveAnswers
  <2>3. Fields(ed)' /\ ed'.viewing = ed.viewing /\ ed'.text = ed.text
        /\ (~ed.dirty => ~ed'.dirty)
    BY <1>a, <2>2 DEF Fields
  <2>4. ViewedIsStored'
    BY <1>0, <2>1, <2>3 DEF ViewedIsStored, ReadOnly
  <2> QED
    BY <1>0, <2>1, <2>3, <2>4 DEF EditorInv, Ids
<1> QED
  BY <1>1, <1>2, <1>3, <1>4, <1>5, <1>6, <1>7, <1>8, <1>9, <1>10, <1>11, <1>12 DEF EditorNext

(* An old version that is shown is the stored one, unedited.               *)
THEOREM ConsoleViews == Spec => []ViewedIsStored
<1>1. Init => EditorInv
  BY EditorStarts DEF Init
<1>2. EditorInv /\ [Next]_vars => EditorInv'
  <2>1. EditorInv /\ OnEditor => EditorInv'
    BY EditorSteps DEF OnEditor
  <2>2. EditorInv /\ UNCHANGED editorVars => EditorInv'
    BY DEF editorVars, serverVars, EditorInv, Fields, Ids, ViewedIsStored, ReadOnly
  <2> QED
    BY <2>1, <2>2 DEF Next, OnSettings, OnLog, vars
<1>3. EditorInv => ViewedIsStored
  BY DEF EditorInv
<1> QED
  BY <1>1, <1>2, <1>3, PTL DEF Spec

-----------------------------------------------------------------------------
(* The settings form.  What is not typed is shown as the cache has it.     *)
FormInv ==
  /\ DOMAIN form = Key
  /\ cache # NoData => \A k \in Key \ touched : form[k] = Shown(k, cache.value[k])

LEMMA FormStarts == FormInit => FormInv
BY DEF FormInit, FormInv

LEMMA FormSteps == FormInv /\ FormNext => FormInv'
<1> SUFFICES ASSUME FormInv, FormNext PROVE FormInv'
  OBVIOUS
<1>1. CASE FetchAnswers
  <2>1. CASE cache = Answer
    BY <1>1, <2>1 DEF FetchAnswers, FormInv
  <2>2. CASE cache # Answer
    <3>1. /\ cache' = Answer /\ touched' = {}
          /\ form' = [k \in Key |-> Shown(k, Answer.value[k])]
      BY <1>1, <2>2 DEF FetchAnswers
    <3> HIDE DEF Answer
    <3> QED
      BY <3>1 DEF FormInv
  <2> QED
    BY <2>1, <2>2
<1>2. CASE FetchFails \/ Refetch \/ SaveChanges \/ ResetToDefaults \/ SendNext
  BY <1>2 DEF FetchFails, Refetch, SaveChanges, ResetToDefaults, SendNext, FormInv
<1>3. CASE Reload
  BY <1>3 DEF Reload, FormInv
<1>4. ASSUME NEW k \in Key, NEW v, TypeIn(k, v) PROVE FormInv'
  BY <1>4 DEF TypeIn, FormInv
<1>5. CASE OtherClient
  BY <1>5 DEF OtherClient, formVars, FormInv
<1> QED
  BY <1>1, <1>2, <1>3, <1>4, <1>5 DEF FormNext

(* A save sends what was typed since the form was filled, and as it was    *)
(* typed: neither rounding nor another client makes it send more.          *)
THEOREM ConsoleSaves == Spec => SavesOnlyTyped
<1>1. Init => FormInv
  BY FormStarts DEF Init
<1>2. FormInv /\ [Next]_vars => FormInv'
  <2>1. FormInv /\ OnSettings => FormInv'
    BY FormSteps DEF OnSettings
  <2>2. FormInv /\ UNCHANGED formVars => FormInv'
    BY DEF formVars, FormInv
  <2> QED
    BY <2>1, <2>2 DEF Next, OnEditor, OnLog, vars
<1>3. FormInv /\ SaveChanges =>
        \A k \in Left' : k \in touched /\ queue'.value[k] = ToSend(k, form[k])
  <2> SUFFICES ASSUME FormInv, SaveChanges, NEW k \in Left'
               PROVE  k \in touched /\ queue'.value[k] = ToSend(k, form[k])
    OBVIOUS
  <2> DEFINE values == [j \in Key |-> ToSend(j, form[j])]
             changed == Changed(form, cache)
  <2>1. queue'.value = Restrict(values, changed) /\ cache # NoData
    BY DEF SaveChanges, Queue, Visible
  <2>2. changed \subseteq Key /\ changed \subseteq touched
    BY <2>1 DEF Changed, FormInv
  <2> HIDE DEF values, changed
  <2>3. queue'.value = [j \in changed |-> values[j]]
    BY <2>1 DEF Restrict
  <2>4. k \in changed
    BY <2>3 DEF Left
  <2>5. values[k] = ToSend(k, form[k])
    BY <2>2, <2>4 DEF values
  <2> QED
    BY <2>2, <2>3, <2>4, <2>5
<1> QED
  BY <1>1, <1>2, <1>3, PTL DEF Spec, SavesOnlyTyped

-----------------------------------------------------------------------------
(* The log page.  Entries come with ids of their own above all others, and *)
(* what is trimmed is older than what stays: the place of an entry in the  *)
(* order of the pages never gets smaller.                                  *)
NewerIn(entries, e) == {f \in entries : f.id > e.id}
Place(entries, e) == Cardinality(NewerIn(entries, e))

IsLog(entries) == IsFiniteSet(entries) /\ \A e \in entries : e.id \in Nat

LEMMA PlaceType ==
  ASSUME NEW entries, IsLog(entries), NEW e
  PROVE  IsFiniteSet(NewerIn(entries, e)) /\ Place(entries, e) \in Nat
<1>1. NewerIn(entries, e) \subseteq entries
  BY DEF NewerIn
<1> QED
  BY <1>1, FS_Subset, FS_CardinalityType DEF IsLog, Place

(* The older of two entries comes later.                                   *)
LEMMA OlderComesLater ==
  ASSUME NEW entries, IsLog(entries), NEW s \in entries, NEW e \in entries, s.id < e.id
  PROVE  Place(entries, e) < Place(entries, s)
<1>1. NewerIn(entries, e) \subseteq NewerIn(entries, s)
  BY DEF NewerIn, IsLog
<1>2. e \in NewerIn(entries, s) /\ e \notin NewerIn(entries, e)
  BY DEF NewerIn, IsLog
<1>3. Place(entries, e) <= Place(entries, s)
  BY <1>1, PlaceType, FS_Subset DEF Place
<1>4. Place(entries, e) # Place(entries, s)
  BY <1>1, <1>2, PlaceType, FS_Subset DEF Place
<1> QED
  BY <1>3, <1>4, PlaceType

(* entries are those with the status that the filter asks for.             *)
Of(entries, f) == {e \in entries : f = All \/ e.status = f}

(* What stays of a log, old, that was added to and trimmed: all that is    *)
(* newer than something that stays.                                        *)
Follows(old, new) ==
  \A e \in new \cap old : NewerIn(old, e) \subseteq new

LEMMA TrimFollows ==
  ASSUME NEW entries, IsLog(entries), NEW n \in Int
  PROVE  /\ Trimmed(entries, n) \subseteq entries /\ IsLog(Trimmed(entries, n))
         /\ \A old \in SUBSET entries : Follows(old, Trimmed(entries, n))
<1>1. Trimmed(entries, n) = {e \in entries : Place(entries, e) < n}
  BY DEF Trimmed, Place, NewerIn
<1>2. IsLog(Trimmed(entries, n))
  BY <1>1, FS_Subset DEF IsLog
<1>3. ASSUME NEW e \in Trimmed(entries, n), NEW f \in entries, e.id < f.id
      PROVE  f \in Trimmed(entries, n)
  <2>1. e \in entries /\ Place(entries, e) < n
    BY <1>1
  <2>2. Place(entries, f) < Place(entries, e)
    BY <1>3, <2>1, OlderComesLater
  <2>3. Place(entries, f) \in Nat /\ Place(entries, e) \in Nat
    BY PlaceType
  <2>4. Place(entries, f) < n
    BY <2>1, <2>2, <2>3
  <2> QED
    BY <1>1, <2>4
<1>4. ASSUME NEW old \in SUBSET entries PROVE Follows(old, Trimmed(entries, n))
  <2> SUFFICES ASSUME NEW e \in Trimmed(entries, n) \cap old, NEW f \in NewerIn(old, e)
               PROVE  f \in Trimmed(entries, n)
    BY DEF Follows
  <2>1. f \in entries /\ e.id < f.id
    BY DEF NewerIn, IsLog
  <2> QED
    BY <1>3, <2>1
<1> QED
  BY <1>1, <1>2, <1>4

(* No entry moves up.                                                      *)
LEMMA NothingMovesUp ==
  ASSUME NEW old, IsLog(old), NEW new, IsLog(new), Follows(old, new), NEW f,
         NEW e \in Of(old, f), e \in new
  PROVE  Place(Of(old, f), e) <= Place(Of(new, f), e)
<1>1. IsLog(Of(old, f)) /\ IsLog(Of(new, f))
  BY FS_Subset DEF Of, IsLog
<1>2. NewerIn(Of(old, f), e) \subseteq NewerIn(Of(new, f), e)
  BY DEF NewerIn, Of, Follows
<1> QED
  BY <1>1, <1>2, PlaceType, FS_Subset DEF Place

(* A reader has read the first k entries, and none older than one it has   *)
(* not read; entries above top do not count.                               *)
Read(entries, top, seen, k) ==
  /\ \A e \in entries : e.id <= top /\ Place(entries, e) < k => e \in seen
  /\ \A e \in entries : e.id <= top /\ (\E s \in seen : s.id < e.id) => e \in seen

LEMMA ReadFollows ==
  ASSUME NEW old, IsLog(old), NEW new, IsLog(new), Follows(old, new), NEW f,
         NEW top, NEW seen, NEW k \in Nat, Read(Of(old, f), top, seen, k),
         \A e \in new : e.id <= top => e \in old
  PROVE  Read(Of(new, f), top, seen, k)
<1>1. \A e \in Of(new, f) : e.id <= top => e \in Of(old, f) /\ e \in new
  BY DEF Of
<1>2. ASSUME NEW e \in Of(new, f), e.id <= top, Place(Of(new, f), e) < k PROVE e \in seen
  <2>1. e \in Of(old, f) /\ e \in new
    BY <1>1, <1>2
  <2>2. Place(Of(old, f), e) <= Place(Of(new, f), e)
    BY <2>1, NothingMovesUp
  <2>3. IsLog(Of(old, f)) /\ IsLog(Of(new, f))
    BY FS_Subset DEF Of, IsLog
  <2>4. Place(Of(old, f), e) \in Nat /\ Place(Of(new, f), e) \in Nat
    BY <2>3, PlaceType
  <2>5. Place(Of(old, f), e) < k
    BY <1>2, <2>2, <2>4
  <2> QED
    BY <1>2, <2>1, <2>5 DEF Read
<1> QED
  BY <1>1, <1>2 DEF Read

LEMMA ReadOn ==
  ASSUME NEW entries, IsLog(entries), NEW top, NEW seen, NEW k \in Nat,
         Read(entries, top, seen, k)
  PROVE  Read(entries, top, seen \cup Rows(entries, PageSize, k), k + PageSize)
<1> DEFINE rows == Rows(entries, PageSize, k)
<1>1. \A e : e \in rows <=> e \in entries /\ Place(entries, e) \in k .. (k + PageSize - 1)
  BY DEF Rows, Place, NewerIn
<1>2. PageSize \in Nat \ {0} /\ \A e : Place(entries, e) \in Nat
  BY LogAssumption, PlaceType
<1> HIDE DEF rows
<1>3. ASSUME NEW e \in entries, e.id <= top, Place(entries, e) < k + PageSize
      PROVE  e \in seen \cup rows
  <2>1. CASE Place(entries, e) < k
    BY <1>3, <2>1 DEF Read
  <2>2. CASE ~(Place(entries, e) < k)
    <3>1. Place(entries, e) \in k .. (k + PageSize - 1)
      BY <1>2, <1>3, <2>2
    <3> QED
      BY <1>1, <3>1
  <2> QED
    BY <2>1, <2>2
<1>4. ASSUME NEW e \in entries, e.id <= top, NEW s \in seen \cup rows, s.id < e.id
      PROVE  e \in seen \cup rows
  <2>1. CASE s \in seen
    BY <1>4, <2>1 DEF Read
  <2>2. CASE s \in rows
    <3>1. s \in entries /\ Place(entries, s) \in k .. (k + PageSize - 1)
      BY <1>1, <2>2
    <3>2. Place(entries, e) < Place(entries, s)
      BY <1>4, <3>1, OlderComesLater
    <3>3. Place(entries, e) < k + PageSize
      BY <1>2, <3>1, <3>2
    <3> QED
      BY <1>3, <1>4, <3>3
  <2> QED
    BY <1>4, <2>1, <2>2
<1> QED
  BY <1>3, <1>4 DEF Read, rows

(* What the page shows has been read, or what precedes it.                 *)
Reached == IF shown = NoPage THEN Offset(page) ELSE Offset(page + 1)

WalkInv ==
  walk # NoWalk =>
    /\ walk = [top |-> walk.top, seen |-> walk.seen]
    /\ walk.top \in Nat /\ walk.top <= lastId
    /\ Read(Of(log, filter), walk.top, walk.seen, Reached)

LogInv ==
  /\ IsLog(log) /\ lastId \in Nat /\ \A e \in log : e.id <= lastId
  /\ page \in Nat \ {0}
  /\ DOMAIN setting = Key
  /\ route = "log" => setting["log_max_size"] \in Int
  /\ route # "log" => walk = NoWalk
  /\ WalkInv

LEMMA LogStarts == Init => LogInv
<1> SUFFICES ASSUME Init PROVE LogInv
  OBVIOUS
<1>1. Default["log_max_size"] \in Int
  <2>1. "log_max_size" \in Key /\ Valid("log_max_size", Default["log_max_size"])
    BY SettingsAssumption
  <2> QED
    BY <2>1, SettingsAssumption DEF Valid, Number
<1>2. IsFiniteSet({})
  BY FS_EmptySet
<1> QED
  BY <1>1, <1>2, SettingsAssumption DEF Init, SettingsInit, LogInit, LogInv, IsLog, WalkInv

LEMMA OffsetType ==
  ASSUME NEW p \in Nat \ {0}
  PROVE  /\ Offset(p) \in Nat /\ Offset(p + 1) \in Nat /\ Offset(1) = 0
         /\ Offset(p + 1) = Offset(p) + PageSize
<1>1. PageSize \in Nat \ {0}
  BY LogAssumption
<1>2. Offset(p) = (p - 1) * PageSize /\ Offset(p + 1) = p * PageSize /\ Offset(1) = 0 * PageSize
  BY DEF Offset
<1>3. p * PageSize = (p - 1) * PageSize + PageSize
  BY <1>1
<1>4. (p - 1) * PageSize \in Nat
  BY <1>1
<1> QED
  BY <1>1, <1>2, <1>3, <1>4

(* Whatever is added and trimmed, what was read stays read.                *)
LEMMA WalkGoesOn ==
  ASSUME LogInv, log' = log \/ Follows(log, log'), IsLog(log'), lastId' \in Nat, lastId <= lastId',
         \A e \in log' : e \in log \/ (lastId < e.id /\ e.id <= lastId'),
         UNCHANGED <<filter, page, shown, walk>>
  PROVE  WalkInv' /\ \A e \in log' : e.id <= lastId'
<1>1. Follows(log, log')
  BY DEF Follows, NewerIn
<1>2. \A e \in log' : e.id <= lastId' /\ e.id \in Nat
  BY DEF LogInv, IsLog
<1>3. ASSUME walk # NoWalk PROVE Read(Of(log', filter), walk.top, walk.seen, Reached)
  <2>1. /\ walk.top \in Nat /\ walk.top <= lastId
        /\ Read(Of(log, filter), walk.top, walk.seen, Reached)
    BY <1>3 DEF LogInv, WalkInv
  <2>2. \A e \in log' : e.id <= walk.top => e \in log
    BY <1>2, <2>1 DEF LogInv
  <2>3. Reached \in Nat
    BY OffsetType DEF LogInv, Reached
  <2>4. IsLog(log)
    BY DEF LogInv
  <2> QED
    BY <1>1, <2>1, <2>2, <2>3, <2>4, ReadFollows
<1>4. Reached' = Reached
  BY DEF Reached, Offset
<1> QED
  BY <1>2, <1>3, <1>4 DEF WalkInv, LogInv

LEMMA ReadLess ==
  ASSUME NEW entries, IsLog(entries), NEW top, NEW seen, NEW k \in Nat, NEW j \in Nat,
         Read(entries, top, seen, k), j <= k
  PROVE  Read(entries, top, seen, j)
<1>1. \A e : Place(entries, e) < j => Place(entries, e) < k
  BY PlaceType
<1> QED
  BY <1>1 DEF Read

(* The reader turns a page or an answer shows one: no more is said to be   *)
(* read than what is.                                                      *)
LEMMA WalkReads ==
  ASSUME LogInv, UNCHANGED <<log, lastId, filter>>, page' \in Nat \ {0},
         walk' # NoWalk =>
           /\ walk' = [top |-> walk'.top, seen |-> walk'.seen]
           /\ walk'.top \in Nat /\ walk'.top <= lastId
           /\ \E k \in Nat : Reached' <= k /\ Read(Of(log, filter), walk'.top, walk'.seen, k)
  PROVE  WalkInv'
<1>1. Reached' \in Nat
  BY OffsetType DEF Reached, Offset
<1>2. IsLog(Of(log, filter))
  BY FS_Subset DEF LogInv, IsLog, Of
<1>3. ASSUME walk' # NoWalk PROVE Read(Of(log, filter), walk'.top, walk'.seen, Reached')
  <2>1. PICK k \in Nat : Reached' <= k /\ Read(Of(log, filter), walk'.top, walk'.seen, k)
    BY <1>3
  <2> QED
    BY <1>1, <1>2, <2>1, ReadLess
<1> QED
  BY <1>3 DEF WalkInv

LEMMA LogKeeps ==
  ASSUME NEW n PROVE Trimmed(log, n) \subseteq log
BY DEF Trimmed

(* A change of settings, off the log page.                                 *)
LEMMA SettingsStep ==
  ASSUME LogInv, OnSettings
  PROVE  log' \subseteq log /\ DOMAIN setting' = Key
<1>1. \A k, v : Put(k, v) => log' \subseteq log /\ DOMAIN setting' = DOMAIN setting
  BY LogKeeps DEF Put
<1>2. \A values : ImportSettings(values) => log' = log /\ DOMAIN setting' = Key
  BY DEF ImportSettings
<1>3. UNCHANGED settingsVars => log' = log /\ setting' = setting
  BY DEF settingsVars
<1>4. FormNext => \/ UNCHANGED settingsVars
                  \/ \E k, v : Put(k, v)
                  \/ \E values : ImportSettings(values)
  BY DEF FormNext, FetchAnswers, FetchFails, Refetch, Reload, TypeIn, SaveChanges,
         ResetToDefaults, SendNext, OtherClient
<1> QED
  BY <1>1, <1>2, <1>3, <1>4 DEF OnSettings, LogInv

LEMMA Writes ==
  ASSUME LogInv, route = "log", NEW status, WriteLog(status)
  PROVE  WalkInv' /\ IsLog(log') /\ lastId' \in Nat /\ \A e \in log' : e.id <= lastId'
<1> DEFINE e == [id |-> lastId + 1, status |-> status]
           all == log \cup {e}
           n == setting["log_max_size"]
<1>1. /\ lastId \in Nat /\ lastId' = lastId + 1 /\ log' = Trimmed(all, n) /\ n \in Int
      /\ UNCHANGED <<filter, page, shown, walk>>
  BY DEF LogInv, WriteLog, Insert
<1>2. IsLog(all)
  <2>1. IsFiniteSet(log) /\ \A f \in log : f.id \in Nat
    BY DEF LogInv, IsLog
  <2>2. IsFiniteSet(all)
    <3> HIDE DEF e
    <3> QED
      BY <2>1, FS_AddElement
  <2>3. e.id \in Nat
    BY <1>1
  <2>4. \A f \in all : f \in log \/ f = e
    OBVIOUS
  <2> HIDE DEF e, all
  <2> QED
    BY <2>1, <2>2, <2>3, <2>4 DEF IsLog
<1>3. log \subseteq all /\ e.id = lastId + 1 /\ \A f \in all : f \in log \/ f = e
  OBVIOUS
<1> HIDE DEF e, all, n
<1>4. log' \subseteq all /\ IsLog(log') /\ Follows(log, log')
  BY <1>1, <1>2, <1>3, TrimFollows
<1>5. \A f \in log' : f \in log \/ (lastId < f.id /\ f.id <= lastId')
  BY <1>1, <1>3, <1>4
<1> QED
  BY <1>1, <1>4, <1>5, WalkGoesOn

LEMMA Sizes ==
  ASSUME LogInv, route = "log", NEW n \in LogSizes, SetLogSize(n)
  PROVE  /\ WalkInv' /\ IsLog(log') /\ \A e \in log' : e.id <= lastId'
         /\ DOMAIN setting' = Key /\ setting'["log_max_size"] \in Int
<1>0. /\ n \in Int /\ Number(n) = n /\ "log_max_size" \in Key
      /\ DOMAIN setting = Key /\ setting["log_max_size"] \in Int /\ IsLog(log) /\ lastId \in Nat
  BY LogAssumption, SettingsAssumption DEF LogInv, Number
<1>1. log' = log \/ log' = Trimmed(log, n)
  BY <1>0 DEF SetLogSize, Put, ImportSettings
<1>2. DOMAIN setting' = Key /\ setting'["log_max_size"] \in Int
  BY <1>0 DEF SetLogSize, Put, ImportSettings
<1>3. log' \subseteq log /\ IsLog(log') /\ (log' = log \/ Follows(log, log'))
  BY <1>0, <1>1, TrimFollows
<1>4. UNCHANGED <<filter, page, shown, walk, lastId>>
  BY DEF SetLogSize, logVars
<1>5. \A e \in log' : e \in log \/ (lastId < e.id /\ e.id <= lastId')
  BY <1>3
<1> QED
  BY <1>0, <1>2, <1>3, <1>4, <1>5, WalkGoesOn

LEMMA Arrives ==
  ASSUME LogInv, PageArrives PROVE WalkInv'
<1> DEFINE entries == Of(log, filter)
           rows == Rows(entries, PageSize, Offset(page))
<1>1. entries = Matching(filter)
  BY DEF Of, Matching
<1>2. IsLog(entries)
  BY FS_Subset DEF LogInv, IsLog, Of
<1>3. page \in Nat \ {0} /\ lastId \in Nat
  BY DEF LogInv
<1>4. /\ walk' = IF page = 1 THEN [top |-> lastId, seen |-> rows]
                 ELSE IF walk = NoWalk THEN NoWalk
                 ELSE [walk EXCEPT !.seen = @ \cup rows]
      /\ UNCHANGED <<log, lastId, filter, page>>
  BY <1>1 DEF PageArrives, settingsVars
<1>5. /\ Offset(page) \in Nat /\ Offset(page + 1) = Offset(page) + PageSize
      /\ Offset(page + 1) \in Nat /\ PageSize \in Nat
  BY <1>3, OffsetType, LogAssumption
<1>6. Reached' <= Offset(page + 1)
  BY <1>4, <1>5 DEF Reached, Offset
<1>7. CASE page = 1
  <2>1. Offset(page) = 0
    BY <1>3, <1>7, OffsetType
  <2>2. Read(entries, lastId, {}, 0)
    BY <1>2, PlaceType DEF Read
  <2>3. Read(entries, lastId, rows, Offset(page + 1))
    <3> HIDE DEF entries
    <3> QED
      BY <1>2, <1>5, <2>1, <2>2, ReadOn, {} \cup rows = rows
  <2>4. walk' = [top |-> lastId, seen |-> rows]
    BY <1>4, <1>7
  <2>5. walk'.top = lastId /\ walk'.seen = rows /\ walk' = [top |-> walk'.top, seen |-> walk'.seen]
    BY <2>4
  <2> HIDE DEF rows
  <2> QED
    BY <1>3, <1>4, <1>5, <1>6, <2>3, <2>5, WalkReads
<1>8. CASE page # 1 /\ walk # NoWalk
  <2>1. /\ walk = [top |-> walk.top, seen |-> walk.seen]
        /\ walk.top \in Nat /\ walk.top <= lastId
        /\ Read(entries, walk.top, walk.seen, Reached)
    BY <1>8 DEF LogInv, WalkInv
  <2>2. Reached \in Nat /\ Offset(page) <= Reached
    BY <1>5 DEF Reached
  <2>3. Read(entries, walk.top, walk.seen, Offset(page))
    <3> HIDE DEF entries
    <3> QED
      BY <1>2, <1>5, <2>1, <2>2, ReadLess
  <2>4. Read(entries, walk.top, walk.seen \cup rows, Offset(page + 1))
    <3> HIDE DEF entries
    <3> QED
      BY <1>2, <1>5, <2>3, ReadOn
  <2>5. walk' = [walk EXCEPT !.seen = walk.seen \cup rows]
    BY <1>4, <1>8
  <2> HIDE DEF rows, entries
  <2>6. walk'.top = walk.top /\ walk'.seen = walk.seen \cup rows
        /\ walk' = [top |-> walk'.top, seen |-> walk'.seen]
    BY <2>1, <2>5
  <2> QED
    BY <1>3, <1>4, <1>5, <1>6, <2>1, <2>4, <2>6, WalkReads DEF entries
<1>9. CASE page # 1 /\ walk = NoWalk
  BY <1>4, <1>9 DEF WalkInv
<1> QED
  BY <1>7, <1>8, <1>9

LEMMA Turns ==
  ASSUME LogInv, NextPage \/ PreviousPage
  PROVE  WalkInv' /\ page' \in Nat \ {0}
<1>0. page \in Nat \ {0} /\ PageSize \in Nat /\ UNCHANGED <<log, lastId, filter, walk>> /\ shown' = NoPage
  BY LogAssumption DEF LogInv, NextPage, PreviousPage, Turn, settingsVars
<1>1. page' \in Nat \ {0} /\ Offset(page') <= Reached
  <2>1. CASE NextPage
    BY <1>0, <2>1, OffsetType DEF NextPage, Turn, Reached
  <2>2. CASE PreviousPage
    <3>1. page' = page - 1 /\ page' \in Nat \ {0} /\ page' + 1 = page
      BY <1>0, <2>2 DEF PreviousPage, Turn
    <3>2. Offset(page) = Offset(page') + PageSize /\ Offset(page') \in Nat
      BY <3>1, OffsetType
    <3>3. Offset(page + 1) = Offset(page) + PageSize
      BY <1>0, OffsetType
    <3> QED
      BY <1>0, <3>1, <3>2, <3>3 DEF Reached
  <2> QED
    BY <2>1, <2>2
<1>2. Reached' = Offset(page')
  BY <1>0 DEF Reached, Offset
<1>3. Reached \in Nat
  BY <1>0, OffsetType DEF Reached
<1>4. walk # NoWalk => /\ walk = [top |-> walk.top, seen |-> walk.seen]
                       /\ walk.top \in Nat /\ walk.top <= lastId
                       /\ Read(Of(log, filter), walk.top, walk.seen, Reached)
  BY DEF LogInv, WalkInv
<1> QED
  BY <1>0, <1>1, <1>2, <1>3, <1>4, WalkReads

LEMMA LogSteps == LogInv /\ [Next]_vars => LogInv'
<1> SUFFICES ASSUME LogInv, [Next]_vars PROVE LogInv'
  OBVIOUS
<1>1. CASE OnEditor \/ UNCHANGED vars
  BY <1>1 DEF OnEditor, vars, settingsVars, logVars, LogInv, WalkInv, Reached, Offset
<1>2. CASE OnSettings
  <2>1. route = "settings" /\ UNCHANGED <<route, logVars>>
    BY <1>2 DEF OnSettings
  <2>2. IsLog(log')
    BY <1>2, SettingsStep, FS_Subset DEF LogInv, IsLog
  <2> QED
    BY <1>2, <2>1, <2>2, SettingsStep DEF logVars, LogInv, WalkInv
<1>3. CASE OnLog
  <2>0. route = "log" /\ route' = route
    BY <1>3 DEF OnLog
  <2>1. ASSUME NEW status, WriteLog(status) PROVE LogInv'
    BY <2>0, <2>1, Writes DEF WriteLog, LogInv
  <2>2. ASSUME NEW n \in LogSizes, SetLogSize(n) PROVE LogInv'
    BY <2>0, <2>2, Sizes DEF SetLogSize, logVars, LogInv
  <2>3. CASE PageArrives
    BY <2>0, <2>3, Arrives DEF PageArrives, settingsVars, LogInv
  <2>4. CASE NextPage \/ PreviousPage
    BY <2>0, <2>4, Turns DEF NextPage, PreviousPage, Turn, settingsVars, LogInv
  <2>5. ASSUME NEW f, ApplyFilters(f) PROVE LogInv'
    BY <2>0, <2>5 DEF ApplyFilters, settingsVars, LogInv, WalkInv
  <2> QED
    BY <1>3, <2>1, <2>2, <2>3, <2>4, <2>5 DEF OnLog, LogNext
<1> QED
  BY <1>1, <1>2, <1>3 DEF Next

(* Whoever reads on through the pages misses no entry that is still there. *)
THEOREM ConsolePaging == Spec => []PagingMissesNothing
<1>1. LogInv => PagingMissesNothing
  <2>1. Matching(filter) = Of(log, filter)
    BY DEF Matching, Of
  <2> QED
    BY <2>1 DEF LogInv, WalkInv, Read, PagingMissesNothing
<1> QED
  BY <1>1, LogStarts, LogSteps, PTL DEF Spec
=============================================================================
