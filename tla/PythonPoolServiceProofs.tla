----------------------- MODULE PythonPoolServiceProofs ----------------------
(***************************************************************************)
(* How PythonPool serves its calls: with never fewer subprocesses than the *)
(* target while it is open, and never more by its own doing; and in the    *)
(* order in which they asked, as WaitLine does.                            *)
(***************************************************************************)
EXTENDS PythonPoolProofs

(* How many subprocesses the pool has.  A worker whose crash close has     *)
(* handled no longer counts: its replacement is there already.             *)
Live == (idle \cup busy) \ crashHandled

Counted ==
  /\ IsFiniteSet(idle) /\ IsFiniteSet(busy) /\ IsFiniteSet(Live) /\ Live \subseteq Worker
  /\ Cardinality(idle) \in Nat /\ Cardinality(busy) \in Nat /\ target \in Nat
  /\ LiveSize \in Nat /\ LiveSize = Cardinality(Live)
  /\ idle \cap busy = {} /\ idle \cap crashHandled = {} /\ crashHandled \subseteq busy

(* LiveSize is the number of these subprocesses: idle, busy and handled    *)
(* workers do not overlap where it would count.                            *)
LEMMA LiveIsCounted == PoolInv => Counted
<1> SUFFICES ASSUME PoolInv PROVE Counted
  OBVIOUS
<1>1. /\ idle \in SUBSET Worker /\ busy \in SUBSET Worker /\ Live \in SUBSET Worker
      /\ busy \ crashHandled \in SUBSET Worker /\ target \in Nat
  BY DEF PoolInv, TypeOK, Live
<1>2. /\ IsFiniteSet(idle) /\ IsFiniteSet(busy) /\ IsFiniteSet(Live)
      /\ IsFiniteSet(busy \ crashHandled)
  BY <1>1, FS_Subset, Parameters
<1>3. /\ Cardinality(idle) \in Nat /\ Cardinality(busy) \in Nat
      /\ Cardinality(busy \ crashHandled) \in Nat
  BY <1>2, FS_CardinalityType
<1>4. idle \cap busy = {}
  BY DEF PoolInv, Held
<1>5. idle \cap crashHandled = {}
  BY <1>4 DEF PoolInv, Handled
<1>6. Live = idle \cup (busy \ crashHandled) /\ idle \cap (busy \ crashHandled) = {}
  BY <1>4, <1>5 DEF Live
<1>7. Cardinality(Live) = Cardinality(idle) + Cardinality(busy \ crashHandled)
  <2> DEFINE others == busy \ crashHandled
  <2> HIDE DEF others
  <2>1. Cardinality(idle \cup others) =
          Cardinality(idle) + Cardinality(others) - Cardinality(idle \cap others)
    BY <1>2, FS_Union DEF others
  <2>2. idle \cap others = {} /\ Live = idle \cup others
    BY <1>6 DEF others
  <2>3. Cardinality(idle \cap others) = 0
    BY <2>2, FS_EmptySet
  <2>4. Cardinality(idle) \in Nat /\ Cardinality(others) \in Nat
    BY <1>3 DEF others
  <2>5. Cardinality(idle \cup others) = Cardinality(idle) + Cardinality(others)
    BY <2>1, <2>3, <2>4
  <2> QED
    BY <2>2, <2>5 DEF others
<1>8. LiveSize = Cardinality(Live) /\ LiveSize \in Nat
  BY <1>3, <1>7 DEF LiveSize
<1>9. crashHandled \subseteq busy
  BY DEF PoolInv, Handled
<1> QED
  BY <1>1, <1>2, <1>3, <1>4, <1>5, <1>8, <1>9 DEF Counted

(* The same of the next state.                                             *)
LEMMA LiveIsCountedNext == PoolInv' => Counted'
BY LiveIsCounted, PTL

(* What no step may do: fall below the target while the pool is open, or   *)
(* grow past it.                                                           *)
KeepsSize ==
  /\ CapacityKept => CapacityKept'
  /\ LiveSize' > LiveSize => LiveSize' <= target'

(* A step that leaves the subprocesses and the target alone keeps the      *)
(* size.                                                                   *)
LEMMA SameLive ==
  ASSUME PoolInv, PoolInv', Live' = Live, target' = target, phase' = "open" => phase = "open"
  PROVE  KeepsSize
<1>1. LiveSize' = LiveSize /\ LiveSize \in Nat
  BY LiveIsCounted, LiveIsCountedNext DEF Counted
<1>2. CapacityKept <=> (phase = "open" => LiveSize >= target)
  BY DEF CapacityKept, LiveSize
<1>3. CapacityKept' <=> (phase' = "open" => LiveSize' >= target')
  BY DEF CapacityKept, LiveSize
<1> QED
  BY <1>1, <1>2, <1>3 DEF KeepsSize

(* The same, when the number of subprocesses changes or the target does.   *)
LEMMA OtherLive ==
  ASSUME PoolInv, PoolInv',
         CapacityKept /\ phase' = "open" => Cardinality(Live') >= target',
         Cardinality(Live') > Cardinality(Live) => Cardinality(Live') <= target'
  PROVE  KeepsSize
<1>1. LiveSize = Cardinality(Live) /\ LiveSize' = Cardinality(Live')
  BY LiveIsCounted, LiveIsCountedNext DEF Counted
<1>2. CapacityKept' <=> (phase' = "open" => LiveSize' >= target')
  BY DEF CapacityKept, LiveSize
<1> QED
  BY <1>1, <1>2 DEF KeepsSize

(* handleWorkerCrash: the effective size is the number of subprocesses     *)
(* without the one that closed, and a replacement is started only below    *)
(* the target.                                                             *)
LEMMA CloseKeepsSize ==
  ASSUME PoolInv, PoolInv', NEW w \in Worker, Close(w) PROVE KeepsSize
<1>1. Counted /\ crashHandled = {} /\ UNCHANGED <<target, phase>>
  BY LiveIsCounted, QuietMeansReleased DEF Close, closing
<1>2. /\ IsFiniteSet(Live \ {w}) /\ Cardinality(Live \ {w}) \in Nat
      /\ Cardinality(Live) - 1 <= Cardinality(Live \ {w})
      /\ Cardinality(Live \ {w}) <= Cardinality(Live)
      /\ Cardinality(Live) \in Nat
  <2>1. /\ IsFiniteSet(Live \ {w})
        /\ Cardinality(Live \ {w}) =
             IF w \in Live THEN Cardinality(Live) - 1 ELSE Cardinality(Live)
    BY <1>1, FS_RemoveElement DEF Counted
  <2>2. Cardinality(Live) \in Nat /\ Cardinality(Live \ {w}) \in Nat
    BY <1>1, <2>1, FS_CardinalityType DEF Counted
  <2> QED
    BY <2>1, <2>2
<1>3. EffectiveSize(w) = Cardinality(Live \ {w})
  <2>1. Cardinality(Live) = Cardinality(idle) + Cardinality(busy)
    BY <1>1 DEF Counted, LiveSize
  <2>2. CASE w \in busy
    <3>1. w \in Live
      BY <1>1, <2>2 DEF Live
    <3> QED
      BY <1>1, <2>1, <2>2, <3>1, FS_RemoveElement DEF EffectiveSize, Size, Counted
  <2>3. CASE w \notin busy
    <3>1. w \in Live <=> w \in idle
      BY <1>1, <2>3 DEF Live
    <3>2. Cardinality(idle \ {w}) =
            IF w \in idle THEN Cardinality(idle) - 1 ELSE Cardinality(idle)
      BY <1>1, FS_RemoveElement DEF Counted
    <3>3. Cardinality(Live \ {w}) =
            IF w \in Live THEN Cardinality(Live) - 1 ELSE Cardinality(Live)
      BY <1>1, FS_RemoveElement DEF Counted
    <3> QED
      BY <1>1, <2>1, <2>3, <3>1, <3>2, <3>3 DEF EffectiveSize, Counted
  <2> QED
    BY <2>2, <2>3
<1>4. CASE UNCHANGED lists
  BY <1>1, <1>4, SameLive DEF lists, Live
<1>5. ASSUME Replace(w), crashHandled' = crashHandled \cup ({w} \cap busy)
      PROVE  KeepsSize
  <2>1. ASSUME NEW new \in FreeWorkers \ {w}, EffectiveSize(w) < target,
               Serve(new, idle \ {w}, busy, Rejected(w))
        PROVE  KeepsSize
    <3>1. new \notin idle \cup busy /\ new # w
      BY <2>1, FreeIsFree
    <3>2. idle' \cup busy' = (idle \ {w}) \cup busy \cup {new}
      BY <2>1 DEF Serve
    <3>3. Live' = (Live \ {w}) \cup {new} /\ new \notin Live \ {w}
      BY <1>1, <1>5, <3>1, <3>2 DEF Live, Counted
    <3>4. Cardinality(Live') = Cardinality(Live \ {w}) + 1
      BY <1>2, <3>3, FS_AddElement
    <3>5. CapacityKept /\ phase' = "open" => Cardinality(Live) >= target
      BY <1>1 DEF CapacityKept, Counted, LiveSize
    <3> QED
      BY <1>1, <1>2, <1>3, <2>1, <3>4, <3>5, OtherLive DEF Counted
  <2>2. ASSUME phase # "open" \/ EffectiveSize(w) >= target, idle' = idle \ {w},
               UNCHANGED busy
        PROVE  KeepsSize
    <3>1. Live' = Live \ {w}
      BY <1>1, <1>5, <2>2 DEF Live, Counted
    <3> QED
      BY <1>1, <1>2, <1>3, <2>2, <3>1, OtherLive DEF Counted
  <2> QED
    BY <1>5, <2>1, <2>2 DEF Replace
<1> QED
  BY <1>4, <1>5 DEF Close

(* release: the one handled crash that may still be counted is why a       *)
(* surplus worker may go only above the target.                            *)
LEMMA SettleKeepsSize ==
  ASSUME PoolInv, PoolInv', NEW c \in Call, Settle(c) PROVE KeepsSize
<1> DEFINE w == call[c].worker
           calls == [call EXCEPT ![c] = [at |-> Outcome(c), worker |-> None]]
<1>1. Counted /\ UNCHANGED <<target, phase>> /\ Release(w, calls)
  BY LiveIsCounted DEF Settle, closing
<1>2. w \in busy \ idle /\ w \in Worker
  BY LetGo DEF Settle
<1>3. /\ \A v \in crashHandled : v \in busy
      /\ \A u, v \in crashHandled : u = v
  BY DEF PoolInv, Handled
<1> HIDE DEF w, calls
<1>4. ASSUME ReleaseCrashed(w, calls) PROVE KeepsSize
  <2>1. Live' = Live
    BY <1>1, <1>2, <1>4 DEF ReleaseCrashed, Live
  <2> QED
    BY <1>1, <2>1, SameLive
<1>5. ASSUME ReleaseSurplus(w, calls) PROVE KeepsSize
  <2>1. Live' = Live \ {w} /\ w \in Live
    BY <1>1, <1>2, <1>5 DEF ReleaseSurplus, Live
  <2>2. IsFiniteSet(Live') /\ Cardinality(Live') = Cardinality(Live) - 1
    BY <1>1, <2>1, FS_RemoveElement DEF Counted
  <2>3. Cardinality(busy \ {w}) = Cardinality(busy) - 1
    BY <1>1, <1>2, FS_RemoveElement DEF Counted
  <2>4. Remaining(w) > target /\ Remaining(w) = Cardinality(idle) + Cardinality(busy) - 1
    BY <1>1, <1>5, <2>3 DEF ReleaseSurplus, Remaining, Counted
  <2>5. Cardinality(Live) \in Nat /\ Cardinality(Live) >= Cardinality(idle) + Cardinality(busy) - 1
    <3>1. CASE crashHandled = {}
      <4>1. Cardinality(busy \ crashHandled) = Cardinality(busy)
        BY <3>1
      <4> QED
        BY <1>1, <4>1 DEF LiveSize, Counted
    <3>2. ASSUME NEW v \in crashHandled
          PROVE  Cardinality(Live) >= Cardinality(idle) + Cardinality(busy) - 1
      <4>1. busy \ crashHandled = busy \ {v} /\ v \in busy
        BY <1>3, <3>2
      <4>2. Cardinality(busy \ {v}) = Cardinality(busy) - 1
        BY <1>1, <4>1, FS_RemoveElement DEF Counted
      <4> QED
        BY <1>1, <4>1, <4>2 DEF LiveSize, Counted
    <3> QED
      BY <1>1, <3>1, <3>2 DEF Counted
  <2> QED
    BY <1>1, <2>2, <2>4, <2>5, OtherLive DEF Counted
<1>6. ASSUME w \notin crashHandled, NEW new \in FreeWorkers,
             Serve(new, idle, busy \ {w}, calls), UNCHANGED crashHandled
      PROVE  KeepsSize
  <2>1. new \notin idle \cup busy /\ new \notin crashHandled
    BY <1>6, FreeIsFree
  <2>2. idle' \cup busy' = idle \cup (busy \ {w}) \cup {new}
    BY <1>6 DEF Serve
  <2>3. /\ Live' = (Live \ {w}) \cup {new} /\ new \notin Live \ {w} /\ w \in Live
    BY <1>2, <1>6, <2>1, <2>2 DEF Live
  <2>4. IsFiniteSet(Live \ {w}) /\ Cardinality(Live \ {w}) = Cardinality(Live) - 1
    BY <1>1, <2>3, FS_RemoveElement DEF Counted
  <2>5. Cardinality(Live') = Cardinality(Live \ {w}) + 1
    BY <2>3, <2>4, FS_AddElement
  <2>6. CapacityKept /\ phase' = "open" => Cardinality(Live) >= target
    BY <1>1 DEF CapacityKept, Counted, LiveSize
  <2> QED
    BY <1>1, <2>4, <2>5, <2>6, OtherLive DEF Counted
<1>7. ASSUME ReleaseKept(w, calls) PROVE KeepsSize
  <2>1. idle' \cup busy' = idle \cup (busy \ {w}) \cup {w}
    BY <1>7 DEF ReleaseKept, Serve
  <2>2. Live' = Live
    BY <1>2, <1>7, <2>1 DEF ReleaseKept, Live
  <2> QED
    BY <1>1, <2>2, SameLive
<1> QED
  BY <1>1, <1>4, <1>5, <1>6, <1>7 DEF Release, ReleaseRecycled

(* resize reaches its size when it grows and stays above it when it        *)
(* shrinks.                                                                *)
LEMMA ResizeKeepsSize ==
  ASSUME PoolInv, PoolInv', NEW size \in Targets, Resize(size) PROVE KeepsSize
<1>1. Counted /\ crashHandled = {} /\ crashHandled' = {} /\ target' = size /\ size \in Nat
  BY LiveIsCounted, QuietMeansReleased, Parameters DEF Resize
<1>2. Live = idle \cup busy /\ Live' = idle' \cup busy' /\ Size = Cardinality(Live) /\ Size \in Nat
  <2>1. Cardinality(busy \ crashHandled) = Cardinality(busy)
    BY <1>1
  <2> QED
    BY <1>1, <2>1 DEF Live, Size, Counted, LiveSize
<1>3. ASSUME NEW new \in SUBSET FreeWorkers, size > Size, Cardinality(new) = size - Size,
             Grow(new)
      PROVE  KeepsSize
  <2>1. idle' \cup busy' = idle \cup busy \cup new
    BY <1>3 DEF Grow
  <2>2. new \subseteq Worker /\ IsFiniteSet(new) /\ Live \cap new = {} /\ Live' = Live \cup new
    <3>1. new \subseteq Worker /\ \A w \in new : w \notin idle \cup busy
      BY <1>3, FreeIsFree
    <3> QED
      BY <1>2, <2>1, <3>1, FS_Subset, Parameters
  <2>3. Cardinality(Live \cap new) = 0
    BY <2>2, FS_EmptySet
  <2>4. Cardinality(Live \cup new) =
          Cardinality(Live) + Cardinality(new) - Cardinality(Live \cap new)
    BY <1>1, <2>2, FS_Union DEF Counted
  <2>5. Cardinality(Live') = size
    <3>1. Cardinality(Live') = Cardinality(Live \cup new)
      BY <2>2
    <3> QED
      BY <1>1, <1>2, <1>3, <2>3, <2>4, <3>1
  <2> QED
    BY <1>1, <2>5, OtherLive
<1>4. ASSUME NEW gone \in SUBSET idle, size < Size, Cardinality(gone) = Surplus(size), Shrink(gone)
      PROVE  KeepsSize
  <2>1. IsFiniteSet(gone) /\ Cardinality(gone) \in Nat
    BY <1>1, FS_Subset, FS_CardinalityType DEF Counted
  <2>2. Cardinality(gone) <= Size - size
    BY <1>1, <1>2, <1>4 DEF Surplus, Counted
  <2>3. Live' \cap gone = {} /\ Live = Live' \cup gone /\ Live' \subseteq Live
    BY <1>1, <1>2, <1>4 DEF Shrink, Counted
  <2>4. IsFiniteSet(Live') /\ Cardinality(Live') \in Nat /\ Cardinality(Live') <= Cardinality(Live)
    BY <1>1, <2>3, FS_Subset, FS_CardinalityType DEF Counted
  <2>5. Cardinality(Live' \cap gone) = 0
    BY <2>3, FS_EmptySet
  <2>6. Cardinality(Live' \cup gone) =
          Cardinality(Live') + Cardinality(gone) - Cardinality(Live' \cap gone)
    BY <2>1, <2>4, FS_Union
  <2>7. Cardinality(Live) = Cardinality(Live') + Cardinality(gone)
    BY <2>1, <2>3, <2>4, <2>5, <2>6
  <2> QED
    BY <1>1, <1>2, <2>1, <2>2, <2>4, <2>7, OtherLive
<1>5. ASSUME size = Size, UNCHANGED <<idle, busy>> PROVE KeepsSize
  <2>1. Live' = Live
    BY <1>2, <1>5
  <2> QED
    BY <1>1, <1>2, <1>5, <2>1, OtherLive
<1> QED
  BY <1>3, <1>4, <1>5 DEF Resize, Grow, Shrink

(* Every step keeps the size.                                              *)
LEMMA StepKeepsSize == PoolInv /\ PoolInv' /\ [Next]_vars => KeepsSize
<1> SUFFICES ASSUME PoolInv, PoolInv', [Next]_vars PROVE KeepsSize
  OBVIOUS
<1>1. ASSUME NEW c \in Call, Execute(c) PROVE KeepsSize
  <2>1. /\ UNCHANGED <<target, phase, crashHandled>>
        /\ idle' \cup busy' = idle \cup busy
    BY <1>1 DEF Execute, Refuse, Acquire, closing
  <2> QED
    BY <2>1, SameLive DEF Live
<1>2. ASSUME UNCHANGED <<idle, busy, crashHandled, target>>,
             phase' = phase \/ phase' = "closed"
      PROVE  KeepsSize
  BY <1>2, SameLive DEF Live
<1>3. ASSUME NEW c \in Call, Start(c) \/ Ends(c) PROVE KeepsSize
  BY <1>2, <1>3 DEF Start, Ends, Respond, Timeout, lists, closing
<1>4. ASSUME NEW c \in Call, Settle(c) PROVE KeepsSize
  BY <1>4, SettleKeepsSize
<1>5. ASSUME NEW i \in Instance, KillWorker(i) PROVE KeepsSize
  BY <1>2, <1>5 DEF KillWorker, lists, closing
<1>6. ASSUME NEW w \in Worker, ProcessError(w) PROVE KeepsSize
  BY <1>2, <1>6 DEF ProcessError, lists, closing
<1>7. ASSUME NEW w \in Worker, Close(w) PROVE KeepsSize
  BY <1>7, CloseKeepsSize
<1>8. ASSUME NEW size \in Targets, Resize(size) PROVE KeepsSize
  BY <1>8, ResizeKeepsSize
<1>9. CASE Shutdown
  <2>1. Counted /\ Live' \subseteq Live /\ phase' # "open" /\ target' = target
    BY <1>9, LiveIsCounted DEF Shutdown, Live
  <2>2. IsFiniteSet(Live') /\ Cardinality(Live') <= Cardinality(Live)
    BY <2>1, FS_Subset DEF Counted
  <2>3. Cardinality(Live') \in Nat /\ Cardinality(Live) \in Nat
    BY <2>1, <2>2, FS_CardinalityType DEF Counted
  <2> QED
    BY <2>1, <2>2, <2>3, OtherLive
<1>10. CASE ShutdownEnds
  BY <1>2, <1>10 DEF ShutdownEnds, lists
<1>11. CASE UNCHANGED vars
  BY <1>2, <1>11 DEF vars, lists, closing
<1> QED
  BY <1>1, <1>3, <1>4, <1>5, <1>6, <1>7, <1>8, <1>9, <1>10, <1>11 DEF Next, Resume

(* While the pool is open, neither crashes nor kills, timeouts, recycling  *)
(* or resizing leave it with fewer subprocesses than its target.           *)
THEOREM CapacityIsKept == Spec => []CapacityKept
<1>1. Init => CapacityKept
  <2> SUFFICES ASSUME Init PROVE Cardinality(idle) + Cardinality(busy \ crashHandled) >= target
    BY DEF CapacityKept
  <2>1. Cardinality(busy \ crashHandled) = 0 /\ Cardinality(idle) = target
    BY FS_EmptySet DEF Init
  <2>2. target \in Nat
    BY Parameters DEF Init
  <2> QED
    BY <2>1, <2>2
<1>2. KeepsSize /\ CapacityKept => CapacityKept'
  BY DEF KeepsSize
<1> QED
  BY <1>1, <1>2, InitHolds, NextKeeps, StepKeepsSize, PTL DEF Spec

(* No step, a replacement after a crash least of all, brings the pool past *)
(* its target.                                                             *)
THEOREM GrowthIsBounded == Spec => GrowthOnlyToTarget
<1>1. KeepsSize => [LiveSize' > LiveSize => LiveSize' <= target']_vars
  BY DEF KeepsSize
<1> QED
  BY <1>1, InitHolds, NextKeeps, StepKeepsSize, PTL DEF Spec, GrowthOnlyToTarget

-----------------------------------------------------------------------------
(* The pool as a line of waiters.  The calls in done leave, the first n of *)
(* the line get a worker, and no other call changes sides.                 *)
Line(s) == {s[j] : j \in DOMAIN s}
Over == {"returned", "failed", "refused"}
Gone == CallsAt(Over) \cup (CallsAt({"waiting"}) \ Line(waitQueue))

Service(n, done) ==
  /\ n \in 0..Len(waitQueue) /\ done \subseteq Holding
  /\ waitQueue' = SubSeq(waitQueue, n + 1, Len(waitQueue))
  /\ \A c \in done : call'[c].at \in Over
  /\ \A j \in 1..n : call'[waitQueue[j]].at = "granted"
  /\ \A c \in Call : c \in done \/ (\E j \in 1..n : waitQueue[j] = c)
                       \/ call'[c].at = call[c].at
                       \/ (call[c].at \in HoldingAt /\ call'[c].at \in HoldingAt)

(* A service of the pool is a service of the line.                         *)
LEMMA ServiceIsServe ==
  ASSUME PoolInv, NEW n, NEW done, Service(n, done)
  PROVE  FairQueue!Next
<1>1. waitQueue \in Seq(Call) /\ n \in Nat /\ n <= Len(waitQueue) /\ done \subseteq Holding
  BY DEF PoolInv, TypeOK, Service
<1>2. /\ Len(waitQueue') = Len(waitQueue) - n /\ DOMAIN waitQueue' = 1..Len(waitQueue')
      /\ \A j \in 1..Len(waitQueue') :
           waitQueue'[j] = waitQueue[j + n] /\ j + n \in 1..Len(waitQueue)
  BY <1>1 DEF Service
<1>3. DOMAIN SubSeq(waitQueue, 1, n) = 1..n
      /\ \A j \in 1..n : SubSeq(waitQueue, 1, n)[j] = waitQueue[j]
  BY <1>1
<1>4. \A j \in 1..n : waitQueue[j] \in Call /\ call[waitQueue[j]].at = "waiting"
  BY <1>1 DEF PoolInv, Lined
<1>5. Holding = {c \in Call : call[c].at \in HoldingAt}
      /\ Holding' = {c \in Call : call'[c].at \in HoldingAt}
  BY DEF Holding, CallsAt, HoldingAt
<1>6. Holding' = (Holding \ done) \cup Line(SubSeq(waitQueue, 1, n))
  <2>1. \A c : c \in Line(SubSeq(waitQueue, 1, n)) <=> \E j \in 1..n : waitQueue[j] = c
    BY <1>3 DEF Line
  <2>2. ASSUME NEW c \in Call
        PROVE  c \in Holding' <=> c \in (Holding \ done) \cup Line(SubSeq(waitQueue, 1, n))
    <3>1. CASE c \in done
      <4>1. call'[c].at \in Over /\ c \in Holding
        BY <1>1, <3>1 DEF Service
      <4>2. \A j \in 1..n : waitQueue[j] # c
        BY <1>4, <1>5, <4>1 DEF HoldingAt
      <4> QED
        BY <1>5, <2>1, <3>1, <4>1, <4>2 DEF Over, HoldingAt
    <3>2. CASE \E j \in 1..n : waitQueue[j] = c
      BY <1>5, <2>1, <3>2 DEF Service, HoldingAt
    <3>3. CASE c \notin done /\ ~\E j \in 1..n : waitQueue[j] = c
      BY <1>5, <2>1, <3>3 DEF Service
    <3> QED
      BY <3>1, <3>2, <3>3
  <2>3. /\ Holding \subseteq Call /\ Holding' \subseteq Call
        /\ Line(SubSeq(waitQueue, 1, n)) \subseteq Call
    BY <1>4, <1>5, <2>1
  <2> QED
    BY <2>2, <2>3
<1>7. Gone' = Gone \cup done
  <2>1. \A c : c \in Line(waitQueue)' <=> \E j \in 1..Len(waitQueue) : j > n /\ waitQueue[j] = c
    <3>1. \A c : c \in Line(waitQueue)' <=> \E i \in 1..Len(waitQueue') : waitQueue[i + n] = c
      BY <1>2 DEF Line
    <3>2. \A j \in 1..Len(waitQueue) : j > n => j - n \in 1..Len(waitQueue') /\ (j - n) + n = j
      BY <1>1, <1>2
    <3>3. \A i \in 1..Len(waitQueue') : i + n \in 1..Len(waitQueue) /\ i + n > n
      BY <1>1, <1>2
    <3> QED
      BY <3>1, <3>2, <3>3
  <2>2. \A c : c \in Line(waitQueue) <=> \E j \in 1..Len(waitQueue) : waitQueue[j] = c
    BY <1>1 DEF Line
  <2>3. \A c : c \in Line(waitQueue) <=> c \in Line(waitQueue)' \/ \E j \in 1..n : waitQueue[j] = c
    BY <1>1, <2>1, <2>2
  <2>4. ASSUME NEW c \in Call PROVE c \in Gone' <=> c \in Gone \cup done
    <3>1. c \in Gone' <=> \/ call'[c].at \in Over
                          \/ call'[c].at = "waiting" /\ c \notin Line(waitQueue)'
      BY DEF Gone, CallsAt
    <3>2. c \in Gone <=> call[c].at \in Over \/ (call[c].at = "waiting" /\ c \notin Line(waitQueue))
      BY DEF Gone, CallsAt
    <3>3. CASE c \in done
      BY <3>1, <3>3 DEF Service
    <3>4. CASE c \notin done /\ \E j \in 1..n : waitQueue[j] = c
      <4>1. call'[c].at = "granted" /\ call[c].at = "waiting" /\ c \in Line(waitQueue)
        BY <1>4, <2>3, <3>4 DEF Service
      <4> QED
        BY <3>1, <3>2, <3>4, <4>1 DEF Over
    <3>5. CASE c \notin done /\ ~\E j \in 1..n : waitQueue[j] = c
      <4>1. c \in Line(waitQueue) <=> c \in Line(waitQueue)'
        BY <2>3, <3>5
      <4>2. \/ call'[c].at = call[c].at
            \/ call[c].at \in HoldingAt /\ call'[c].at \in HoldingAt
        BY <3>5 DEF Service
      <4> QED
        BY <3>1, <3>2, <3>5, <4>1, <4>2 DEF Over, HoldingAt
    <3> QED
      BY <3>3, <3>4, <3>5
  <2>5. Gone \subseteq Call /\ Gone' \subseteq Call /\ done \subseteq Call
    BY <1>1 DEF Gone, CallsAt, Holding
  <2> QED
    BY <2>4, <2>5
<1>8. FairQueue!Serve(n, done)
  <2>1. waitQueue' = SubSeq(waitQueue, n + 1, Len(waitQueue))
    BY DEF Service
  <2> QED
    BY <1>6, <1>7, <2>1 DEF FairQueue!Serve, FairQueue!InLine, Gone, Line, Over
<1>9. n \in 0..Len(waitQueue) /\ done \in SUBSET Holding
  BY <1>1
<1> QED
  BY <1>8, <1>9 DEF FairQueue!Next

(* Calls may leave with nobody served.                                     *)
LEMMA NobodyServed ==
  ASSUME PoolInv, UNCHANGED waitQueue, NEW done, done \subseteq Holding,
         \A c \in done : call'[c].at \in Over,
         \A c \in Call : c \in done \/ call'[c].at = call[c].at
                           \/ (call[c].at \in HoldingAt /\ call'[c].at \in HoldingAt)
  PROVE  FairQueue!Next
<1>1. waitQueue \in Seq(Call) /\ Len(waitQueue) \in Nat
  BY DEF PoolInv, TypeOK
<1>2. SubSeq(waitQueue, 1, Len(waitQueue)) = waitQueue
  BY <1>1
<1>3. Service(0, done)
  BY <1>1, <1>2 DEF Service
<1> QED
  BY <1>3, ServiceIsServe

(* Serve grants its worker to the first of the line or to nobody.          *)
LEMMA ServeServes ==
  ASSUME PoolInv, NEW w, NEW idlers, NEW holders, NEW calls, calls \in [Call -> Entry],
         Serve(w, idlers, holders, calls), NEW done, done \subseteq Holding,
         \A c \in done : calls[c].at \in Over,
         \A c \in Call : c \in done \/ calls[c].at = call[c].at
                           \/ (call[c].at \in HoldingAt /\ calls[c].at \in HoldingAt)
  PROVE  FairQueue!Next
<1>1. waitQueue \in Seq(Call) /\ Len(waitQueue) \in Nat
  BY DEF PoolInv, TypeOK
<1>2. CASE waitQueue = <<>> /\ UNCHANGED waitQueue /\ call' = calls
  BY <1>2, NobodyServed
<1>3. CASE waitQueue # <<>> /\ waitQueue' = Tail(waitQueue)
             /\ call' = Grant(calls, Head(waitQueue), w)
  <2>1. /\ Len(waitQueue) >= 1 /\ Head(waitQueue) = waitQueue[1] /\ waitQueue[1] \in Call
        /\ Tail(waitQueue) = SubSeq(waitQueue, 2, Len(waitQueue))
    BY <1>1, <1>3
  <2>2. call[waitQueue[1]].at = "waiting"
    BY <1>1, <2>1 DEF PoolInv, Lined
  <2>3. /\ call'[waitQueue[1]].at = "granted"
        /\ \A c \in Call : c # waitQueue[1] => call'[c] = calls[c]
    BY <1>3, <2>1 DEF Grant
  <2>4. waitQueue[1] \notin done
    BY <2>2 DEF Holding, CallsAt
  <2>5. \A j \in 1..1 : j = 1
    OBVIOUS
  <2>6. Service(1, done)
    <3>1. 1 \in 0..Len(waitQueue) /\ waitQueue' = SubSeq(waitQueue, 1 + 1, Len(waitQueue))
      BY <1>1, <1>3, <2>1
    <3>2. \A c \in done : c \in Call /\ call'[c].at \in Over
      BY <2>3, <2>4 DEF Holding, CallsAt
    <3>3. \A c \in Call : c \in done \/ (\E j \in 1..1 : waitQueue[j] = c)
                            \/ call'[c].at = call[c].at
                            \/ (call[c].at \in HoldingAt /\ call'[c].at \in HoldingAt)
      BY <2>3
    <3> QED
      BY <2>3, <2>5, <3>1, <3>2, <3>3 DEF Service
  <2> QED
    BY <2>6, ServiceIsServe
<1> QED
  BY <1>2, <1>3 DEF Serve

(* executeCode is refused, walks in or joins the line.                     *)
LEMMA ExecuteIsServed == ASSUME PoolInv, NEW c \in Call, Execute(c) PROVE FairQueue!Next
<1>1. /\ call \in [Call -> Entry] /\ waitQueue \in Seq(Call)
      /\ call[c].at = "new" /\ NoIdleWhileWaiting /\ Lined(waitQueue, call)
  BY DEF PoolInv, TypeOK, Entry, Execute
<1>2. c \notin Line(waitQueue)
  BY <1>1 DEF Line, Lined
<1>3. c \in FairQueue!Outside
  BY <1>1, <1>2 DEF FairQueue!Outside, FairQueue!InLine, Line, Holding, CallsAt
<1>4. ASSUME NEW to \in {"refused", "granted", "waiting"}, call'[c].at = to,
             \A d \in Call : d # c => call'[d] = call[d]
      PROVE  /\ to = "granted" => Holding' = Holding \cup {c}
             /\ to # "granted" => Holding' = Holding
             /\ CallsAt(Over)' = IF to = "refused" THEN CallsAt(Over) \cup {c} ELSE CallsAt(Over)
             /\ CallsAt({"waiting"})' =
                  IF to = "waiting" THEN CallsAt({"waiting"}) \cup {c} ELSE CallsAt({"waiting"})
  BY <1>1, <1>4 DEF Holding, CallsAt, Over
<1>5. ASSUME Refuse(c) PROVE FairQueue!Refuse(c)
  <2>1. /\ call'[c].at = "refused" /\ \A d \in Call : d # c => call'[d] = call[d]
        /\ UNCHANGED waitQueue
    BY <1>1, <1>5 DEF Refuse, Moved
  <2> QED
    BY <1>3, <1>4, <2>1 DEF FairQueue!Refuse, Over
<1>6. ASSUME NEW w \in idle, call' = Grant(call, c, w), UNCHANGED waitQueue
      PROVE  FairQueue!Walk(c)
  <2>1. /\ call'[c].at = "granted" /\ \A d \in Call : d # c => call'[d] = call[d]
        /\ waitQueue = <<>>
    BY <1>1, <1>6 DEF Grant, NoIdleWhileWaiting
  <2> QED
    BY <1>3, <1>4, <1>6, <2>1 DEF FairQueue!Walk, Over
<1>7. ASSUME waitQueue' = Append(waitQueue, c), call' = Moved(c, "waiting")
      PROVE  FairQueue!Join(c)
  <2>1. /\ call'[c].at = "waiting" /\ \A d \in Call : d # c => call'[d] = call[d]
    BY <1>1, <1>7 DEF Moved
  <2>2. Line(waitQueue)' = Line(waitQueue) \cup {c}
    BY <1>1, <1>7 DEF Line
  <2>3. CallsAt({"waiting"})' \ Line(waitQueue)' = CallsAt({"waiting"}) \ Line(waitQueue)
    <3>1. c \notin CallsAt({"waiting"})
      BY <1>1 DEF CallsAt
    <3> QED
      BY <1>4, <2>1, <2>2, <3>1
  <2> QED
    BY <1>3, <1>4, <1>7, <2>1, <2>3 DEF FairQueue!Join, Over, Line
<1> QED
  BY <1>5, <1>6, <1>7 DEF Execute, Acquire, FairQueue!Next

(* A settled call leaves, and its worker may serve the first of the line.  *)
LEMMA SettleIsServed == ASSUME PoolInv, NEW c \in Call, Settle(c) PROVE FairQueue!Next
<1> DEFINE w == call[c].worker
           calls == [call EXCEPT ![c] = [at |-> Outcome(c), worker |-> None]]
           done == {c}
<1>1. Release(w, calls) /\ done \subseteq Holding
  BY DEF Settle, Holding, CallsAt
<1>2. /\ calls \in [Call -> Entry]
      /\ \A d \in Call : d \in done \/ calls[d].at = call[d].at
      /\ \A d \in done : calls[d].at \in Over
  <2>1. /\ calls \in [Call -> Entry] /\ \A d \in Call : d # c => calls[d] = call[d]
    BY LetGo DEF Settle
  <2>2. calls[c].at = Outcome(c)
    BY DEF PoolInv, TypeOK
  <2> QED
    BY <2>1, <2>2 DEF Outcome, Over
<1> HIDE DEF w, calls, done
<1>3. CASE call' = calls /\ UNCHANGED waitQueue
  BY <1>1, <1>2, <1>3, NobodyServed
<1>4. ASSUME NEW v, NEW idlers, NEW holders, Serve(v, idlers, holders, calls)
      PROVE  FairQueue!Next
  BY <1>1, <1>2, <1>4, ServeServes
<1> QED
  BY <1>1, <1>3, <1>4
  DEF Release, ReleaseCrashed, ReleaseSurplus, ReleaseRecycled, ReleaseKept

(* A replacement may serve the first of the line.                          *)
LEMMA CloseIsServed == ASSUME PoolInv, NEW w \in Worker, Close(w) PROVE FairQueue!Next
<1>1. /\ Rejected(w) \in [Call -> Entry]
      /\ \A c \in Call : \/ Rejected(w)[c].at = call[c].at
                         \/ call[c].at \in HoldingAt /\ Rejected(w)[c].at \in HoldingAt
  BY RejectedKeeps DEF PoolInv, HoldingAt
<1>2. CASE call' = Rejected(w) /\ UNCHANGED waitQueue
  <2> DEFINE done == {}
  <2>1. done \subseteq Holding /\ \A c \in done : call'[c].at \in Over
    OBVIOUS
  <2> HIDE DEF done
  <2> QED
    BY <1>1, <1>2, <2>1, NobodyServed
<1>3. ASSUME NEW new, NEW idlers, NEW holders, Serve(new, idlers, holders, Rejected(w))
      PROVE  FairQueue!Next
  <2> DEFINE done == {}
  <2>1. done \subseteq Holding /\ \A c \in done : Rejected(w)[c].at \in Over
    OBVIOUS
  <2> HIDE DEF done
  <2> QED
    BY <1>1, <1>3, <2>1, ServeServes
<1> QED
  BY <1>2, <1>3 DEF Close, Replace, lists

(* New workers serve as many of the line as there are of either.           *)
LEMMA ResizeIsServed ==
  ASSUME PoolInv, NEW size \in Targets, Resize(size)
  PROVE  FairQueue!Next \/ UNCHANGED <<waitQueue, call>>
<1>1. waitQueue \in Seq(Call) /\ Len(waitQueue) \in Nat /\ call \in [Call -> Entry]
  BY DEF PoolInv, TypeOK, Entry
<1>2. ASSUME NEW new \in SUBSET FreeWorkers, Grow(new) PROVE FairQueue!Next
  <2> DEFINE n == Cardinality(new)
  <2>1. n \in Nat
    <3>1. new \subseteq Worker
      BY <1>2, FreeIsFree
    <3> QED
      BY <3>1, FS_Subset, FS_CardinalityType, Parameters
  <2>2. PICK k \in Nat : k = (IF Len(waitQueue) < n THEN Len(waitQueue) ELSE n)
    BY <1>1, <2>1
  <2>3. PICK workers \in [1..k -> new] :
          /\ waitQueue' = SubSeq(waitQueue, k + 1, Len(waitQueue))
          /\ call' = [c \in Call |->
                        IF \E j \in 1..k : waitQueue[j] = c
                          THEN [at |-> "granted",
                                worker |-> workers[CHOOSE j \in 1..k : waitQueue[j] = c]]
                          ELSE call[c]]
    BY <1>2, <2>2 DEF Grow
  <2>4. k \in 0..Len(waitQueue) /\ \A j \in 1..k : waitQueue[j] \in Call
    BY <1>1, <2>1, <2>2
  <2>5. \A j \in 1..k : call'[waitQueue[j]].at = "granted"
    BY <2>3, <2>4
  <2>6. \A c \in Call : (\E j \in 1..k : waitQueue[j] = c) \/ call'[c] = call[c]
    BY <2>3
  <2>7. Service(k, {})
    BY <2>3, <2>4, <2>5, <2>6 DEF Service
  <2> QED
    BY <2>7, ServiceIsServe
<1> QED
  BY <1>2 DEF Resize, Shrink

(* A call that keeps its worker changes nothing for the line.              *)
LEMMA MovedIsServed ==
  ASSUME PoolInv, UNCHANGED waitQueue,
         \A c \in Call : \/ call'[c].at = call[c].at
                         \/ call[c].at \in HoldingAt /\ call'[c].at \in HoldingAt
  PROVE  FairQueue!Next
<1> DEFINE done == {}
<1>1. done \subseteq Holding /\ \A c \in done : call'[c].at \in Over
  OBVIOUS
<1> HIDE DEF done
<1> QED
  BY <1>1, NobodyServed

(* shutdown dismisses the line.                                            *)
LEMMA ShutdownIsServed == ASSUME PoolInv, Shutdown PROVE FairQueue!Dismiss
<1>1. waitQueue \in Seq(Call) /\ waitQueue' = <<>> /\ call' = call /\ Lined(waitQueue, call)
  BY DEF Shutdown, PoolInv, TypeOK
<1>2. Line(waitQueue)' = {} /\ Line(waitQueue) \subseteq CallsAt({"waiting"})
  BY <1>1 DEF Line, CallsAt, Lined
<1>3. UNCHANGED <<Holding, CallsAt(Over), CallsAt({"waiting"})>>
  BY <1>1 DEF Holding, CallsAt
<1> QED
  BY <1>1, <1>2, <1>3 DEF FairQueue!Dismiss, FairQueue!InLine, Line, Over

(* Every step of the pool is a step of the line, or none.                  *)
LEMMA StepIsServed == PoolInv /\ [Next]_vars => [FairQueue!Next]_FairQueue!vars
<1> SUFFICES ASSUME PoolInv, [Next]_vars PROVE FairQueue!Next \/ UNCHANGED <<waitQueue, call>>
  <2>1. CASE UNCHANGED <<waitQueue, call>>
    BY <2>1 DEF FairQueue!vars, Holding, CallsAt
  <2> QED
    BY <2>1
<1>1. ASSUME NEW c \in Call, Start(c) \/ Ends(c) PROVE FairQueue!Next
  <2>1. PICK to \in HoldingAt : call' = Moved(c, to)
    BY <1>1 DEF Start, Ends, Respond, Timeout, HoldingAt
  <2>2. UNCHANGED waitQueue /\ call[c].at \in HoldingAt /\ call \in [Call -> Entry]
    BY <1>1 DEF Start, Ends, Respond, Timeout, HoldingAt, lists, PoolInv, TypeOK, Entry
  <2>3. call'[c].at = to /\ \A d \in Call : d # c => call'[d] = call[d]
    BY <2>1, <2>2 DEF Moved, Entry
  <2> QED
    BY <2>2, <2>3, MovedIsServed
<1>2. ASSUME NEW w \in Worker, ProcessError(w) PROVE FairQueue!Next
  <2>1. \A c \in Call : \/ Rejected(w)[c].at = call[c].at
                        \/ call[c].at \in HoldingAt /\ Rejected(w)[c].at \in HoldingAt
    BY RejectedKeeps DEF PoolInv, HoldingAt
  <2> QED
    BY <1>2, <2>1, MovedIsServed DEF ProcessError, lists
<1>3. ASSUME NEW i \in Instance, KillWorker(i) PROVE UNCHANGED <<waitQueue, call>>
  BY <1>3 DEF KillWorker, lists
<1>4. CASE ShutdownEnds \/ UNCHANGED vars
  BY <1>4 DEF ShutdownEnds, vars, lists
<1>5. CASE Shutdown
  BY <1>5, ShutdownIsServed DEF FairQueue!Next
<1> QED
  BY <1>1, <1>2, <1>3, <1>4, <1>5, ExecuteIsServed, SettleIsServed, CloseIsServed,
     ResizeIsServed DEF Next, Resume

(* The pool keeps what WaitLine promises: with any number of workers, in   *)
(* any order of crashes, kills, resizes and releases, calls are served in  *)
(* the order in which they asked.                                          *)
THEOREM ServedInOrder == Spec => ServesInOrder
<1>1. Init => FairQueue!Init
  BY DEF Init, FairQueue!Init, Holding, CallsAt
<1>2. Spec => FairQueue!Spec
  BY <1>1, InitHolds, NextKeeps, StepIsServed, PTL DEF Spec, FairQueue!Spec
<1> QED
  BY <1>2 DEF ServesInOrder
=============================================================================
