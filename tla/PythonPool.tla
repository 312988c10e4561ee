------------------------------ MODULE PythonPool ------------------------------
(***************************************************************************)
(* packages/engine/src/python-pool: the pool of Python subprocesses        *)
(* (pool.ts) and the handle of one subprocess (worker.ts).                 *)
(*                                                                         *)
(* A call is one executeCode.  Events of the operating system, timers and  *)
(* HTTP requests each start a macrotask of Node; a promise they settle     *)
(* resumes its executeCode in a microtask before the next macrotask.       *)
(* Start and Settle are those resumptions: macrotasks are guarded by       *)
(* Quiet, executeCode itself is not, since a resumed caller may call it.   *)
(*                                                                         *)
(* idleWorkers is a set: which idle worker pop() takes makes no difference *)
(* to what is stated here.  A worker's name is used again once nothing     *)
(* refers to the process that had it.                                      *)
(***************************************************************************)
EXTENDS Naturals, Sequences, FiniteSets

CONSTANTS
  Worker,        \* names of subprocesses (a bound, not in the code)
  Call,          \* the calls of executeCode (a bound)
  Instance,      \* the instance ids they execute for
  InstanceOf,    \* [Call -> Instance]
  None,          \* no worker
  Targets,       \* the sizes resize may be given
  MaxExecutions, \* maxExecutionsPerWorker
  MaxDying,      \* how many processes are dead and not yet closed (a bound)
  Kills,         \* is killWorker called?
  ShutsDown      \* is shutdown called?

ASSUME Parameters ==
  /\ IsFiniteSet(Worker)
  /\ InstanceOf \in [Call -> Instance]
  /\ None \notin Worker
  /\ Targets \subseteq Nat \ {0}
  /\ MaxExecutions \in Nat \ {0} /\ MaxDying \in Nat
  /\ Kills \in BOOLEAN /\ ShutsDown \in BOOLEAN

VARIABLES
  idle, busy, crashHandled,  \* idleWorkers, busyWorkers, crashHandledWorkers
  waitQueue,                 \* the calls that wait in acquire
  active,                    \* activeExecutions
  target,                    \* _targetPoolSize
  call,                      \* where each call is, and the worker it holds
  proc,                      \* the subprocess behind each worker
  wired,                     \* the worker's own 'close' listeners are in place
  served,                    \* _executionCount
  killing,                   \* killWithGrace promises not yet resolved
  killed,                    \* history, of the calls that are not over: those
                             \*   whose worker was killed
  overlapped,                \* history, of the same: those that were started
                             \*   beside another one of their instance
  phase, draining            \* shutdown: isShuttingDown and busyList

lists == <<idle, busy, crashHandled, waitQueue>>
processes == <<proc, wired, served>>
closing == <<phase, draining>>
history == <<killed, overlapped>>
vars == <<lists, active, target, call, processes, killing, history, closing>>

(* A process is up, has been sent SIGTERM, is known dead before its close  *)
(* event (a timeout's SIGKILL, an 'error' event), or is closed.            *)
ProcState == {"up", "term", "dead", "closed"}

(* answered and crashed: the promise of worker.execute is settled and      *)
(* executeCode not yet resumed; returned and failed: executeCode is over.  *)
CallState ==
  {"new", "waiting", "granted", "running", "answered", "crashed",
   "returned", "failed", "refused"}

TypeOK ==
  /\ idle \subseteq Worker /\ busy \subseteq Worker /\ crashHandled \subseteq Worker
  /\ waitQueue \in Seq(Call)
  /\ active \in [Instance -> Worker \cup {None}]
  /\ target \in Nat \ {0}
  /\ call \in [Call -> [at : CallState, worker : Worker \cup {None}]]
  /\ proc \in [Worker -> ProcState]
  /\ wired \subseteq Worker
  /\ served \in [Worker -> 0..MaxExecutions]
  /\ killing \subseteq Instance \X (Worker \cup {None})
  /\ killed \subseteq Call /\ overlapped \subseteq Call
  /\ phase \in {"open", "draining", "closed"}
  /\ draining \subseteq Worker

Size == Cardinality(idle) + Cardinality(busy)

IsDead(w) == proc[w] \in {"dead", "closed"}

CallsAt(states) == {c \in Call : call[c].at \in states}

Holding == CallsAt({"granted", "running", "answered", "crashed"})

(* No microtask is pending, and the program has not exited after shutdown. *)
Quiet == CallsAt({"granted", "answered", "crashed"}) = {} /\ phase # "closed"

(* A name for a new process: nothing refers to the one that had it.        *)
Referenced ==
  idle \cup busy \cup crashHandled \cup draining
    \cup {call[c].worker : c \in Call} \cup {active[i] : i \in Instance}
    \cup {k[2] : k \in killing}

FreeWorkers == {w \in Worker \ Referenced : w \in wired => proc[w] = "closed"}

-----------------------------------------------------------------------------
(* Operators on the tables of processes and calls.                         *)
Spawn(procs, new) == [w \in Worker |-> IF w \in new THEN "up" ELSE procs[w]]

(* dispose: SIGTERM and, what matters to the pool, removeAllListeners.     *)
DisposeListenersOnly(procs, gone) == procs  \* mutant: no signal is sent

Dispose(procs, gone) ==
  [w \in Worker |-> IF w \in gone /\ procs[w] = "up" THEN "term" ELSE procs[w]]

ForgetAll(i) == [j \in Instance |-> None]  \* mutant: the map is cleared

ForgetNothing(i) == active  \* mutant: the entry stays

Forget(i) == [active EXCEPT ![i] = None]

(* A killWithGrace that waits for a disposed worker waits for nobody.      *)
Unheard(gone) == {<<k[1], IF k[2] \in gone THEN None ELSE k[2]>> : k \in killing}

Dying == {w \in Worker : proc[w] = "dead"}

Grant(calls, c, w) == [calls EXCEPT ![c] = [at |-> "granted", worker |-> w]]

Moved(c, to) == [call EXCEPT ![c].at = to]

Init ==
  /\ target \in Targets
  /\ \E first \in SUBSET Worker :
       /\ Cardinality(first) = target
       /\ idle = first /\ wired = first
       /\ proc = [w \in Worker |-> IF w \in first THEN "up" ELSE "closed"]
  /\ busy = {} /\ crashHandled = {} /\ waitQueue = <<>>
  /\ active = [i \in Instance |-> None]
  /\ call = [c \in Call |-> [at |-> "new", worker |-> None]]
  /\ served = [w \in Worker |-> 0]
  /\ killing = {} /\ killed = {} /\ overlapped = {}
  /\ phase = "open" /\ draining = {}

-----------------------------------------------------------------------------
(* executeCode and acquire.                                                *)
Refuse(c) ==
  /\ phase = "draining"
  /\ call' = Moved(c, "refused")
  /\ UNCHANGED <<idle, busy, waitQueue>>

Acquire(c) ==
  /\ phase = "open"
  /\ \/ \E w \in idle :
          /\ idle' = idle \ {w}
          /\ busy' = busy \cup {w}
          /\ call' = Grant(call, c, w)
          /\ UNCHANGED waitQueue
     \/ /\ idle = {}
        /\ waitQueue' = Append(waitQueue, c)
        /\ call' = Moved(c, "waiting")
        /\ UNCHANGED <<idle, busy>>

Execute(c) ==
  /\ call[c].at = "new"
  /\ Refuse(c) \/ Acquire(c)
  /\ UNCHANGED <<crashHandled, active, target, processes, killing, history, closing>>

(* executeCode resumes with its worker and writes the request; a worker    *)
(* that died meanwhile throws at once.  The entry of another call of the   *)
(* instance, one that is not over yet, is overwritten.                     *)
Started == CallsAt({"running", "answered", "crashed"})

Start(c) ==
  LET w == call[c].worker
      beside == {d \in Started : InstanceOf[d] = InstanceOf[c]}
  IN /\ call[c].at = "granted"
     /\ overlapped' = overlapped \cup beside \cup (IF beside = {} THEN {} ELSE {c})
     /\ active' = [active EXCEPT ![InstanceOf[c]] = w]
     /\ \/ /\ IsDead(w)
           /\ call' = Moved(c, "crashed")
           /\ UNCHANGED served
        \/ /\ ~IsDead(w)
           /\ call' = Moved(c, "running")
           /\ served' = [served EXCEPT ![w] = @ + 1]
     /\ UNCHANGED <<lists, target, proc, wired, killing, killed, closing>>

-----------------------------------------------------------------------------
(* What can end a running call.  Respond: a line on stdout, parsed or not. *)
Respond(c) ==
  /\ Quiet /\ call[c].at = "running"
  /\ proc[call[c].worker] \in {"up", "term"}
  /\ \E to \in {"answered", "crashed"} : call' = Moved(c, to)
  /\ UNCHANGED <<lists, active, target, processes, killing, history, closing>>

(* The timer of execute: SIGKILL, and dead before anyone can see it.       *)
Timeout(c) ==
  /\ Quiet /\ call[c].at = "running"
  /\ Cardinality(Dying) < MaxDying
  /\ proc' = [proc EXCEPT ![call[c].worker] = "dead"]
  /\ call' = Moved(c, "crashed")
  /\ UNCHANGED <<lists, active, target, wired, served, killing, history, closing>>

Rejected(w) ==
  [c \in Call |-> IF call[c] = [at |-> "running", worker |-> w]
                    THEN [call[c] EXCEPT !.at = "crashed"] ELSE call[c]]

(* The 'error' event: the process could not be spawned or signalled.       *)
ProcessError(w) ==
  /\ Quiet /\ proc[w] \in {"up", "term"}
  /\ Cardinality(Dying) < MaxDying
  /\ proc' = [proc EXCEPT ![w] = "dead"]
  /\ call' = Rejected(w)
  /\ UNCHANGED <<lists, active, target, wired, served, killing, history, closing>>

(* handleWorkerCrash spawns a replacement only below the target; a busy    *)
(* crashed worker no longer counts although release has not seen it.       *)
EffectiveSizeOfAll(w) ==  \* mutant: the crashed busy worker still counts
  Cardinality(idle \ {w}) + Cardinality(busy)
EffectiveSizeIgnored(w) == 0  \* mutant: the target is not consulted

EffectiveSize(w) ==
  IF w \in busy THEN Size - 1 ELSE Cardinality(idle \ {w}) + Cardinality(busy)

(* The first waiter gets the worker, or it is pushed to the idle ones.     *)
ServeNobody(w, idlers, holders, calls) ==  \* mutant: waiters are not looked at
  /\ idle' = idlers \cup {w}
  /\ busy' = holders /\ call' = calls
  /\ UNCHANGED waitQueue

ServeAndShelve(w, idlers, holders, calls) ==  \* mutant: missing else
  /\ idle' = idlers \cup {w}
  /\ \/ /\ waitQueue # <<>>
        /\ waitQueue' = Tail(waitQueue)
        /\ call' = Grant(calls, Head(waitQueue), w)
        /\ busy' = holders \cup {w}
     \/ /\ waitQueue = <<>>
        /\ busy' = holders /\ call' = calls
        /\ UNCHANGED waitQueue

ServeLast(w, idlers, holders, calls) ==  \* mutant: pop for shift
  \/ /\ waitQueue # <<>>
     /\ waitQueue' = SubSeq(waitQueue, 1, Len(waitQueue) - 1)
     /\ call' = Grant(calls, waitQueue[Len(waitQueue)], w)
     /\ busy' = holders \cup {w}
     /\ idle' = idlers
  \/ /\ waitQueue = <<>>
     /\ idle' = idlers \cup {w}
     /\ busy' = holders /\ call' = calls
     /\ UNCHANGED waitQueue

Serve(w, idlers, holders, calls) ==
  \/ /\ waitQueue # <<>>
     /\ waitQueue' = Tail(waitQueue)
     /\ call' = Grant(calls, Head(waitQueue), w)
     /\ busy' = holders \cup {w}
     /\ idle' = idlers
  \/ /\ waitQueue = <<>>
     /\ idle' = idlers \cup {w}
     /\ busy' = holders /\ call' = calls
     /\ UNCHANGED waitQueue

Replace(w) ==
  \/ /\ phase = "open" /\ EffectiveSize(w) < target
     /\ \E new \in FreeWorkers \ {w} :
          /\ Serve(new, idle \ {w}, busy, Rejected(w))
          /\ proc' = Spawn([proc EXCEPT ![w] = "closed"], {new})
          /\ wired' = wired \cup {new}
          /\ served' = [served EXCEPT ![new] = 0]
  \/ /\ phase # "open" \/ EffectiveSize(w) >= target
     /\ idle' = idle \ {w}
     /\ call' = Rejected(w)
     /\ proc' = [proc EXCEPT ![w] = "closed"]
     /\ UNCHANGED <<busy, waitQueue, wired, served>>

(* The 'close' event.  Without listeners (disposed) the pool never hears   *)
(* of it and a killWithGrace that waits for it never resolves.             *)
Close(w) ==
  /\ Quiet /\ proc[w] # "closed"
  /\ \/ /\ w \in wired
        /\ Replace(w)
        /\ crashHandled' = crashHandled \cup ({w} \cap busy)
        /\ active' = [i \in Instance |-> IF active[i] = w THEN None ELSE active[i]]
        /\ killing' = {k \in killing : k[2] # w}
     \/ /\ w \notin wired
        /\ proc' = [proc EXCEPT ![w] = "closed"]
        /\ call' = Rejected(w)
        /\ UNCHANGED <<lists, active, wired, served, killing>>
  /\ UNCHANGED <<target, history, closing>>

-----------------------------------------------------------------------------
(* release, with the worker already out of busyWorkers.                    *)
Remaining(w) == Cardinality(idle) + Cardinality(busy \ {w})

Disposable(w) == IF IsDead(w) THEN {} ELSE {w}

WornOutLate(w) == served[w] > MaxExecutions \/ IsDead(w)  \* mutant: off by one

WornOut(w) == served[w] >= MaxExecutions \/ IsDead(w)

ReleaseCrashed(w, calls) ==
  /\ w \in crashHandled
  /\ crashHandled' = crashHandled \ {w}
  /\ busy' = busy \ {w} /\ call' = calls
  /\ UNCHANGED <<idle, waitQueue, processes, killing>>

ReleaseSurplus(w, calls) ==
  /\ w \notin crashHandled /\ Remaining(w) > target
  /\ busy' = busy \ {w} /\ call' = calls
  /\ proc' = Dispose(proc, Disposable(w))
  /\ wired' = wired \ Disposable(w) /\ killing' = Unheard(Disposable(w))
  /\ UNCHANGED <<idle, crashHandled, waitQueue, served>>

ReleaseRecycled(w, calls) ==
  /\ w \notin crashHandled /\ Remaining(w) <= target /\ WornOut(w)
  /\ \E new \in FreeWorkers :
       /\ Serve(new, idle, busy \ {w}, calls)
       /\ proc' = Spawn(Dispose(proc, Disposable(w)), {new})
       /\ wired' = {new} \cup (wired \ Disposable(w))
       /\ killing' = Unheard(Disposable(w))
       /\ served' = [served EXCEPT ![new] = 0]
  /\ UNCHANGED crashHandled

ReleaseKept(w, calls) ==
  /\ w \notin crashHandled /\ Remaining(w) <= target /\ ~WornOut(w)
  /\ Serve(w, idle, busy \ {w}, calls)
  /\ UNCHANGED <<crashHandled, processes, killing>>

Release(w, calls) ==
  \/ ReleaseCrashed(w, calls) \/ ReleaseSurplus(w, calls)
  \/ ReleaseRecycled(w, calls) \/ ReleaseKept(w, calls)

(* executeCode resumes with the outcome; its finally forgets the instance  *)
(* and releases the worker.                                                *)
Outcome(c) == IF call[c].at = "answered" THEN "returned" ELSE "failed"

Settle(c) ==
  /\ call[c].at \in {"answered", "crashed"}
  /\ active' = Forget(InstanceOf[c])
  /\ Release(call[c].worker, [call EXCEPT ![c] = [at |-> Outcome(c), worker |-> None]])
  /\ killed' = killed \ {c} /\ overlapped' = overlapped \ {c}
  /\ UNCHANGED <<target, closing>>

-----------------------------------------------------------------------------
(* killWorker and killWithGrace.  The SIGKILL after the grace period is    *)
(* the Close that may come at any time.                                    *)
KillWithGrace(i, w) ==
  \/ /\ IsDead(w)
     /\ UNCHANGED <<proc, killing>>
  \/ /\ ~IsDead(w)
     /\ proc' = [proc EXCEPT ![w] = "term"]
     /\ killing' = killing \cup {<<i, w>>}

KillWorker(i) ==
  /\ Kills /\ Quiet /\ active[i] # None
  /\ active' = Forget(i)
  /\ killed' = killed \cup {c \in CallsAt({"running"}) : InstanceOf[c] = i}
  /\ KillWithGrace(i, active[i])
  /\ UNCHANGED <<lists, target, call, wired, served, overlapped, closing>>

(* resize, which requests may still reach while shutdown waits.  New       *)
(* workers go to the waiters first, one each.                              *)
Grow(new) ==
  LET n == Cardinality(new)
      served1 == IF Len(waitQueue) < n THEN Len(waitQueue) ELSE n
  IN \E workers \in [1..served1 -> new] :
       /\ \A j, k \in 1..served1 : workers[j] = workers[k] => j = k
       /\ waitQueue' = SubSeq(waitQueue, served1 + 1, Len(waitQueue))
       /\ call' = [c \in Call |->
                     IF \E j \in 1..served1 : waitQueue[j] = c
                       THEN [at |-> "granted",
                             worker |-> workers[CHOOSE j \in 1..served1 : waitQueue[j] = c]]
                       ELSE call[c]]
       /\ busy' = busy \cup {workers[j] : j \in 1..served1}
       /\ idle' = idle \cup (new \ {workers[j] : j \in 1..served1})
       /\ proc' = Spawn(proc, new)
       /\ wired' = wired \cup new
       /\ served' = [w \in Worker |-> IF w \in new THEN 0 ELSE served[w]]
       /\ UNCHANGED killing

Surplus(size) ==
  IF Size - size < Cardinality(idle) THEN Size - size ELSE Cardinality(idle)

Shrink(gone) ==
  /\ idle' = idle \ gone
  /\ proc' = Dispose(proc, gone)
  /\ wired' = wired \ gone /\ killing' = Unheard(gone)
  /\ UNCHANGED <<busy, waitQueue, call, served>>

Resize(size) ==
  /\ Quiet /\ size # target
  /\ \/ \E new \in SUBSET FreeWorkers :
          /\ size > Size /\ Cardinality(new) = size - Size
          /\ Grow(new)
     \/ \E gone \in SUBSET idle :
          /\ size < Size /\ Cardinality(gone) = Surplus(size)
          /\ Shrink(gone)
     \/ /\ size = Size
        /\ UNCHANGED <<idle, busy, waitQueue, call, processes, killing>>
  /\ target' = size
  /\ UNCHANGED <<crashHandled, active, history, closing>>

-----------------------------------------------------------------------------
(* shutdown up to its await, and after it: all busy workers closed, or ten *)
(* seconds have passed.  Then the program exits.                           *)
Shutdown ==
  /\ ShutsDown /\ Quiet /\ phase = "open"
  /\ waitQueue' = <<>>
  /\ idle' = {}
  /\ proc' = Dispose(proc, idle) /\ wired' = wired \ idle /\ killing' = Unheard(idle)
  /\ draining' = busy
  /\ phase' = IF busy = {} THEN "closed" ELSE "draining"
  /\ UNCHANGED <<busy, crashHandled, active, target, call, served, history>>

ShutdownEnds ==
  LET alive == {w \in draining : ~IsDead(w)}
  IN /\ Quiet /\ phase = "draining"
     /\ proc' = Dispose(proc, alive) /\ wired' = wired \ alive /\ killing' = Unheard(alive)
     /\ phase' = "closed" /\ draining' = {}
     /\ UNCHANGED <<lists, active, target, call, served, history>>

Resume(c) == Start(c) \/ Settle(c)

Ends(c) == Respond(c) \/ Timeout(c)

Next ==
  \/ \E c \in Call : Execute(c) \/ Resume(c) \/ Ends(c)
  \/ \E i \in Instance : KillWorker(i)
  \/ \E w \in Worker : ProcessError(w) \/ Close(w)
  \/ \E size \in Targets : Resize(size)
  \/ Shutdown \/ ShutdownEnds

Spec == Init /\ [][Next]_vars

(* Microtasks run, the execution timeout ends every running call, and a    *)
(* process that was signalled or is dead closes (SIGKILL after the grace). *)
FairSpec ==
  /\ Spec
  /\ \A c \in Call : WF_vars(Resume(c)) /\ WF_vars(Ends(c))
  /\ \A w \in Worker : WF_vars(proc[w] \in {"term", "dead"} /\ Close(w))

-----------------------------------------------------------------------------
(* PROPERTIES                                                              *)

(* A busy worker is held by exactly one call and an idle one by none: no   *)
(* two pieces of user code ever share a subprocess.                        *)
WorkerHeldByOneCall ==
  /\ \A c \in Holding : call[c].worker \in busy \ idle
  /\ \A c, d \in Holding : call[c].worker = call[d].worker => c = d
  /\ \A w \in busy : \E c \in Holding : call[c].worker = w

(* acquire queues only when no worker is idle; no later event leaves an    *)
(* idle worker beside a waiting call.                                      *)
NoIdleWhileWaiting == waitQueue # <<>> => idle = {}

(* Crashes, kills, timeouts and recycling never cost the pool a worker.    *)
CapacityKept ==
  phase = "open" =>
    Cardinality(idle) + Cardinality(busy \ crashHandled) >= target

(* ... and replacements never push it past the target: the replacement of  *)
(* a crashed busy worker is not spawned a second time by release.          *)
LiveSize == Cardinality(idle) + Cardinality(busy \ crashHandled)

GrowthOnlyToTarget == [][LiveSize' > LiveSize => LiveSize' <= target']_vars

(* The worker of a running call is found through activeExecutions, and is  *)
(* that of the call, until it is killed: what an earlier call of the same  *)
(* instance did (it was killed, timed out, settled late) never hides it.   *)
(* Two calls that overlap share one entry, and are the exception.          *)
RunningIsKillable ==
  \A c \in CallsAt({"running"}) :
    \/ active[InstanceOf[c]] = call[c].worker
    \/ c \in killed \cup overlapped

(* An entry leads to the worker that a call of its instance still holds:   *)
(* no kill reaches a worker that was handed on, even where calls overlap.  *)
EntryIsOfItsInstance ==
  \A i \in Instance : active[i] # None =>
    \E c \in Started : InstanceOf[c] = i /\ call[c].worker = active[i]

(* No subprocess outlives the pool's knowledge of it: what is up is idle   *)
(* or busy.                                                                *)
NoStrayProcess == \A w \in Worker : proc[w] = "up" => w \in idle \cup busy

(* Calls get their workers in the order in which they asked for them.      *)
FairQueue ==
  INSTANCE WaitLine WITH
    line <- waitQueue,
    served <- Holding,
    gone <- CallsAt({"returned", "failed", "refused"})
              \cup (CallsAt({"waiting"}) \ {waitQueue[j] : j \in DOMAIN waitQueue})

ServesInOrder == FairQueue!Spec

(* While the pool is open, every call that asks for a worker gets one and  *)
(* comes back.                                                             *)
CallsComeBack ==
  \A c \in Call :
    (call[c].at \in {"waiting", "granted"}) ~> (call[c].at \in {"returned", "failed"})
=============================================================================
