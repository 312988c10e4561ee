--------------------------- MODULE PythonPoolProofs ---------------------------
(***************************************************************************)
(* What holds of PythonPool for every number of workers, calls, instances  *)
(* and sizes.                                                              *)
(***************************************************************************)
EXTENDS PythonPool, FiniteSetTheorems, TLAPS

Entry == [at : CallState, worker : Worker \cup {None}]

HoldingAt == {"granted", "running", "answered", "crashed"}

-----------------------------------------------------------------------------
(* The invariant, of tables that an action may be about to leave: a busy   *)
(* worker has one holder, an idle one none; the line holds waiting calls,  *)
(* each once, and is empty while a worker is idle; who is to start has     *)
(* executions left.                                                        *)
Held(idlers, holders, calls) ==
  /\ \A c \in Call : calls[c].at \in HoldingAt => calls[c].worker \in holders \ idlers
  /\ \A c, d \in Call :
       (calls[c].at \in HoldingAt /\ calls[d].at \in HoldingAt
          /\ calls[c].worker = calls[d].worker) => c = d
  /\ \A w \in holders : \E c \in Call : calls[c].at \in HoldingAt /\ calls[c].worker = w

Lined(line, calls) ==
  /\ \A j \in 1..Len(line) : calls[line[j]].at = "waiting"
  /\ \A j, k \in 1..Len(line) : line[j] = line[k] => j = k

Fresh(idlers, calls, count) ==
  /\ \A w \in idlers : count[w] < MaxExecutions
  /\ \A c \in Call : calls[c].at = "granted" => count[calls[c].worker] < MaxExecutions

(* A crash that close has handled awaits the release of its worker.        *)
Handled ==
  /\ \A w \in crashHandled :
       /\ w \in busy /\ proc[w] = "closed"
       /\ \E c \in Call : call[c].at = "crashed" /\ call[c].worker = w
  /\ \A v, w \in crashHandled : v = w

PoolInv ==
  /\ TypeOK
  /\ Held(idle, busy, call)
  /\ Lined(waitQueue, call)
  /\ NoIdleWhileWaiting
  /\ Fresh(idle, call, served)
  /\ Handled
  /\ NoStrayProcess

-----------------------------------------------------------------------------
(* What Serve is called with, a worker that no table holds, and what it    *)
(* leaves behind.                                                          *)
Servable(w, idlers, holders, calls) ==
  /\ idlers \in SUBSET Worker /\ holders \in SUBSET Worker
  /\ calls \in [Call -> Entry] /\ waitQueue \in Seq(Call)
  /\ w \notin idlers \cup holders
  /\ Held(idlers, holders, calls) /\ Lined(waitQueue, calls)
  /\ waitQueue # <<>> => idlers = {}

Served(w, idlers, holders, calls) ==
  /\ idle' \in SUBSET Worker /\ busy' \in SUBSET Worker
  /\ call' \in [Call -> Entry] /\ waitQueue' \in Seq(Call)
  /\ Held(idle', busy', call') /\ Lined(waitQueue', call')
  /\ waitQueue' # <<>> => idle' = {}
  /\ idle' \cup busy' = idlers \cup holders \cup {w}
  /\ holders \subseteq busy' /\ idle' \subseteq idlers \cup {w}
  /\ \A c \in Call : call'[c] = calls[c] \/ call'[c] = [at |-> "granted", worker |-> w]
  /\ \A c \in Call : calls[c].at # "waiting" => call'[c] = calls[c]

(* Serve gives the worker to the head of the line or to the idle ones.     *)
LEMMA ServeKeeps ==
  ASSUME NEW w \in Worker, NEW idlers, NEW holders, NEW calls,
         Servable(w, idlers, holders, calls), Serve(w, idlers, holders, calls)
  PROVE  Served(w, idlers, holders, calls)
<1> USE DEF Servable, Served
<1>1. CASE waitQueue # <<>>
  <2> DEFINE h == Head(waitQueue)
  <2>1. /\ waitQueue' = Tail(waitQueue)
        /\ call' = [calls EXCEPT ![h] = [at |-> "granted", worker |-> w]]
        /\ busy' = holders \cup {w} /\ idle' = idlers
    BY <1>1 DEF Serve, Grant
  <2>2. h \in Call /\ h = waitQueue[1] /\ Len(waitQueue) \in Nat \ {0}
    BY <1>1
  <2>3. calls[h].at = "waiting"
    BY <2>2 DEF Lined
  <2>4. [at |-> "granted", worker |-> w] \in Entry
    BY DEF Entry, CallState
  <2>5. call' \in [Call -> Entry]
    BY <2>1, <2>2, <2>4
  <2>6. Held(idle', busy', call')
    <3>1. \A c \in Call : c # h => call'[c] = calls[c]
      BY <2>1
    <3>2. call'[h].at = "granted" /\ call'[h].worker = w
      BY <2>1, <2>2
    <3>3. calls[h].at \notin HoldingAt
      BY <2>3 DEF HoldingAt
    <3>4. "granted" \in HoldingAt
      BY DEF HoldingAt
    <3> QED
      BY <2>1, <2>2, <3>1, <3>2, <3>3, <3>4 DEF Held
  <2>7. Tail(waitQueue) \in Seq(Call) /\ Len(Tail(waitQueue)) = Len(waitQueue) - 1
        /\ \A j \in 1..Len(Tail(waitQueue)) :
             Tail(waitQueue)[j] = waitQueue[j + 1] /\ j + 1 \in 1..Len(waitQueue)
    BY <2>2
  <2>8. Lined(waitQueue', call')
    <3>1. \A j \in 1..Len(waitQueue) : waitQueue[j] \in Call
      OBVIOUS
    <3>2. \A j \in 1..Len(Tail(waitQueue)) : Tail(waitQueue)[j] # h
      BY <2>2, <2>7 DEF Lined
    <3>3. \A j \in 1..Len(Tail(waitQueue)) : call'[Tail(waitQueue)[j]].at = "waiting"
      BY <2>1, <2>7, <3>1, <3>2 DEF Lined
    <3>4. \A j, k \in 1..Len(Tail(waitQueue)) :
            Tail(waitQueue)[j] = Tail(waitQueue)[k] => j = k
      BY <2>2, <2>7 DEF Lined
    <3> QED
      BY <2>1, <3>3, <3>4 DEF Lined
  <2> QED
    BY <1>1, <2>1, <2>2, <2>3, <2>5, <2>6, <2>7, <2>8
<1>2. CASE waitQueue = <<>>
  <2>1. /\ waitQueue' = waitQueue /\ call' = calls
        /\ busy' = holders /\ idle' = idlers \cup {w}
    BY <1>2 DEF Serve
  <2>2. Held(idle', busy', call')
    BY <2>1 DEF Held
  <2> QED
    BY <1>2, <2>1, <2>2
<1> QED
  BY <1>1, <1>2

(* The calls whose subprocess has gone stay with their worker.             *)
LEMMA RejectedKeeps ==
  ASSUME TypeOK, Held(idle, busy, call), Lined(waitQueue, call), NEW w \in Worker
  PROVE  /\ Rejected(w) \in [Call -> Entry]
         /\ Held(idle, busy, Rejected(w)) /\ Lined(waitQueue, Rejected(w))
         /\ \A c \in Call :
              /\ Rejected(w)[c].worker = call[c].worker
              /\ Rejected(w)[c].at # call[c].at =>
                   call[c].at = "running" /\ Rejected(w)[c].at = "crashed"
              /\ (call[c].at = "running" /\ call[c].worker = w) =>
                   Rejected(w)[c].at = "crashed"
<1>1. call \in [Call -> Entry]
  BY DEF TypeOK, Entry
<1>2. \A c \in Call :
        call[c] = [at |-> "running", worker |-> w]
          <=> call[c].at = "running" /\ call[c].worker = w
  BY <1>1 DEF Entry
<1>3. \A c \in Call :
        Rejected(w)[c] = IF call[c].at = "running" /\ call[c].worker = w
                         THEN [call[c] EXCEPT !.at = "crashed"] ELSE call[c]
  BY <1>2 DEF Rejected
<1>4. Rejected(w) \in [Call -> Entry]
  BY <1>1, <1>3 DEF Rejected, Entry, CallState
<1>5. \A c \in Call :
        /\ Rejected(w)[c].worker = call[c].worker
        /\ Rejected(w)[c].at # call[c].at =>
             call[c].at = "running" /\ Rejected(w)[c].at = "crashed"
        /\ (call[c].at = "running" /\ call[c].worker = w) => Rejected(w)[c].at = "crashed"
  BY <1>1, <1>3 DEF Entry
<1>6. \A c \in Call : Rejected(w)[c].at \in HoldingAt <=> call[c].at \in HoldingAt
  BY <1>5 DEF HoldingAt
<1>7. Held(idle, busy, Rejected(w))
  BY <1>5, <1>6 DEF Held
<1>8. Lined(waitQueue, Rejected(w))
  <2>1. \A j \in 1..Len(waitQueue) : waitQueue[j] \in Call
    BY DEF TypeOK
  <2> QED
    BY <1>5, <2>1 DEF Lined
<1> QED
  BY <1>4, <1>5, <1>7, <1>8

(* No macrotask meets a crash whose release is pending.                    *)
LEMMA QuietMeansReleased ==
  ASSUME PoolInv, Quiet
  PROVE  /\ crashHandled = {} /\ phase # "closed"
         /\ \A c \in Call : call[c].at \notin {"granted", "answered", "crashed"}
BY DEF PoolInv, Handled, Quiet, CallsAt

(* New processes take names that nothing holds.                            *)
LEMMA FreeIsFree ==
  ASSUME NEW w \in FreeWorkers
  PROVE  /\ w \in Worker /\ w \notin idle \cup busy /\ w \notin crashHandled
         /\ \A c \in Call : call[c].worker # w
BY DEF FreeWorkers, Referenced

(* The pool starts in the invariant, with its target of idle workers.      *)
LEMMA InitHolds == Init => PoolInv
<1> SUFFICES ASSUME Init PROVE PoolInv
  OBVIOUS
<1>1. TypeOK
  BY Parameters DEF Init, TypeOK, CallState, ProcState
<1>2. Held(idle, busy, call) /\ Lined(waitQueue, call) /\ Handled
  BY DEF Init, Held, HoldingAt, Lined, Handled
<1>3. NoIdleWhileWaiting /\ NoStrayProcess
  BY DEF Init, NoIdleWhileWaiting, NoStrayProcess
<1>4. Fresh(idle, call, served)
  BY Parameters DEF Init, Fresh
<1> QED
  BY <1>1, <1>2, <1>3, <1>4 DEF PoolInv

-----------------------------------------------------------------------------
(* Each action keeps the invariant.                                        *)
LEMMA ExecuteKeeps == ASSUME PoolInv, NEW c \in Call, Execute(c) PROVE PoolInv'
<1>1. /\ TypeOK /\ Held(idle, busy, call) /\ Lined(waitQueue, call)
      /\ NoIdleWhileWaiting /\ Fresh(idle, call, served) /\ Handled /\ NoStrayProcess
  BY DEF PoolInv
<1>2. call[c].at = "new" /\ call \in [Call -> Entry]
  BY DEF Execute, PoolInv, TypeOK, Entry
<1>3. UNCHANGED <<crashHandled, active, target, proc, wired, served, killing, killed,
                  overlapped, phase, draining>>
  BY DEF Execute, processes, closing, history
<1>4. \A j \in 1..Len(waitQueue) : waitQueue[j] \in Call \ {c}
  BY <1>1, <1>2 DEF TypeOK, Lined
<1>5. CASE Refuse(c)
  <2>1. /\ UNCHANGED <<idle, busy, waitQueue>>
        /\ call' = [call EXCEPT ![c].at = "refused"]
    BY <1>5 DEF Refuse, Moved
  <2>2. call' \in [Call -> Entry] /\ \A d \in Call : d # c => call'[d] = call[d]
    BY <1>2, <2>1 DEF Entry, CallState
  <2>3. call'[c].at = "refused"
    BY <1>2, <2>1
  <2>4. TypeOK'
    BY <1>1, <1>3, <2>1, <2>2 DEF TypeOK, Entry
  <2>5. Held(idle', busy', call')
    BY <1>1, <1>2, <2>1, <2>2, <2>3 DEF Held, HoldingAt
  <2>6. Lined(waitQueue', call')
    BY <1>1, <1>4, <2>1, <2>2 DEF Lined
  <2>7. NoIdleWhileWaiting' /\ Fresh(idle', call', served') /\ Handled' /\ NoStrayProcess'
    BY <1>1, <1>2, <1>3, <2>1, <2>2, <2>3
    DEF NoIdleWhileWaiting, Fresh, Handled, NoStrayProcess
  <2> QED
    BY <2>4, <2>5, <2>6, <2>7 DEF PoolInv
<1>6. ASSUME NEW w \in idle, idle' = idle \ {w}, busy' = busy \cup {w},
             call' = Grant(call, c, w), UNCHANGED waitQueue
      PROVE  PoolInv'
  <2>1. w \in Worker /\ [at |-> "granted", worker |-> w] \in Entry
    BY <1>1 DEF TypeOK, Entry, CallState
  <2>2. call' \in [Call -> Entry] /\ \A d \in Call : d # c => call'[d] = call[d]
    BY <1>2, <1>6, <2>1 DEF Grant
  <2>3. call'[c].at = "granted" /\ call'[c].worker = w
    BY <1>2, <1>6 DEF Grant
  <2>4. TypeOK'
    BY <1>1, <1>3, <1>6, <2>1, <2>2 DEF TypeOK, Entry
  <2>5. Held(idle', busy', call')
    BY <1>1, <1>2, <1>6, <2>2, <2>3 DEF Held, HoldingAt
  <2>6. Lined(waitQueue', call')
    BY <1>1, <1>4, <1>6, <2>2 DEF Lined
  <2>7. NoIdleWhileWaiting' /\ Fresh(idle', call', served') /\ Handled' /\ NoStrayProcess'
    BY <1>1, <1>2, <1>3, <1>6, <2>2, <2>3
    DEF NoIdleWhileWaiting, Fresh, Handled, NoStrayProcess
  <2> QED
    BY <2>4, <2>5, <2>6, <2>7 DEF PoolInv
<1>7. ASSUME idle = {}, waitQueue' = Append(waitQueue, c), call' = Moved(c, "waiting"),
             UNCHANGED <<idle, busy>>
      PROVE  PoolInv'
  <2>2. call' \in [Call -> Entry] /\ \A d \in Call : d # c => call'[d] = call[d]
    BY <1>2, <1>7 DEF Moved, Entry, CallState
  <2>3. call'[c].at = "waiting"
    BY <1>2, <1>7 DEF Moved
  <2>4. TypeOK'
    BY <1>1, <1>3, <1>7, <2>2 DEF TypeOK, Entry
  <2>5. Held(idle', busy', call')
    BY <1>1, <1>2, <1>7, <2>2, <2>3 DEF Held, HoldingAt
  <2>6. Lined(waitQueue', call')
    <3>1. waitQueue \in Seq(Call)
      BY <1>1 DEF TypeOK
    <3> QED
      BY <1>1, <1>4, <1>7, <2>2, <2>3, <3>1 DEF Lined
  <2>7. NoIdleWhileWaiting' /\ Fresh(idle', call', served') /\ Handled' /\ NoStrayProcess'
    BY <1>1, <1>2, <1>3, <1>7, <2>2, <2>3
    DEF NoIdleWhileWaiting, Fresh, Handled, NoStrayProcess
  <2> QED
    BY <2>4, <2>5, <2>6, <2>7 DEF PoolInv
<1> QED
  BY <1>5, <1>6, <1>7 DEF Execute, Acquire

(* What a call that keeps its worker and its place leaves as it is.        *)
LEMMA MovedKeeps ==
  ASSUME PoolInv, NEW c \in Call, NEW to \in HoldingAt, call[c].at \in HoldingAt
  PROVE  /\ Moved(c, to) \in [Call -> Entry]
         /\ Held(idle, busy, Moved(c, to)) /\ Lined(waitQueue, Moved(c, to))
         /\ \A d \in Call : d # c => Moved(c, to)[d] = call[d]
         /\ Moved(c, to)[c].at = to /\ Moved(c, to)[c].worker = call[c].worker
<1>1. call \in [Call -> Entry]
  BY DEF PoolInv, TypeOK, Entry
<1>2. /\ Moved(c, to) \in [Call -> Entry]
      /\ \A d \in Call : d # c => Moved(c, to)[d] = call[d]
      /\ Moved(c, to)[c].at = to /\ Moved(c, to)[c].worker = call[c].worker
  BY <1>1 DEF Moved, Entry, CallState, HoldingAt
<1>3. Held(idle, busy, Moved(c, to))
  <2>1. \A d \in Call : Moved(c, to)[d].worker = call[d].worker
    BY <1>2
  <2>2. \A d \in Call : Moved(c, to)[d].at \in HoldingAt <=> call[d].at \in HoldingAt
    BY <1>2
  <2>3. Held(idle, busy, call)
    BY DEF PoolInv
  <2> QED
    BY <2>1, <2>2, <2>3 DEF Held
<1>4. Lined(waitQueue, Moved(c, to))
  <2>1. \A j \in 1..Len(waitQueue) : waitQueue[j] \in Call
    BY DEF PoolInv, TypeOK
  <2>2. \A j \in 1..Len(waitQueue) : waitQueue[j] # c
    BY DEF PoolInv, Lined, HoldingAt
  <2> QED
    BY <1>2, <2>1, <2>2 DEF PoolInv, Lined
<1> QED
  BY <1>2, <1>3, <1>4

(* executeCode resumes with its worker: it runs, or finds the subprocess   *)
(* dead, and either way keeps the worker.                                  *)
LEMMA StartKeeps == ASSUME PoolInv, NEW c \in Call, Start(c) PROVE PoolInv'
<1> DEFINE w == call[c].worker
<1>1. /\ TypeOK /\ Held(idle, busy, call) /\ NoIdleWhileWaiting
      /\ Fresh(idle, call, served) /\ Handled /\ NoStrayProcess
  BY DEF PoolInv
<1>2. call[c].at = "granted" /\ call[c].at \in HoldingAt
      /\ {"running", "crashed"} \subseteq HoldingAt
  BY DEF Start, HoldingAt
<1>3. w \in busy \ idle /\ w \in Worker
  BY <1>1, <1>2 DEF Held, TypeOK
<1>4. UNCHANGED <<idle, busy, crashHandled, waitQueue, target, proc, wired, killing, killed,
                  phase, draining>>
  BY DEF Start, lists, closing
<1>5. active' \in [Instance -> Worker \cup {None}] /\ overlapped' \subseteq Call
  BY <1>1, <1>3, Parameters DEF Start, Started, CallsAt, TypeOK
<1>6. PICK to \in {"running", "crashed"} :
        /\ call' = Moved(c, to)
        /\ served' = served \/ served' = [served EXCEPT ![w] = @ + 1]
  BY DEF Start
<1>7. /\ call' \in [Call -> Entry]
      /\ Held(idle', busy', call') /\ Lined(waitQueue', call')
      /\ \A d \in Call : d # c => call'[d] = call[d]
      /\ call'[c].at = to
  BY <1>2, <1>4, <1>6, MovedKeeps
<1>8. served[w] \in 0..MaxExecutions /\ served[w] < MaxExecutions
  BY <1>1, <1>2, <1>3 DEF TypeOK, Fresh
<1>9. served' \in [Worker -> 0..MaxExecutions] /\ \A v \in Worker : v # w => served'[v] = served[v]
  BY <1>1, <1>6, <1>8, Parameters DEF TypeOK
<1>10. TypeOK'
  BY <1>1, <1>4, <1>5, <1>7, <1>9 DEF TypeOK, Entry
<1>11. Fresh(idle', call', served')
  <2>1. \A v \in idle' : v # w /\ v \in Worker
    BY <1>1, <1>3, <1>4 DEF TypeOK
  <2>2. \A d \in Call : call'[d].at = "granted" =>
          d # c /\ call'[d] = call[d] /\ call[d].worker # w /\ call[d].worker \in Worker
    BY <1>1, <1>2, <1>6, <1>7 DEF Held, HoldingAt, TypeOK
  <2> QED
    BY <1>1, <1>4, <1>9, <2>1, <2>2 DEF Fresh
<1>12. Handled' /\ NoIdleWhileWaiting' /\ NoStrayProcess'
  <2>1. \A v \in crashHandled : \E d \in Call : call'[d].at = "crashed" /\ call'[d].worker = v
    BY <1>1, <1>2, <1>7 DEF Handled
  <2> QED
    BY <1>1, <1>4, <2>1 DEF Handled, NoIdleWhileWaiting, NoStrayProcess
<1> QED
  BY <1>7, <1>10, <1>11, <1>12 DEF PoolInv

(* Calls settle and processes die; the tables of the pool stay as they are.*)
LEMMA DyingKeeps ==
  ASSUME PoolInv, Quiet, proc' \in [Worker -> ProcState],
         \A w \in Worker : proc'[w] = "up" => proc[w] = "up",
         call' \in [Call -> Entry], Held(idle, busy, call'), Lined(waitQueue, call'),
         \A c \in Call : call'[c].at # "granted",
         active' \in [Instance -> Worker \cup {None}], killed' \subseteq Call,
         overlapped' \subseteq Call,
         killing' \subseteq Instance \X (Worker \cup {None}),
         UNCHANGED <<idle, busy, crashHandled, waitQueue, target, wired, served,
                     phase, draining>>
  PROVE  PoolInv'
<1>1. TypeOK'
  BY DEF PoolInv, TypeOK, Entry
<1>2. crashHandled' = {}
  BY QuietMeansReleased
<1>3. Handled' /\ NoIdleWhileWaiting' /\ NoStrayProcess' /\ Fresh(idle', call', served')
  BY <1>2 DEF PoolInv, Handled, NoIdleWhileWaiting, NoStrayProcess, Fresh, TypeOK
<1> QED
  BY <1>1, <1>3 DEF PoolInv

(* A line on stdout settles a call, which keeps its worker until           *)
(* executeCode resumes.                                                    *)
LEMMA RespondKeeps == ASSUME PoolInv, NEW c \in Call, Respond(c) PROVE PoolInv'
<1>1. PICK to \in {"answered", "crashed"} : call' = Moved(c, to)
  BY DEF Respond
<1>2. /\ Quiet /\ call[c].at \in HoldingAt /\ to \in HoldingAt
      /\ UNCHANGED <<idle, busy, crashHandled, waitQueue, active, target, proc, wired,
                     served, killing, killed, overlapped, phase, draining>>
  BY DEF Respond, HoldingAt, lists, processes, closing, history
<1>3. TypeOK
  BY DEF PoolInv
<1>4. /\ call' \in [Call -> Entry]
      /\ Held(idle, busy, call') /\ Lined(waitQueue, call')
      /\ \A d \in Call : call'[d].at # "granted"
  BY <1>1, <1>2, QuietMeansReleased, MovedKeeps
<1>5. /\ proc' \in [Worker -> ProcState]
      /\ active' \in [Instance -> Worker \cup {None}]
      /\ killed' \subseteq Call /\ overlapped' \subseteq Call
      /\ killing' \subseteq Instance \X (Worker \cup {None})
  BY <1>2, <1>3 DEF TypeOK
<1> QED
  BY <1>1, <1>2, <1>4, <1>5, DyingKeeps

(* The timer of execute kills the subprocess and settles its call.         *)
LEMMA TimeoutKeeps == ASSUME PoolInv, NEW c \in Call, Timeout(c) PROVE PoolInv'
<1>1. /\ Quiet /\ call[c].at \in HoldingAt /\ "crashed" \in HoldingAt
      /\ call' = Moved(c, "crashed") /\ proc' = [proc EXCEPT ![call[c].worker] = "dead"]
      /\ UNCHANGED <<idle, busy, crashHandled, waitQueue, active, target, wired,
                     served, killing, killed, overlapped, phase, draining>>
  BY DEF Timeout, HoldingAt, lists, closing, history
<1>2. TypeOK
  BY DEF PoolInv
<1>3. proc' \in [Worker -> ProcState] /\ \A w \in Worker : proc'[w] = "up" => proc[w] = "up"
  BY <1>1, <1>2 DEF TypeOK, ProcState
<1>4. /\ call' \in [Call -> Entry]
      /\ Held(idle, busy, call') /\ Lined(waitQueue, call')
      /\ \A d \in Call : call'[d].at # "granted"
  BY <1>1, QuietMeansReleased, MovedKeeps
<1>5. /\ active' \in [Instance -> Worker \cup {None}]
      /\ killed' \subseteq Call /\ overlapped' \subseteq Call
      /\ killing' \subseteq Instance \X (Worker \cup {None})
  BY <1>1, <1>2 DEF TypeOK
<1> QED
  BY <1>1, <1>3, <1>4, <1>5, DyingKeeps

(* An error event kills the subprocess and settles the call that runs on   *)
(* it.                                                                     *)
LEMMA ProcessErrorKeeps == ASSUME PoolInv, NEW w \in Worker, ProcessError(w) PROVE PoolInv'
<1>1. /\ Quiet /\ call' = Rejected(w) /\ proc' = [proc EXCEPT ![w] = "dead"]
      /\ UNCHANGED <<idle, busy, crashHandled, waitQueue, active, target, wired,
                     served, killing, killed, overlapped, phase, draining>>
  BY DEF ProcessError, lists, closing, history
<1>2. TypeOK /\ Held(idle, busy, call) /\ Lined(waitQueue, call)
  BY DEF PoolInv
<1>3. proc' \in [Worker -> ProcState] /\ \A v \in Worker : proc'[v] = "up" => proc[v] = "up"
  BY <1>1, <1>2 DEF TypeOK, ProcState
<1>4. /\ call' \in [Call -> Entry]
      /\ Held(idle, busy, call') /\ Lined(waitQueue, call')
      /\ \A d \in Call : call'[d].at # "granted"
  <2>1. /\ Rejected(w) \in [Call -> Entry]
        /\ Held(idle, busy, Rejected(w)) /\ Lined(waitQueue, Rejected(w))
        /\ \A d \in Call : Rejected(w)[d].at # call[d].at => Rejected(w)[d].at = "crashed"
    BY <1>2, RejectedKeeps
  <2>2. \A d \in Call : call[d].at # "granted"
    BY <1>1, QuietMeansReleased
  <2> QED
    BY <1>1, <2>1, <2>2
<1>5. /\ active' \in [Instance -> Worker \cup {None}]
      /\ killed' \subseteq Call /\ overlapped' \subseteq Call
      /\ killing' \subseteq Instance \X (Worker \cup {None})
  BY <1>1, <1>2 DEF TypeOK
<1> QED
  BY <1>1, <1>3, <1>4, <1>5, DyingKeeps

(* killWorker forgets the instance and signals its worker; no table of the *)
(* pool changes.                                                           *)
LEMMA KillWorkerKeeps == ASSUME PoolInv, NEW i \in Instance, KillWorker(i) PROVE PoolInv'
<1> DEFINE w == active[i]
<1>1. /\ Quiet /\ w # None /\ active' = Forget(i) /\ killed' \subseteq killed \cup Call
      /\ UNCHANGED <<idle, busy, crashHandled, waitQueue, call, target, wired,
                     served, overlapped, phase, draining>>
  BY DEF KillWorker, CallsAt, lists, closing
<1>2. TypeOK /\ Held(idle, busy, call) /\ Lined(waitQueue, call) /\ w \in Worker
  BY <1>1 DEF PoolInv, TypeOK
<1>3. /\ proc' \in [Worker -> ProcState]
      /\ \A v \in Worker : proc'[v] = "up" => proc[v] = "up"
      /\ killing' \subseteq Instance \X (Worker \cup {None})
  <2>1. KillWithGrace(i, w) /\ proc \in [Worker -> ProcState]
    BY <1>2 DEF KillWorker, TypeOK
  <2>2. CASE UNCHANGED <<proc, killing>>
    BY <1>2, <2>1, <2>2 DEF TypeOK
  <2>3. CASE proc' = [proc EXCEPT ![w] = "term"] /\ killing' = killing \cup {<<i, w>>}
    <3>1. proc' \in [Worker -> ProcState]
      BY <2>1, <2>3 DEF ProcState
    <3>2. \A v \in Worker : proc'[v] = "up" => proc[v] = "up"
      BY <1>2, <2>1, <2>3
    <3>3. <<i, w>> \in Instance \X (Worker \cup {None})
      BY <1>2
    <3>4. killing' \subseteq Instance \X (Worker \cup {None})
      BY <1>2, <2>3, <3>3 DEF TypeOK
    <3> QED
      BY <3>1, <3>2, <3>4
  <2> QED
    BY <2>1, <2>2, <2>3 DEF KillWithGrace
<1>4. active' \in [Instance -> Worker \cup {None}] /\ call \in [Call -> Entry]
  BY <1>1, <1>2 DEF TypeOK, Forget, Entry
<1>5. \A d \in Call : call[d].at # "granted"
  BY <1>1, QuietMeansReleased
<1> QED
  BY <1>1, <1>2, <1>3, <1>4, <1>5, DyingKeeps DEF TypeOK

(* Processes that are disposed of are not up any more.                     *)
LEMMA DisposeKeeps ==
  ASSUME TypeOK, NEW gone \in SUBSET Worker
  PROVE  /\ Dispose(proc, gone) \in [Worker -> ProcState]
         /\ \A w \in Worker : Dispose(proc, gone)[w] = "up" => proc[w] = "up" /\ w \notin gone
         /\ \A w \in Worker : w \notin gone => Dispose(proc, gone)[w] = proc[w]
         /\ \A w \in Worker : proc[w] = "closed" => Dispose(proc, gone)[w] = "closed"
         /\ Unheard(gone) \subseteq Instance \X (Worker \cup {None})
<1>1. \A k \in killing : k[1] \in Instance /\ k[2] \in Worker \cup {None}
  BY DEF TypeOK
<1> QED
  BY <1>1 DEF Dispose, TypeOK, ProcState, Unheard

(* shutdown empties the line and disposes of the idle workers; calls keep  *)
(* the busy ones.                                                          *)
LEMMA ShutdownKeeps == ASSUME PoolInv, Shutdown PROVE PoolInv'
<1>1. /\ waitQueue' = <<>> /\ idle' = {} /\ proc' = Dispose(proc, idle)
      /\ wired' = wired \ idle /\ killing' = Unheard(idle) /\ draining' = busy
      /\ phase' \in {"closed", "draining"}
      /\ UNCHANGED <<busy, crashHandled, active, target, call, served, killed,
                     overlapped>>
      /\ Quiet
  BY DEF Shutdown, history
<1>2. TypeOK /\ idle \in SUBSET Worker
  BY DEF PoolInv, TypeOK
<1>3. TypeOK'
  BY <1>1, <1>2, DisposeKeeps DEF TypeOK
<1>4. crashHandled' = {}
  BY <1>1, QuietMeansReleased
<1>5. Held(idle', busy', call')
  BY <1>1 DEF PoolInv, Held
<1>6. Lined(waitQueue', call') /\ NoIdleWhileWaiting' /\ Handled'
  BY <1>1, <1>4 DEF Lined, NoIdleWhileWaiting, Handled
<1>7. Fresh(idle', call', served')
  BY <1>1 DEF PoolInv, Fresh
<1>8. NoStrayProcess'
  BY <1>1, <1>2, DisposeKeeps DEF PoolInv, NoStrayProcess
<1> QED
  BY <1>3, <1>5, <1>6, <1>7, <1>8 DEF PoolInv

(* What shutdown does after its await signals only processes that are      *)
(* still alive.                                                            *)
LEMMA ShutdownEndsKeeps == ASSUME PoolInv, ShutdownEnds PROVE PoolInv'
<1> DEFINE alive == {w \in draining : ~IsDead(w)}
<1>1. /\ Quiet /\ proc' = Dispose(proc, alive) /\ wired' = wired \ alive
      /\ killing' = Unheard(alive) /\ phase' = "closed" /\ draining' = {}
      /\ UNCHANGED <<idle, busy, crashHandled, waitQueue, active, target, call, served,
                     killed, overlapped>>
  BY DEF ShutdownEnds, lists, history
<1>2. TypeOK /\ alive \in SUBSET Worker
  BY DEF PoolInv, TypeOK
<1>3. TypeOK'
  BY <1>1, <1>2, DisposeKeeps DEF TypeOK
<1>4. crashHandled' = {}
  BY <1>1, QuietMeansReleased
<1>5. /\ Held(idle', busy', call') /\ Lined(waitQueue', call') /\ Fresh(idle', call', served')
      /\ NoIdleWhileWaiting' /\ Handled'
  BY <1>1, <1>4 DEF PoolInv, Held, Lined, Fresh, NoIdleWhileWaiting, Handled
<1>6. NoStrayProcess'
  BY <1>1, <1>2, DisposeKeeps DEF PoolInv, NoStrayProcess
<1> QED
  BY <1>3, <1>5, <1>6 DEF PoolInv

(* A close takes an idle worker out, or marks the crash of a busy one as   *)
(* handled, and gives the replacement to the line or to the idle workers.  *)
LEMMA CloseKeeps == ASSUME PoolInv, NEW w \in Worker, Close(w) PROVE PoolInv'
<1> DEFINE shut == [proc EXCEPT ![w] = "closed"]
<1>1. /\ TypeOK /\ Held(idle, busy, call) /\ Lined(waitQueue, call)
      /\ NoIdleWhileWaiting /\ Fresh(idle, call, served) /\ NoStrayProcess
  BY DEF PoolInv
<1>2. /\ Rejected(w) \in [Call -> Entry]
      /\ Held(idle, busy, Rejected(w)) /\ Lined(waitQueue, Rejected(w))
      /\ \A d \in Call : /\ Rejected(w)[d].at # call[d].at => Rejected(w)[d].at = "crashed"
                         /\ (call[d].at = "running" /\ call[d].worker = w) =>
                              Rejected(w)[d].at = "crashed"
                         /\ Rejected(w)[d].worker = call[d].worker
  BY <1>1, RejectedKeeps
<1>3. /\ Quiet /\ crashHandled = {}
      /\ \A d \in Call : call[d].at \notin {"granted", "answered", "crashed"}
  BY QuietMeansReleased DEF Close
<1>4. \A d \in Call : Rejected(w)[d].at # "granted"
  BY <1>2, <1>3
<1>5. shut \in [Worker -> ProcState] /\ shut[w] = "closed"
      /\ \A v \in Worker : v # w => shut[v] = proc[v]
  BY <1>1 DEF TypeOK, ProcState
<1>6. UNCHANGED <<target, killed, overlapped, phase, draining>>
  BY DEF Close, closing, history
<1>7. CASE /\ proc' = shut /\ call' = Rejected(w)
           /\ UNCHANGED <<lists, active, wired, served, killing>>
  <2>1. UNCHANGED <<idle, busy, crashHandled, waitQueue, active, wired, served, killing>>
    BY <1>7 DEF lists
  <2>2. \A v \in Worker : proc'[v] = "up" => proc[v] = "up"
    BY <1>5, <1>7
  <2>3. /\ active' \in [Instance -> Worker \cup {None}]
      /\ killed' \subseteq Call /\ overlapped' \subseteq Call
        /\ killing' \subseteq Instance \X (Worker \cup {None})
    BY <1>1, <1>6, <2>1 DEF TypeOK
  <2>4. /\ call' \in [Call -> Entry] /\ Held(idle, busy, call') /\ Lined(waitQueue, call')
        /\ \A d \in Call : call'[d].at # "granted"
    BY <1>2, <1>4, <1>7
  <2> QED
    BY <1>3, <1>5, <1>6, <1>7, <2>1, <2>2, <2>3, <2>4, DyingKeeps
<1>8. ASSUME Replace(w), crashHandled' = crashHandled \cup ({w} \cap busy),
             active' = [i \in Instance |-> IF active[i] = w THEN None ELSE active[i]],
             killing' = {k \in killing : k[2] # w}
      PROVE  PoolInv'
  <2>1. /\ active' \in [Instance -> Worker \cup {None}]
        /\ killing' \subseteq Instance \X (Worker \cup {None})
        /\ crashHandled' = {w} \cap busy
    BY <1>1, <1>3, <1>8 DEF TypeOK
  <2>2. w \in busy => \E d \in Call : Rejected(w)[d].at = "crashed" /\ Rejected(w)[d].worker = w
    BY <1>1, <1>2, <1>3 DEF Held, HoldingAt
  <2>3. Held(idle \ {w}, busy, Rejected(w))
    BY <1>2 DEF Held
  <2>4. ASSUME NEW new \in FreeWorkers \ {w}, Serve(new, idle \ {w}, busy, Rejected(w)),
               proc' = Spawn(shut, {new}), wired' = wired \cup {new},
               served' = [served EXCEPT ![new] = 0]
        PROVE  PoolInv'
    <3>1. new \in Worker /\ new # w /\ new \notin idle \cup busy
      BY <2>4, FreeIsFree
    <3>2. /\ idle \in SUBSET Worker /\ busy \in SUBSET Worker /\ waitQueue \in Seq(Call)
          /\ waitQueue # <<>> => idle \ {w} = {}
      BY <1>1 DEF TypeOK, NoIdleWhileWaiting
    <3>3. Served(new, idle \ {w}, busy, Rejected(w))
      <4>1. Servable(new, idle \ {w}, busy, Rejected(w))
        BY <1>2, <2>3, <3>1, <3>2 DEF Servable
      <4> QED
        BY <2>4, <3>1, <4>1, ServeKeeps
    <3>4. proc' \in [Worker -> ProcState] /\ proc'[new] = "up"
          /\ \A v \in Worker : v # new => proc'[v] = shut[v]
      BY <1>5, <2>4, <3>1 DEF Spawn, ProcState
    <3>5. served' \in [Worker -> 0..MaxExecutions] /\ served'[new] = 0
          /\ \A v \in Worker : v # new => served'[v] = served[v]
      BY <1>1, <2>4, <3>1, Parameters DEF TypeOK
    <3>6. TypeOK'
      BY <1>1, <1>6, <2>1, <2>4, <3>1, <3>3, <3>4, <3>5 DEF TypeOK, Entry, Served
    <3>7. Fresh(idle', call', served')
      BY <1>1, <1>4, <3>1, <3>2, <3>3, <3>5, Parameters DEF Fresh, Served
    <3>8. Handled'
      <4>1. w \in busy => \E d \in Call : call'[d].at = "crashed" /\ call'[d].worker = w
        BY <2>2, <3>3 DEF Served
      <4> QED
        BY <1>5, <2>1, <3>1, <3>3, <3>4, <4>1 DEF Handled, Served
    <3>9. NoStrayProcess'
      BY <1>1, <1>5, <3>1, <3>3, <3>4 DEF NoStrayProcess, Served
    <3> QED
      BY <3>3, <3>6, <3>7, <3>8, <3>9 DEF PoolInv, NoIdleWhileWaiting, Served
  <2>5. ASSUME idle' = idle \ {w}, call' = Rejected(w), proc' = shut,
               UNCHANGED <<busy, waitQueue, wired, served>>
        PROVE  PoolInv'
    <3>1. TypeOK'
      BY <1>1, <1>2, <1>5, <1>6, <2>1, <2>5 DEF TypeOK, Entry
    <3>2. Handled'
      BY <1>5, <2>1, <2>2, <2>5 DEF Handled
    <3>3. /\ Held(idle', busy', call') /\ Lined(waitQueue', call')
          /\ Fresh(idle', call', served')
      BY <1>1, <1>2, <1>4, <2>3, <2>5 DEF Fresh
    <3>4. NoIdleWhileWaiting' /\ NoStrayProcess'
      BY <1>1, <1>5, <2>5 DEF NoIdleWhileWaiting, NoStrayProcess
    <3> QED
      BY <3>1, <3>2, <3>3, <3>4 DEF PoolInv
  <2> QED
    BY <1>8, <2>4, <2>5 DEF Replace
<1> QED
  BY <1>7, <1>8 DEF Close

(* A call that is over holds nothing, and its worker is held by nobody.    *)
LEMMA LetGo ==
  ASSUME PoolInv, NEW c \in Call, call[c].at \in {"answered", "crashed"},
         NEW calls, calls = [call EXCEPT ![c] = [at |-> Outcome(c), worker |-> None]]
  PROVE  /\ calls \in [Call -> Entry] /\ calls[c].at \notin HoldingAt
         /\ \A d \in Call : d # c => calls[d] = call[d]
         /\ call[c].worker \in busy \ idle /\ call[c].worker \in Worker
         /\ Held(idle, busy \ {call[c].worker}, calls) /\ Lined(waitQueue, calls)
         /\ \A d \in Call : d # c /\ call[d].at \in HoldingAt => call[d].worker # call[c].worker
<1>1. /\ call \in [Call -> Entry] /\ Held(idle, busy, call) /\ Lined(waitQueue, call)
      /\ call[c].at \in HoldingAt /\ busy \in SUBSET Worker
  BY DEF PoolInv, TypeOK, Entry, HoldingAt
<1>2. /\ Outcome(c) \in {"returned", "failed"}
      /\ [at |-> Outcome(c), worker |-> None] \in Entry
  BY DEF Outcome, Entry, CallState
<1>3. /\ calls \in [Call -> Entry]
      /\ \A d \in Call : d # c => calls[d] = call[d]
      /\ calls[c].at \in {"returned", "failed"}
  BY <1>1, <1>2
<1>4. call[c].worker \in busy \ idle /\ call[c].worker \in Worker
  BY <1>1 DEF Held
<1>5. \A d \in Call : d # c /\ call[d].at \in HoldingAt => call[d].worker # call[c].worker
  BY <1>1 DEF Held
<1>6. calls[c].at \notin HoldingAt
  BY <1>3 DEF HoldingAt
<1>7. Held(idle, busy \ {call[c].worker}, calls)
  BY <1>1, <1>3, <1>5, <1>6 DEF Held
<1>8. Lined(waitQueue, calls)
  <2>1. \A j \in 1..Len(waitQueue) : waitQueue[j] \in Call \ {c}
    BY <1>1 DEF PoolInv, TypeOK, Lined, HoldingAt
  <2> QED
    BY <1>1, <1>3, <2>1 DEF Lined
<1> QED
  BY <1>3, <1>4, <1>5, <1>6, <1>7, <1>8

(* release lets go of the worker in each of its four ways: already         *)
(* replaced, surplus, recycled, or kept.                                   *)
LEMMA SettleKeeps == ASSUME PoolInv, NEW c \in Call, Settle(c) PROVE PoolInv'
<1> DEFINE w == call[c].worker
           calls == [call EXCEPT ![c] = [at |-> Outcome(c), worker |-> None]]
<1>1. /\ TypeOK /\ NoIdleWhileWaiting /\ Fresh(idle, call, served) /\ NoStrayProcess
      /\ \A v \in crashHandled :
           /\ v \in busy /\ proc[v] = "closed"
           /\ \E d \in Call : call[d].at = "crashed" /\ call[d].worker = v
      /\ \A u, v \in crashHandled : u = v
  BY DEF PoolInv, Handled
<1>2. /\ calls \in [Call -> Entry] /\ calls[c].at \notin HoldingAt
      /\ \A d \in Call : d # c => calls[d] = call[d]
      /\ w \in busy \ idle /\ w \in Worker
      /\ Held(idle, busy \ {w}, calls) /\ Lined(waitQueue, calls)
  BY LetGo DEF Settle
<1>3. /\ active' = Forget(InstanceOf[c]) /\ Release(w, calls)
      /\ killed' \subseteq killed /\ overlapped' \subseteq overlapped
      /\ UNCHANGED <<target, phase, draining>>
  BY DEF Settle, closing
<1> HIDE DEF w, calls
<1>4. active' \in [Instance -> Worker \cup {None}]
  BY <1>1, <1>3 DEF Forget, TypeOK
<1>5. \A d \in Call : calls[d].at = "granted" => calls[d] = call[d] /\ d # c
  BY <1>2 DEF HoldingAt
<1>6. \A v \in crashHandled \ {w} : \E d \in Call : calls[d].at = "crashed" /\ calls[d].worker = v
  BY <1>1, <1>2 DEF w
<1>7. Disposable(w) \in SUBSET Worker /\ (w \notin Disposable(w) => IsDead(w))
  BY <1>2 DEF Disposable
<1>8. ASSUME ReleaseCrashed(w, calls) PROVE PoolInv'
  <2>1. /\ crashHandled' = {} /\ busy' = busy \ {w} /\ call' = calls /\ proc[w] = "closed"
        /\ UNCHANGED <<idle, waitQueue, proc, wired, served, killing>>
    BY <1>1, <1>8 DEF ReleaseCrashed, processes
  <2>2. TypeOK'
    BY <1>1, <1>2, <1>3, <1>4, <2>1 DEF TypeOK, Entry
  <2>3. Handled' /\ NoIdleWhileWaiting' /\ NoStrayProcess'
    BY <1>1, <2>1 DEF Handled, NoIdleWhileWaiting, NoStrayProcess
  <2>4. Fresh(idle', call', served')
    BY <1>1, <1>5, <2>1 DEF Fresh
  <2> QED
    BY <1>2, <2>1, <2>2, <2>3, <2>4 DEF PoolInv
<1>9. ASSUME ReleaseSurplus(w, calls) PROVE PoolInv'
  <2>1. /\ w \notin crashHandled /\ busy' = busy \ {w} /\ call' = calls
        /\ proc' = Dispose(proc, Disposable(w))
        /\ wired' = wired \ Disposable(w) /\ killing' = Unheard(Disposable(w))
        /\ UNCHANGED <<idle, crashHandled, waitQueue, served>>
    BY <1>9 DEF ReleaseSurplus
  <2>2. /\ proc' \in [Worker -> ProcState]
        /\ \A v \in Worker : proc'[v] = "up" => proc[v] = "up" /\ v \notin Disposable(w)
        /\ \A v \in Worker : proc[v] = "closed" => proc'[v] = "closed"
        /\ killing' \subseteq Instance \X (Worker \cup {None})
    BY <1>1, <1>7, <2>1, DisposeKeeps
  <2>3. TypeOK'
    BY <1>1, <1>2, <1>3, <1>4, <2>1, <2>2 DEF TypeOK, Entry
  <2>4. Handled'
    BY <1>1, <1>6, <2>1, <2>2 DEF Handled, TypeOK
  <2>5. NoIdleWhileWaiting' /\ NoStrayProcess'
    BY <1>1, <1>7, <2>1, <2>2 DEF NoIdleWhileWaiting, NoStrayProcess, IsDead
  <2>6. Fresh(idle', call', served')
    BY <1>1, <1>5, <2>1 DEF Fresh
  <2> QED
    BY <1>2, <2>1, <2>3, <2>4, <2>5, <2>6 DEF PoolInv
<1>10. ASSUME w \notin crashHandled, NEW new \in FreeWorkers,
              Serve(new, idle, busy \ {w}, calls),
              proc' = Spawn(Dispose(proc, Disposable(w)), {new}),
              wired' = {new} \cup (wired \ Disposable(w)),
              killing' = Unheard(Disposable(w)),
              served' = [served EXCEPT ![new] = 0], UNCHANGED crashHandled
       PROVE  PoolInv'
  <2>1. new \in Worker /\ new # w /\ new \notin idle \cup busy /\ new \notin crashHandled
    BY <1>2, <1>10, FreeIsFree
  <2>2. Served(new, idle, busy \ {w}, calls)
    <3>1. Servable(new, idle, busy \ {w}, calls)
      BY <1>1, <1>2, <2>1 DEF Servable, TypeOK, NoIdleWhileWaiting
    <3> QED
      BY <1>10, <2>1, <3>1, ServeKeeps
  <2>3. /\ Dispose(proc, Disposable(w)) \in [Worker -> ProcState]
        /\ \A v \in Worker : Dispose(proc, Disposable(w))[v] = "up" =>
             proc[v] = "up" /\ v \notin Disposable(w)
        /\ \A v \in Worker : proc[v] = "closed" => Dispose(proc, Disposable(w))[v] = "closed"
        /\ killing' \subseteq Instance \X (Worker \cup {None})
    BY <1>1, <1>7, <1>10, DisposeKeeps
  <2>4. /\ proc' \in [Worker -> ProcState]
        /\ \A v \in Worker : v # new => proc'[v] = Dispose(proc, Disposable(w))[v]
    BY <1>10, <2>1, <2>3 DEF Spawn, ProcState
  <2>5. served' \in [Worker -> 0..MaxExecutions] /\ served'[new] = 0
        /\ \A v \in Worker : v # new => served'[v] = served[v]
    BY <1>1, <1>10, <2>1, Parameters DEF TypeOK
  <2>6. TypeOK'
    BY <1>1, <1>3, <1>4, <1>7, <1>10, <2>1, <2>2, <2>3, <2>4, <2>5 DEF TypeOK, Entry, Served
  <2>7. Fresh(idle', call', served')
    <3>1. \A d \in Call : call[d].worker # new
      BY <1>10, FreeIsFree
    <3>2. \A v \in idle' : v = new \/ (v \in idle /\ v \in Worker /\ v # new)
      BY <1>1, <2>1, <2>2 DEF Served, TypeOK
    <3>3. \A v \in idle' : served'[v] < MaxExecutions
      BY <1>1, <2>5, <3>2, Parameters DEF Fresh
    <3>4. \A d \in Call : call'[d].at = "granted" =>
            \/ call'[d].worker = new
            \/ call'[d] = call[d] /\ call[d].at = "granted" /\ call[d].worker \in Worker
      <4>1. \A d \in Call : \/ call'[d] = calls[d]
                           \/ call'[d].worker = new
        BY <2>2 DEF Served
      <4>2. \A d \in Call : calls[d].at = "granted" =>
              calls[d] = call[d] /\ call[d].at = "granted" /\ call[d].worker \in Worker
        BY <1>1, <1>5 DEF PoolInv, Held, HoldingAt, TypeOK
      <4> QED
        BY <4>1, <4>2
    <3>5. \A d \in Call : call'[d].at = "granted" => served'[call'[d].worker] < MaxExecutions
      BY <1>1, <2>5, <3>1, <3>4, Parameters DEF Fresh
    <3> QED
      BY <3>3, <3>5 DEF Fresh
  <2>8. Handled'
    <3>1. \A v \in crashHandled : \E d \in Call : call'[d].at = "crashed" /\ call'[d].worker = v
      BY <1>6, <1>10, <2>2 DEF Served
    <3>2. \A v \in crashHandled : v \in Worker \ {new} /\ v \in busy \ {w} /\ proc[v] = "closed"
      BY <1>1, <1>10, <2>1 DEF TypeOK
    <3>3. \A v \in crashHandled : v \in busy' /\ proc'[v] = "closed"
      BY <2>2, <2>3, <2>4, <3>2 DEF Served
    <3> QED
      BY <1>1, <1>10, <3>1, <3>3 DEF Handled
  <2>9. NoStrayProcess'
    BY <1>1, <1>7, <2>1, <2>2, <2>3, <2>4 DEF NoStrayProcess, Served, IsDead
  <2> QED
    BY <2>2, <2>6, <2>7, <2>8, <2>9 DEF PoolInv, NoIdleWhileWaiting, Served
<1>11. ASSUME ReleaseKept(w, calls) PROVE PoolInv'
  <2>1. /\ w \notin crashHandled /\ ~WornOut(w) /\ Serve(w, idle, busy \ {w}, calls)
        /\ UNCHANGED <<crashHandled, proc, wired, served, killing>>
    BY <1>11 DEF ReleaseKept, processes
  <2>2. Served(w, idle, busy \ {w}, calls)
    <3>1. Servable(w, idle, busy \ {w}, calls)
      BY <1>1, <1>2 DEF Servable, TypeOK, NoIdleWhileWaiting
    <3> QED
      BY <1>2, <2>1, <3>1, ServeKeeps
  <2>3. TypeOK'
    BY <1>1, <1>3, <1>4, <2>1, <2>2 DEF TypeOK, Entry, Served
  <2>4. Fresh(idle', call', served')
    <3>1. served[w] < MaxExecutions
      BY <1>1, <1>2, <2>1, Parameters DEF WornOut, TypeOK
    <3> QED
      BY <1>1, <1>5, <2>1, <2>2, <3>1 DEF Fresh, Served
  <2>5. Handled'
    <3>1. \A v \in crashHandled : \E d \in Call : call'[d].at = "crashed" /\ call'[d].worker = v
      BY <1>6, <2>1, <2>2 DEF Served
    <3> QED
      BY <1>1, <2>1, <2>2, <3>1 DEF Handled, Served
  <2>6. NoStrayProcess'
    BY <1>1, <2>1, <2>2 DEF NoStrayProcess, Served
  <2> QED
    BY <2>2, <2>3, <2>4, <2>5, <2>6 DEF PoolInv, NoIdleWhileWaiting, Served
<1> QED
  BY <1>3, <1>8, <1>9, <1>10, <1>11 DEF Release, ReleaseRecycled

(* resize grows for the waiters first, or shrinks by idle workers; that no *)
(* new worker is idle beside a waiter is a matter of counting them.        *)
LEMMA ResizeKeeps == ASSUME PoolInv, NEW size \in Targets, Resize(size) PROVE PoolInv'
<1>1. /\ TypeOK /\ Held(idle, busy, call) /\ Lined(waitQueue, call) /\ NoIdleWhileWaiting
      /\ Fresh(idle, call, served) /\ NoStrayProcess
  BY DEF PoolInv
<1>2. /\ Quiet /\ target' = size /\ size \in Nat \ {0}
      /\ UNCHANGED <<crashHandled, active, killed, overlapped, phase, draining>>
  BY Parameters DEF Resize, closing, history
<1>3. crashHandled' = {} /\ \A d \in Call : call[d].at \notin {"granted", "answered", "crashed"}
  BY <1>2, QuietMeansReleased
<1>4. ASSUME NEW new \in SUBSET FreeWorkers, size > Size, Cardinality(new) = size - Size,
             Grow(new)
      PROVE  PoolInv'
  <2> DEFINE n == Cardinality(new)
  <2>2. /\ new \in SUBSET Worker /\ \A w \in new : w \notin idle \cup busy
        /\ \A w \in new : \A c \in Call : call[c].worker # w
    BY <1>4, FreeIsFree
  <2>3. IsFiniteSet(new) /\ n \in Nat /\ Len(waitQueue) \in Nat /\ waitQueue \in Seq(Call)
    BY <1>1, <2>2, FS_Subset, FS_CardinalityType, Parameters DEF TypeOK
  <2>4. PICK k \in Nat : /\ k = IF Len(waitQueue) < n THEN Len(waitQueue) ELSE n
                         /\ k <= Len(waitQueue) /\ k <= n /\ (k = Len(waitQueue) \/ k = n)
    BY <2>3
  <2>1. PICK workers \in [1..k -> new] :
          /\ \A i, j \in 1..k : workers[i] = workers[j] => i = j
          /\ waitQueue' = SubSeq(waitQueue, k + 1, Len(waitQueue))
          /\ call' = [c \in Call |->
                        IF \E j \in 1..k : waitQueue[j] = c
                          THEN [at |-> "granted",
                                worker |-> workers[CHOOSE j \in 1..k : waitQueue[j] = c]]
                          ELSE call[c]]
          /\ busy' = busy \cup {workers[j] : j \in 1..k}
          /\ idle' = idle \cup (new \ {workers[j] : j \in 1..k})
          /\ proc' = Spawn(proc, new) /\ wired' = wired \cup new
          /\ served' = [w \in Worker |-> IF w \in new THEN 0 ELSE served[w]]
          /\ UNCHANGED killing
    BY <1>4, <2>4 DEF Grow
  <2> DEFINE taken == {workers[j] : j \in 1..k}
  <2>5. taken \subseteq new /\ \A j \in 1..k : workers[j] \in taken
    OBVIOUS
  <2>6. k = n => taken = new
    <3> SUFFICES ASSUME k = n PROVE taken = new
      OBVIOUS
    <3>1. workers \in Injection(1..k, new)
      BY <2>1 DEF Injection, IsInjective
    <3>2. IsFiniteSet(1..k) /\ Cardinality(1..k) = Cardinality(new)
      BY <2>4, FS_Interval
    <3>3. workers \in Surjection(1..k, new)
      BY <2>3, <3>1, <3>2, FS_Injection
    <3> QED
      BY <2>5, <3>3 DEF Surjection
  <2>7. \A j \in 1..k : /\ call'[waitQueue[j]] = [at |-> "granted", worker |-> workers[j]]
                        /\ waitQueue[j] \in Call /\ call[waitQueue[j]].at = "waiting"
    <3> TAKE j \in 1..k
    <3>1. j \in 1..Len(waitQueue) /\ waitQueue[j] \in Call
      BY <2>3, <2>4
    <3>2. (CHOOSE i \in 1..k : waitQueue[i] = waitQueue[j]) = j
      BY <1>1, <2>3, <2>4 DEF Lined
    <3> QED
      BY <1>1, <2>1, <3>1, <3>2 DEF Lined
  <2>8. \A c \in Call : \/ \E j \in 1..k : waitQueue[j] = c
                        \/ call'[c] = call[c]
    BY <2>1
  <2>9. ASSUME NEW c \in Call, call'[c] # call[c]
        PROVE  /\ call[c].at = "waiting" /\ call'[c].at = "granted" /\ call'[c].worker \in taken
               /\ call'[c] \in Entry
               /\ \E j \in 1..k : waitQueue[j] = c /\ call'[c].worker = workers[j]
    <3>1. PICK j \in 1..k : waitQueue[j] = c
      BY <2>8, <2>9
    <3>2. call'[c] = [at |-> "granted", worker |-> workers[j]] /\ call[c].at = "waiting"
      BY <2>7, <3>1
    <3>3. workers[j] \in taken /\ workers[j] \in Worker
      BY <2>2, <2>5
    <3> QED
      BY <3>1, <3>2, <3>3 DEF Entry, CallState
  <2>20. busy' = busy \cup taken /\ idle' = idle \cup (new \ taken)
    BY <2>1
  <2> HIDE DEF taken
  <2>10. call' \in [Call -> Entry]
    <3>1. call \in [Call -> Entry]
      BY <1>1 DEF TypeOK, Entry
    <3>2. \A c \in Call : call'[c] \in Entry
      BY <2>9, <3>1
    <3> QED
      BY <2>1, <3>2
  <2>11. Held(idle', busy', call')
    <3>2. \A c \in Call : call'[c].at \in HoldingAt =>
            \/ call'[c] = call[c] /\ call[c].at \in HoldingAt /\ call'[c].worker \in busy \ idle
            \/ call'[c] # call[c] /\ call'[c].worker \in taken
      BY <1>1, <2>9 DEF Held
    <3>3. \A c \in Call : call'[c].at \in HoldingAt => call'[c].worker \in busy' \ idle'
      BY <2>2, <2>5, <2>20, <3>2
    <3>4. ASSUME NEW c \in Call, NEW d \in Call, call'[c].at \in HoldingAt,
                 call'[d].at \in HoldingAt, call'[c].worker = call'[d].worker
          PROVE  c = d
      <4>1. CASE call'[c] = call[c] /\ call'[d] = call[d]
        BY <1>1, <3>4, <4>1 DEF Held
      <4>2. CASE call'[c] # call[c] /\ call'[d] # call[d]
        BY <2>1, <2>9, <4>2, <3>4
      <4>3. call'[c] = call[c] <=> call'[d] = call[d]
        BY <2>2, <2>5, <3>2, <3>4
      <4> QED
        BY <4>1, <4>2, <4>3
    <3>5. ASSUME NEW w \in busy'
          PROVE  \E c \in Call : call'[c].at \in HoldingAt /\ call'[c].worker = w
      <4>1. CASE w \in busy
        <5>1. PICK c \in Call : call[c].at \in HoldingAt /\ call[c].worker = w
          BY <1>1, <4>1 DEF Held
        <5>2. call'[c] = call[c]
          BY <2>9, <5>1 DEF HoldingAt
        <5> QED
          BY <5>1, <5>2
      <4>2. CASE w \in taken
        <5>1. PICK j \in 1..k : w = workers[j]
          BY <4>2 DEF taken
        <5>2. call'[waitQueue[j]] = [at |-> "granted", worker |-> w]
          BY <2>7, <5>1
        <5> QED
          BY <2>7, <5>1, <5>2 DEF HoldingAt
      <4> QED
        BY <2>20, <3>5, <4>1, <4>2
    <3> QED
      BY <3>3, <3>4, <3>5 DEF Held
  <2>12. /\ waitQueue' \in Seq(Call) /\ Len(waitQueue') = Len(waitQueue) - k
         /\ \A j \in 1..Len(waitQueue') :
              waitQueue'[j] = waitQueue[j + k] /\ j + k \in 1..Len(waitQueue)
    BY <2>1, <2>3, <2>4
  <2>13. Lined(waitQueue', call')
    <3>1. ASSUME NEW j \in 1..Len(waitQueue'), NEW i \in 1..k
          PROVE  waitQueue[i] # waitQueue'[j]
      <4>1. i \in 1..Len(waitQueue) /\ j + k \in 1..Len(waitQueue) /\ i # j + k
        BY <2>3, <2>4, <2>12
      <4> QED
        BY <1>1, <2>12, <4>1 DEF Lined
    <3>2. \A j \in 1..Len(waitQueue') : waitQueue'[j] \in Call
      BY <2>12
    <3>3. \A j \in 1..Len(waitQueue') : call'[waitQueue'[j]] = call[waitQueue'[j]]
      BY <2>8, <3>1, <3>2
    <3>4. \A j \in 1..Len(waitQueue') : call'[waitQueue'[j]].at = "waiting"
      BY <1>1, <2>12, <3>3 DEF Lined
    <3>5. \A i, j \in 1..Len(waitQueue') : waitQueue'[i] = waitQueue'[j] => i = j
      <4> SUFFICES ASSUME NEW i \in 1..Len(waitQueue'), NEW j \in 1..Len(waitQueue'),
                          waitQueue'[i] = waitQueue'[j]
                   PROVE  i = j
        OBVIOUS
      <4>1. i + k = j + k
        BY <1>1, <2>12 DEF Lined
      <4> QED
        BY <2>4, <2>12, <4>1
    <3> QED
      BY <3>4, <3>5 DEF Lined
  <2>14. NoIdleWhileWaiting'
    <3> SUFFICES ASSUME waitQueue' # <<>> PROVE idle' = {}
      BY DEF NoIdleWhileWaiting
    <3>1. waitQueue # <<>> /\ k = n
      BY <2>3, <2>4, <2>12
    <3> QED
      BY <1>1, <2>6, <2>20, <3>1 DEF NoIdleWhileWaiting
  <2>15. /\ served' \in [Worker -> 0..MaxExecutions]
         /\ \A w \in new : served'[w] = 0
         /\ \A w \in Worker : w \notin new => served'[w] = served[w]
    BY <1>1, <2>1, <2>2, Parameters DEF TypeOK
  <2>16. Fresh(idle', call', served')
    <3>1. \A c \in Call : call'[c].at = "granted" => call'[c].worker \in new
      BY <1>3, <2>5, <2>9
    <3>2. \A w \in idle' : w \in new \/ (w \in idle /\ w \in Worker /\ w \notin new)
      BY <1>1, <2>2, <2>20 DEF TypeOK
    <3>3. \A w \in new : served'[w] < MaxExecutions
      BY <2>15, Parameters
    <3>4. \A w \in idle' : served'[w] < MaxExecutions
      BY <1>1, <2>15, <3>2, <3>3 DEF Fresh
    <3> QED
      BY <3>1, <3>3, <3>4 DEF Fresh
  <2>17. proc' \in [Worker -> ProcState] /\ \A w \in Worker : w \notin new => proc'[w] = proc[w]
    BY <1>1, <2>1 DEF Spawn, TypeOK, ProcState
  <2>18. TypeOK'
    BY <1>1, <1>2, <2>1, <2>2, <2>5, <2>10, <2>12, <2>15, <2>17 DEF TypeOK, Entry
  <2>19. NoStrayProcess' /\ Handled'
    BY <1>1, <1>3, <2>1, <2>17 DEF NoStrayProcess, Handled
  <2> QED
    BY <2>11, <2>13, <2>14, <2>16, <2>18, <2>19 DEF PoolInv
<1>5. ASSUME NEW gone \in SUBSET idle, Shrink(gone) PROVE PoolInv'
  <2>1. /\ idle' = idle \ gone /\ proc' = Dispose(proc, gone)
        /\ wired' = wired \ gone /\ killing' = Unheard(gone)
        /\ UNCHANGED <<busy, waitQueue, call, served>> /\ gone \in SUBSET Worker
    BY <1>1, <1>5 DEF Shrink, TypeOK
  <2>2. TypeOK'
    BY <1>1, <1>2, <2>1, DisposeKeeps DEF TypeOK
  <2>3. /\ Held(idle', busy', call') /\ Lined(waitQueue', call') /\ Fresh(idle', call', served')
        /\ NoIdleWhileWaiting' /\ Handled'
    BY <1>1, <1>3, <2>1 DEF Held, Lined, Fresh, NoIdleWhileWaiting, Handled
  <2>4. NoStrayProcess'
    BY <1>1, <2>1, DisposeKeeps DEF NoStrayProcess
  <2> QED
    BY <2>2, <2>3, <2>4 DEF PoolInv
<1>6. ASSUME UNCHANGED <<idle, busy, waitQueue, call, proc, wired, served, killing>>
      PROVE  PoolInv'
  <2>1. TypeOK'
    BY <1>1, <1>2, <1>6 DEF TypeOK
  <2>2. /\ Held(idle', busy', call') /\ Lined(waitQueue', call') /\ Fresh(idle', call', served')
        /\ NoIdleWhileWaiting' /\ Handled' /\ NoStrayProcess'
    BY <1>1, <1>3, <1>6 DEF Held, Lined, Fresh, NoIdleWhileWaiting, Handled, NoStrayProcess
  <2> QED
    BY <2>1, <2>2 DEF PoolInv
<1> QED
  BY <1>4, <1>5, <1>6 DEF Resize, processes

(* Every step keeps the invariant.                                         *)
LEMMA NextKeeps == PoolInv /\ [Next]_vars => PoolInv'
<1> SUFFICES ASSUME PoolInv, [Next]_vars PROVE PoolInv'
  OBVIOUS
<1>1. ASSUME NEW c \in Call, Execute(c) \/ Resume(c) \/ Ends(c) PROVE PoolInv'
  BY <1>1, ExecuteKeeps, StartKeeps, SettleKeeps, RespondKeeps, TimeoutKeeps DEF Resume, Ends
<1>2. ASSUME NEW i \in Instance, KillWorker(i) PROVE PoolInv'
  BY <1>2, KillWorkerKeeps
<1>3. ASSUME NEW w \in Worker, ProcessError(w) \/ Close(w) PROVE PoolInv'
  BY <1>3, ProcessErrorKeeps, CloseKeeps
<1>4. ASSUME NEW size \in Targets, Resize(size) PROVE PoolInv'
  BY <1>4, ResizeKeeps
<1>5. CASE Shutdown \/ ShutdownEnds
  BY <1>5, ShutdownKeeps, ShutdownEndsKeeps
<1>6. CASE UNCHANGED vars
  <2>1. UNCHANGED <<idle, busy, crashHandled, waitQueue, active, target, call, proc, wired,
                    served, killing, killed, overlapped, phase, draining>>
    BY <1>6 DEF vars, lists, processes, closing, history
  <2>2. TypeOK' /\ Held(idle', busy', call') /\ Lined(waitQueue', call')
    BY <2>1 DEF PoolInv, TypeOK, Held, Lined
  <2>3. Fresh(idle', call', served') /\ NoIdleWhileWaiting' /\ Handled' /\ NoStrayProcess'
    BY <2>1 DEF PoolInv, Fresh, NoIdleWhileWaiting, Handled, NoStrayProcess
  <2> QED
    BY <2>2, <2>3 DEF PoolInv
<1> QED
  BY <1>1, <1>2, <1>3, <1>4, <1>5, <1>6 DEF Next

-----------------------------------------------------------------------------
(* Every variable of the pool keeps its type, whatever the sizes.          *)
THEOREM TypesKept == Spec => []TypeOK
<1>1. PoolInv => TypeOK
  BY DEF PoolInv
<1> QED
  BY <1>1, InitHolds, NextKeeps, PTL DEF Spec

(* acquire, release, the close of a worker and resize never give one       *)
(* subprocess to two calls, nor keep one busy for nobody.                  *)
THEOREM HeldByOneCall == Spec => []WorkerHeldByOneCall
<1>1. PoolInv => WorkerHeldByOneCall
  BY DEF PoolInv, TypeOK, Held, HoldingAt, WorkerHeldByOneCall, Holding, CallsAt
<1> QED
  BY <1>1, InitHolds, NextKeeps, PTL DEF Spec

(* No order of releases, crashes and resizes leaves an idle worker beside  *)
(* a waiting call.                                                         *)
THEOREM NobodyWaitsBesideIdle == Spec => []NoIdleWhileWaiting
<1>1. PoolInv => NoIdleWhileWaiting
  BY DEF PoolInv
<1> QED
  BY <1>1, InitHolds, NextKeeps, PTL DEF Spec

(* Recycling, shrinking and shutting down leave no subprocess running that *)
(* the pool no longer lists.                                               *)
THEOREM NoStrays == Spec => []NoStrayProcess
<1>1. PoolInv => NoStrayProcess
  BY DEF PoolInv
<1> QED
  BY <1>1, InitHolds, NextKeeps, PTL DEF Spec

-----------------------------------------------------------------------------
(* What an action that neither starts nor settles a call does to it: who   *)
(* has started stays so, with the same worker, and nobody joins them.      *)
StartedAt == {"running", "answered", "crashed"}

Same(d) ==
  /\ call[d].at \in StartedAt =>
       call'[d].at \in StartedAt /\ call'[d].worker = call[d].worker
  /\ call'[d].at \in StartedAt => call[d].at \in StartedAt
  /\ call'[d].at = "running" => call[d].at = "running"

(* Serve grants the worker to a call that waits, or touches none.          *)
LEMMA ServeSame ==
  ASSUME PoolInv, NEW calls \in [Call -> Entry], Lined(waitQueue, calls),
         NEW v, NEW idlers, NEW holders, Serve(v, idlers, holders, calls)
  PROVE  \A d \in Call : \/ call'[d] = calls[d]
                         \/ calls[d].at = "waiting" /\ call'[d].at = "granted"
<1>1. waitQueue \in Seq(Call)
  BY DEF PoolInv, TypeOK
<1>2. CASE waitQueue # <<>>
  <2> DEFINE h == Head(waitQueue)
  <2>1. h \in Call /\ h = waitQueue[1] /\ 1 \in 1..Len(waitQueue)
    BY <1>1, <1>2
  <2>2. calls[h].at = "waiting"
    BY <2>1 DEF Lined
  <2>3. call' = [calls EXCEPT ![h] = [at |-> "granted", worker |-> v]]
    BY <1>2 DEF Serve, Grant
  <2> HIDE DEF h
  <2>4. call'[h].at = "granted" /\ \A d \in Call : d # h => call'[d] = calls[d]
    BY <2>1, <2>3
  <2> QED
    BY <2>2, <2>4
<1>3. CASE waitQueue = <<>>
  BY <1>3 DEF Serve
<1> QED
  BY <1>2, <1>3

(* The calls an action leaves alone, and those it moves within the started.*)
LEMMA CallsKept ==
  ASSUME PoolInv
  PROVE  /\ \A c \in Call : Execute(c) \/ Ends(c) => \A d \in Call : Same(d)
         /\ \A w \in Worker : ProcessError(w) \/ Close(w) => \A d \in Call : Same(d)
         /\ \A i \in Instance : KillWorker(i) => \A d \in Call : Same(d)
         /\ \A size \in Targets : Resize(size) => \A d \in Call : Same(d)
         /\ Shutdown \/ ShutdownEnds \/ UNCHANGED vars => \A d \in Call : Same(d)
<1> USE DEF StartedAt, Same
<1>1. TypeOK /\ Held(idle, busy, call) /\ Lined(waitQueue, call) /\ call \in [Call -> Entry]
  BY DEF PoolInv, TypeOK, Entry
<1>2. ASSUME NEW c \in Call, Execute(c) PROVE \A d \in Call : Same(d)
  <2>1. call[c].at = "new" /\ \A d \in Call : d # c => call'[d] = call[d]
    BY <1>1, <1>2 DEF Execute, Refuse, Acquire, Moved, Grant
  <2>2. call'[c].at \in {"refused", "granted", "waiting"}
    BY <1>1, <1>2 DEF Execute, Refuse, Acquire, Moved, Grant, Entry
  <2> QED
    BY <2>1, <2>2
<1>3. ASSUME NEW c \in Call, Ends(c) PROVE \A d \in Call : Same(d)
  <2>1. PICK to \in {"answered", "crashed"} : call' = Moved(c, to)
    BY <1>3 DEF Ends, Respond, Timeout
  <2>2. /\ \A d \in Call : d # c => call'[d] = call[d]
        /\ call[c].at = "running" /\ call'[c].at = to /\ call'[c].worker = call[c].worker
    BY <1>1, <1>3, <2>1 DEF Moved, Entry, Ends, Respond, Timeout
  <2> QED
    BY <2>1, <2>2
<1>4. ASSUME NEW w \in Worker, ProcessError(w) \/ Close(w) PROVE \A d \in Call : Same(d)
  <2>1. /\ Rejected(w) \in [Call -> Entry] /\ Lined(waitQueue, Rejected(w))
        /\ \A d \in Call :
             /\ Rejected(w)[d].worker = call[d].worker
             /\ Rejected(w)[d].at # call[d].at =>
                  call[d].at = "running" /\ Rejected(w)[d].at = "crashed"
    BY <1>1, RejectedKeeps
  <2>2. ASSUME NEW new, Serve(new, idle \ {w}, busy, Rejected(w))
        PROVE  \A d \in Call : \/ call'[d] = Rejected(w)[d]
                               \/ Rejected(w)[d].at = "waiting" /\ call'[d].at = "granted"
    BY <2>1, <2>2, ServeSame
  <2>3. \A d \in Call : \/ call'[d] = Rejected(w)[d]
                        \/ Rejected(w)[d].at = "waiting" /\ call'[d].at = "granted"
    BY <1>4, <2>2 DEF ProcessError, Close, Replace
  <2> QED
    BY <2>1, <2>3
<1>5. ASSUME NEW size \in Targets, Resize(size) PROVE \A d \in Call : Same(d)
  <2>1. ASSUME NEW new \in SUBSET FreeWorkers, Grow(new) PROVE \A d \in Call : Same(d)
    <3> DEFINE served1 == IF Len(waitQueue) < Cardinality(new) THEN Len(waitQueue)
                          ELSE Cardinality(new)
    <3>1. /\ Cardinality(new) \in Nat /\ Len(waitQueue) \in Nat
          /\ \A j \in 1..Len(waitQueue) : waitQueue[j] \in Call
      <4>1. new \in SUBSET Worker
        BY FreeIsFree
      <4> QED
        BY <1>1, <4>1, FS_Subset, FS_CardinalityType, Parameters DEF TypeOK
    <3>2. \A j \in 1..served1 : call[waitQueue[j]].at = "waiting"
      BY <1>1, <3>1 DEF Lined
    <3>3. \A d \in Call : \/ call'[d] = call[d]
                          \/ call'[d].at = "granted" /\ \E j \in 1..served1 : waitQueue[j] = d
      BY <2>1 DEF Grow
    <3> HIDE DEF served1
    <3>4. \A d \in Call : call'[d] = call[d] \/ (call[d].at = "waiting" /\ call'[d].at = "granted")
      BY <3>2, <3>3
    <3> QED
      BY <3>4
  <2> QED
    BY <1>5, <2>1 DEF Resize, Shrink
<1>6. CASE UNCHANGED call
  BY <1>6
<1> QED
  BY <1>2, <1>3, <1>4, <1>5, <1>6 DEF KillWorker, Shutdown, ShutdownEnds, vars

(* Settle is the end of its call and leaves the started others alone.      *)
LEMMA SettleSame ==
  ASSUME PoolInv, NEW c \in Call, Settle(c)
  PROVE  call'[c].at \notin StartedAt /\ \A d \in Call : d # c => Same(d)
<1> DEFINE calls == [call EXCEPT ![c] = [at |-> Outcome(c), worker |-> None]]
<1>1. /\ calls \in [Call -> Entry] /\ Lined(waitQueue, calls)
      /\ calls[c].at \notin HoldingAt /\ \A d \in Call : d # c => calls[d] = call[d]
  BY LetGo DEF Settle
<1>2. Release(call[c].worker, calls)
  BY DEF Settle
<1> HIDE DEF calls
<1>3. \A d \in Call : \/ call'[d] = calls[d]
                      \/ calls[d].at = "waiting" /\ call'[d].at = "granted"
  BY <1>1, <1>2, ServeSame
  DEF Release, ReleaseCrashed, ReleaseSurplus, ReleaseRecycled, ReleaseKept
<1> QED
  BY <1>1, <1>3 DEF Same, StartedAt, HoldingAt

(* Start adds its call to the started, with the worker it was granted.     *)
LEMMA StartSame ==
  ASSUME PoolInv, NEW c \in Call, Start(c)
  PROVE  /\ call[c].at \notin StartedAt /\ call'[c].at \in StartedAt
         /\ call'[c].worker = call[c].worker
         /\ \A d \in Call : d # c => Same(d)
<1>1. call \in [Call -> Entry]
  BY DEF PoolInv, TypeOK, Entry
<1>2. PICK to \in {"running", "crashed"} : call' = Moved(c, to)
  BY DEF Start
<1>3. /\ \A d \in Call : d # c => call'[d] = call[d]
      /\ call[c].at = "granted" /\ call'[c].at = to /\ call'[c].worker = call[c].worker
  BY <1>1, <1>2 DEF Start, Moved, Entry
<1> QED
  BY <1>2, <1>3 DEF Same, StartedAt

-----------------------------------------------------------------------------
(* Calls of one instance that have started and are not over know of each   *)
(* other; with it, what can be said of the entries of activeExecutions.    *)
Beside ==
  \A c, d \in Call :
    (call[c].at \in StartedAt /\ call[d].at \in StartedAt
       /\ InstanceOf[c] = InstanceOf[d] /\ c # d) => c \in overlapped

Found ==
  \A c \in Call : call[c].at = "running" =>
    active[InstanceOf[c]] = call[c].worker \/ c \in killed \/ c \in overlapped

Entries ==
  \A i \in Instance : active[i] # None =>
    \E c \in Call : call[c].at \in StartedAt /\ InstanceOf[c] = i /\ call[c].worker = active[i]

FoundInv == PoolInv /\ Beside /\ Found /\ Entries

(* An action that keeps the started calls keeps this, if it takes no entry *)
(* but those of calls that run no more or are killed.                      *)
LEMMA SameKeeps ==
  ASSUME FoundInv, \A d \in Call : Same(d), overlapped' = overlapped, killed \subseteq killed',
         \A i \in Instance : active'[i] = active[i] \/ active'[i] = None,
         \A d \in Call : call'[d].at = "running" /\ active'[InstanceOf[d]] # active[InstanceOf[d]]
           => d \in killed' \/ active[InstanceOf[d]] # call[d].worker
  PROVE  Beside' /\ Found' /\ Entries'
<1> USE Parameters DEF FoundInv
<1>1. Beside'
  BY DEF Beside, Same
<1>2. Found'
  <2> SUFFICES ASSUME NEW d \in Call, call'[d].at = "running"
               PROVE  \/ active'[InstanceOf[d]] = call'[d].worker
                      \/ d \in killed' \/ d \in overlapped'
    BY DEF Found
  <2>1. call[d].at = "running" /\ call'[d].worker = call[d].worker
    BY DEF Same, StartedAt
  <2> QED
    BY <2>1 DEF Found
<1>3. Entries'
  BY DEF Entries, Same
<1> QED
  BY <1>1, <1>2, <1>3

(* Start overwrites the entry of those it runs beside, who are marked.     *)
LEMMA StartKeepsFound == ASSUME FoundInv, NEW c \in Call, Start(c) PROVE FoundInv'
<1> USE Parameters
<1>1. TypeOK /\ Beside /\ Found /\ Entries /\ PoolInv'
  BY StartKeeps DEF FoundInv, PoolInv
<1>2. /\ call[c].at \notin StartedAt /\ call'[c].at \in StartedAt
      /\ call'[c].worker = call[c].worker /\ \A d \in Call : d # c => Same(d)
  BY StartSame DEF FoundInv
<1>3. /\ active' = [active EXCEPT ![InstanceOf[c]] = call[c].worker] /\ killed' = killed
      /\ \A d \in Call : call[d].at \in StartedAt /\ InstanceOf[d] = InstanceOf[c] =>
           d \in overlapped' /\ c \in overlapped'
      /\ overlapped \subseteq overlapped'
  BY DEF Start, Started, StartedAt, CallsAt
<1>4. /\ active'[InstanceOf[c]] = call[c].worker
      /\ \A i \in Instance : i # InstanceOf[c] => active'[i] = active[i]
  BY <1>1, <1>3 DEF TypeOK
<1>5. Beside'
  BY <1>1, <1>2, <1>3 DEF Beside, Same
<1>6. Found'
  <2> SUFFICES ASSUME NEW d \in Call, call'[d].at = "running"
               PROVE  \/ active'[InstanceOf[d]] = call'[d].worker
                      \/ d \in killed' \/ d \in overlapped'
    BY DEF Found
  <2>1. CASE d = c
    BY <1>2, <1>4, <2>1
  <2>2. CASE d # c
    <3>1. call[d].at = "running" /\ call'[d].worker = call[d].worker /\ call[d].at \in StartedAt
      BY <1>2, <2>2 DEF Same, StartedAt
    <3>2. CASE InstanceOf[d] = InstanceOf[c]
      BY <1>3, <3>1, <3>2
    <3>3. CASE InstanceOf[d] # InstanceOf[c]
      BY <1>1, <1>3, <1>4, <3>1, <3>3 DEF Found
    <3> QED
      BY <3>2, <3>3
  <2> QED
    BY <2>1, <2>2
<1>7. Entries'
  <2> SUFFICES ASSUME NEW i \in Instance, active'[i] # None
               PROVE  \E d \in Call : /\ call'[d].at \in StartedAt /\ InstanceOf[d] = i
                                      /\ call'[d].worker = active'[i]
    BY DEF Entries
  <2>1. CASE i = InstanceOf[c]
    BY <1>2, <1>4, <2>1
  <2>2. CASE i # InstanceOf[c]
    <3>1. PICK d \in Call : /\ call[d].at \in StartedAt /\ InstanceOf[d] = i
                            /\ call[d].worker = active[i]
      BY <1>1, <1>4, <2>2 DEF Entries
    <3> QED
      BY <1>2, <1>4, <2>2, <3>1 DEF Same
  <2> QED
    BY <2>1, <2>2
<1> QED
  BY <1>1, <1>5, <1>6, <1>7 DEF FoundInv

(* Settle takes the entry of its instance; who still runs for it is marked.*)
LEMMA SettleKeepsFound == ASSUME FoundInv, NEW c \in Call, Settle(c) PROVE FoundInv'
<1> USE Parameters
<1>1. TypeOK /\ Beside /\ Found /\ Entries /\ PoolInv'
  BY SettleKeeps DEF FoundInv, PoolInv
<1>2. call'[c].at \notin StartedAt /\ \A d \in Call : d # c => Same(d)
  BY SettleSame DEF FoundInv
<1>3. /\ active' = [active EXCEPT ![InstanceOf[c]] = None] /\ call[c].at \in StartedAt
      /\ killed' = killed \ {c} /\ overlapped' = overlapped \ {c}
  BY DEF Settle, Forget, StartedAt
<1>4. /\ active'[InstanceOf[c]] = None
      /\ \A i \in Instance : i # InstanceOf[c] => active'[i] = active[i]
  BY <1>1, <1>3 DEF TypeOK
<1>5. Beside'
  BY <1>1, <1>2, <1>3 DEF Beside, Same
<1>6. Found'
  <2> SUFFICES ASSUME NEW d \in Call, call'[d].at = "running"
               PROVE  \/ active'[InstanceOf[d]] = call'[d].worker
                      \/ d \in killed' \/ d \in overlapped'
    BY DEF Found
  <2>1. d # c /\ call[d].at = "running" /\ call[d].at \in StartedAt
        /\ call'[d].worker = call[d].worker
    BY <1>2 DEF Same, StartedAt
  <2>2. CASE InstanceOf[d] = InstanceOf[c]
    BY <1>1, <1>3, <2>1, <2>2 DEF Beside
  <2>3. CASE InstanceOf[d] # InstanceOf[c]
    BY <1>1, <1>3, <1>4, <2>1, <2>3 DEF Found
  <2> QED
    BY <2>2, <2>3
<1>7. Entries'
  <2> SUFFICES ASSUME NEW i \in Instance, active'[i] # None
               PROVE  \E d \in Call : /\ call'[d].at \in StartedAt /\ InstanceOf[d] = i
                                      /\ call'[d].worker = active'[i]
    BY DEF Entries
  <2>1. i # InstanceOf[c] /\ active'[i] = active[i]
    BY <1>4
  <2>2. PICK d \in Call : /\ call[d].at \in StartedAt /\ InstanceOf[d] = i
                          /\ call[d].worker = active[i]
    BY <1>1, <2>1 DEF Entries
  <2> QED
    BY <1>2, <2>1, <2>2 DEF Same
<1> QED
  BY <1>1, <1>5, <1>6, <1>7 DEF FoundInv

(* Every step keeps what is said of the entries.                           *)
LEMMA NextKeepsFound == FoundInv /\ [Next]_vars => FoundInv'
<1> SUFFICES ASSUME FoundInv, [Next]_vars PROVE FoundInv'
  OBVIOUS
<1> USE Parameters
<1>1. TypeOK /\ PoolInv /\ PoolInv'
  BY NextKeeps DEF FoundInv, PoolInv
<1>2. ASSUME UNCHANGED <<active, killed, overlapped>>, \A d \in Call : Same(d)
      PROVE  FoundInv'
  BY <1>1, <1>2, SameKeeps DEF FoundInv
<1>3. ASSUME NEW c \in Call, Execute(c) \/ Resume(c) \/ Ends(c) PROVE FoundInv'
  <2>1. CASE Execute(c) \/ Ends(c)
    <3>1. UNCHANGED <<active, killed, overlapped>>
      BY <2>1 DEF Execute, Ends, Respond, Timeout, history
    <3> QED
      BY <1>1, <1>2, <2>1, <3>1, CallsKept
  <2> QED
    BY <1>3, <2>1, StartKeepsFound, SettleKeepsFound DEF Resume
<1>4. ASSUME NEW i \in Instance, KillWorker(i) PROVE FoundInv'
  <2>1. \A d \in Call : Same(d)
    BY <1>1, <1>4, CallsKept
  <2>2. /\ call' = call /\ overlapped' = overlapped /\ active' = [active EXCEPT ![i] = None]
        /\ killed' = killed \cup {c \in Call : call[c].at = "running" /\ InstanceOf[c] = i}
    BY <1>4 DEF KillWorker, Forget, CallsAt
  <2>3. active'[i] = None /\ \A j \in Instance : j # i => active'[j] = active[j]
    BY <1>1, <2>2 DEF TypeOK
  <2>4. \A d \in Call : call'[d].at = "running" /\ active'[InstanceOf[d]] # active[InstanceOf[d]]
          => d \in killed'
    BY <2>2, <2>3
  <2> QED
    BY <1>1, <2>1, <2>2, <2>3, <2>4, SameKeeps DEF FoundInv
<1>5. ASSUME NEW w \in Worker, ProcessError(w) PROVE FoundInv'
  <2>1. UNCHANGED <<active, killed, overlapped>>
    BY <1>5 DEF ProcessError, history
  <2> QED
    BY <1>1, <1>2, <1>5, <2>1, CallsKept
<1>6. ASSUME NEW w \in Worker, Close(w) PROVE FoundInv'
  <2>1. \A d \in Call : Same(d)
    BY <1>1, <1>6, CallsKept
  <2>2. /\ UNCHANGED <<killed, overlapped>>
        /\ \A i \in Instance : active'[i] = active[i] \/ (active[i] = w /\ active'[i] = None)
    BY <1>6 DEF Close, history
  <2>3. \A d \in Call : call'[d].at = "running" => call[d].worker # w
    <3>1. /\ Rejected(w) \in [Call -> Entry] /\ Lined(waitQueue, Rejected(w))
          /\ \A d \in Call : (call[d].at = "running" /\ call[d].worker = w) =>
               Rejected(w)[d].at = "crashed"
      BY <1>1, RejectedKeeps DEF PoolInv
    <3>2. ASSUME NEW new, Serve(new, idle \ {w}, busy, Rejected(w))
          PROVE  \A d \in Call : call'[d] = Rejected(w)[d] \/ call'[d].at = "granted"
      BY <1>1, <3>1, <3>2, ServeSame
    <3>3. \A d \in Call : call'[d] = Rejected(w)[d] \/ call'[d].at = "granted"
      BY <1>6, <3>2 DEF Close, Replace
    <3> QED
      BY <2>1, <3>1, <3>3 DEF Same
  <2> QED
    BY <1>1, <2>1, <2>2, <2>3, SameKeeps DEF FoundInv
<1>7. ASSUME NEW size \in Targets, Resize(size) PROVE FoundInv'
  <2>1. UNCHANGED <<active, killed, overlapped>>
    BY <1>7 DEF Resize, history
  <2> QED
    BY <1>1, <1>2, <1>7, <2>1, CallsKept
<1>8. CASE Shutdown \/ ShutdownEnds \/ UNCHANGED vars
  <2>1. UNCHANGED <<active, killed, overlapped>>
    BY <1>8 DEF Shutdown, ShutdownEnds, vars, history
  <2> QED
    BY <1>1, <1>2, <1>8, <2>1, CallsKept
<1> QED
  BY <1>3, <1>4, <1>5, <1>6, <1>7, <1>8 DEF Next

(* No call has started and no entry is there.                              *)
LEMMA InitFound == Init => FoundInv
BY InitHolds DEF Init, FoundInv, Beside, Found, Entries, StartedAt

-----------------------------------------------------------------------------
(* The worker of a running call is found through activeExecutions until it *)
(* is killed, however many calls its instance makes one after the other; a *)
(* call that settles forgets its own instance only, and a close only those *)
(* of the worker that is gone.                                             *)
THEOREM RunningIsFound == Spec => []RunningIsKillable
<1>1. FoundInv => RunningIsKillable
  BY DEF FoundInv, Found, RunningIsKillable, CallsAt
<1> QED
  BY <1>1, InitFound, NextKeepsFound, PTL DEF Spec

(* An entry never outlives its call: what killWorker looks up is a worker  *)
(* that a call of this very instance holds, calls that overlap included.   *)
THEOREM EntriesAreOwn == Spec => []EntryIsOfItsInstance
<1>1. FoundInv => EntryIsOfItsInstance
  BY DEF FoundInv, Entries, EntryIsOfItsInstance, Started, StartedAt, CallsAt
<1> QED
  BY <1>1, InitFound, NextKeepsFound, PTL DEF Spec
=============================================================================
