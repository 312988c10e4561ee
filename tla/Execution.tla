------------------------------ MODULE Execution ------------------------------
(***************************************************************************)
(* InstanceManager around the code that instances run: the one retry, what *)
(* becomes of an instance whose executor rejects, what commands and a      *)
(* force delete do to a run, the per-invoke overrides, and the writes of   *)
(* the code to a property of its environment with the event stream of that *)
(* property.  One environment, one property of it, the instances invoked   *)
(* in it, each of an action of its own; the states of an instance are      *)
(* those that the manager tells apart (StateMachine has them all, and the  *)
(* second execution that a PAUSE can start), workers are in PythonPool.    *)
(***************************************************************************)
EXTENDS Naturals, Integers, Sequences, SequencesExt, FiniteSets

CONSTANTS
  Instance, Client,    \* instances, and subscribers to the property
  Overriding,          \* the instances that are invoked with overrides
  Entry, Value,        \* entries of the property, their values,
  Unset,               \*   and that of an entry it does not have
  Gone, NoSpec,        \* no environment; one without the property
  NoRun, NoBus,        \* no code in flight; no bus
  BufferSize,          \* events that a bus keeps
  MaxEvents            \* bound on the events of a bus

Entries == [Entry -> Value \cup {Unset}]

(* A property event and a heartbeat, which has no entries; the bus of the  *)
(* property.                                                               *)
Event == [id : Nat, entries : Entries \cup {NoSpec}]
Bus == [next : Nat, buffer : Seq(Event), members : SUBSET Client]

ASSUME ExecutionAssumption ==
  /\ Overriding \subseteq Instance
  /\ Unset \notin Value
  /\ {Gone, NoSpec} \cap Entries = {}
  /\ NoBus \notin Bus
  /\ BufferSize \in Nat \ {0} /\ MaxEvents \in Nat

VARIABLES
  property,    \* the stored property
  inst,        \* each instance: no row, in an active state, recovering
               \*   (ABORTING, STOPPING, CLEARING), final (its finalizer is
               \*   to run) or ended (terminal, reported)
  completed,   \* the instances that have a completed_at
  broken,      \* the instances whose chain of states ended in an error
  deferred,    \* the instances with an entry in deferredCommands
  overridden,  \* the instances with overrides in actionPropertyOverrides
  deleting,    \* the instances whose force delete awaits killWorker
  run,         \* the execution that executeCode of an instance awaits
  bus,         \* the bus of the property
  client,      \* what each subscriber has seen
  taken,       \* history: the instances with overrides whose row an upload
               \*   or the deletion of an environment took
  silent       \* history: the property was replaced since the last event

rowVars == <<inst, completed, broken>>
instanceVars == <<rowVars, deferred, overridden, deleting>>
vars == <<property, instanceVars, run, bus, client, taken, silent>>
streamVars == <<bus, client, silent>>

Exists == property \in Entries

NewBus == [next |-> 0, buffer |-> <<>>, members |-> {}]

(* view is the value that a subscriber has reason to hold: what the last   *)
(* property event of the bus said, NoSpec when it has missed events.       *)
Newcomer == [last |-> -1, view |-> NoSpec]

Init ==
  /\ property = [e \in Entry |-> Unset]
  /\ inst = [i \in Instance |-> "none"]
  /\ completed = {} /\ broken = {} /\ deferred = {}
  /\ overridden = {} /\ deleting = {}
  /\ run = [i \in Instance |-> NoRun]
  /\ bus = NoBus
  /\ client = [c \in Client |-> Newcomer]
  /\ taken = {}
  /\ silent = TRUE

-----------------------------------------------------------------------------
(* The stream.                                                             *)

GetOrCreateBus == IF bus = NoBus THEN NewBus ELSE bus

Trimmed(s) == IF Len(s) > BufferSize THEN Tail(s) ELSE s

(* An event reaches the subscriber; one that sees a gap in the ids knows   *)
(* that its view may be old.                                               *)
Receives(c, ev) ==
  LET next == c.last = -1 \/ ev.id = c.last + 1
  IN [last |-> ev.id,
      view |-> IF ev.entries # NoSpec THEN ev.entries
               ELSE IF next THEN c.view ELSE NoSpec]

Push(b, entries) ==
  LET ev == [id |-> b.next, entries |-> entries]
  IN /\ b.next < MaxEvents
     /\ bus' = [b EXCEPT !.next = @ + 1, !.buffer = Trimmed(Append(@, ev))]
     /\ client' = [c \in Client |->
          IF c \in b.members THEN Receives(client[c], ev) ELSE client[c]]

Heartbeat ==
  /\ bus # NoBus
  /\ Push(bus, NoSpec)
  /\ UNCHANGED <<property, instanceVars, run, taken, silent>>

EventsAfterNext(b, id) ==  \* mutant: off by one
  SelectSeq(b.buffer, LAMBDA ev : ev.id > id + 1)

(* The ids of a buffer increase, so the filter leaves what comes from its  *)
(* first newer event on.                                                   *)
EventsSince(b, id) ==
  LET newer == {j \in DOMAIN b.buffer : b.buffer[j].id > id}
  IN IF newer = {} THEN <<>> ELSE SubSeq(b.buffer, Min(newer), Len(b.buffer))

(* A replay is received event by event; there can be a gap only before the *)
(* first.                                                                  *)
Replayed(c, replay) ==
  LET told == {j \in DOMAIN replay : replay[j].entries # NoSpec}
  IN IF replay = <<>> THEN c
     ELSE [last |-> Last(replay).id,
           view |-> IF told # {} THEN replay[Max(told)].entries
                    ELSE IF Head(replay).id = c.last + 1 THEN c.view ELSE NoSpec]

(* GET /properties/:id/events, with Last-Event-ID from the second time on; *)
(* what the buffer has is replayed before the subscription.                *)
Subscribe(c) ==
  /\ Exists
  /\ c \notin (IF bus = NoBus THEN {} ELSE bus.members)
  /\ LET b == GetOrCreateBus
         replay == IF client[c].last >= 0 /\ bus # NoBus
                   THEN EventsSince(b, client[c].last) ELSE <<>>
     IN /\ bus' = [b EXCEPT !.members = @ \cup {c}]
        /\ client' = [client EXCEPT ![c] = Replayed(@, replay)]
  /\ UNCHANGED <<property, instanceVars, run, taken, silent>>

Disconnect(c) ==
  /\ bus # NoBus
  /\ c \in bus.members
  /\ bus' = [bus EXCEPT !.members = @ \ {c}]
  /\ UNCHANGED <<property, instanceVars, run, client, taken, silent>>

-----------------------------------------------------------------------------
(* The writes of one execution.                                            *)

Merge(entries, writes) ==
  [e \in Entry |-> IF e \in DOMAIN writes THEN writes[e] ELSE entries[e]]

(* applyPropertyMutations: the property is read, changed, stored and       *)
(* published in one go; writes to a property that is not there are skipped.*)
Apply(writes) ==
  IF DOMAIN writes = {} \/ ~Exists THEN UNCHANGED <<property, streamVars>>
  ELSE /\ property' = Merge(property, writes)
       /\ Push(GetOrCreateBus, property')
       /\ silent' = FALSE

Writes == UNION {[es -> Value] : es \in SUBSET Entry}

-----------------------------------------------------------------------------
(* Instances and the code they run.                                        *)

(* The id is a new UUID: nothing is known of it.                           *)
Invoke(i) ==
  /\ property # Gone
  /\ inst[i] = "none" /\ run[i] = NoRun /\ i \notin deleting \cup taken
  /\ inst' = [inst EXCEPT ![i] = "active"]
  /\ overridden' = overridden \cup ({i} \cap Overriding)
  /\ deferred' = deferred \ {i}
  /\ UNCHANGED <<property, completed, broken, deleting, run, streamVars, taken>>

Unfinished(i) == inst[i] \in {"active", "recovering", "final"}

StartCodeAgain(i) ==  \* mutant: terminal is not looked at
  /\ inst[i] # "none" /\ i \notin broken /\ run[i] = NoRun
  /\ run' = [run EXCEPT ![i] = [attempt |-> 1, state |-> inst[i]]]
  /\ UNCHANGED <<property, instanceVars, streamVars, taken>>

(* The chain enters a state with code, and waits for the executor.         *)
StartCode(i) ==
  /\ Unfinished(i) /\ i \notin broken /\ run[i] = NoRun
  /\ run' = [run EXCEPT ![i] = [attempt |-> 1, state |-> inst[i]]]
  /\ UNCHANGED <<property, instanceVars, streamVars, taken>>

(* What the pool answers: a kill and a timeout are crashes to it, and      *)
(* PROPERTY_WRITE_ERROR is thrown, not answered.                           *)
Outcome == {"success", "SYNTAX_ERROR", "RUNTIME_ERROR", "WORKER_CRASH"}

Retryable(r, outcome) ==
  /\ outcome \in {"WORKER_CRASH", "RUNTIME_ERROR"}
  /\ r.state # "recovering"
  /\ r.attempt = 1

(* onTerminal, which drops the overrides.                                  *)
Ended(i) ==
  /\ inst' = [inst EXCEPT ![i] = "ended"]
  /\ completed' = completed \cup {i}
  /\ overridden' = overridden \ {i}
  /\ UNCHANGED <<broken, deferred>>

Enters(i, s) ==
  /\ inst' = [inst EXCEPT ![i] = s]
  /\ UNCHANGED <<completed, broken, deferred, overridden>>

(* A terminal state runs its finalizer unless it did before.               *)
EntersTerminal(i) == Ended(i) \/ (i \notin completed /\ Enters(i, "final"))

Breaks(i) ==
  /\ broken' = broken \cup {i}
  /\ UNCHANGED <<inst, completed, overridden>>

(* The command starts a new chain: HOLD keeps the instance in an active    *)
(* state, ABORT, STOP and CLEAR do not.                                    *)
Obeys(i) ==
  /\ \E s \in {"active", "recovering"} :
       /\ s = "active" => inst[i] = "active"
       /\ inst' = [inst EXCEPT ![i] = s]
  /\ broken' = broken \ {i}
  /\ UNCHANGED <<completed, overridden>>

(* After the run the deferred command goes first; which one it is is not   *)
(* kept here, and one left over from a broken chain may not be valid.      *)
(* Without it a failure leads an active instance to ABORTING; code that    *)
(* requests a command while recovering is sent back to ABORTING.           *)
AfterRun(i, outcome) ==
  \/ /\ inst[i] = "none"
     /\ deferred' = deferred \ {i}
     /\ UNCHANGED <<rowVars, overridden>>
  \/ /\ inst[i] # "none" /\ i \in deferred
     /\ deferred' = deferred \ {i}
     /\ \/ inst[i] \in {"active", "final"} /\ Obeys(i)
        \/ inst[i] # "active" /\ Breaks(i)
  \/ /\ inst[i] = "active" /\ i \notin deferred
     /\ \/ Enters(i, "recovering")
        \/ outcome = "success" /\ (Enters(i, "active") \/ EntersTerminal(i))
  \/ /\ inst[i] = "recovering" /\ i \notin deferred
     /\ EntersTerminal(i) \/ (outcome = "success" /\ Enters(i, "recovering"))
  \/ /\ inst[i] = "final" /\ i \notin deferred
     /\ Ended(i)

(* A failure is tried again; what is reported is applied to the            *)
(* environment whether or not there is still a row.  The sidecar reports   *)
(* the writes of code that succeeded, and none of code that failed.        *)
AttemptEnds(i) ==
  /\ run[i] # NoRun
  /\ \E outcome \in Outcome, writes \in Writes :
       /\ outcome # "success" => DOMAIN writes = {}
       /\ IF Retryable(run[i], outcome)
          THEN /\ run' = [run EXCEPT ![i].attempt = 2]
               /\ UNCHANGED <<property, instanceVars, streamVars, taken>>
          ELSE /\ run' = [run EXCEPT ![i] = NoRun]
               /\ Apply(writes)
               /\ AfterRun(i, outcome)
               /\ UNCHANGED <<deleting, taken>>

(* PropertyWriteError, or a pool that shuts down: the executor rejects, no *)
(* retry, and the chain of the instance breaks off where it is.            *)
AttemptThrows(i) ==
  /\ run[i] # NoRun
  /\ run' = [run EXCEPT ![i] = NoRun]
  /\ IF inst[i] = "none" THEN UNCHANGED <<rowVars, overridden>> ELSE Breaks(i)
  /\ UNCHANGED <<property, deferred, deleting, streamVars, taken>>

(* States without code, in the end a terminal one.                         *)
Advance(i) ==
  /\ inst[i] \in {"active", "recovering"} /\ i \notin broken /\ run[i] = NoRun
  /\ EntersTerminal(i)
  /\ UNCHANGED <<property, deleting, run, streamVars, taken>>

(* Commands of a client, of DELETE and of requests.  While code runs they  *)
(* wait in deferredCommands; else they work on a broken instance, too.     *)
Command(i) ==
  /\ inst[i] \in {"active", "final", "ended"}
  /\ IF run[i] # NoRun
     THEN /\ deferred' = deferred \cup {i}
          /\ UNCHANGED <<rowVars, overridden>>
     ELSE Obeys(i) /\ UNCHANGED deferred
  /\ UNCHANGED <<property, deleting, run, streamVars, taken>>

(* forceDeleteInstance: before and after the await of killWorker.  What    *)
(* runs meets its end in AttemptEnds, and may be tried again.              *)
ForceDelete(i) ==
  /\ inst[i] # "none" /\ i \notin deleting
  /\ deleting' = deleting \cup {i}
  /\ UNCHANGED <<property, rowVars, deferred, overridden, run, streamVars, taken>>

FinishDeleteOfRow(i) ==  \* mutant: the overrides are forgotten
  /\ i \in deleting
  /\ deleting' = deleting \ {i}
  /\ inst' = [inst EXCEPT ![i] = "none"]
  /\ completed' = completed \ {i} /\ broken' = broken \ {i}
  /\ UNCHANGED <<property, deferred, overridden, run, streamVars, taken>>

FinishDelete(i) ==
  /\ i \in deleting
  /\ deleting' = deleting \ {i}
  /\ overridden' = overridden \ {i}
  /\ inst' = [inst EXCEPT ![i] = "none"]
  /\ completed' = completed \ {i} /\ broken' = broken \ {i}
  /\ UNCHANGED <<property, deferred, run, streamVars, taken>>

-----------------------------------------------------------------------------
(* The environment.                                                        *)

(* The rows go; what is kept of an instance in memory stays.               *)
TakeRows(gone) ==
  /\ inst' = [i \in Instance |-> IF i \in gone THEN "none" ELSE inst[i]]
  /\ completed' = completed \ gone /\ broken' = broken \ gone
  /\ taken' = taken \cup (gone \cap overridden)
  /\ UNCHANGED <<deferred, overridden, deleting, run>>

HasRow == {i \in Instance : inst[i] # "none"}

(* An upload of the environment replaces the property without an event; one*)
(* of another environment does not.  The single-environment format takes   *)
(* the actions that its file does not have, with the rows of instances of  *)
(* any state.                                                              *)
Upload ==
  /\ \E gone \in SUBSET HasRow : TakeRows(gone)
  /\ \/ property' \in {NoSpec, [e \in Entry |-> Unset]} /\ silent' = TRUE
     \/ UNCHANGED <<property, silent>>
  /\ UNCHANGED <<bus, client>>

(* The guard looks at the actions that are in the environment now, and not *)
(* at the instances elsewhere, whose actions an upload has moved (Catalog  *)
(* has the actions; which they are is left open).  All rows go, and the    *)
(* bus, whose subscribers stay connected and hear nothing more.            *)
DeleteEnv(elsewhere) ==
  /\ property # Gone
  /\ HasRow \ elsewhere \subseteq completed
  /\ TakeRows(HasRow)
  /\ property' = Gone
  /\ bus' = NoBus
  /\ client' = [c \in Client |-> [client[c] EXCEPT !.view = NoSpec]]
  /\ silent' = TRUE

-----------------------------------------------------------------------------
Next ==
  \/ \E i \in Instance :
       \/ Invoke(i) \/ StartCode(i) \/ AttemptEnds(i) \/ AttemptThrows(i)
       \/ Advance(i) \/ Command(i) \/ ForceDelete(i) \/ FinishDelete(i)
  \/ \E c \in Client : Subscribe(c) \/ Disconnect(c)
  \/ Heartbeat \/ Upload
  \/ \E elsewhere \in SUBSET Instance : DeleteEnv(elsewhere)

Spec == Init /\ [][Next]_vars

-----------------------------------------------------------------------------
(* The types, among which: code runs in no instance that was reported as   *)
(* ended.                                                                  *)
TypeOK ==
  /\ property \in Entries \cup {Gone, NoSpec}
  /\ inst \in [Instance -> {"none", "active", "recovering", "final", "ended"}]
  /\ completed \subseteq Instance /\ broken \subseteq Instance
  /\ deferred \subseteq Instance
  /\ overridden \subseteq Instance /\ deleting \subseteq Instance
  /\ taken \subseteq Instance
  /\ run \in [Instance ->
       [attempt : {1, 2}, state : {"active", "recovering", "final"}] \cup {NoRun}]
  /\ bus \in Bus \cup {NoBus}
  /\ client \in [Client -> [last : Nat \cup {-1}, view : Entries \cup {NoSpec}]]
  /\ silent \in BOOLEAN

(* A subscriber that has seen a value, and no gap in the ids since, has    *)
(* the stored one, through disconnections, heartbeats that push events out *)
(* of the buffer, and replays; not after an upload, which sends no event.  *)
(* What it saw of a bus that is gone does not count.                       *)
SeesWhatIsStored ==
  bus # NoBus /\ Exists /\ ~silent =>
    \A c \in bus.members :
      client[c].view # NoSpec => client[c].view = property

(* The overrides of an invocation last exactly as long as the instance:    *)
(* through retries, commands, a CLEAR during the finalizer and rejections, *)
(* until its end is reported or its row is force-deleted, whichever await  *)
(* is pending.  Only the rows that an upload or the deletion of an         *)
(* environment takes leave theirs behind.                                  *)
InForce(i) == Unfinished(i) /\ i \notin completed

OverridesFollowInstance ==
  \A i \in Instance :
    /\ InForce(i) => (i \in overridden <=> i \in Overriding)
    /\ i \in overridden => InForce(i) \/ i \in taken
=============================================================================
