------------------------------ MODULE SseManager ------------------------------
(***************************************************************************)
(* The event bus of one instance in packages/server/src/sse-manager.ts,    *)
(* with the clients of GET /instances/:id/events (routes/commands.ts).     *)
(*                                                                         *)
(* Every method and every timer callback is synchronous, so each is one    *)
(* action.  A bus is an object of its own: listeners, timers and open      *)
(* responses keep the object they were made with after the map has lost or *)
(* replaced it, which is why buses have names here.  Buses of different    *)
(* instances share nothing.                                                *)
(*                                                                         *)
(* The engine is seen through its callbacks only: an active instance       *)
(* changes state, reaches a terminal state, and may be cleared from there. *)
(* Events are their ids; what they say makes no difference here.           *)
(***************************************************************************)
EXTENDS Naturals, FiniteSets, SequencesExt

CONSTANTS
  Bus,         \* names of InstanceBus objects (a bound, not in the code)
  Client,
  None,        \* no bus
  BufferSize,  \* BUFFER_SIZE
  MaxEvents,   \* how many events one bus carries (a bound)
  MaxClears    \* how often the instance is cleared, 0 if it is opaque

ASSUME Parameters ==
  /\ None \notin Bus
  /\ BufferSize \in Nat \ {0}
  /\ MaxEvents \in Nat /\ MaxClears \in Nat

VARIABLES
  life,    \* the instance, as its callbacks tell
  clears,
  current, \* buses.get(id)
  bus,     \* buffer, nextId and listeners of each bus
  beating, \* the buses whose heartbeat interval runs
  lingers, \* the pending terminal timeouts, by the bus that set them
  client   \* the bus a client streams from, and the ids it has received
           \* of the bus named by from

vars == <<life, clears, current, bus, beating, lingers, client>>

NewBus == [buffer |-> <<>>, nextId |-> 0, listeners |-> {}]

TypeOK ==
  /\ life \in {"active", "over", "deleted"}
  /\ clears \in 0..MaxClears
  /\ current \in Bus \cup {None}
  /\ bus \in [Bus -> [buffer : Seq(Nat), nextId : Nat, listeners : SUBSET Client]]
  /\ \A b \in Bus : Len(bus[b].buffer) <= BufferSize
  /\ beating \subseteq Bus
  /\ lingers \in Seq(Bus)
  /\ client \in [Client -> [on : Bus \cup {None}, from : Bus \cup {None},
                            received : Seq(Nat)]]

Connected == {c \in Client : client[c].on # None}

Init ==
  /\ life = "active" /\ clears = 0
  /\ current = None
  /\ bus = [b \in Bus |-> NewBus]
  /\ beating = {} /\ lingers = <<>>
  /\ client = [c \in Client |-> [on |-> None, from |-> None, received |-> <<>>]]

-----------------------------------------------------------------------------
(* getOrCreateBus: the bus in the map, or a new object with its heartbeat. *)
(* A name is free once nothing refers to the object that had it.           *)
Referenced ==
  {current} \cup beating \cup ToSet(lingers)
    \cup {client[c].on : c \in Client} \cup {client[c].from : c \in Client}

AlwaysCreate == Bus \ Referenced  \* mutant: the existing bus is not looked up

GetOrCreateBus == IF current # None THEN {current} ELSE Bus \ Referenced

Opened(b) == IF b = current THEN bus[b] ELSE NewBus

Beating(b) == IF b = current THEN beating ELSE beating \cup {b}

(* The ring buffer drops its oldest events.                                *)
TrimmedLate(buffer) ==  \* mutant: off by one
  IF Len(buffer) > BufferSize + 1
    THEN SubSeq(buffer, Len(buffer) - BufferSize, Len(buffer)) ELSE buffer

TrimmedAtTheEnd(buffer) ==  \* mutant: pop for shift
  IF Len(buffer) > BufferSize THEN SubSeq(buffer, 1, BufferSize) ELSE buffer

Trimmed(buffer) ==
  IF Len(buffer) > BufferSize
    THEN SubSeq(buffer, Len(buffer) - BufferSize + 1, Len(buffer)) ELSE buffer

(* n calls of publish in a row, on the bus b: the next n ids.              *)
NextIds(b, n) == [j \in 1..n |-> Opened(b).nextId + j - 1]

Hears(c, b, ids) ==
  [client[c] EXCEPT
     !.received = IF client[c].from = b THEN @ \o ids ELSE ids,
     !.from = b]

Publish(b, n) ==
  /\ Opened(b).nextId + n <= MaxEvents
  /\ current' = b
  /\ bus' = [bus EXCEPT ![b] =
       [Opened(b) EXCEPT !.buffer = Trimmed(@ \o NextIds(b, n)), !.nextId = @ + n]]
  /\ client' = [c \in Client |->
       IF c \in Opened(b).listeners THEN Hears(c, b, NextIds(b, n)) ELSE client[c]]

-----------------------------------------------------------------------------
(* onStateChange: a state_change event, and an output event if there are   *)
(* outputs.                                                                *)
PublishStateChange ==
  /\ life = "active"
  /\ \E b \in GetOrCreateBus, n \in 1..2 : Publish(b, n) /\ beating' = Beating(b)
  /\ UNCHANGED <<life, clears, lingers>>

(* onTerminal: the heartbeat stops and the bus is to go in 7 seconds.      *)
PublishTerminalBeating ==  \* mutant: the heartbeat goes on
  /\ life = "active"
  /\ life' = "over"
  /\ \E b \in GetOrCreateBus, n \in 1..2 :
       /\ Publish(b, n)
       /\ beating' = Beating(b)
       /\ lingers' = Append(lingers, b)
  /\ UNCHANGED clears

PublishTerminal ==
  /\ life = "active"
  /\ life' = "over"
  /\ \E b \in GetOrCreateBus, n \in 1..2 :
       /\ Publish(b, n)
       /\ beating' = Beating(b) \ {b}
       /\ lingers' = Append(lingers, b)
  /\ UNCHANGED clears

(* CLEAR takes an aborted instance to CLEARING.                            *)
Clear ==
  /\ life = "over" /\ clears < MaxClears
  /\ life' = "active" /\ clears' = clears + 1
  /\ \E b \in GetOrCreateBus, n \in 1..2 : Publish(b, n) /\ beating' = Beating(b)
  /\ UNCHANGED lingers

(* onError, whenever the promise of the invocation rejects: for an         *)
(* instance that was deleted under its own execution too.                  *)
PublishError ==
  /\ \E b \in GetOrCreateBus : Publish(b, 1) /\ beating' = Beating(b)
  /\ UNCHANGED <<life, clears, lingers>>

(* A heartbeat publishes to the instance's bus, which need not be the bus  *)
(* it was started with.                                                    *)
Heartbeat ==
  /\ beating # {}
  /\ \E b \in GetOrCreateBus : Publish(b, 1) /\ beating' = Beating(b)
  /\ UNCHANGED <<life, clears, lingers>>

(* A terminal timeout is over: the map loses whatever bus it has.  All     *)
(* timeouts are equally long, so they end in the order they were set.      *)
LingerEnds ==
  /\ lingers # <<>>
  /\ lingers' = Tail(lingers)
  /\ current' = None
  /\ UNCHANGED <<life, clears, bus, beating, client>>

-----------------------------------------------------------------------------
(* getEventsSince, and the Last-Event-ID a client sends: the last id it    *)
(* received, none and hence 0 at first.                                    *)
EventsSinceInclusive(b, id) ==  \* mutant: off by one
  SelectSeq(IF b = None THEN <<>> ELSE bus[b].buffer, LAMBDA e : e >= id)

(* The ids of a buffer increase, so the filter leaves what comes from its  *)
(* first newer event on.                                                   *)
EventsSince(b, id) ==
  LET buffer == IF b = None THEN <<>> ELSE bus[b].buffer
      newer == {j \in DOMAIN buffer : buffer[j] > id}
  IN IF newer = {} THEN <<>> ELSE SubSeq(buffer, Min(newer), Len(buffer))

LastEventId(c) ==
  IF client[c].received = <<>> THEN 0 ELSE Last(client[c].received)

(* GET /instances/:id/events: replay, then subscribe.                      *)
Connect(c) ==
  /\ life # "deleted"
  /\ client[c].on = None
  /\ \E b \in GetOrCreateBus :
       LET missed == EventsSince(current, LastEventId(c)) IN
       /\ current' = b
       /\ beating' = Beating(b)
       /\ bus' = [bus EXCEPT ![b] = [Opened(b) EXCEPT !.listeners = @ \cup {c}]]
       /\ client' = [client EXCEPT ![c] =
            IF missed = <<>> THEN [@ EXCEPT !.on = b]
            ELSE [Hears(c, b, missed) EXCEPT !.on = b]]
  /\ UNCHANGED <<life, clears, lingers>>

(* req.on('close'): unsubscribe from the bus the client was subscribed to. *)
Disconnect(c) ==
  /\ c \in Connected
  /\ bus' = [bus EXCEPT ![client[c].on].listeners = @ \ {c}]
  /\ client' = [client EXCEPT ![c].on = None]
  /\ UNCHANGED <<life, clears, current, beating, lingers>>

(* forceDeleteInstance, then destroyInstanceBus: terminalTimer is the last *)
(* timeout the bus has set.                                                *)
DestroyKeepingTimer ==  \* mutant: the terminal timeout is not cancelled
  /\ life # "deleted" /\ life' = "deleted"
  /\ current' = None
  /\ beating' = beating \ {current}
  /\ bus' = [b \in Bus |->
       IF b = current THEN [bus[b] EXCEPT !.listeners = {}] ELSE bus[b]]
  /\ UNCHANGED <<clears, lingers, client>>

DestroyInstanceBus ==
  /\ life # "deleted" /\ life' = "deleted"
  /\ current' = None
  /\ beating' = beating \ {current}
  /\ lingers' =
       LET own == {j \in DOMAIN lingers : lingers[j] = current}
       IN IF own = {} THEN lingers
          ELSE RemoveAt(lingers, CHOOSE j \in own : \A k \in own : k <= j)
  /\ bus' = [b \in Bus |->
       IF b = current THEN [bus[b] EXCEPT !.listeners = {}] ELSE bus[b]]
  /\ UNCHANGED <<clears, client>>

-----------------------------------------------------------------------------
Next ==
  \/ \E c \in Client : Connect(c) \/ Disconnect(c)
  \/ PublishStateChange \/ PublishTerminal \/ Clear \/ PublishError
  \/ Heartbeat \/ LingerEnds
  \/ DestroyInstanceBus

Spec == Init /\ [][Next]_vars

-----------------------------------------------------------------------------
(* PROPERTIES                                                              *)

(* The ring buffer holds the last BUFFER_SIZE events of its bus.           *)
BufferHoldsTheLast ==
  \A b \in Bus :
    LET kept == Len(bus[b].buffer) IN
    /\ kept = IF bus[b].nextId < BufferSize THEN bus[b].nextId ELSE BufferSize
    /\ \A j \in 1..kept : bus[b].buffer[j] = bus[b].nextId - kept + j - 1

(* A stream, across reconnections to the same bus, shows every event that  *)
(* the bus still holds since the stream's first one, in order and once:    *)
(* seen from their ends, the stream and the buffer agree.                  *)
StreamIsComplete ==
  \A c \in Connected :
    LET b == client[c].on
        held == bus[b].buffer
        stream == client[c].received
    IN client[c].from = b /\ c \in bus[b].listeners =>
         \A j \in DOMAIN held : held[j] >= Head(stream) =>
           /\ Len(held) - j < Len(stream)
           /\ stream[Len(stream) - (Len(held) - j)] = held[j]

(* Whoever is connected to an instance that was never cleared hears all    *)
(* it publishes while it is active: no connection hangs on to a bus that   *)
(* the map has replaced.                                                   *)
ConnectedIsHeard ==
  life = "active" /\ clears = 0 =>
    \A c \in Connected : client[c].on = current /\ c \in bus[current].listeners

(* ... and its bus survives until the timeout of its terminal event, so    *)
(* that a late client can still replay it.                                 *)
LingerKeepsBus == clears = 0 => \A b \in ToSet(lingers) : b = current

(* No heartbeat of an instance that was never cleared outlives its bus.    *)
HeartbeatHasBus == clears = 0 => beating \subseteq {current}
=============================================================================
