# TLA+ models of TrajectoryActions

TrajectoryActions runs *actions*: Python code pinned to the states of a small
state machine, invoked and commanded over REST, watched over server-sent events
(SSE). This directory holds TLA+ specifications of the parts of it that carry
state through concurrency, failures and timers, the TLC configurations that
check them, and proofs that TLAPS checks. Paths below are relative to the
repository.

- `tlc -config X.cfg M` checks a configuration, `tlapm M.tla` the proofs of one of
  the `...Proofs` modules.
- `PROJECT.json` lists components, runs, the lines each definition stands for,
  hazards, findings, theorems, and for each property of a passing run a mutated
  definition that the run must reject (a definition commented `mutant`).

## The system

| Part | State | Operations | Talks to |
|---|---|---|---|
| state machine, `packages/engine/src/state-machine` | `executingInstances`, `deferredCommands`; the instance row | `startInstance`, `sendCommand`, `enterState`, `executeCode`, `runFinalizerCode`, `autoAdvance` | executor, repositories, callbacks `onStateChange`, `onTerminal`, `onError` |
| instance manager, `packages/engine/src/instance-manager` | property overrides, the pool | `invoke`, `cancelInstance`, `forceDeleteInstance`, retrying executor, execution log | state machine, pool, storage |
| worker pool, `packages/engine/src/python-pool` | idle and busy workers, wait queue, active executions, target size; one subprocess per worker | `executeCode`, `acquire`, `release`, crash handling, `killWorker`, `resize`, `shutdown` | subprocesses over stdin/stdout |
| SSE manager, `packages/server/src/sse-manager.ts` | event buses with ring buffers, listeners, timers | `publish*`, `subscribe`, `getEventsSince`, `destroyInstanceBus` | engine callbacks, HTTP clients |
| storage, `packages/storage/src` | SQLite tables: environments, actions, code versions, instances, log, settings | CRUD, each a transaction | everything |
| server, `packages/server/src` | none of its own | protocol, management and export routes; startup and shutdown | engine, storage, SSE |
| sidecar, `packages/python-sidecar` | none between requests | read a request, run the code, answer | its worker |
| console, `apps/console` | per page: the editor's text, the settings form, the log page; a cache of queries | edit and save code, change settings, read the log | REST |
| ui, tokens (`packages`) | none | components and styles | - |

The hard parts are all about *what may happen between two steps*. Node runs one
callback at a time, so the interleavings are those of awaits, timers and
subprocess events: a command arrives while code runs; a worker answers, times
out, crashes and is killed at once; the server is killed between two
transactions; a bus is deleted by a timer set for an earlier life of the
instance; an answer arrives for a page that has moved on. Beside them are the
long sequences of legal requests over the tables: uploads move and drop actions
while instances pin their code. The full list, line by line, is `hazards` in `PROJECT.json`.

What makes each part correct:

- *state machine*: one execution per instance at a time; its result applied to
  the state it was started in; accepted commands not lost; terminal states
  final and recorded; no instance stuck.
- *pool*: a worker serves one call; no call waits beside an idle worker; calls
  are served in order and come back; capacity is kept and not exceeded; a
  running call can be killed, and a kill finds no worker of another instance; no
  process is forgotten.
- *SSE manager*: a stream is in order, without repetition and without holes the
  buffer could fill; clients of an active instance stay on its bus; timers do
  not outlive what they were set for.
- *instance manager*: a subscriber of a property that missed nothing has its
  value; what is kept per instance lasts as long as the instance and goes with it.
- *catalog* (environments, actions, code versions, instances that pin them): one
  version in force per state that has code, numbers of their own, no reference to
  a row that is gone, the code of a running instance kept; what an export wrote
  comes back through its import.
- *console*: an answer that comes late never shows one version under the name of
  another, a save sends what was typed and nothing else, paging skips nothing.

## Modules

| Module | Models | Role |
|---|---|---|
| `ActionStates` | `states.ts`, `transitions.ts`, `RECOVERY_TERMINAL` | states, commands and tables as sets of triples |
| `ActionLifecycle` | - | abstract: the phases an instance passes through |
| `StateMachine` | `state-machine.ts`, `invoke`, `writeLog`, the instance row | the engine for one instance |
| `MCStateMachine` | - | TLC instances of it |
| `StateMachineClaims` | - | documented claims the engine does not meet |
| `StateMachineProofs` | - | theorems about `StateMachine` |
| `WaitLine` | - | abstract: a fair line of callers |
| `PythonPool` | `pool.ts`, `worker.ts` | the pool and its subprocesses |
| `MCPythonPool`, `PythonPoolClaims` | - | TLC instances; claims |
| `PythonPoolProofs` | - | theorems about `PythonPool`: holders, the line, strays |
| `PythonPoolServiceProofs` | - | ... how many subprocesses it has; that it implements `WaitLine` |
| `SseManager` | the instance buses of `sse-manager.ts`, the event route of `commands.ts` | buses, timers, clients |
| `MCSseManager`, `SseManagerProofs` | - | TLC instances; theorems |
| `CatalogTables` | the schema, the repositories and their transactions, what each kind of uploaded file does | the tables, and operators from tables to tables |
| `VersionHistory` | - | abstract: what may happen to the versions of a state |
| `Catalog` | the management routes over them, `invoke`'s pinning | one action per route |
| `Packages` | the export routes | files made from tables, and what their import makes of them |
| `MCCatalog` | - | TLC instances |
| `CatalogProofs`, `PackagesProofs` | - | theorems about `Catalog`; about `Packages` |
| `Execution` | `instance-manager.ts`, the property buses of `sse-manager.ts`, the property routes of `protocol.ts` | the manager around running code |
| `MCExecution`, `ExecutionProofs` | - | TLC instances; theorems |
| `CodeEditor` | `features/code-editor` | the editor page for one user |
| `CodeEditorClaims` | - | what the console's help says of it |
| `Settings` | the settings table, the log repository | what both pages below share |
| `SettingsForm` | `features/settings` | the settings page |
| `ExecutionLog` | `features/log`, `GET /log` | the log and its reader |
| `Console` | `App.tsx` | a tab on one of the three pages |
| `MCConsole`, `ConsoleProofs` | - | TLC instances; theorems |

### StateMachine

Everything the engine does between two awaits is synchronous or continues in a
microtask (the repositories are synchronous SQLite calls), so no HTTP request,
timer or subprocess event comes in between. The model keeps the chain of calls
explicit: `pc`, `arg` and `stack` say which call comes next and which callers
still have work to do once it returns. One call is one action, because a crash
can come between two calls (each `updateState` commits on its own).

- `process` is `processCurrentState`: `ProcessTerminal`, `StartRun`,
  `ProcessWithoutCode`. `announce` is `onTerminal` with `writeLog`; `advance`
  is `autoAdvance`; `command` a deferred or requested command; `recover` the
  transition after a failure; `return` and `reject` the way back up.
- `runs` holds the awaited executions with the state each captured before the
  await. There can be several, because PAUSE, RESUME and UNHOLD are not
  deferred. `FinishRun` is the rest of `executeCode` after the await,
  `FinishFinalizer` that of `runFinalizerCode`, `RunThrows` a rejected executor.
- `stack` holds the callers that continue: `"try"` is the try/catch around a
  requested command, a terminal state is the caller of its finalizer.
- `executed`, `error`, `completedAt` and `loggedAs` are the columns that the
  properties are about. Output parameters, property mutations, timestamps and
  `started_at` change no control and are left out.

The instance maps are keyed by id and share nothing, so one instance is modelled.
Code versions pinned by an invocation are assumed to stay in the table.

`ClientsWait` is the discipline under which the engine's design works: clients
send PAUSE, RESUME and UNHOLD only while no code of the instance runs. The
engine does not enforce it (finding `claim_TerminalIsFinal` shows what happens
otherwise), so properties are stated with it where they need it and without it
where they do not.

### PythonPool

One call is one `executeCode`; its `at` says where it is: waiting in `acquire`,
granted a worker, running, answered or crashed (the promise is settled, the
function not resumed), returned or failed. Operating system events, timers and
requests are macrotasks; the resumptions `Start` and `Settle` are microtasks
and run first, which the guard `Quiet` expresses. `proc` is the subprocess as
the operating system sees it, `IsDead` what the worker's `_isDead` says of it.
`killing` are the `killWithGrace` promises not yet resolved. Idle workers are a
set: which one `pop` takes makes no difference to the properties.

An instance makes one call after the other: each of its states with code is one, and
each retry. `active` is `activeExecutions`, one entry per instance. Two histories say
when a running call need not be in it: it was `killed`, or `overlapped` with another
call of its instance, which a PAUSE can bring about. `RunningIsKillable` is about
the others, a retry after a kill among them; `EntryIsOfItsInstance` is about all.

`ServesInOrder` is the refinement of `WaitLine`, the abstract FIFO line, by the
pool's queue and call states.

### SseManager

Buses are objects with names: a listener, a timer or a response keeps the bus it
was made with when the map has another one. A client keeps the ids it received,
from which `Last-Event-ID` follows. Pending terminal timeouts are a queue, since
they are equally long. The engine is seen through its callbacks: state changes,
a terminal event, a CLEAR (`MaxClears` is 0 for opaque instances, which have
none), errors at any time.

### Catalog

`db` is the value of four tables. Every route is one transaction over SQLite, so
an action computes the tables it would leave, by operators that follow the
repositories call by call, or `Failed` when a foreign key or a check refuses a
statement; `Store` takes them over unless they are `Failed`. A request carries
several files (`PutTwo`), which are all undone together.

Uploads come in eight formats, which differ in what they know: rows only, rows
with code, one action, one environment. `ParsedFile` is what a parser makes of a
file: `"spec"` (rows, perhaps code, all drafts), `"single"` (rows with lifecycle
states) and `"action"`. Names, descriptions, parameters and property values are
left out. A version is named by a `Uuid`, taken again once nothing refers to it;
instances keep the ids they pinned.

`Packages` needs no actions: exports change nothing, so that an export imported
where it was taken is a question about each state of `Catalog`.

`ImplementsHistory` is the refinement of `VersionHistory` by the code table: seen
slot by slot, as `getVersionHistory` and `getActive` show it, a step of any route
saves on top (twice, if two files of a request do), activates, removes one version
that is not in force, clears the slot, or clears it and saves again.

### Execution

`StateMachine` has every state of one instance; `Execution` has what the manager
does around several of them. It tells apart only what the manager does: active
states, the recovery states that are exempt from retries, a terminal state with
its finalizer to run, an end that was reported. `run` is the execution awaited,
with the attempt and the state captured. `AttemptEnds` is an answer of the pool
(to which a kill and a timeout are crashes), `AttemptThrows` a rejection, which
leaves the instance where it is (`broken`). Commands are nondeterministic: the
model keeps that one is deferred and not which. `ForceDelete` and `FinishDelete`
are the two sides of the await of `killWorker`. DELETE of the protocol is a
`Command` and an outcome of `AttemptEnds`.

The replay of a reconnection is the tail of the buffer from its first newer event
on, received event by event (`EventsSince`, `Replayed`); ids increase in a buffer.

`Upload` and `DeleteEnv` are the environment's side. Both can take rows of instances
that run: the single-environment format those of the actions its file does not
have, the deletion those of actions that were moved elsewhere, at which its guard
does not look. Which actions are where is in `Catalog`; here any rows may be
taken, and `elsewhere` is any set. What the manager keeps in memory of them stays.

`SeesWhatIsStored` compares `property`, the stored value, with the `view` that a
subscriber has reason to hold. `OverridesFollowInstance` compares the entries of
`actionPropertyOverrides` with the rows, given which instances are invoked with
overrides (`Overriding`); `taken`, a history, are those that lost their row to an
upload or a deletion.

### The console

A React page is a state machine whose steps are answers, clicks and the renders
they cause; effects run after the render whose dependencies changed, and belong
to the step that changed them (`Rendered`). Queries are cached: an invalidated
query keeps its data until it is answered, a failed one too. `OthersAct` and
`OtherClient` are other users and the server. `SettingsForm` has the four keys
whose treatment differs (a secret, seconds shown for milliseconds, a size that
trims, a size that resizes). A save sends its keys in the order in which the server
lists them, a reset in that of `DEFAULTS`: `queue` keeps the order beside the values
that are left. In `ExecutionLog` the reader waits for each page.
One page is mounted at a time: `Console` picks it and takes the union of the
three, which share the settings and the log.

## Runs

| Run | Question | Bounds |
|---|---|---|
| `instance` | the single pipeline, the record of the end, finality and the lifecycle, through one fault | both visibilities; code in any subset of seven states, recovery, finalizers and opaque states included; five requested commands; 3 client commands; 2 nested requests; 1 crash or rejection; deletion |
| `any_client` | are accepted commands kept, and legal until the instance completes, when clients send anything at any time | observable; code in any subset of five states, among them `STARTING` and `HELD`; 3 runs at once; 3 commands; requests HOLD and PAUSE, 1 nested |
| `at_rest` | does every instance come to rest | both visibilities; 3 commands; no requests |
| `pool` | exclusiveness, order, capacity, kills, strays | 3 calls, two of them of one instance; sizes 1 and 2; recycling after 2 executions; kills, resizes, shutdown; 4 process names, 1 process dying at a time |
| `pool_live` | do calls come back | 2 calls of one instance; sizes 1 and 2; recycling after every execution |
| `events` | streams, buses and timers | 2 clients, 4 bus objects, a buffer of 2, 4 events a bus, 1 CLEAR |
| `catalog` | code in force, numbers, pins, references, histories, exports through every route | 2 environments, 2 actions, 1 state each, 1 instance, 2 texts, 3 version ids, numbers up to 2; all `spec`, `single` and `action` files over them, pairs of files, snapshots |
| `execution` | the property's stream, overrides | 2 instances, one of them with overrides, 2 entries of one value, 1 subscriber, a buffer of 1, 3 events |
| `console` | late and reordered answers, other clients, rounding, paging | 2 slots, 2 texts, 2 versions, 2 awaited versions; 4 keys; pages of 2, 6 entries, log sizes 3 and 5 |

The bounds are where behaviours repeat. A third client command reaches a command
sent to the consequence of a command sent during a run, which is the longest
chain the deferral rules distinguish; two run slots are enough because
`SingleRun` is one of the properties, three let two overlap with a third. With
two workers and three calls a call waits while another is served, a resize
goes both ways, and an instance calls again, or twice at once, beside another one. With a buffer of two and four events a bus wraps around twice.
In the catalog, two environments let an action move and come back, two numbers
let a deleted number be given again, and one instance pins, ends or is deleted at
any moment between. Two executions with two entries write the same or different
entries, and two instances are one with overrides and one without; a buffer of one and three events lose events that a subscriber missed.
Two awaited versions arrive in either order, two slots let one arrive after a
navigation; six entries are three pages, and a log of three is trimmed under the
reader. `Uuid`, `MaxNumber`, `MaxVersions`, `MaxPending`, `MaxId`, `RunSlots`,
`MaxCommands`, `MaxNesting`, `MaxFaults`, `Worker`, `Call`,
`MaxDying`, `Bus`, `MaxEvents` and `MaxClears` are bounds of the models and not
of the code. `CHECK_DEADLOCK FALSE` everywhere: an instance that is over, a pool
whose calls have returned and a bus whose events are used up rightly stop, and so
do the bounded catalog, property stream and console.

Fairness: `StateMachine!FairSpec` asks for the chain to be drained, which the
event loop does, and for every run to end, which the execution timeout does (a
timeout of 0, which disables it, is excluded). `PythonPool!FairSpec` asks the
same of resumptions, of answers or timeouts, and of the close event of a process
that was killed. Clients, kills, resizes, crashes and deletions owe nothing.

Nothing is asked of the catalog, the manager or the console: their properties
are safety properties.

### Claims the code does not meet

Each is a run that TLC refutes; the source it quotes is in `findings`.

| Run | What happens |
|---|---|
| `claim_TerminalIsFinal` | a run overtaken by a PAUSE ends after an ABORT and moves the instance out of ABORTED |
| `pool_claim_KillHitsItsInstance` | a worker that answers before SIGTERM takes effect is handed, dying, to another instance |
| `claim_EditKeepsShownVersion` | Edit this version shows the active code instead of the old version |

Others follow from the same definitions and have no run.

*Engine.* A later HOLD or STOP replaces a deferred ABORT (one slot,
`state-machine.ts:176`); an ABORT accepted while the code of HELD runs is refused
at its flush if an UNHOLD, which is not deferred, has completed the instance (the
exception in `DeferredStaysValid`; `HELP.md:113` says that Abort overrides the
code); a deferred command hides the failure of the run it
waited for (`:382`) and stays behind when the executor rejects (`:378`); the
finalizer of COMPLETED is skipped after a CLEAR, and an instance in CLEARING, whose
`completed_at` stays, is not among `getActiveInstances` (`:244`), while the log
keeps saying ABORTED (`execution-logger.ts:23`); a return of False leaves the
state (`:459`) where `StateMachineSpec.md:99` says it stays; code of ABORTING that
requests an illegal command re-enters ABORTING for ever (`:449`, against the
comment at `:28`). The writes of a failed attempt are never applied, because the
sidecar reports none with an error, though `:399` says that partial ones are.
Code that writes to an unknown property rejects the executor, and in ABORTING
leaves the instance there (`instance-manager.ts:346`). A timeout arrives as
WORKER_CRASH and is retried (`types.ts:41` has a TIMEOUT); so is a cancel, whose
code runs a second time before the ABORT (`:401` says immediate termination).
`InstanceRepository.cleanup` is never called. An instance that runs when the upload of
a single environment or the deletion of an environment takes its row
(`management.ts:1495`, `:1712`) leaves its entry in `actionPropertyOverrides` for ever:
`onTerminal`, which deletes it "to bound memory growth" (`instance-manager.ts:73`),
does not come, and `forceDeleteInstance` returns before it would (`:435`).

*Pool.* `release` keeps one surplus worker after a shrink (`pool.ts:95`);
`shutdown` forgets waiters (`:305`) and workers released or respawned while it
waits (`:109`); two running calls of one instance share one entry of
`activeExecutions` (`:224`), so that the end of one hides the other from
`killWorker`; `dispose` removes the listener that a
`killWithGrace` waits with (`worker.ts:264` against `:189`), and a force delete
hangs.

*Events.* Asking for the events of a finished instance starts a heartbeat that
nothing stops (`sse-manager.ts:162`). An upload resets property values without an
event, and the ids of a property's bus start again after its environment was
deleted, so that a `Last-Event-ID` of before skips events.

*Catalog.* The guard of DELETE environment looks at the actions that are there
now, so an upload that moves an action exposes its running instance to the
deletion of its old environment (`management.ts:1680`; `DeleteSparesItsOwn` states
what is left); such an instance reads the properties of the new environment and
writes to the old. Actions with the same `local_id` overwrite each other in a
`.WFenvirX`. The dashboard's `oldest_entry_at` is the newest entry (`:212`). The
`to` date of a log filter is compared as a string.

*Console.* An empty timeout is saved as 0, which disables it; an API key cannot be
removed; a snapshot import neither resizes the pool nor trims the log. A refetch
or a failed query replaces unsaved edits; typing after a save was dismissed with
Escape shows as saved; an old version that arrives after a navigation shows the
text of another slot, under its own name.

## Proofs

Every safety property that a passing run checks is also a theorem. Eight modules
hold them; `theorems` in `PROJECT.json` says what each establishes.

`StateMachineProofs` proves about `StateMachine`, for every choice of visibilities,
pinned states, commands, requests and bounds:

| Theorem | States |
|---|---|
| `TypeCorrect` | `Spec => []TypeOK` |
| `OneRunAtATime` | `ClientsWait => (Spec => []SingleRun)` |
| `RunsStayInTheirState` | `ClientsWait => (Spec => []RunInItsState)` |
| `LifecycleImplemented` | `ClientsWait => (Spec => ImplementsLifecycle)` |
| `TerminalIsFinal` | `ClientsWait => (Spec => TerminalStays)` |
| `EndIsRecorded` | `ClientsWait => (Spec => []SettledIsRecorded)` |
| `CommandsAreKept` | `MaxFaults = 0 => (Spec => []NoOrphanCommand)` |
| `DeferredIsValid` | `MaxFaults = 0 => (Spec => []DeferredStaysValid)` |

`SingleRun` is not inductive: nothing in it forbids a chain in progress beside a
run, and the chain would start a second one. The inductive invariant `Pipeline`
is typing, `OneRun` (the two run properties) and `ChainAlone` (while the chain is
busy, no run is in flight). A client's command starts a chain only when it is
not deferred, hence, under `ClientsWait`, when no run is in flight. The lifecycle
and finality need one fact more, `Guarded`: a command sent inside a try/catch
(a `"try"` among its callers) is one the current state accepts, or the state is
not terminal, so that `Reject`, which turns a refused command into ABORTING,
never leaves a terminal state. To be inductive it also says that a deferred
command stays acceptable to the state of the run whose callers would send it.
The step lemmas (`Stay`, `Advance`, `Command`, `Aborting`, `Recovery`)
then map each action to a lifecycle step or a stutter.

The record of the end needs to know who still owes it (`Owes`): the chain that is
about to process or announce the terminal state, the run of its finalizer, or the
caller of one on the stack. Only a rejected flush could lose that caller, which is
why `StaysLegal` follows the deferred command from its acceptance to its flush.
The two theorems about commands do without `ClientsWait`, but not without an
executor that settles: `Kept` says that a chain which runs beside an execution
has no callers and comes from a PAUSE, RESUME or UNHOLD, and that the states it
can pass through accept what waits, up to COMPLETED.

`CatalogProofs` and `PackagesProofs` prove about `Catalog`, for any environments, actions, states,
instances, texts, files and bounds:

| Theorem | States |
|---|---|
| `AlwaysConsistent` | `Spec => []Consistent` |
| `CatalogTyped`, `CatalogInForce`, `CatalogNumbers` | `Spec => []TypeOK`, `[]OneInForce`, `[]NumbersDiffer` |
| `CatalogKeepsPinned`, `CatalogReferences` | `Spec => []RunningCodeIsKept`, `[]NothingDangles` |
| `CatalogDeleteSpares` | `Spec => DeleteSparesItsOwn` |
| `CatalogHistory` | `Spec => ImplementsHistory` |
| `PackagesEnvirX`, `PackagesCode`, `PackagesSnapshot` | `Spec => []EnvirXIsNeutral`, `[]CodeComesBack`, `[]SnapshotRestores` |

No run lists `NumbersDiffer`: the `catalog` run checks `ImplementsHistory`, whose histories give every new
version a number above all earlier ones, and `CatalogNumbers` proves the invariant itself.

Most of the properties are not inductive alone. That a pinned version is kept
when an action is dropped holds because the foreign key refuses the drop while an
instance refers to the action, which needs that a pin is a version of the
instance's own action: `Consistent` conjoins typing, the uniqueness of
numbers and active flags (`Codes`, `Numbers`), the references (`Homes`, `Owners`,
`Hosts`) and the pins (`Keeps`). The operators on tables are proved to keep it
one by one, so that the routes, which compose them, are short. That `NextNumber`
exceeds every number is where finiteness is needed.

For the refinement each operator is given its effect on one slot (`Same`, `Added`,
`Emptied`); one file has one of the three (`OneFile`), and two files a composition of
two (`TwoDeploy`). That an upload with code which drops orphans has only one is
because the orphans and the actions of the file are different. The three
theorems about packages are of a state: from `Ready`, `Consistent` and one id
still free, each import is computed through on what the export wrote. A bundle
saves new versions with the texts in force (`SameCode`); a snapshot starts the
numbers at 1 and keeps environments, timeouts and texts, and is refused just when
a row of an instance is there.

`ExecutionProofs` proves `Spec => []TypeOK`, `[]OverridesFollowInstance` and
`[]SeesWhatIsStored` of `Execution`, from `ManagerInv`: these, `CompletedHasRow` (a
completed instance has a row), without which a new invocation could start with
overrides under a stale `completed_at`, `EndedIsCompleted` (an end that was reported
has a `completed_at`), without which a finished instance could come back to a state
in which overrides are due, and `StreamInv`. The last says of the property's bus that its buffer holds the last ids given
(`Shape`) and that the last property event in it is of the stored value (`Tells`);
of a subscriber with an old view that what would be replayed to it has a property
event or begins with a gap (`Corrects`).

`PythonPoolProofs` and `PythonPoolServiceProofs` prove about `PythonPool`, for any finite set of process names and any calls, instances,
sizes and number of executions per worker:

| Theorem | States |
|---|---|
| `TypesKept`, `HeldByOneCall` | `Spec => []TypeOK`, `[]WorkerHeldByOneCall` |
| `NobodyWaitsBesideIdle`, `NoStrays` | `Spec => []NoIdleWhileWaiting`, `[]NoStrayProcess` |
| `RunningIsFound`, `EntriesAreOwn` | `Spec => []RunningIsKillable`, `[]EntryIsOfItsInstance` |
| `CapacityIsKept`, `GrowthIsBounded` | `Spec => []CapacityKept`, `GrowthOnlyToTarget` |
| `ServedInOrder` | `Spec => ServesInOrder` |

None of these is inductive. That a released worker is handed on safely needs that
the caller who takes it over is waiting and stands in the line once; that nobody
waits beside an idle worker after a shrink needs to know who holds the others.
`PoolInv` conjoins typing, `Held` (a busy worker has one holder, an idle one
none), `Lined` (the line holds waiting calls, each once), `Fresh` (who is about
to start has executions left), `Handled` (at most one crash that `close` has
handled awaits the release of its worker, which the priority of resumptions
gives) and the two properties. The pieces of the code that several methods share
(`Serve`, growing, shrinking) are stated of the tables that the caller leaves, so
that `release`, the close of a worker and `resize` cite them. The capacity is the
number of subprocesses that are listed and not handled: a crash takes one away
and its replacement brings one, and `release` drops a worker only when more
than the target remain without it, of which at most one is handled. For the
entries of `activeExecutions`, `FoundInv` adds that calls of one instance which are
started and not over know of each other (`Beside`): the end of the one then takes an
entry only from a call that is marked. For the
refinement every step other than `executeCode` and `shutdown` is one service
of the line: the calls that are over leave, the first of the line get a worker,
and nobody else changes sides.

`SseManagerProofs` proves `Spec => []TypeOK`, `[]BufferHoldsTheLast`,
`[]StreamIsComplete`, `[]ConnectedIsHeard`, `[]LingerKeepsBus` and
`[]HeartbeatHasBus` of `SseManager`, for any buses, clients, buffer size and number
of events. The invariant `SseInv` adds what the life of an instance that was never
cleared does to its bus: at most one timeout is pending, that of the bus in the map,
none while the instance is active, and no heartbeat runs beside it. That is what
makes a timer by name safe, and what a CLEAR breaks: a timeout of the instance's
earlier end removes the bus of its new one. The ring buffer is a lemma about
`Trimmed`. For the streams it keeps that what a client has received of a bus shows,
one after the other, the ids between its first and its last that a buffer can still
hold (`Shows`), and that a listener has the last one; `ShowsMore` appends what a
reconnection replays.

`ConsoleProofs` proves about `Console`, for any slots, texts, keys, statuses, page and
log sizes:

| Theorem | States |
|---|---|
| `ConsoleViews` | `Spec => []ViewedIsStored` |
| `ConsoleSaves` | `Spec => SavesOnlyTyped` |
| `ConsolePaging` | `Spec => []PagingMissesNothing` |

The editor's invariant adds that what is awaited was once stored (`EditorInv`), the
form's that a field that was not typed into shows what the cache has (`FormInv`):
the save compares just these. For the pages the invariant is a reader's progress:
of the entries up to the newest at the start, the first `Reached` in the current
order have been seen, and none older than one that was not (`Read`). It is kept
because no entry moves up: insertions come on top of all, and a trim takes what
is older than everything that stays (`TrimFollows`, `NothingMovesUp`), so that an
offset can repeat entries but not skip one.

The proofs rest on the named assumptions of the modules they are about, on what a
theorem names (`ClientsWait`, `MaxFaults = 0`) and nothing
else. The assumptions on constants are of three kinds: bounds and sizes are numbers;
values that stand for "none" differ from what they stand beside (`NoBus` from buses,
`NoRow` from rows, `Failed` from tables); and what the code has: `Draft` is a
lifecycle state, an id can be made, the default of a setting is valid.

Induction is avoided where a least element will do: that a set of naturals has one
follows from the well-foundedness of `<` without an operator parameter
(`LeastNumber`). What a filter of a sequence returns is the result of a
recursion, so `EventsSince` is written as the suffix that it is.

Model-checked and not proved: the two liveness properties, `EventuallyRests` and
`CallsComeBack`, which are out of this prover's reach with fairness and ENABLED.

## What could follow

- Refinements from `Execution` to one `StateMachine` per instance, and of
  `VersionHistory` by `CodeEditor`'s server, which now only agree by reading.
- Liveness of the manager: that an instance whose executor does not reject comes
  to its end (`at_rest` shows it for the state machine alone).
- The instance pages of the console, which poll.

## Not modelled

Configuration, authentication and the validation of requests, listings, the
dashboard and code tests: no state across requests. Parsing of packages and
`safe-zip`: a file is what its parser makes of it. Migrations and `database.ts`: a
layer over SQLite. The sandbox of the sidecar: a worker answers, hangs or dies,
which is all its pool sees. Pages of the console that show what they poll, UI
packages, tokens, build files.
