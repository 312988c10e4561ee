----------------------------- MODULE StateMachine -----------------------------
(***************************************************************************)
(* The life of one runtime action instance, as                             *)
(* packages/engine/src/state-machine/state-machine.ts drives it.           *)
(*                                                                         *)
(* Node runs one callback at a time and SQLite calls are synchronous, so   *)
(* the engine only gives up control while it awaits the code executor.     *)
(* Between two such awaits it is a chain of calls (processCurrentState,    *)
(* autoAdvance, enterState, sendCommand): the chain is the control state   *)
(* <<pc, arg, stack>> and each call is one action.  Nothing else of the    *)
(* program runs until pc is "idle" again; only a crash can come between,   *)
(* because each updateState is a transaction of its own.                   *)
(*                                                                         *)
(* runs holds the code executions in flight: an await of executeCode or of *)
(* runFinalizerCode, with the state it captured before the await and the   *)
(* callers that wait for it.  The instance maps of the class are keyed by  *)
(* instance id and nothing is shared between ids, so one id is enough.     *)
(***************************************************************************)
EXTENDS ActionStates, Naturals, Sequences, FiniteSets

CONSTANTS
  Visibilities,    \* the visibilities an action may have
  CodeStates,      \* the states code may be pinned to when it is invoked
  Commands,        \* the commands that clients send
  Requests,        \* the commands that action code requests
  RunSlots,        \* names for concurrent code runs (a bound, not in the code)
  MaxCommands,     \* how many commands clients send (a bound)
  MaxNesting,      \* how deep callers wait for each other (a bound)
  MaxFaults,       \* how many crashes and rejected executions (a bound)
  ClientsWait,     \* do clients keep PAUSE/RESUME/UNHOLD until no code runs?
  RowDeletion      \* can the row be force-deleted?

ASSUME Parameters ==
  /\ Visibilities \subseteq Visibility
  /\ CodeStates \subseteq ActionState
  /\ Commands \subseteq ClientCommand
  /\ Requests \subseteq Requestable
  /\ MaxCommands \in Nat /\ MaxNesting \in Nat
  /\ MaxFaults \in Nat
  /\ ClientsWait \in BOOLEAN
  /\ RowDeletion \in BOOLEAN

NoRun == [captured |-> "none", callers |-> <<>>]

VARIABLES
  (* the row of the instances table *)
  exists,      \* the row is there
  visibility,
  pinned,      \* states with a pinned code version
  state,
  completedAt, \* completed_at is set
  error,       \* the error column is set
  executed,    \* states_with_code_executed
  loggedAs,    \* final_status of the log entry, "none" while is_logged = 0
  (* memory of the engine *)
  executing,   \* the id is in executingInstances
  deferred,    \* deferredCommands.get(id)
  runs,        \* the awaited code runs
  pc, arg, stack,  \* the chain of calls in progress
  (* bounds *)
  commandsSent, faults

row == <<exists, visibility, pinned, state, completedAt, error, executed, loggedAs>>
chain == <<pc, arg, stack>>
vars == <<row, executing, deferred, runs, chain, commandsSent, faults>>

(* A caller that still has work to do once the chain it started is over:   *)
(* "try" is executeCode's try/catch around a requested command, a terminal *)
(* state is the rest of processCurrentState after the finalizer.           *)
Callers == TerminalStates \cup {"try"}

Run == [captured : ActionState, callers : Seq(Callers)]

Outcome == {"true", "false", "failed"} \cup Requests

TypeOK ==
  /\ exists \in BOOLEAN /\ visibility \in Visibility
  /\ pinned \in SUBSET ActionState /\ state \in ActionState
  /\ completedAt \in BOOLEAN /\ error \in BOOLEAN
  /\ executed \in SUBSET ActionState
  /\ loggedAs \in TerminalStates \cup {"none"}
  /\ executing \in BOOLEAN
  /\ deferred \in Deferrable \cup {"none"}
  /\ runs \in [RunSlots -> Run \cup {NoRun}]
  /\ pc \in {"idle", "process", "announce", "advance", "recover", "command", "return", "reject"}
  /\ arg \in ActionState \cup ClientCommand \cup {"none"}
  /\ stack \in Seq(Callers)
  /\ commandsSent \in Nat /\ faults \in Nat

InFlight == {r \in RunSlots : runs[r] # NoRun}

-----------------------------------------------------------------------------
(* Control: which call comes next, and for which callers.                  *)
Goto(label, argument, callers) ==
  pc' = label /\ arg' = argument /\ stack' = callers

Top == stack[Len(stack)]
Pop == SubSeq(stack, 1, Len(stack) - 1)

(* enterState: persist the state, then processCurrentState.                *)
EnterState(new, callers) ==
  /\ state' = new
  /\ Goto("process", "none", callers)

(* A thrown error that nothing on the way up handles.                      *)
Abandon == Goto("idle", "none", <<>>)

(* invoke creates the row and calls startInstance.                         *)
Init ==
  /\ exists = TRUE
  /\ visibility \in Visibilities
  /\ pinned \in SUBSET CodeStates
  /\ state = InitialState(visibility)
  /\ completedAt = FALSE /\ error = FALSE /\ executed = {} /\ loggedAs = "none"
  /\ executing = FALSE /\ deferred = "none"
  /\ runs = [r \in RunSlots |-> NoRun]
  /\ pc = "process" /\ arg = "none" /\ stack = <<>>
  /\ commandsSent = 0 /\ faults = 0

-----------------------------------------------------------------------------
(* processCurrentState on a terminal state whose finalizer is absent or    *)
(* over: stamp completed_at, then onTerminal.                              *)
CompleteUnannounced(callers) ==  \* mutant: onTerminal is not called
  /\ completedAt' = TRUE
  /\ Goto("return", "none", callers)

Complete(callers) ==
  /\ completedAt' = TRUE
  /\ Goto("announce", "none", callers)

ProcessTerminal ==
  /\ pc = "process" /\ IsTerminal(state)
  /\ completedAt \/ state \notin pinned
  /\ Complete(stack)
  /\ UNCHANGED <<exists, visibility, pinned, state, error, executed, loggedAs,
                 executing, deferred, runs, commandsSent, faults>>

(* onTerminal: ExecutionLogger.writeLog, guarded by is_logged.             *)
Announce ==
  /\ pc = "announce"
  /\ loggedAs' = IF loggedAs = "none" THEN state ELSE loggedAs
  /\ Goto("return", "none", stack)
  /\ UNCHANGED <<exists, visibility, pinned, state, completedAt, error, executed,
                 executing, deferred, runs, commandsSent, faults>>

(* Pinned code is found: executeCode or, in a terminal state that has not  *)
(* completed yet, runFinalizerCode, up to the await.                       *)
StartRun ==
  /\ pc = "process" /\ state \in pinned
  /\ IsTerminal(state) => ~completedAt
  /\ \E r \in RunSlots \ InFlight :
       runs' = [runs EXCEPT ![r] = [captured |-> state, callers |-> stack]]
  /\ executing' = TRUE
  /\ Goto("idle", "none", <<>>)
  /\ UNCHANGED <<row, deferred, commandsSent, faults>>

ProcessWithoutCode ==
  /\ pc = "process" /\ state \notin pinned /\ ~IsTerminal(state)
  /\ Goto("advance", state, stack)
  /\ UNCHANGED <<row, executing, deferred, runs, commandsSent, faults>>

(* autoAdvance from the state its caller was in, which the row may have    *)
(* left since.  Wait states have no successor.                             *)
AutoAdvance ==
  /\ pc = "advance"
  /\ \/ \E next \in ActionState :
          /\ <<arg, next>> \in AutoAdvanceMap(visibility)
          /\ EnterState(next, stack)
     \/ /\ \A next \in ActionState : <<arg, next>> \notin AutoAdvanceMap(visibility)
        /\ Goto("return", "none", stack)
        /\ UNCHANGED state
  /\ UNCHANGED <<exists, visibility, pinned, completedAt, error, executed,
                 loggedAs, executing, deferred, runs, commandsSent, faults>>

-----------------------------------------------------------------------------
(* sendCommand for a row that exists and a command its state allows.       *)
(* Mutants: the check of executingInstances or a command is forgotten, or  *)
(* every command is kept back.                                             *)
DeferringIdle(command) == command \in Deferrable
DeferringNoAbort(command) == command \in Deferrable \ {"ABORT"} /\ executing
DeferringNoClear(command) == command \in Deferrable \ {"CLEAR"} /\ executing
DeferringAll(command) == executing

Deferring(command) == command \in Deferrable /\ executing

SendCommand(command, callers) ==
  \E to \in ValidateCommand(state, command, visibility) :
    IF Deferring(command)
      THEN /\ deferred' = command
           /\ Goto("return", "none", callers)
           /\ UNCHANGED state
      ELSE /\ EnterState(to, callers)
           /\ UNCHANGED deferred

Accepts(command) == ValidateCommand(state, command, visibility) # {}

(* A client's command; a rejected one (409) changes nothing.               *)
ClientSends(command) ==
  /\ pc = "idle" /\ exists
  /\ commandsSent < MaxCommands
  /\ ClientsWait /\ command \notin Deferrable => InFlight = {}
  /\ SendCommand(command, <<>>)
  /\ commandsSent' = commandsSent + 1
  /\ UNCHANGED <<exists, visibility, pinned, completedAt, error, executed,
                 loggedAs, executing, runs, faults>>

(* A deferred or requested command, sent by the engine itself.             *)
EngineSendsUnchecked ==  \* mutant: enterState without validateCommand
  /\ pc = "command"
  /\ \E from, to \in ActionState :
       to \in ValidateCommand(from, arg, visibility) /\ EnterState(to, stack)
  /\ UNCHANGED <<exists, visibility, pinned, completedAt, error, executed,
                 loggedAs, executing, deferred, runs, commandsSent, faults>>

EngineSends ==
  /\ pc = "command"
  /\ IF Accepts(arg) THEN SendCommand(arg, stack)
     ELSE Goto("reject", "none", stack) /\ UNCHANGED <<state, deferred>>
  /\ UNCHANGED <<exists, visibility, pinned, completedAt, error, executed,
                 loggedAs, executing, runs, commandsSent, faults>>

-----------------------------------------------------------------------------
(* The executor's promise settles: the run is gone, the id leaves          *)
(* executingInstances whoever else may still be executing for it.          *)
SettleWithoutFinally(r) ==  \* mutant: the id stays in executingInstances
  /\ pc = "idle" /\ r \in InFlight
  /\ runs' = [runs EXCEPT ![r] = NoRun]
  /\ executing' = executing

Settle(r) ==
  /\ pc = "idle" /\ r \in InFlight
  /\ runs' = [runs EXCEPT ![r] = NoRun]
  /\ executing' = FALSE

Succeeded(outcome) == outcome # "failed"

(* executeCode after the await.  A deferred command takes over before the  *)
(* result is looked at: neither outputs nor error nor executed-state are   *)
(* recorded.  Otherwise the first requested command, a False from          *)
(* EXECUTING, a failure or the auto-advance decides.  A failure rewrites   *)
(* the captured state together with the error, then enters the recovery.   *)
FlushDeferred(callers) ==
  /\ deferred # "none"
  /\ deferred' = "none"
  /\ Goto("command", deferred, callers)
  /\ UNCHANGED state

ApplyOutcome(from, outcome, callers) ==
  \/ /\ outcome \in Requests /\ Len(callers) < MaxNesting
     /\ Goto("command", outcome, Append(callers, "try"))
     /\ UNCHANGED state
  \/ /\ outcome = "false" /\ from = "EXECUTING"
     /\ EnterState("HOLDING", callers)
  \/ /\ outcome = "true" \/ (outcome = "false" /\ from # "EXECUTING")
     /\ Goto("advance", from, callers)
     /\ UNCHANGED state
  \/ /\ outcome = "failed"
     /\ state' = from
     /\ Goto("recover", from, callers)

RecoveryLoops(from) == {"ABORTING"}  \* mutant: RECOVERY_TERMINAL is not consulted

RecoveryFrom(from) ==
  IF \E to \in TerminalStates : <<from, to>> \in RecoveryTerminal
    THEN {to \in TerminalStates : <<from, to>> \in RecoveryTerminal}
    ELSE {"ABORTING"}

Recover ==
  /\ pc = "recover"
  /\ \E to \in RecoveryFrom(arg) : EnterState(to, stack)
  /\ UNCHANGED <<exists, visibility, pinned, completedAt, error, executed,
                 loggedAs, executing, deferred, runs, commandsSent, faults>>

FinishRun(r, outcome) ==
  LET from == runs[r].captured
      callers == runs[r].callers
  IN /\ Settle(r) /\ exists
     /\ ~IsTerminal(from)
     /\ \/ FlushDeferred(callers) /\ UNCHANGED <<executed, error>>
        \/ /\ deferred = "none"
           /\ ApplyOutcome(from, outcome, callers)
           /\ executed' = IF Succeeded(outcome) THEN executed \cup {from} ELSE executed
           /\ error' = (error \/ ~Succeeded(outcome))
           /\ UNCHANGED deferred
     /\ UNCHANGED <<exists, visibility, pinned, completedAt, loggedAs,
                    commandsSent, faults>>

(* A failed finalizer does not move the instance.                          *)
FinalizerAborts(from, outcome) ==  \* mutant: fails as executeCode does
  IF Succeeded(outcome) THEN state ELSE "ABORTING"

AfterFinalizer(from, outcome) ==
  IF Succeeded(outcome) THEN state ELSE from

(* runFinalizerCode after the await: the result is recorded first (on      *)
(* failure updateState rewrites the captured state), then a deferred       *)
(* command is flushed; the rest of processCurrentState waits for all that. *)
FinishFinalizer(r, outcome) ==
  LET from == runs[r].captured
      callers == Append(runs[r].callers, from)
  IN /\ Settle(r) /\ exists
     /\ IsTerminal(from)
     /\ state' = AfterFinalizer(from, outcome)
     /\ executed' = IF Succeeded(outcome) THEN executed \cup {from} ELSE executed
     /\ error' = (error \/ ~Succeeded(outcome))
     /\ \/ /\ deferred # "none"
           /\ deferred' = "none"
           /\ Goto("command", deferred, callers)
        \/ /\ deferred = "none"
           /\ Goto("return", "none", callers)
           /\ UNCHANGED deferred
     /\ UNCHANGED <<exists, visibility, pinned, completedAt, loggedAs,
                    commandsSent, faults>>

(* The run ends but its instance's row is gone: INSTANCE_NOT_FOUND, or the *)
(* TypeError of a finalizer.  A deferred command is dropped with it.       *)
FinishDeleted(r) ==
  /\ Settle(r) /\ ~exists
  /\ deferred' = "none"
  /\ Abandon
  /\ UNCHANGED <<row, commandsSent, faults>>

(* The executor rejects (PROPERTY_WRITE_ERROR, a pool that shuts down):    *)
(* the error leaves executeCode before the deferred command is looked at,  *)
(* and onError is all that happens.                                        *)
RunThrows(r) ==
  /\ faults < MaxFaults
  /\ faults' = faults + 1
  /\ Settle(r)
  /\ Abandon
  /\ UNCHANGED <<row, deferred, commandsSent>>

-----------------------------------------------------------------------------
(* The chain is over and returns to its innermost waiting caller.          *)
Return ==
  /\ pc = "return"
  /\ \/ /\ stack = <<>>
        /\ Goto("idle", "none", <<>>)
        /\ UNCHANGED completedAt
     \/ /\ stack # <<>>
        /\ Top = "try" \/ Top # state
        /\ Goto("return", "none", Pop)
        /\ UNCHANGED completedAt
     \/ /\ stack # <<>>
        /\ Top = state
        /\ Complete(Pop)
  /\ UNCHANGED <<exists, visibility, pinned, state, error, executed, loggedAs,
                 executing, deferred, runs, commandsSent, faults>>

(* InvalidStateTransitionError travels up: the try/catch of a requested    *)
(* command turns it into ABORTING, finalizer callers let it pass.          *)
Reject ==
  /\ pc = "reject"
  /\ \/ stack = <<>> /\ Abandon /\ UNCHANGED <<state, error>>
     \/ /\ stack # <<>> /\ Top # "try"
        /\ Goto("reject", "none", Pop)
        /\ UNCHANGED <<state, error>>
     \/ /\ stack # <<>> /\ Top = "try"
        /\ EnterState("ABORTING", Pop)
        /\ error' = TRUE
  /\ UNCHANGED <<exists, visibility, pinned, completedAt, executed, loggedAs,
                 executing, deferred, runs, commandsSent, faults>>

(* deleteById, whatever the state of the instance.                         *)
DeleteRow ==
  /\ RowDeletion /\ pc = "idle" /\ exists
  /\ exists' = FALSE
  /\ UNCHANGED <<visibility, pinned, state, completedAt, error, executed, loggedAs,
                 executing, deferred, runs, chain, commandsSent, faults>>

(* The server is killed, between any two transactions, and restarted: the  *)
(* row is what it was, everything in memory is gone, and nothing resumes   *)
(* the instance.                                                           *)
Crash ==
  /\ faults < MaxFaults
  /\ faults' = faults + 1
  /\ executing' = FALSE /\ deferred' = "none"
  /\ runs' = [r \in RunSlots |-> NoRun]
  /\ Abandon
  /\ UNCHANGED <<row, commandsSent>>

-----------------------------------------------------------------------------
Chain ==
  \/ ProcessTerminal \/ Announce \/ StartRun \/ ProcessWithoutCode
  \/ AutoAdvance \/ Recover \/ EngineSends \/ Return \/ Reject

RunEnds(r) ==
  \/ \E outcome \in Outcome : FinishRun(r, outcome)
  \/ \E outcome \in {"true", "failed"} : FinishFinalizer(r, outcome)
  \/ FinishDeleted(r)
  \/ RunThrows(r)

Next ==
  \/ Chain
  \/ \E r \in RunSlots : RunEnds(r)
  \/ \E command \in Commands : ClientSends(command)
  \/ DeleteRow
  \/ Crash

Spec == Init /\ [][Next]_vars

(* The event loop drains the chain, and the execution timeout ends every   *)
(* run; clients and faults owe nothing.                                    *)
FairSpec ==
  /\ Spec
  /\ WF_vars(Chain)
  /\ \A r \in RunSlots : WF_vars(RunEnds(r))

-----------------------------------------------------------------------------
(* PROPERTIES                                                              *)

(* One pipeline per instance: at most one execution of the instance's code *)
(* is awaited at a time, and executingInstances knows about it.            *)
SingleRun ==
  /\ Cardinality(InFlight) <= 1
  /\ executing <=> InFlight # {}

(* The result of a run is applied to the state it was started in: nothing  *)
(* moves the instance while executeCode or the finalizer awaits.           *)
RunInItsState == \A r \in InFlight : runs[r].captured = state

(* A command that was accepted and held back is never forgotten: some run  *)
(* is in flight whose end will flush it.                                   *)
NoOrphanCommand == deferred # "none" => InFlight # {}

(* ... and it stays legal until then, so that a command the client was     *)
(* told is accepted is not rejected behind its back, unless a RESUME or an *)
(* UNHOLD let the instance complete beside the run.                        *)
DeferredStaysValid ==
  deferred # "none" => Accepts(deferred) \/ state = "COMPLETED"

(* When a terminal instance is at rest, completed_at is stamped (the       *)
(* guards against deleting active instances look at it) and the execution  *)
(* log has its entry, unless a fault took the engine's memory of it.       *)
AtRest == pc = "idle" /\ InFlight = {}

SettledIsRecorded ==
  exists /\ faults = 0 /\ AtRest /\ IsTerminal(state)
    => completedAt /\ loggedAs # "none"

(* A terminal state is final: only CLEAR leads out of ABORTED.             *)
TerminalStays ==
  [][IsTerminal(state) => state = "ABORTED" /\ state' = "CLEARING"]_state

(* The instance implements the lifecycle its clients rely on.              *)
Phase ==
  CASE state = "ABORTING"  -> "aborting"
    [] state = "STOPPING"  -> "stopping"
    [] state = "ABORTED"   -> "aborted"
    [] state = "CLEARING"  -> "clearing"
    [] state = "COMPLETED" -> "completed"
    [] OTHER               -> "working"

Lifecycle == INSTANCE ActionLifecycle WITH phase <- Phase

ImplementsLifecycle == Lifecycle!Spec

(* An instance does not get stuck in a state it should pass through: if    *)
(* clients stop sending commands, it comes to rest in a terminal or a wait *)
(* state.                                                                  *)
Waiting == state \in {"PAUSED", "HELD"}

EventuallyRests == <>[](AtRest /\ (IsTerminal(state) \/ Waiting))
=============================================================================
