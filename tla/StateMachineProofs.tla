------------------------- MODULE StateMachineProofs -------------------------
(***************************************************************************)
(* What holds of StateMachine for every visibility, pinning of code,       *)
(* requested command, number of commands, runs, faults and nesting: the    *)
(* one run at a time, the lifecycle, the commands it keeps back whatever   *)
(* clients send, and the record of an instance's end.                      *)
(***************************************************************************)
EXTENDS StateMachine, TLAPS, FiniteSetTheorems

(* What the proofs need to know of the sets of states and commands.        *)
LEMMA StateFacts ==
  /\ TerminalStates \subseteq ActionState
  /\ {"ABORTING", "HOLDING", "STARTING", "POSTED"} \subseteq ActionState
  /\ "none" \notin ActionState
  /\ "none" \notin Deferrable
  /\ Deferrable \subseteq ClientCommand
  /\ Requests \subseteq ClientCommand
BY Parameters
DEF TerminalStates, ActionState, ObservableStates, OpaqueStates, Deferrable,
    ClientCommand, Requestable

LEMMA PopType ==
  ASSUME NEW S, NEW s \in Seq(S), s # <<>>
  PROVE  /\ SubSeq(s, 1, Len(s) - 1) \in Seq(S)
         /\ s[Len(s)] \in S
OBVIOUS

LEMMA RecoveryType ==
  ASSUME NEW from, NEW to \in RecoveryFrom(from)
  PROVE  to \in ActionState
BY StateFacts DEF RecoveryFrom

(* The run that settles was started by StartRun, and leaves its slot.      *)
LEMMA SettleType ==
  ASSUME TypeOK, NEW r \in RunSlots, Settle(r)
  PROVE  /\ runs[r].captured \in ActionState
         /\ runs[r].callers \in Seq(Callers)
         /\ runs' \in [RunSlots -> Run \cup {NoRun}]
         /\ executing' \in BOOLEAN
BY DEF TypeOK, Settle, InFlight, Run

-----------------------------------------------------------------------------
(* Every variable keeps its type, whatever clients and faults do; what is  *)
(* announced is a terminal state.                                          *)
Typed == TypeOK /\ (pc = "announce" => IsTerminal(state))

LEMMA InitType == Init => Typed
<1> SUFFICES ASSUME Init PROVE Typed
  OBVIOUS
<1> USE Parameters, StateFacts DEF Init
<1>1. visibility \in Visibility /\ pinned \in SUBSET ActionState
  <2>1. CodeStates \subseteq ActionState /\ Visibilities \subseteq Visibility
    BY DEF Parameters
  <2> QED BY <2>1
<1>2. state \in ActionState
  BY DEF InitialState
<1>3. stack \in Seq(Callers) /\ runs \in [RunSlots -> Run \cup {NoRun}]
  OBVIOUS
<1>4. TypeOK
  BY <1>1, <1>2, <1>3 DEF TypeOK
<1> QED BY <1>4 DEF Typed

LEMMA NextType == Typed /\ [Next]_vars => Typed'
<1> SUFFICES ASSUME Typed, [Next]_vars PROVE Typed'
  OBVIOUS
<1> USE StateFacts DEF Goto, row, chain, Typed, IsTerminal
<1>1. CASE ProcessTerminal
  BY <1>1 DEF ProcessTerminal, Complete, TypeOK
<1>2. CASE Announce
  BY <1>2 DEF Announce, TypeOK
<1>3. CASE StartRun
  <2>1. PICK r \in RunSlots :
          runs' = [runs EXCEPT ![r] = [captured |-> state, callers |-> stack]]
    BY <1>3 DEF StartRun
  <2>2. runs' \in [RunSlots -> Run \cup {NoRun}]
    BY <2>1 DEF TypeOK, Run
  <2> QED BY <1>3, <2>2 DEF StartRun, TypeOK
<1>4. CASE ProcessWithoutCode
  BY <1>4 DEF ProcessWithoutCode, TypeOK
<1>5. CASE AutoAdvance
  BY <1>5 DEF AutoAdvance, EnterState, TypeOK
<1>6. CASE Recover
  BY <1>6, RecoveryType DEF Recover, EnterState, TypeOK
<1>7. CASE EngineSends
  BY <1>7 DEF EngineSends, SendCommand, ValidateCommand, Deferring, EnterState, TypeOK
<1>8. CASE Return
  <2>1. stack # <<>> => Pop \in Seq(Callers) /\ Top \in Callers
    BY PopType DEF Pop, Top, TypeOK
  <2>2. stack # <<>> /\ Top = state => IsTerminal(state)
    BY <2>1 DEF Callers, TypeOK, ActionState, ObservableStates, OpaqueStates
  <2> QED BY <1>8, <2>1, <2>2 DEF Return, Complete, TypeOK
<1>9. CASE Reject
  <2>1. stack # <<>> => Pop \in Seq(Callers)
    BY PopType DEF Pop, TypeOK
  <2> QED BY <1>9, <2>1 DEF Reject, Abandon, EnterState, TypeOK
<1>10. ASSUME NEW r \in RunSlots, NEW outcome \in Outcome, FinishRun(r, outcome)
       PROVE  Typed'
  <2> DEFINE from == runs[r].captured
             callers == runs[r].callers
  <2>1. Settle(r)
    BY <1>10 DEF FinishRun
  <2>2. from \in ActionState /\ callers \in Seq(Callers)
    BY <2>1, SettleType
  <2>3. Append(callers, "try") \in Seq(Callers)
    BY <2>2 DEF Callers
  <2>4. CASE FlushDeferred(callers) /\ UNCHANGED <<executed, error>>
    BY <1>10, <2>1, <2>2, <2>4, SettleType DEF FinishRun, FlushDeferred, TypeOK
  <2>5. CASE /\ ApplyOutcome(from, outcome, callers)
             /\ executed' = IF Succeeded(outcome) THEN executed \cup {from} ELSE executed
             /\ error' = (error \/ ~Succeeded(outcome))
             /\ UNCHANGED deferred
    <3> HIDE DEF from, callers
    <3>1. executed' \in SUBSET ActionState /\ error' \in BOOLEAN
      BY <2>2, <2>5 DEF TypeOK
    <3>2. /\ pc' \in {"command", "process", "advance", "recover"}
          /\ arg' \in ActionState \cup ClientCommand \cup {"none"}
          /\ stack' \in Seq(Callers)
          /\ state' \in ActionState
      BY <2>2, <2>3, <2>5 DEF ApplyOutcome, EnterState, TypeOK
    <3> QED BY <1>10, <2>1, <2>5, <3>1, <3>2, SettleType DEF FinishRun, TypeOK
  <2> QED BY <1>10, <2>4, <2>5 DEF FinishRun
<1>11. ASSUME NEW r \in RunSlots, NEW outcome \in {"true", "failed"},
              FinishFinalizer(r, outcome)
       PROVE  Typed'
  <2> DEFINE from == runs[r].captured
             callers == Append(runs[r].callers, from)
  <2>1. Settle(r) /\ IsTerminal(from)
    BY <1>11 DEF FinishFinalizer
  <2>2. from \in ActionState /\ callers \in Seq(Callers)
    BY <2>1, SettleType DEF Callers
  <2>3. /\ state' \in ActionState
        /\ executed' \in SUBSET ActionState
        /\ error' \in BOOLEAN
    BY <1>11, <2>2 DEF FinishFinalizer, AfterFinalizer, TypeOK
  <2>4. /\ pc' \in {"command", "return"}
        /\ arg' \in ActionState \cup ClientCommand \cup {"none"}
        /\ stack' \in Seq(Callers)
        /\ deferred' = "none"
    BY <1>11, <2>2 DEF FinishFinalizer, TypeOK
  <2> QED BY <1>11, <2>1, <2>3, <2>4, SettleType DEF FinishFinalizer, TypeOK
<1>12. ASSUME NEW r \in RunSlots, FinishDeleted(r)
       PROVE  Typed'
  <2>1. Settle(r) /\ stack' \in Seq(Callers)
    BY <1>12 DEF FinishDeleted, Abandon
  <2> QED BY <1>12, <2>1, SettleType DEF FinishDeleted, Abandon, TypeOK
<1>13. ASSUME NEW r \in RunSlots, RunThrows(r)
       PROVE  Typed'
  <2>1. Settle(r) /\ stack' \in Seq(Callers)
    BY <1>13 DEF RunThrows, Abandon
  <2> QED BY <1>13, <2>1, SettleType DEF RunThrows, Abandon, TypeOK
<1>14. ASSUME NEW command \in Commands, ClientSends(command)
       PROVE  Typed'
  <2>1. stack' = <<>>
    BY <1>14 DEF ClientSends, SendCommand, EnterState
  <2>2. /\ pc' \in {"return", "process"} /\ arg' = "none"
        /\ state' \in ActionState
        /\ deferred' \in Deferrable \cup {"none"}
    BY <1>14 DEF ClientSends, SendCommand, ValidateCommand, Deferring, EnterState, TypeOK
  <2>3. stack' \in Seq(Callers)
    BY <2>1
  <2> QED BY <1>14, <2>2, <2>3 DEF ClientSends, TypeOK
<1>15. CASE DeleteRow
  BY <1>15 DEF DeleteRow, TypeOK
<1>16. CASE Crash
  <2>1. runs' \in [RunSlots -> Run \cup {NoRun}] /\ stack' \in Seq(Callers)
    BY <1>16 DEF Crash, Abandon
  <2>2. faults' \in Nat
    BY <1>16 DEF Crash, TypeOK
  <2>3. UNCHANGED <<row, commandsSent>> /\ pc' = "idle" /\ arg' = "none"
    BY <1>16 DEF Crash, Abandon
  <2>4. executing' = FALSE /\ deferred' = "none"
    BY <1>16 DEF Crash
  <2> QED BY <2>1, <2>2, <2>3, <2>4 DEF TypeOK
<1>17. CASE UNCHANGED vars
  BY <1>17 DEF vars, TypeOK
<1> QED
  BY <1>1, <1>2, <1>3, <1>4, <1>5, <1>6, <1>7, <1>8, <1>9, <1>10, <1>11, <1>12,
     <1>13, <1>14, <1>15, <1>16, <1>17
  DEF Next, Chain, RunEnds

(* The type invariant holds in every reachable state.                      *)
THEOREM TypeCorrect == Spec => []TypeOK
<1>1. Typed => TypeOK
  BY DEF Typed
<1> QED BY <1>1, InitType, NextType, PTL DEF Spec
-----------------------------------------------------------------------------
(* One run at a time, in the state it was started in.  This needs clients  *)
(* that keep PAUSE, RESUME and UNHOLD until no code runs.                  *)
OneRun ==
  /\ \A r, s \in InFlight : r = s
  /\ executing <=> InFlight # {}
  /\ RunInItsState

(* While a chain of calls is in progress nothing is awaited, unless all it *)
(* did was to defer a command; the state a call was given is still current.*)
ChainAlone ==
  /\ pc # "idle" /\ InFlight # {} => pc = "return" /\ stack = <<>>
  /\ pc = "advance" => arg = state
  /\ pc = "recover" => arg = state /\ ~IsTerminal(state)

Pipeline == Typed /\ OneRun /\ ChainAlone

LEMMA InitPipeline == Init => Pipeline
<1> SUFFICES ASSUME Init PROVE Pipeline
  OBVIOUS
<1>1. InFlight = {}
  BY DEF Init, InFlight
<1> QED BY <1>1, InitType DEF Pipeline, OneRun, ChainAlone, RunInItsState, Init

(* The only run settles, nothing is awaited.                               *)
LEMMA SettlePipeline ==
  ASSUME Pipeline, NEW r \in RunSlots, Settle(r)
  PROVE  /\ InFlight' = {}
         /\ executing' = FALSE
         /\ runs[r].captured = state
BY DEF Settle, InFlight, Pipeline, OneRun, RunInItsState, Typed, TypeOK

(* Steps that leave the awaited runs alone while nothing is awaited.       *)
LEMMA QuietPipeline ==
  ASSUME Pipeline, InFlight = {}, UNCHANGED <<runs, executing>>
  PROVE  OneRun'
BY DEF Pipeline, OneRun, RunInItsState, InFlight

LEMMA NextPipeline == ClientsWait /\ Pipeline /\ [Next]_vars => Pipeline'
<1> SUFFICES ASSUME ClientsWait, Pipeline, [Next]_vars PROVE Pipeline'
  OBVIOUS
<1>0. Typed'
  BY NextType DEF Pipeline
<1> SUFFICES OneRun' /\ ChainAlone'
  BY <1>0 DEF Pipeline
<1>q. ASSUME pc \notin {"idle", "return"} PROVE InFlight = {}
  BY <1>q DEF Pipeline, ChainAlone
<1> USE DEF Goto
<1>1. CASE ProcessTerminal
  BY <1>1, <1>q, QuietPipeline DEF ProcessTerminal, Complete, ChainAlone, InFlight
<1>2. CASE Announce
  BY <1>2, <1>q, QuietPipeline DEF Announce, ChainAlone, InFlight
<1>3. CASE StartRun
  <2>1. InFlight = {}
    BY <1>3, <1>q DEF StartRun
  <2>2. PICK r \in RunSlots :
          runs' = [runs EXCEPT ![r] = [captured |-> state, callers |-> stack]]
    BY <1>3 DEF StartRun
  <2>3. [captured |-> state, callers |-> stack] # NoRun
    BY StateFacts DEF NoRun, Pipeline, Typed, TypeOK
  <2>4. InFlight' = {r} /\ runs'[r].captured = state
    BY <2>1, <2>2, <2>3 DEF InFlight, Pipeline, Typed, TypeOK
  <2> QED BY <1>3, <2>4 DEF StartRun, row, OneRun, RunInItsState, ChainAlone
<1>4. CASE ProcessWithoutCode
  BY <1>4, <1>q, QuietPipeline DEF ProcessWithoutCode, row, ChainAlone, InFlight
<1>5. CASE AutoAdvance
  BY <1>5, <1>q, QuietPipeline DEF AutoAdvance, EnterState, ChainAlone, InFlight
<1>6. CASE Recover
  BY <1>6, <1>q, QuietPipeline DEF Recover, EnterState, ChainAlone, InFlight
<1>7. CASE EngineSends
  <2>1. InFlight = {} /\ UNCHANGED <<runs, executing>>
    BY <1>7, <1>q DEF EngineSends
  <2>2. pc' \in {"return", "process", "reject"}
    BY <1>7 DEF EngineSends, SendCommand, EnterState
  <2> QED BY <2>1, <2>2, QuietPipeline DEF ChainAlone, InFlight
<1>8. CASE Return
  BY <1>8 DEF Return, Complete, Pipeline, OneRun, RunInItsState, ChainAlone, InFlight
<1>9. CASE Reject
  BY <1>9, <1>q, QuietPipeline DEF Reject, Abandon, EnterState, ChainAlone, InFlight
<1>10. ASSUME NEW r \in RunSlots, NEW outcome \in Outcome, FinishRun(r, outcome)
       PROVE  OneRun' /\ ChainAlone'
  <2> DEFINE from == runs[r].captured
  <2>1. InFlight' = {} /\ executing' = FALSE /\ from = state /\ ~IsTerminal(from)
    BY <1>10, SettlePipeline DEF FinishRun
  <2>2. /\ pc' = "advance" => arg' = from /\ state' = state
        /\ pc' = "recover" => arg' = from /\ state' = from
    BY <1>10 DEF FinishRun, FlushDeferred, ApplyOutcome, EnterState
  <2> QED BY <2>1, <2>2 DEF OneRun, RunInItsState, ChainAlone, IsTerminal
<1>11. ASSUME NEW r \in RunSlots, NEW outcome \in {"true", "failed"},
              FinishFinalizer(r, outcome)
       PROVE  OneRun' /\ ChainAlone'
  <2>1. InFlight' = {} /\ executing' = FALSE
    BY <1>11, SettlePipeline DEF FinishFinalizer
  <2>2. pc' \in {"command", "return"}
    BY <1>11 DEF FinishFinalizer
  <2> QED BY <2>1, <2>2 DEF OneRun, RunInItsState, ChainAlone
<1>12. ASSUME NEW r \in RunSlots, FinishDeleted(r) \/ RunThrows(r)
       PROVE  OneRun' /\ ChainAlone'
  BY <1>12, SettlePipeline
  DEF FinishDeleted, RunThrows, Abandon, OneRun, RunInItsState, ChainAlone
<1>13. ASSUME NEW command \in Commands, ClientSends(command)
       PROVE  OneRun' /\ ChainAlone'
  <2>1. UNCHANGED <<runs, executing>> /\ InFlight' = InFlight /\ stack' = <<>>
    BY <1>13 DEF ClientSends, SendCommand, EnterState, InFlight
  <2>2. CASE Deferring(command)
    <3>1. UNCHANGED state /\ pc' = "return"
      BY <1>13, <2>2 DEF ClientSends, SendCommand
    <3> QED BY <2>1, <3>1 DEF Pipeline, OneRun, RunInItsState, ChainAlone
  <2>3. CASE ~Deferring(command)
    <3>1. InFlight = {}
      BY <1>13, <2>3 DEF ClientSends, Deferring, Pipeline, OneRun
    <3>2. pc' = "process"
      BY <1>13, <2>3 DEF ClientSends, SendCommand, EnterState
    <3> QED BY <2>1, <3>1, <3>2, QuietPipeline DEF ChainAlone
  <2> QED BY <2>2, <2>3
<1>14. CASE DeleteRow
  BY <1>14 DEF DeleteRow, chain, Pipeline, OneRun, RunInItsState, ChainAlone, InFlight
<1>15. CASE Crash
  <2>1. InFlight' = {} /\ executing' = FALSE /\ pc' = "idle"
    BY <1>15 DEF Crash, Abandon, InFlight
  <2> QED BY <2>1 DEF OneRun, RunInItsState, ChainAlone
<1>16. CASE UNCHANGED vars
  BY <1>16 DEF vars, row, chain, Pipeline, OneRun, RunInItsState, ChainAlone, InFlight
<1> QED
  BY <1>1, <1>2, <1>3, <1>4, <1>5, <1>6, <1>7, <1>8, <1>9, <1>10, <1>11, <1>12,
     <1>13, <1>14, <1>15, <1>16
  DEF Next, Chain, RunEnds

LEMMA PipelineHolds == ClientsWait => (Spec => []Pipeline)
<1> SUFFICES ASSUME ClientsWait PROVE Spec => []Pipeline
  OBVIOUS
<1>1. Pipeline /\ [Next]_vars => Pipeline'
  BY NextPipeline
<1> QED BY <1>1, InitPipeline, PTL DEF Spec

(* At most one run of an instance's code is awaited, and the engine knows: *)
(* what the deferral of HOLD, STOP, ABORT and CLEAR is there for.          *)
THEOREM OneRunAtATime == ClientsWait => (Spec => []SingleRun)
<1> SUFFICES ASSUME ClientsWait PROVE Spec => []SingleRun
  OBVIOUS
<1>1. Pipeline => SingleRun
  <2> SUFFICES ASSUME Pipeline PROVE SingleRun
    OBVIOUS
  <2>1. CASE InFlight = {}
    BY <2>1, FS_EmptySet DEF SingleRun, Pipeline, OneRun
  <2>2. CASE InFlight # {}
    <3>1. PICK r : r \in InFlight
      BY <2>2
    <3>2. InFlight = {r}
      BY <3>1 DEF Pipeline, OneRun
    <3> QED BY <3>2, FS_Singleton DEF SingleRun, Pipeline, OneRun
  <2> QED BY <2>1, <2>2
<1> QED BY <1>1, PipelineHolds, PTL

(* The result of a run is applied to the state in which the run started.   *)
THEOREM RunsStayInTheirState == ClientsWait => (Spec => []RunInItsState)
<1> SUFFICES ASSUME ClientsWait PROVE Spec => []RunInItsState
  OBVIOUS
<1>1. Pipeline => RunInItsState
  BY DEF Pipeline, OneRun
<1> QED BY <1>1, PipelineHolds, PTL
-----------------------------------------------------------------------------
(* Refinement of ActionLifecycle.  The step to watch is Reject: it turns   *)
(* an illegal requested command into ABORTING, and must not do so in a     *)
(* terminal state.  The commands that may reach it are those sent with a   *)
(* "try" among their callers; a deferred one among them is still valid.    *)
HasTry(callers) == \E k \in DOMAIN callers : callers[k] = "try"

Guarded ==
  /\ pc # "idle" /\ HasTry(stack) => deferred = "none"
  /\ \A r \in InFlight :
       HasTry(runs[r].callers) /\ deferred # "none" => Accepts(deferred)
  /\ pc = "command" /\ HasTry(stack) => Accepts(arg) \/ ~IsTerminal(state)
  /\ pc = "reject" /\ HasTry(stack) => ~IsTerminal(state)

LEMMA TryAppend ==
  ASSUME NEW callers \in Seq(Callers), NEW last \in Callers \ {"try"},
         HasTry(Append(callers, last))
  PROVE  HasTry(callers)
BY DEF HasTry

LEMMA TryPop ==
  ASSUME NEW callers \in Seq(Callers), callers # <<>>,
         HasTry(SubSeq(callers, 1, Len(callers) - 1))
  PROVE  HasTry(callers)
BY DEF HasTry

LEMMA TryTop ==
  ASSUME NEW callers \in Seq(Callers), callers # <<>>,
         callers[Len(callers)] = "try"
  PROVE  HasTry(callers)
BY DEF HasTry

LEMMA NoTry == ~HasTry(<<>>)
BY DEF HasTry

LEMMA InitGuarded == Init => Guarded
BY NoTry DEF Init, Guarded, InFlight

LEMMA NextGuarded == ClientsWait /\ Pipeline /\ Guarded /\ [Next]_vars => Guarded'
<1> SUFFICES ASSUME ClientsWait, Pipeline, Guarded, [Next]_vars PROVE Guarded'
  OBVIOUS
<1> USE NoTry DEF Goto
<1>t. TypeOK /\ stack \in Seq(Callers)
  BY DEF Pipeline, Typed, TypeOK
<1>q. ASSUME pc \notin {"idle", "return"} PROVE InFlight = {}
  BY <1>q DEF Pipeline, ChainAlone
<1>1. CASE ProcessTerminal
  BY <1>1, <1>q DEF ProcessTerminal, Complete, Guarded, InFlight
<1>2. CASE Announce
  BY <1>2, <1>q DEF Announce, Guarded, InFlight
<1>3. CASE StartRun
  <2>1. InFlight = {}
    BY <1>3, <1>q DEF StartRun
  <2>2. PICK r \in RunSlots :
          runs' = [runs EXCEPT ![r] = [captured |-> state, callers |-> stack]]
    BY <1>3 DEF StartRun
  <2>3. InFlight' \subseteq {r} /\ runs'[r].callers = stack
    BY <1>t, <2>1, <2>2 DEF InFlight, TypeOK
  <2>4. HasTry(stack) => deferred' = "none"
    BY <1>3 DEF StartRun, Guarded
  <2>5. pc' = "idle"
    BY <1>3 DEF StartRun
  <2> QED BY <2>3, <2>4, <2>5 DEF Guarded
<1>4. CASE ProcessWithoutCode
  BY <1>4, <1>q DEF ProcessWithoutCode, row, Guarded, InFlight
<1>5. CASE AutoAdvance
  BY <1>5, <1>q DEF AutoAdvance, EnterState, Guarded, InFlight
<1>6. CASE Recover
  BY <1>6, <1>q DEF Recover, EnterState, Guarded, InFlight
<1>7. CASE EngineSends
  <2>1. InFlight' = {} /\ stack' = stack /\ ~Deferring(arg)
    BY <1>7, <1>q DEF EngineSends, SendCommand, EnterState, InFlight, Deferring,
       Pipeline, OneRun
  <2>2. deferred' = deferred /\ pc' \in {"process", "reject"}
    BY <1>7, <2>1 DEF EngineSends, SendCommand, EnterState
  <2>3. pc' = "reject" => ~Accepts(arg) /\ state' = state
    BY <1>7, <2>1 DEF EngineSends, SendCommand, EnterState
  <2>4. pc = "command"
    BY <1>7 DEF EngineSends
  <2> QED BY <2>1, <2>2, <2>3, <2>4 DEF Guarded, IsTerminal
<1>8. CASE Return
  <2>1. stack # <<>> /\ HasTry(Pop) => HasTry(stack)
    BY <1>t, TryPop DEF Pop
  <2>2. stack # <<>> => InFlight = {}
    BY <1>8 DEF Return, Pipeline, ChainAlone
  <2> QED BY <1>8, <2>1, <2>2 DEF Return, Complete, Guarded, Accepts, InFlight
<1>9. CASE Reject
  <2>1. stack # <<>> /\ HasTry(Pop) => HasTry(stack)
    BY <1>t, TryPop DEF Pop
  <2> QED BY <1>9, <1>q, <2>1
      DEF Reject, Abandon, EnterState, Guarded, IsTerminal, InFlight
<1>10. ASSUME NEW r \in RunSlots, NEW outcome \in Outcome, FinishRun(r, outcome)
       PROVE  Guarded'
  <2> DEFINE from == runs[r].captured
             callers == runs[r].callers
  <2>1. InFlight' = {} /\ from = state /\ ~IsTerminal(from)
    BY <1>10, SettlePipeline DEF FinishRun
  <2>2. r \in InFlight /\ deferred' = "none" /\ visibility' = visibility
    BY <1>10 DEF FinishRun, FlushDeferred, Settle
  <2>3. /\ pc' \in {"command", "process", "advance", "recover"}
        /\ pc' = "command" => state' = state
    BY <1>10 DEF FinishRun, FlushDeferred, ApplyOutcome, EnterState
  <2> QED BY <2>1, <2>2, <2>3 DEF Guarded, IsTerminal
<1>11. ASSUME NEW r \in RunSlots, NEW outcome \in {"true", "failed"},
              FinishFinalizer(r, outcome)
       PROVE  Guarded'
  <2> DEFINE from == runs[r].captured
             callers == runs[r].callers
  <2>1. InFlight' = {} /\ from = state /\ IsTerminal(from) /\ Settle(r)
    BY <1>11, SettlePipeline DEF FinishFinalizer
  <2>2. state' = state /\ deferred' = "none" /\ r \in InFlight /\ visibility' = visibility
    BY <1>11, <2>1 DEF FinishFinalizer, AfterFinalizer, Settle
  <2>3. callers \in Seq(Callers) /\ from \in Callers \ {"try"}
    BY <1>t, <2>1, SettleType DEF Callers, IsTerminal, TerminalStates
  <2>4. HasTry(stack') => HasTry(callers)
    BY <1>11, <2>3, TryAppend DEF FinishFinalizer
  <2>5. pc' \in {"command", "return"} /\ (pc' = "command" => arg' = deferred /\ deferred # "none")
    BY <1>11 DEF FinishFinalizer
  <2> QED BY <2>1, <2>2, <2>4, <2>5 DEF Guarded, Accepts
<1>12. ASSUME NEW r \in RunSlots, FinishDeleted(r) \/ RunThrows(r)
       PROVE  Guarded'
  BY <1>12, SettlePipeline DEF FinishDeleted, RunThrows, Abandon, Guarded
<1>13. ASSUME NEW command \in Commands, ClientSends(command)
       PROVE  Guarded'
  <2>1. /\ UNCHANGED <<runs, visibility>> /\ InFlight' = InFlight
        /\ stack' = <<>> /\ pc' \in {"return", "process"}
    BY <1>13 DEF ClientSends, SendCommand, EnterState, InFlight
  <2>2. CASE Deferring(command)
    <3>1. UNCHANGED state /\ deferred' = command /\ Accepts(command)
      BY <1>13, <2>2 DEF ClientSends, SendCommand, Accepts
    <3> QED BY <2>1, <3>1 DEF Guarded, Accepts
  <2>3. CASE ~Deferring(command)
    <3>1. InFlight = {}
      BY <1>13, <2>3 DEF ClientSends, Deferring, Pipeline, OneRun
    <3> QED BY <2>1, <3>1 DEF Guarded
  <2> QED BY <2>2, <2>3
<1>14. CASE DeleteRow
  BY <1>14 DEF DeleteRow, chain, Guarded, Accepts, InFlight
<1>15. CASE Crash
  <2>1. InFlight' = {} /\ pc' = "idle"
    BY <1>15 DEF Crash, Abandon, InFlight
  <2> QED BY <2>1 DEF Guarded
<1>16. CASE UNCHANGED vars
  BY <1>16 DEF vars, row, chain, Guarded, Accepts, InFlight
<1> QED
  BY <1>1, <1>2, <1>3, <1>4, <1>5, <1>6, <1>7, <1>8, <1>9, <1>10, <1>11, <1>12,
     <1>13, <1>14, <1>15, <1>16
  DEF Next, Chain, RunEnds

LifecycleStep == [Lifecycle!Next]_Phase

(* The moves of the tables, of a recovery and into ABORTING, and staying,  *)
(* are steps of the lifecycle.                                             *)
LEMMA StayStep == ASSUME state' = state PROVE LifecycleStep
BY DEF LifecycleStep, Phase

LEMMA AdvanceStep ==
  ASSUME <<state, state'>> \in AutoAdvanceMap(visibility)
  PROVE  LifecycleStep
<1>1. <<state, state'>> \in ObservableAdvance \cup OpaqueAdvance
  BY DEF AutoAdvanceMap
<1> QED
  BY <1>1
  DEF ObservableAdvance, OpaqueAdvance, LifecycleStep, Phase, Lifecycle!Next,
      Lifecycle!Finish, Lifecycle!Abort, Lifecycle!Move

LEMMA CommandStep ==
  ASSUME NEW command \in ClientCommand,
         state' \in ValidateCommand(state, command, visibility)
  PROVE  LifecycleStep
<1>1. <<state, command, state'>> \in ObservableTable \cup OpaqueTable
  BY DEF ValidateCommand, TransitionTable
<1>2. command # "SC"
  BY DEF ClientCommand
<1> QED
  BY <1>1, <1>2
  DEF ObservableTable, OpaqueTable, AnyActiveStates, OpaqueActive, LifecycleStep,
      Phase, Lifecycle!Next, Lifecycle!Stop, Lifecycle!Fail, Lifecycle!Clear,
      Lifecycle!Move

LEMMA AbortingStep ==
  ASSUME ~IsTerminal(state), state' = "ABORTING"
  PROVE  LifecycleStep
BY DEF IsTerminal, TerminalStates, LifecycleStep, Phase, Lifecycle!Next,
       Lifecycle!Fail, Lifecycle!Move

LEMMA RecoveryStep ==
  ASSUME ~IsTerminal(state), state' \in RecoveryFrom(state)
  PROVE  LifecycleStep
<1>1. CASE <<state, state'>> \in RecoveryTerminal
  BY <1>1
  DEF RecoveryTerminal, LifecycleStep, Phase, Lifecycle!Next, Lifecycle!Finish,
      Lifecycle!Abort, Lifecycle!Move
<1>2. CASE state' = "ABORTING"
  BY <1>2, AbortingStep
<1> QED BY <1>1, <1>2 DEF RecoveryFrom

LEMMA NextStep == ClientsWait /\ Pipeline /\ Guarded /\ [Next]_vars => LifecycleStep
<1> SUFFICES ASSUME ClientsWait, Pipeline, Guarded, [Next]_vars, state' # state
             PROVE  LifecycleStep
  BY StayStep
<1> USE DEF Goto
<1>1. ASSUME ProcessTerminal \/ Announce \/ StartRun \/ ProcessWithoutCode \/ Return
             \/ DeleteRow \/ Crash \/ UNCHANGED vars
      PROVE  FALSE
  BY <1>1
  DEF ProcessTerminal, Announce, StartRun, ProcessWithoutCode, Return, DeleteRow,
      Crash, vars, row
<1>2. CASE AutoAdvance
  <2>1. arg = state /\ <<arg, state'>> \in AutoAdvanceMap(visibility)
    BY <1>2 DEF AutoAdvance, EnterState, Pipeline, ChainAlone
  <2> QED BY <2>1, AdvanceStep
<1>3. CASE Recover
  <2>1. arg = state /\ ~IsTerminal(state) /\ state' \in RecoveryFrom(arg)
    BY <1>3 DEF Recover, EnterState, Pipeline, ChainAlone
  <2> QED BY <2>1, RecoveryStep
<1>4. CASE EngineSends
  <2>1. state' \in ValidateCommand(state, arg, visibility)
    BY <1>4 DEF EngineSends, SendCommand, EnterState
  <2>2. arg \in ActionState \cup ClientCommand \cup {"none"}
    BY DEF Pipeline, Typed, TypeOK
  <2>3. arg \in ClientCommand
    <3>1. <<state, arg, state'>> \in ObservableTable \cup OpaqueTable
      BY <2>1 DEF ValidateCommand, TransitionTable
    <3>2. arg \in ClientCommand \cup {"SC"}
      BY <3>1 DEF ObservableTable, OpaqueTable, ClientCommand
    <3> QED BY <2>2, <3>2 DEF ActionState, ObservableStates, OpaqueStates
  <2> QED BY <2>1, <2>3, CommandStep
<1>5. CASE Reject
  <2>1. stack # <<>> /\ Top = "try" /\ state' = "ABORTING" /\ pc = "reject"
    BY <1>5 DEF Reject, Abandon, EnterState
  <2>2. ~IsTerminal(state)
    BY <2>1, TryTop DEF Top, Guarded, Pipeline, Typed, TypeOK
  <2> QED BY <2>1, <2>2, AbortingStep
<1>6. ASSUME NEW r \in RunSlots, NEW outcome \in Outcome, FinishRun(r, outcome)
      PROVE  LifecycleStep
  <2>1. runs[r].captured = state
    BY <1>6, SettlePipeline DEF FinishRun
  <2>2. state = "EXECUTING" /\ state' = "HOLDING"
    BY <1>6, <2>1 DEF FinishRun, FlushDeferred, ApplyOutcome, EnterState
  <2> QED BY <2>2 DEF LifecycleStep, Phase
<1>7. ASSUME NEW r \in RunSlots, NEW outcome \in {"true", "failed"},
             FinishFinalizer(r, outcome)
      PROVE  LifecycleStep
  BY <1>7, SettlePipeline DEF FinishFinalizer, AfterFinalizer
<1>8. ASSUME NEW r \in RunSlots, FinishDeleted(r) \/ RunThrows(r)
      PROVE  LifecycleStep
  BY <1>8 DEF FinishDeleted, RunThrows, row
<1>9. ASSUME NEW command \in Commands, ClientSends(command)
      PROVE  LifecycleStep
  <2>1. state' \in ValidateCommand(state, command, visibility)
    BY <1>9 DEF ClientSends, SendCommand, EnterState
  <2> QED BY <2>1, CommandStep, Parameters
<1> QED
  BY <1>1, <1>2, <1>3, <1>4, <1>5, <1>6, <1>7, <1>8, <1>9 DEF Next, Chain, RunEnds

(* An instance implements the lifecycle: work ends in stopping, aborting   *)
(* or completion and never resumes, whatever its code does or requests,    *)
(* and whenever the executor rejects, the row is deleted or the server is  *)
(* killed.                                                                 *)
THEOREM LifecycleImplemented == ClientsWait => (Spec => ImplementsLifecycle)
<1> SUFFICES ASSUME ClientsWait PROVE Spec => ImplementsLifecycle
  OBVIOUS
<1>1. Init => Lifecycle!Init
  BY DEF Init, InitialState, Phase, Lifecycle!Init
<1>2. Pipeline /\ Guarded /\ [Next]_vars => Guarded' /\ LifecycleStep
  BY NextGuarded, NextStep
<1> QED
  BY <1>1, <1>2, InitGuarded, PipelineHolds, PTL
  DEF Spec, ImplementsLifecycle, Lifecycle!Spec, LifecycleStep

(* Nothing but CLEAR of an aborted instance leads out of a terminal state. *)
THEOREM TerminalIsFinal == ClientsWait => (Spec => TerminalStays)
<1> SUFFICES ASSUME ClientsWait PROVE Spec => TerminalStays
  OBVIOUS
<1>1. LifecycleStep =>
        [IsTerminal(state) => state = "ABORTED" /\ state' = "CLEARING"]_state
  BY DEF LifecycleStep, IsTerminal, TerminalStates, Phase, Lifecycle!Next,
     Lifecycle!Finish, Lifecycle!Stop, Lifecycle!Fail, Lifecycle!Abort,
     Lifecycle!Clear, Lifecycle!Move
<1>2. Pipeline /\ Guarded /\ [Next]_vars => Guarded' /\ LifecycleStep
  BY NextGuarded, NextStep
<1> QED
  BY <1>1, <1>2, InitGuarded, PipelineHolds, PTL DEF Spec, TerminalStays

-----------------------------------------------------------------------------
(* An id is in executingInstances only while a run is in flight, and a     *)
(* command waits only while it is there.  A chain that runs meanwhile was  *)
(* started by a client's PAUSE, RESUME or UNHOLD: it has no callers and    *)
(* cannot fail or send commands.                                           *)
Waits ==
  /\ executing => InFlight # {}
  /\ deferred # "none" => executing
  /\ executing /\ pc # "idle" =>
       /\ stack = <<>>
       /\ pc \in {"process", "advance", "announce", "return"}
       /\ pc = "advance" => arg = state
  /\ DeferredStaysValid

Kept == Typed /\ Waits

LEMMA InitKept == Init => Kept
BY InitType DEF Init, Kept, Waits, DeferredStaysValid

(* What ends a run takes the command that waited for it along.             *)
LEMMA SettledWaits ==
  ASSUME executing' = FALSE, deferred' = "none" PROVE Waits'
BY DEF Waits, DeferredStaysValid

(* An auto-advance that overtakes a deferred command goes on among the     *)
(* states that accept it, up to completion.                                *)
LEMMA AdvanceAccepts ==
  ASSUME NEW command \in Deferrable, NEW next \in ActionState,
         <<state, next>> \in AutoAdvanceMap(visibility),
         Accepts(command) \/ state = "COMPLETED",
         state' = next, visibility' = visibility
  PROVE  Accepts(command)' \/ state' = "COMPLETED"
<1>1. PICK to : <<state, command, to>> \in TransitionTable(visibility)
  <2>1. state # "COMPLETED"
    BY DEF AutoAdvanceMap, ObservableAdvance, OpaqueAdvance
  <2> QED
    BY <2>1 DEF Accepts, ValidateCommand
<1>2. CASE visibility = "opaque"
  <2>1. <<state, next>> \in OpaqueAdvance /\ <<state, command, to>> \in OpaqueTable
    BY <1>1, <1>2 DEF AutoAdvanceMap, TransitionTable
  <2>2. command \in {"ABORT", "STOP"} /\ state \in OpaqueActive
    BY <2>1 DEF OpaqueTable, Deferrable
  <2>3. next \in OpaqueActive \cup {"COMPLETED"}
    BY <2>1, <2>2 DEF OpaqueAdvance, OpaqueActive
  <2>4. next \in OpaqueActive =>
          \E end \in {"ABORTING", "STOPPING"} : <<next, command, end>> \in OpaqueTable
    BY <2>2 DEF OpaqueTable
  <2>5. {"ABORTING", "STOPPING"} \subseteq ActionState
    BY DEF ActionState, ObservableStates
  <2> QED
    BY <1>2, <2>3, <2>4, <2>5 DEF Accepts, ValidateCommand, TransitionTable
<1>3. CASE visibility # "opaque"
  <2>1. <<state, next>> \in ObservableAdvance /\ <<state, command, to>> \in ObservableTable
    BY <1>1, <1>3 DEF AutoAdvanceMap, TransitionTable
  <2>2. command \in {"HOLD", "ABORT", "STOP"} /\ state \in AnyActiveStates
    BY <2>1 DEF ObservableTable, ObservableAdvance, Deferrable
  <2>3. next \in AnyActiveStates \cup {"COMPLETED"}
    BY <2>1, <2>2 DEF ObservableAdvance, AnyActiveStates
  <2>4. next \in AnyActiveStates =>
          \E end \in {"HOLDING", "ABORTING", "STOPPING"} :
            <<next, command, end>> \in ObservableTable
    BY <2>2 DEF ObservableTable
  <2>5. {"HOLDING", "ABORTING", "STOPPING"} \subseteq ActionState
    BY DEF ActionState, ObservableStates
  <2> QED
    BY <1>3, <2>3, <2>4, <2>5 DEF Accepts, ValidateCommand, TransitionTable
<1> QED
  BY <1>2, <1>3

(* So does a command that is not deferred.                                 *)
LEMMA CommandAccepts ==
  ASSUME NEW command \in Deferrable, NEW sent \in ClientCommand \ Deferrable,
         state' \in ValidateCommand(state, sent, visibility),
         Accepts(command) \/ state = "COMPLETED", visibility' = visibility
  PROVE  Accepts(command)'
<1>1. <<state, sent, state'>> \in TransitionTable(visibility)
  BY DEF ValidateCommand
<1>2. visibility # "opaque"
  BY <1>1 DEF TransitionTable, OpaqueTable, ClientCommand, Deferrable
<1>3. /\ <<state, sent, state'>> \in ObservableTable
      /\ sent \in {"PAUSE", "RESUME", "UNHOLD"}
  BY <1>1, <1>2 DEF TransitionTable, ClientCommand, Deferrable
<1>4. state \in {"EXECUTING", "PAUSED", "HELD"} /\ state' \in AnyActiveStates
  BY <1>3 DEF ObservableTable, AnyActiveStates
<1>5. PICK to : <<state, command, to>> \in ObservableTable
  BY <1>2, <1>4 DEF Accepts, ValidateCommand, TransitionTable
<1>6. command \in {"HOLD", "ABORT", "STOP"}
  BY <1>4, <1>5 DEF ObservableTable, Deferrable
<1>7. \E end \in {"HOLDING", "ABORTING", "STOPPING"} :
        <<state', command, end>> \in ObservableTable
  BY <1>4, <1>6 DEF ObservableTable
<1>8. {"HOLDING", "ABORTING", "STOPPING"} \subseteq ActionState
  BY DEF ActionState, ObservableStates
<1> QED
  BY <1>2, <1>7, <1>8 DEF Accepts, ValidateCommand, TransitionTable

LEMMA NextKept == MaxFaults = 0 /\ Kept /\ [Next]_vars => Kept'
<1> SUFFICES ASSUME MaxFaults = 0, Kept, [Next]_vars PROVE Waits'
  BY NextType DEF Kept
<1> USE DEF Goto
<1>t. TypeOK /\ Waits
  BY DEF Kept, Typed
<1>f. ~(faults < MaxFaults)
  BY <1>t DEF TypeOK
<1>n. /\ deferred \in Deferrable \cup {"none"}
      /\ deferred # "none" => Accepts(deferred) \/ state = "COMPLETED"
  BY <1>t DEF Waits, DeferredStaysValid, TypeOK
<1>w. /\ executing => InFlight # {}
      /\ deferred # "none" => executing
      /\ executing /\ pc # "idle" => stack = <<>>
      /\ executing /\ pc # "idle" => pc \in {"process", "advance", "announce", "return"}
      /\ executing /\ pc = "advance" => arg = state
  BY <1>t DEF Waits
(* Steps that leave the state, the runs and the deferred command alone.    *)
<1>s. ASSUME UNCHANGED <<state, visibility, deferred>>
      PROVE  DeferredStaysValid'
  BY <1>n, <1>s DEF DeferredStaysValid, Accepts
<1>1. CASE ProcessTerminal
  BY <1>1, <1>w, <1>s DEF ProcessTerminal, Complete, Waits, InFlight
<1>2. CASE Announce
  BY <1>2, <1>w, <1>s DEF Announce, Waits, InFlight
<1>3. CASE StartRun
  <2>1. PICK r \in RunSlots :
          runs' = [runs EXCEPT ![r] = [captured |-> state, callers |-> stack]]
    BY <1>3 DEF StartRun
  <2>2. [captured |-> state, callers |-> stack] # NoRun
    BY <1>t, StateFacts DEF NoRun, TypeOK
  <2>3. runs'[r] = [captured |-> state, callers |-> stack]
    BY <1>t, <2>1 DEF TypeOK
  <2>4. InFlight' # {}
    BY <2>2, <2>3 DEF InFlight
  <2>5. /\ executing' = TRUE /\ pc' = "idle"
        /\ UNCHANGED <<state, visibility, deferred>>
    BY <1>3 DEF StartRun, row
  <2> QED
    BY <1>s, <2>4, <2>5 DEF Waits
<1>4. CASE ProcessWithoutCode
  <2>1. /\ pc = "process" /\ pc' = "advance" /\ arg' = state /\ stack' = stack
        /\ UNCHANGED <<state, visibility, deferred, executing, runs>>
    BY <1>4 DEF ProcessWithoutCode, row
  <2> QED
    BY <1>w, <1>s, <2>1 DEF Waits, InFlight
<1>5. CASE AutoAdvance
  <2>1. /\ pc = "advance" /\ stack' = stack /\ pc' \in {"process", "return"}
        /\ UNCHANGED <<visibility, deferred, executing, runs>>
    BY <1>5 DEF AutoAdvance, EnterState
  <2>2. DeferredStaysValid'
    <3>1. CASE deferred = "none"
      BY <2>1, <3>1 DEF DeferredStaysValid
    <3>2. CASE deferred # "none"
      <4>1. arg = state
        BY <1>w, <2>1, <3>2
      <4>2. CASE UNCHANGED state
        BY <1>s, <2>1, <4>2
      <4>3. ASSUME NEW next \in ActionState, <<arg, next>> \in AutoAdvanceMap(visibility),
                   state' = next
            PROVE  DeferredStaysValid'
        <5>1. Accepts(deferred)' \/ state' = "COMPLETED"
          <6> DEFINE command == deferred
          <6>1. command \in Deferrable /\ (Accepts(command) \/ state = "COMPLETED")
            BY <1>n, <3>2
          <6> HIDE DEF command
          <6>2. (\E to : to \in ValidateCommand(state', command, visibility))
                  \/ state' = "COMPLETED"
            BY <2>1, <4>1, <4>3, <6>1, AdvanceAccepts DEF Accepts
          <6>3. deferred' = command
            BY <2>1 DEF command
          <6> QED
            BY <2>1, <6>2, <6>3 DEF Accepts
        <5> QED
          BY <5>1 DEF DeferredStaysValid
      <4> QED
        BY <1>5, <4>2, <4>3 DEF AutoAdvance, EnterState
    <3> QED
      BY <3>1, <3>2
  <2> QED
    BY <1>w, <2>1, <2>2 DEF Waits, InFlight
<1>6. ASSUME Recover \/ EngineSends \/ Reject PROVE Waits'
  <2>1. ~executing /\ deferred = "none"
    BY <1>6, <1>w DEF Recover, EngineSends, Reject
  <2>2. executing' = FALSE /\ deferred' = "none"
    BY <1>t, <1>6, <2>1 DEF Recover, EngineSends, Reject, SendCommand, Deferring, TypeOK
  <2> QED
    BY <2>2, SettledWaits
<1>7. CASE Return
  <2>1. /\ pc = "return" /\ UNCHANGED <<state, visibility, deferred, executing, runs>>
        /\ stack = <<>> => pc' = "idle"
    BY <1>7 DEF Return
  <2> QED
    BY <1>w, <1>s, <2>1 DEF Waits, InFlight
<1>8. ASSUME NEW r \in RunSlots, NEW outcome \in Outcome,
             FinishRun(r, outcome) \/ FinishFinalizer(r, outcome) \/ FinishDeleted(r)
      PROVE  Waits'
  BY <1>8, SettledWaits DEF FinishRun, FinishFinalizer, FinishDeleted, Settle, FlushDeferred
<1>9. ASSUME NEW command \in Commands, ClientSends(command)
      PROVE  Waits'
  <2>1. /\ UNCHANGED <<runs, executing, visibility>> /\ InFlight' = InFlight
        /\ stack' = <<>> /\ pc' \in {"return", "process"}
    BY <1>9 DEF ClientSends, SendCommand, EnterState, InFlight
  <2>2. CASE Deferring(command)
    <3>1. UNCHANGED state /\ deferred' = command /\ Accepts(command) /\ executing
      BY <1>9, <2>2 DEF ClientSends, SendCommand, Accepts, Deferring
    <3>2. DeferredStaysValid'
      BY <2>1, <3>1 DEF DeferredStaysValid, Accepts
    <3> QED
      BY <1>w, <2>1, <3>1, <3>2 DEF Waits
  <2>3. CASE ~Deferring(command)
    <3>1. state' \in ValidateCommand(state, command, visibility) /\ UNCHANGED deferred
      BY <1>9, <2>3 DEF ClientSends, SendCommand, EnterState
    <3>2. DeferredStaysValid'
      <4>1. CASE deferred = "none"
        BY <3>1, <4>1 DEF DeferredStaysValid
      <4>2. CASE deferred # "none"
        <5>1. command \in ClientCommand \ Deferrable
          BY <1>w, <2>3, <4>2, Parameters DEF Deferring
        <5> DEFINE waiting == deferred
        <5>2. waiting \in Deferrable /\ (Accepts(waiting) \/ state = "COMPLETED")
          BY <1>n, <4>2
        <5> HIDE DEF waiting
        <5>3. \E to : to \in ValidateCommand(state', waiting, visibility)
          BY <2>1, <3>1, <5>1, <5>2, CommandAccepts DEF Accepts
        <5>4. deferred' = waiting
          BY <3>1 DEF waiting
        <5> QED
          BY <2>1, <5>3, <5>4 DEF DeferredStaysValid, Accepts
      <4> QED
        BY <4>1, <4>2
    <3>3. pc' = "process"
      BY <1>9, <2>3 DEF ClientSends, SendCommand, EnterState
    <3> QED
      BY <1>w, <2>1, <3>1, <3>2, <3>3 DEF Waits
  <2> QED
    BY <2>2, <2>3
<1>10. CASE DeleteRow
  BY <1>10, <1>w, <1>s DEF DeleteRow, chain, Waits, InFlight
<1>11. ASSUME Crash \/ \E r \in RunSlots : RunThrows(r) PROVE FALSE
  BY <1>11, <1>f DEF Crash, RunThrows
<1>12. CASE UNCHANGED vars
  BY <1>12, <1>w, <1>s DEF vars, row, chain, Waits, InFlight
<1>13. {"true", "failed"} \subseteq Outcome
  BY DEF Outcome
<1> QED
  BY <1>1, <1>2, <1>3, <1>4, <1>5, <1>6, <1>7, <1>8, <1>9, <1>10, <1>11, <1>12, <1>13
  DEF Next, Chain, RunEnds

(* Whatever clients send and code requests, a command that was held back   *)
(* has a run in flight whose end will flush it, as long as the executor    *)
(* does not reject.                                                        *)
THEOREM CommandsAreKept == MaxFaults = 0 => (Spec => []NoOrphanCommand)
<1> SUFFICES ASSUME MaxFaults = 0 PROVE Spec => []NoOrphanCommand
  OBVIOUS
<1>1. Kept /\ [Next]_vars => Kept'
  BY NextKept
<1>2. Kept => NoOrphanCommand
  BY DEF Kept, Waits, NoOrphanCommand
<1> QED
  BY <1>1, <1>2, InitKept, PTL DEF Spec

(* ... and the state still accepts it then, unless it is COMPLETED.        *)
THEOREM DeferredIsValid == MaxFaults = 0 => (Spec => []DeferredStaysValid)
<1> SUFFICES ASSUME MaxFaults = 0 PROVE Spec => []DeferredStaysValid
  OBVIOUS
<1>1. Kept /\ [Next]_vars => Kept'
  BY NextKept
<1>2. Kept => DeferredStaysValid
  BY DEF Kept, Waits
<1> QED
  BY <1>1, <1>2, InitKept, PTL DEF Spec

-----------------------------------------------------------------------------
(* Under the clients' discipline a deferred command stays legal, because   *)
(* nothing moves the instance while the run that will flush it is awaited. *)
(* So no flush fails in a terminal state, and whoever is to complete that  *)
(* state, a run of its finalizer or the caller of one, gets there.         *)
StaysLegal ==
  /\ deferred # "none" => InFlight # {} /\ Accepts(deferred)
  /\ pc = "command" /\ IsTerminal(state) => Accepts(arg)
  /\ pc = "reject" => ~IsTerminal(state)

Recorded == completedAt /\ loggedAs # "none"

Completing ==
  \/ pc = "process"
  \/ pc = "announce"
  \/ InFlight # {}
  \/ pc \in {"return", "command"} /\ \E k \in DOMAIN stack : stack[k] = state

Owes ==
  /\ pc = "announce" => completedAt
  /\ exists /\ faults = 0 => StaysLegal
  /\ exists /\ faults = 0 /\ IsTerminal(state) => Recorded \/ Completing

LEMMA InitOwes == Init => Owes
BY DEF Init, Owes, StaysLegal, Completing, InFlight

LEMMA NextOwes == ClientsWait /\ Pipeline /\ Owes /\ [Next]_vars => Owes'
<1> SUFFICES ASSUME ClientsWait, Pipeline, Owes, [Next]_vars PROVE Owes'
  OBVIOUS
<1> USE DEF Goto
<1>t. TypeOK /\ stack \in Seq(Callers) /\ faults \in Nat
  BY DEF Pipeline, Typed, TypeOK
<1>q. ASSUME pc \notin {"idle", "return"} PROVE InFlight = {} /\ ~executing
  BY <1>q DEF Pipeline, ChainAlone, OneRun
<1>r. pc = "return" /\ InFlight # {} => stack = <<>>
  BY DEF Pipeline, ChainAlone
<1>o. /\ pc = "announce" => completedAt
      /\ exists /\ faults = 0 => (deferred # "none" => InFlight # {} /\ Accepts(deferred))
      /\ exists /\ faults = 0 => (pc = "command" /\ IsTerminal(state) => Accepts(arg))
      /\ exists /\ faults = 0 => (pc = "reject" => ~IsTerminal(state))
      /\ exists /\ faults = 0 /\ IsTerminal(state) => Recorded \/ Completing
  BY DEF Owes, StaysLegal
<1>1. CASE ProcessTerminal
  BY <1>1, <1>o, <1>q
  DEF ProcessTerminal, Complete, Owes, StaysLegal, Completing, Recorded, Accepts, InFlight
<1>2. CASE Announce
  <2>1. /\ pc = "announce" /\ pc' = "return" /\ completedAt' = completedAt /\ completedAt
        /\ loggedAs' # "none"
    BY <1>2, <1>o, <1>t, StateFacts DEF Announce, TypeOK
  <2>2. UNCHANGED <<exists, faults, state, visibility, deferred, runs>>
    BY <1>2 DEF Announce
  <2> QED
    BY <1>o, <1>q, <2>1, <2>2 DEF Owes, StaysLegal, Recorded, Accepts, InFlight
<1>3. CASE StartRun
  <2>1. PICK r \in RunSlots :
          runs' = [runs EXCEPT ![r] = [captured |-> state, callers |-> stack]]
    BY <1>3 DEF StartRun
  <2>2. runs'[r] # NoRun
    BY <1>t, <2>1, StateFacts DEF NoRun, TypeOK
  <2>3. InFlight' # {}
    BY <2>2 DEF InFlight
  <2>4. pc' = "idle" /\ UNCHANGED <<row, faults, deferred>>
    BY <1>3 DEF StartRun
  <2> QED
    BY <1>o, <2>3, <2>4 DEF row, Owes, StaysLegal, Completing, Accepts
<1>4. CASE ProcessWithoutCode
  BY <1>4, <1>o, <1>q DEF ProcessWithoutCode, row, Owes, StaysLegal, Accepts, InFlight
<1>5. CASE AutoAdvance
  BY <1>5, <1>o, <1>q
  DEF AutoAdvance, EnterState, Owes, StaysLegal, Completing, Recorded, Accepts, InFlight
<1>6. CASE Recover
  BY <1>6, <1>o, <1>q
  DEF Recover, EnterState, Owes, StaysLegal, Completing, Accepts, InFlight
<1>7. CASE EngineSends
  <2>1. /\ pc = "command" /\ InFlight = {} /\ ~Deferring(arg)
        /\ UNCHANGED <<exists, faults, visibility, completedAt, loggedAs, runs>>
    BY <1>7, <1>q DEF EngineSends, Deferring
  <2>2. \/ pc' = "process"
        \/ pc' = "reject" /\ ~Accepts(arg) /\ state' = state
    BY <1>7, <2>1 DEF EngineSends, SendCommand, EnterState
  <2>3. deferred' = deferred
    BY <1>7, <2>1 DEF EngineSends, SendCommand
  <2> QED
    BY <1>o, <2>1, <2>2, <2>3 DEF Owes, StaysLegal, Completing, InFlight
<1>8. CASE Return
  <2>1. /\ pc = "return"
        /\ UNCHANGED <<exists, visibility, state, loggedAs, deferred, runs, faults>>
    BY <1>8 DEF Return
  <2>2. InFlight' = InFlight
    BY <2>1 DEF InFlight
  <2>3. StaysLegal => StaysLegal'
    <3>1. pc' \in {"idle", "return", "announce"}
      BY <1>8 DEF Return, Complete
    <3> QED
      BY <2>1, <2>2, <3>1 DEF StaysLegal, Accepts
  <2>4. CASE stack = <<>>
    <3>1. pc' = "idle" /\ completedAt' = completedAt
      BY <1>8, <2>4 DEF Return
    <3> QED
      BY <1>o, <2>1, <2>2, <2>3, <2>4, <3>1 DEF Owes, StaysLegal, Completing, Recorded
  <2>5. CASE stack # <<>> /\ Top = state /\ completedAt' = TRUE /\ pc' = "announce"
    BY <2>1, <2>3, <2>5 DEF Owes, Completing
  <2>6. CASE /\ stack # <<>> /\ (Top = "try" \/ Top # state)
             /\ pc' = "return" /\ stack' = Pop /\ completedAt' = completedAt
    <3>1. Top # state
      BY <1>t, <2>6 DEF TypeOK, ActionState, ObservableStates, OpaqueStates
    <3>2. ASSUME NEW k \in DOMAIN stack, stack[k] = state
          PROVE  k \in DOMAIN Pop /\ Pop[k] = state
      BY <1>t, <2>6, <3>1, <3>2 DEF Top, Pop
    <3>3. InFlight = {}
      BY <1>r, <2>1, <2>6
    <3> QED
      BY <1>o, <2>1, <2>2, <2>3, <2>6, <3>2, <3>3 DEF Owes, Completing, Recorded
  <2> QED
    BY <1>8, <2>4, <2>5, <2>6 DEF Return, Complete
<1>9. CASE Reject
  <2>1. /\ pc = "reject" /\ InFlight = {}
        /\ UNCHANGED <<exists, visibility, completedAt, loggedAs, deferred, runs, faults>>
    BY <1>9, <1>q DEF Reject
  <2>2. \/ pc' \in {"idle", "reject"} /\ state' = state
        \/ pc' = "process"
    BY <1>9 DEF Reject, Abandon, EnterState
  <2> QED
    BY <1>o, <2>1, <2>2 DEF Owes, StaysLegal, Completing, InFlight
<1>10. ASSUME NEW r \in RunSlots, NEW outcome \in Outcome, FinishRun(r, outcome)
       PROVE  Owes'
  <2> DEFINE from == runs[r].captured
  <2>1. InFlight' = {} /\ from = state /\ ~IsTerminal(state)
    BY <1>10, SettlePipeline DEF FinishRun
  <2>2. deferred' = "none"
    BY <1>10 DEF FinishRun, FlushDeferred
  <2>3. /\ pc' \in {"command", "process", "advance", "recover"}
        /\ pc' # "process" => state' = state
    BY <1>10, <2>1 DEF FinishRun, FlushDeferred, ApplyOutcome, EnterState
  <2> QED
    BY <2>1, <2>2, <2>3 DEF Owes, StaysLegal, Completing, IsTerminal
<1>11. ASSUME NEW r \in RunSlots, NEW outcome \in {"true", "failed"},
              FinishFinalizer(r, outcome)
       PROVE  Owes'
  <2> DEFINE from == runs[r].captured
             callers == runs[r].callers
  <2>1. InFlight' = {} /\ from = state /\ Settle(r) /\ IsTerminal(from)
    BY <1>11, SettlePipeline DEF FinishFinalizer
  <2>2. /\ state' = state /\ deferred' = "none" /\ stack' = Append(callers, from)
        /\ UNCHANGED <<exists, visibility, faults>>
    BY <1>11, <2>1 DEF FinishFinalizer, AfterFinalizer
  <2>3. callers \in Seq(Callers) /\ from \in Callers
    BY <1>t, <2>1, SettleType DEF Callers, IsTerminal
  <2>4. \E k \in DOMAIN stack' : stack'[k] = state'
    <3>1. Len(callers) + 1 \in DOMAIN Append(callers, from)
          /\ Append(callers, from)[Len(callers) + 1] = from
      BY <2>3
    <3> QED
      BY <2>1, <2>2, <3>1
  <2>5. \/ pc' = "return"
        \/ pc' = "command" /\ arg' = deferred /\ deferred # "none"
    BY <1>11 DEF FinishFinalizer
  <2> QED
    BY <1>o, <2>1, <2>2, <2>4, <2>5 DEF Owes, StaysLegal, Completing, Accepts
<1>12. ASSUME NEW r \in RunSlots, FinishDeleted(r)
       PROVE  Owes'
  BY <1>12 DEF FinishDeleted, Abandon, row, Owes
<1>13. ASSUME Crash \/ \E r \in RunSlots : RunThrows(r)
       PROVE  Owes'
  <2>1. faults' # 0 /\ pc' = "idle"
    BY <1>t, <1>13 DEF Crash, RunThrows, Abandon
  <2> QED
    BY <2>1 DEF Owes
<1>14. ASSUME NEW command \in Commands, ClientSends(command)
       PROVE  Owes'
  <2>1. /\ UNCHANGED <<exists, visibility, completedAt, loggedAs, runs, faults>>
        /\ InFlight' = InFlight /\ pc = "idle"
    BY <1>14 DEF ClientSends, InFlight
  <2>2. CASE Deferring(command)
    <3>1. /\ UNCHANGED state /\ deferred' = command /\ Accepts(command) /\ pc' = "return"
          /\ InFlight # {}
      BY <1>14, <2>2 DEF ClientSends, SendCommand, Accepts, Deferring, Pipeline, OneRun
    <3> QED
      BY <2>1, <3>1 DEF Owes, StaysLegal, Completing, Accepts
  <2>3. CASE ~Deferring(command)
    <3>1. InFlight = {} /\ pc' = "process" /\ UNCHANGED deferred
      BY <1>14, <2>3
      DEF ClientSends, SendCommand, EnterState, Deferring, Pipeline, OneRun
    <3> QED
      BY <1>o, <2>1, <3>1 DEF Owes, StaysLegal, Completing
  <2> QED
    BY <2>2, <2>3
<1>15. CASE DeleteRow
  BY <1>15, <1>o DEF DeleteRow, chain, Owes
<1>16. CASE UNCHANGED vars
  BY <1>16, <1>o
  DEF vars, row, chain, Owes, StaysLegal, Completing, Recorded, Accepts, InFlight
<1> QED
  BY <1>1, <1>2, <1>3, <1>4, <1>5, <1>6, <1>7, <1>8, <1>9, <1>10, <1>11, <1>12,
     <1>13, <1>14, <1>15, <1>16
  DEF Next, Chain, RunEnds

(* An instance at rest in a terminal state has its completed_at and its    *)
(* entry in the log, whichever commands, requests, failures and finalizers *)
(* brought it there.                                                       *)
THEOREM EndIsRecorded == ClientsWait => (Spec => []SettledIsRecorded)
<1> SUFFICES ASSUME ClientsWait PROVE Spec => []SettledIsRecorded
  OBVIOUS
<1>1. Pipeline /\ Owes /\ [Next]_vars => Owes'
  BY NextOwes
<1>2. Owes => SettledIsRecorded
  BY DEF Owes, Completing, Recorded, SettledIsRecorded, AtRest
<1> QED
  BY <1>1, <1>2, InitOwes, PipelineHolds, PTL DEF Spec
=============================================================================
