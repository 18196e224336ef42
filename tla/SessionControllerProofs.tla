----------------------- MODULE SessionControllerProofs -----------------------
(***************************************************************************)
(* The controller for any clients, requests, models and bounds: types, who *)
(* owns the session, what the reported activity means, and that the run is *)
(* driven as its contract allows.                                          *)
(***************************************************************************)
EXTENDS SessionController, FiniteSetTheorems, TLAPS

LEMMA AnswersTyped ==
  /\ \A k \in AnswerKind : Answer(k) \in AnswerType
  /\ \A k \in RunAnswerKind, r \in Nat : AnswerOf(k, r) \in AnswerType
  BY DEF Answer, AnswerOf, AnswerType

LEMMA ActivitiesTyped ==
  \A a \in ActivityState, r \in Nat : Activity(a, r) \in [state : ActivityState, run : Nat]
  BY DEF Activity

(* The updates of session data, of the session and of the cache alike.     *)
LEMMA DataTyped ==
  ASSUME NEW d \in SessionData
  PROVE  /\ [d EXCEPT !.messages = @ + 1] \in SessionData
         /\ [d EXCEPT !.context = @ + 1] \in SessionData
         /\ \A m \in Models : [d EXCEPT !.model = m] \in SessionData
  BY DEF SessionData

(* A reply sets one client's stage and answer to typed values. *)
LEMMA ReplyTyped ==
  ASSUME TypeOK, NEW c \in Clients, NEW a \in AnswerType, Reply(c, a)
  PROVE  /\ stage' \in [Clients -> {"idle", "checked", "sent"}]
         /\ answer' \in [Clients -> AnswerType]
  BY DEF TypeOK, Reply

(* What the task takes from the queue is a request of a client. *)
LEMMA HeadTyped ==
  ASSUME TypeOK, requests # <<>>
  PROVE  /\ Head(requests) \in Request
         /\ Tail(requests) \in Seq(Request)
         /\ Caller \in Clients
<1>1. requests \in Seq(Request)
  BY DEF TypeOK
<1>2. Head(requests) \in Request /\ Tail(requests) \in Seq(Request)
  BY <1>1
<1>3. PICK c \in Clients, r \in Requests :
        Head(requests) = [from |-> c, op |-> r.op, arg |-> r.arg]
  BY <1>2 DEF Request
<1>4. Caller = c
  BY <1>3 DEF Caller
<1> QED
  BY <1>2, <1>4

LEMMA InitTypeOK == Init => TypeOK
<1> SUFFICES ASSUME Init PROVE TypeOK
  OBVIOUS
<1> USE ControllerAssumption
<1>1. requests \in Seq(Request) /\ channel \in Seq([run : Nat, event : AgentKind])
      /\ runLog \in Seq([kind : AgentKind]) /\ Len(channel) <= AgentCap
  BY DEF Init
<1>2. answer \in [Clients -> AnswerType]
  BY AnswersTyped DEF Init, AnswerKind
<1>3. session \in SessionData /\ cache \in SessionData
  BY DEF Init, Data, SessionData
<1>4. activity \in [state : ActivityState, run : Nat]
  BY ActivitiesTyped DEF Init, ActivityState
<1>5. holds \in [Clients -> BOOLEAN] /\ stage \in [Clients -> {"idle", "checked", "sent"}]
      /\ left \in [Clients -> Nat]
  BY DEF Init
<1>6. asked \subseteq Nat /\ replies \subseteq Clients
  BY Zenon DEF Init
<1> QED
  BY <1>1, <1>2, <1>3, <1>4, <1>5, <1>6 DEF Init, TypeOK

-----------------------------------------------------------------------------
(* Types: one step per action, grouped by who takes it.                    *)

LEMMA ClientTypes == TypeOK /\ ClientStep => TypeOK'
<1> SUFFICES ASSUME TypeOK, NEW c \in Clients,
                    \/ \E r \in Requests : Call(c, r) \/ CallShutdown(c, r) \/ SendShutdown(c, r)
                    \/ DropHandle(c)
             PROVE  TypeOK'
  BY DEF ClientStep
<1> USE DEF clientVars, taskVars, dataVars, runVars
<1>1. ASSUME NEW r \in Requests, Enqueue(c, r)
      PROVE  /\ requests' \in Seq(Request)
             /\ stage' \in [Clients -> {"idle", "checked", "sent"}]
             /\ answer' \in [Clients -> AnswerType]
  <2> DEFINE m == [from |-> c, op |-> r.op, arg |-> r.arg]
  <2>1. m \in Request
    BY DEF Request
  <2>2. CASE Listening
    <3>1. requests' = Append(requests, m) /\ requests \in Seq(Request)
      BY <1>1, <2>2 DEF Enqueue, TypeOK
    <3> HIDE DEF m
    <3>2. requests' \in Seq(Request)
      BY <2>1, <3>1
    <3>3. stage' = [stage EXCEPT ![c] = "sent"] /\ answer' = answer
      BY <1>1, <2>2 DEF Enqueue
    <3> QED
      BY <3>2, <3>3 DEF TypeOK
  <2>3. CASE ~Listening
    BY <1>1, <2>3, ReplyTyped, AnswersTyped DEF Enqueue, TypeOK, AnswerKind
  <2> QED
    BY <2>2, <2>3
<1>2. ASSUME NEW r \in Requests, Call(c, r) PROVE TypeOK'
  <2>1. left' \in [Clients -> Nat]
    BY <1>2 DEF Call, TypeOK
  <2> QED
    BY <1>1, <1>2, <2>1 DEF Call, TypeOK
<1>3. ASSUME NEW r \in Requests, CallShutdown(c, r) PROVE TypeOK'
  <2>1. left' \in [Clients -> Nat]
    BY <1>3 DEF CallShutdown, TypeOK
  <2>2. /\ stage' \in [Clients -> {"idle", "checked", "sent"}]
        /\ answer' \in [Clients -> AnswerType]
    <3>1. CASE stopped
      BY <1>3, <3>1, ReplyTyped, AnswersTyped DEF CallShutdown, AnswerKind
    <3>2. CASE ~stopped
      BY <1>3, <3>2 DEF CallShutdown, TypeOK
    <3> QED
      BY <3>1, <3>2
  <2> QED
    BY <1>3, <2>1, <2>2 DEF CallShutdown, TypeOK
<1>4. ASSUME NEW r \in Requests, SendShutdown(c, r) PROVE TypeOK'
  BY <1>1, <1>4 DEF SendShutdown, TypeOK
<1>5. CASE DropHandle(c)
  BY <1>5 DEF DropHandle, TypeOK
<1> QED
  BY <1>2, <1>3, <1>4, <1>5

LEMMA AbortTypes == TypeOK /\ AbortTask => TypeOK'
<1> SUFFICES ASSUME TypeOK, AbortTask PROVE TypeOK'
  OBVIOUS
<1>1. Answer("Closed") \in AnswerType
  BY AnswersTyped DEF AnswerKind
<1>2. requests' \in Seq(Request) /\ channel' \in Seq([run : Nat, event : AgentKind])
      /\ Len(channel') <= AgentCap
  BY ControllerAssumption DEF AbortTask
<1>3. /\ stage' \in [Clients -> {"idle", "checked", "sent"}]
      /\ answer' \in [Clients -> AnswerType]
  BY <1>1 DEF AbortTask, TypeOK
<1> QED
  BY <1>2, <1>3 DEF AbortTask, TypeOK, dataVars, runVars

(* A request that is answered at once and changes nothing else. *)
LEMMA AnsweredTypes ==
  ASSUME TypeOK, NEW a \in AnswerType, NEW place, NEW op,
         Receives(place, op), Reply(Caller, a),
         UNCHANGED <<holds, left, channel, taskVars, dataVars, runVars, asked>>
  PROVE  TypeOK'
<1>1. requests # <<>> /\ requests' = Tail(requests)
  BY DEF Receives
<1>2. requests' \in Seq(Request) /\ Caller \in Clients
  BY <1>1, HeadTyped
<1>3. /\ stage' \in [Clients -> {"idle", "checked", "sent"}]
      /\ answer' \in [Clients -> AnswerType]
  BY <1>2, ReplyTyped
<1> QED
  BY <1>2, <1>3 DEF TypeOK, taskVars, dataVars, runVars

LEMMA AcceptTypes == TypeOK /\ AcceptPrompt => TypeOK'
<1> SUFFICES ASSUME TypeOK, AcceptPrompt PROVE TypeOK'
  OBVIOUS
<1>1. requests # <<>> /\ requests' = Tail(requests)
  BY DEF AcceptPrompt, IdleReceives, Receives
<1>2. requests' \in Seq(Request) /\ Caller \in Clients
  BY <1>1, HeadTyped
<1>3. runCount + 1 \in Nat
  BY DEF TypeOK
<1>4. /\ stage' \in [Clients -> {"idle", "checked", "sent"}]
      /\ answer' \in [Clients -> AnswerType]
  BY <1>2, <1>3, ReplyTyped, AnswersTyped DEF AcceptPrompt, RunAnswerKind
<1>5. activity' \in [state : ActivityState, run : Nat]
  BY <1>3, ActivitiesTyped DEF AcceptPrompt, ActivityState
<1>6. cache' \in SessionData
  BY DataTyped DEF AcceptPrompt, TypeOK
<1>7. runLog' \in Seq([kind : AgentKind])
  BY DEF AcceptPrompt
<1> QED
  BY <1>2, <1>3, <1>4, <1>5, <1>6, <1>7 DEF AcceptPrompt, TypeOK, FreshToken

(* Requests to shut down and the two ways of finding the handles gone.     *)
LEMMA ShutdownTypes ==
  TypeOK /\ (ShutdownIdle \/ ClosedIdle \/ ShutdownActive \/ ClosedActive) => TypeOK'
<1> SUFFICES ASSUME TypeOK, ShutdownIdle \/ ClosedIdle \/ ShutdownActive \/ ClosedActive
             PROVE  TypeOK'
  OBVIOUS
<1> USE DEF RequestShutdown, CancelActive, clientVars, dataVars, runVars
<1>1. Activity("ShuttingDown", 0) \in [state : ActivityState, run : Nat]
  BY ActivitiesTyped DEF ActivityState
<1>2. ASSUME NEW place, NEW op, Receives(place, op)
      PROVE  requests' \in Seq(Request) /\ Caller \in Clients
  <2>1. requests # <<>> /\ requests' = Tail(requests)
    BY <1>2 DEF Receives
  <2> QED
    BY <2>1, HeadTyped
<1>3. CASE ShutdownIdle
  <2>1. requests' \in Seq(Request) /\ Caller \in Clients
    BY <1>2, <1>3 DEF ShutdownIdle, IdleReceives
  <2> QED
    BY <1>1, <1>3, <2>1 DEF ShutdownIdle, TypeOK
<1>4. CASE ClosedIdle
  BY <1>1, <1>4 DEF ClosedIdle, TypeOK
<1>5. CASE ShutdownActive
  <2>1. requests' \in Seq(Request) /\ Caller \in Clients
    BY <1>2, <1>5 DEF ShutdownActive
  <2> QED
    BY <1>1, <1>5, <2>1 DEF ShutdownActive, TypeOK
<1>6. CASE ClosedActive
  BY <1>1, <1>6 DEF ClosedActive, TypeOK
<1> QED
  BY <1>3, <1>4, <1>5, <1>6

LEMMA SwitchTypes == TypeOK /\ SwitchModel => TypeOK'
<1> SUFFICES ASSUME TypeOK, SwitchModel PROVE TypeOK'
  OBVIOUS
<1>1. requests # <<>> /\ requests' = Tail(requests)
  BY DEF SwitchModel, IdleReceives, Receives
<1>2. requests' \in Seq(Request) /\ Caller \in Clients
  BY <1>1, HeadTyped
<1>3. PICK a \in AnswerType : Reply(Caller, a)
  <2>1. \A k \in {"InvalidModel", "Unchanged", "Changed"} : Answer(k) \in AnswerType
    BY AnswersTyped DEF AnswerKind
  <2> QED
    BY <2>1 DEF SwitchModel
<1>4. /\ stage' \in [Clients -> {"idle", "checked", "sent"}]
      /\ answer' \in [Clients -> AnswerType]
  BY <1>2, <1>3, ReplyTyped
<1>5. session' \in SessionData /\ cache' \in SessionData
  <2>1. CASE Argument \in Models \ {cache.model}
    BY <2>1, DataTyped DEF SwitchModel, TypeOK
  <2>2. CASE Argument \notin Models \ {cache.model}
    BY <2>2 DEF SwitchModel, TypeOK
  <2> QED
    BY <2>1, <2>2
<1> QED
  BY <1>2, <1>4, <1>5 DEF SwitchModel, TypeOK, taskVars, runVars

LEMMA ContextTypes == TypeOK /\ AddContext => TypeOK'
<1> SUFFICES ASSUME TypeOK, AddContext PROVE TypeOK'
  OBVIOUS
<1>1. requests # <<>> /\ requests' = Tail(requests)
  BY DEF AddContext, IdleReceives, Receives
<1>2. requests' \in Seq(Request) /\ Caller \in Clients
  BY <1>1, HeadTyped
<1>3. /\ stage' \in [Clients -> {"idle", "checked", "sent"}]
      /\ answer' \in [Clients -> AnswerType]
  BY <1>2, ReplyTyped, AnswersTyped DEF AddContext, AnswerKind
<1>4. session' \in SessionData /\ cache' \in SessionData
  BY DataTyped DEF AddContext, TypeOK
<1> QED
  BY <1>2, <1>3, <1>4 DEF AddContext, TypeOK, taskVars, runVars

LEMMA CancelTypes == TypeOK /\ CancelRun => TypeOK'
<1> SUFFICES ASSUME TypeOK, CancelRun PROVE TypeOK'
  OBVIOUS
<1>1. requests # <<>> /\ requests' = Tail(requests)
  BY DEF CancelRun, Receives
<1>2. requests' \in Seq(Request) /\ Caller \in Clients
  BY <1>1, HeadTyped
<1>3. active \in Nat
  BY DEF TypeOK
<1>4. /\ stage' \in [Clients -> {"idle", "checked", "sent"}]
      /\ answer' \in [Clients -> AnswerType]
  BY <1>2, <1>3, ReplyTyped, AnswersTyped DEF CancelRun, RunAnswerKind
<1>5. activity' \in [state : ActivityState, run : Nat]
  BY <1>3, ActivitiesTyped DEF CancelRun, ActivityState
<1>6. asked' \subseteq Nat
  BY <1>3 DEF CancelRun, TypeOK
<1> QED
  BY <1>2, <1>4, <1>5, <1>6 DEF CancelRun, CancelActive, TypeOK, dataVars

LEMMA StopTypes == TypeOK /\ (Stop \/ AnswerShutdown) => TypeOK'
<1> SUFFICES ASSUME TypeOK, Stop \/ AnswerShutdown PROVE TypeOK'
  OBVIOUS
<1> USE DEF clientVars, dataVars, runVars
<1>1. CASE Stop
  <2>1. activity' \in [state : ActivityState, run : Nat]
    BY <1>1, ActivitiesTyped DEF Stop, ActivityState
  <2> QED
    BY <1>1, <2>1 DEF Stop, TypeOK
<1>2. CASE AnswerShutdown
  <2>1. Answer("ShutDown") \in AnswerType /\ Answer("Closed") \in AnswerType
    BY AnswersTyped DEF AnswerKind
  <2>2. /\ stage' \in [Clients -> {"idle", "checked", "sent"}]
        /\ answer' \in [Clients -> AnswerType]
    BY <1>2, <2>1 DEF AnswerShutdown, TypeOK
  <2>3. requests' \in Seq(Request) /\ replies' \subseteq Clients
    BY <1>2 DEF AnswerShutdown
  <2> QED
    BY <1>2, <2>2, <2>3 DEF AnswerShutdown, TypeOK
<1> QED
  BY <1>1, <1>2

(* The run's future: polling it, its events, and its settlement.           *)
LEMMA RunTypes ==
  TypeOK /\ (ForwardEvent \/ PollRun \/ RunPends \/ Announce \/ Settle) => TypeOK'
<1> SUFFICES ASSUME TypeOK, ForwardEvent \/ PollRun \/ RunPends \/ Announce \/ Settle
             PROVE  TypeOK'
  OBVIOUS
<1> USE DEF clientVars, taskVars, dataVars, runVars
<1>1. CASE ForwardEvent
  <2>1. channel' \in Seq([run : Nat, event : AgentKind]) /\ Len(channel') <= AgentCap
    BY <1>1, ControllerAssumption DEF ForwardEvent, TypeOK
  <2>2. terminalSeen' \in BOOLEAN
    BY <1>1, Zenon DEF ForwardEvent, TypeOK
  <2> QED
    BY <1>1, <2>1, <2>2 DEF ForwardEvent, TypeOK
<1>2. CASE PollRun
  BY <1>2 DEF PollRun, TypeOK
<1>3. CASE RunPends
  BY <1>3 DEF RunPends, TypeOK
<1>4. CASE Announce
  BY <1>4 DEF Announce, TypeOK
<1>5. CASE Settle
  <2>1. channel' \in Seq([run : Nat, event : AgentKind]) /\ Len(channel') <= AgentCap
    BY <1>5, ControllerAssumption DEF Settle
  <2>2. activity' \in [state : ActivityState, run : Nat]
    BY <1>5, ActivitiesTyped DEF Settle, ActivityState, TypeOK
  <2> QED
    BY <1>5, <2>1, <2>2 DEF Settle, Reloaded, TypeOK
<1> QED
  BY <1>1, <1>2, <1>3, <1>4, <1>5

LEMMA RunStepTypes == TypeOK /\ RunStep => TypeOK'
<1> SUFFICES ASSUME TypeOK, RunStep PROVE TypeOK'
  OBVIOUS
<1> USE DEF Run!TerminalKinds, Run!Running, Run!Plain
<1>1. ASSUME NEW k \in AgentKind, Emits(k)
      PROVE  /\ channel' \in Seq([run : Nat, event : AgentKind]) /\ Len(channel') <= AgentCap
             /\ UNCHANGED <<clientVars, requests, taskVars, cache, holder, runCount, asked>>
  <2>1. [run |-> runCount, event |-> k] \in [run : Nat, event : AgentKind]
    BY DEF TypeOK
  <2> QED
    BY <1>1, <2>1, ControllerAssumption DEF Emits, HasRoom, TypeOK
<1>2. KeepsMessage => session' \in SessionData
  BY DataTyped DEF KeepsMessage, TypeOK
<1>3. ASSUME NEW k \in AgentKind
      PROVE  Append(runLog, [kind |-> k]) \in Seq([kind : AgentKind])
  BY DEF TypeOK
<1>4. CASE RunStarts
  <2>1. "RunStarted" \in AgentKind
    BY DEF AgentKind
  <2> QED
    BY <1>1, <1>2, <1>3, <1>4, <2>1
       DEF RunStarts, Run!EmitRunStarted, TypeOK, clientVars, taskVars
<1>5. CASE RunProgresses
  <2>1. "TextDelta" \in AgentKind
    BY DEF AgentKind
  <2> QED
    BY <1>1, <1>3, <1>5, <2>1
       DEF RunProgresses, Run!EmitProgress, TypeOK, clientVars, taskVars
<1>6. CASE RunEnds
  <2>1. \A k \in Run!TerminalKinds : k \in AgentKind
    BY DEF AgentKind
  <2>2. PICK k \in Run!TerminalKinds, res \in {"Ok", "Err"} : Run!End(k, res) /\ Emits(k)
    BY <1>6 DEF RunEnds, Run!EmitRunFinished, Run!EmitRunAborted, Run!EmitRunFailed
  <2> QED
    BY <1>1, <1>2, <1>3, <1>6, <2>1, <2>2
       DEF RunEnds, Run!End, TypeOK, clientVars, taskVars
<1> QED
  BY <1>4, <1>5, <1>6 DEF RunStep

(* Requests that are only answered.                                        *)
Answers ==
  \/ RejectPrompt \/ CancelNothing \/ CancelAgain \/ AnswerSnapshot
  \/ \E op \in {"ListModels", "SessionTree"} : ReadIdle(op)
  \/ \E op \in {"SubmitPrompt", "ListModels", "SwitchModel", "AddContext",
               "SessionTree"} : RefuseBusy(op)

LEMMA AnswersShape ==
  ASSUME TypeOK, Answers
  PROVE  \E a \in AnswerType, place \in {"idle", "select"}, op \in Operations :
           /\ Receives(place, op) /\ Reply(Caller, a)
           /\ UNCHANGED <<holds, left, channel, taskVars, dataVars, runVars, asked>>
<1> USE AnswersTyped DEF AnswerKind, RunAnswerKind, IdleReceives, Operations
<1>1. CASE RejectPrompt
  BY <1>1 DEF RejectPrompt
<1>2. CASE CancelNothing
  BY <1>2 DEF CancelNothing
<1>3. CASE CancelAgain
  <2>1. AnswerOf("AlreadyCancelling", active) \in AnswerType
    BY DEF TypeOK
  <2> QED
    BY <1>3, <2>1 DEF CancelAgain
<1>4. CASE AnswerSnapshot
  <2>1. AnswerOf("Snapshot", activity.run) \in AnswerType
    BY DEF TypeOK
  <2> QED
    BY <1>4, <2>1 DEF AnswerSnapshot
<1>5. CASE \E op \in {"ListModels", "SessionTree"} : ReadIdle(op)
  BY <1>5 DEF ReadIdle
<1>6. CASE \E op \in {"SubmitPrompt", "ListModels", "SwitchModel", "AddContext",
                    "SessionTree"} : RefuseBusy(op)
  BY <1>6 DEF RefuseBusy
<1> QED
  BY <1>1, <1>2, <1>3, <1>4, <1>5, <1>6 DEF Answers

LEMMA StepTypeOK == TypeOK /\ [Next]_vars => TypeOK'
<1> SUFFICES ASSUME TypeOK, [Next]_vars PROVE TypeOK'
  OBVIOUS
<1>1. CASE Answers
  BY <1>1, AnswersShape, AnsweredTypes
<1>2. CASE UNCHANGED vars
  BY <1>2 DEF vars, TypeOK
<1>3. CASE TaskStep
  BY <1>1, <1>3, AcceptTypes, ShutdownTypes, SwitchTypes, ContextTypes, CancelTypes,
     StopTypes, RunTypes DEF TaskStep, Answers
<1> QED
  BY <1>2, <1>3, ClientTypes, AbortTypes, RunStepTypes DEF Next, Terminated

(* Every variable keeps its type, in every behaviour of the controller.    *)
THEOREM ControllerTypes == Spec => []TypeOK
  BY InitTypeOK, StepTypeOK, PTL DEF Spec

-----------------------------------------------------------------------------
(***************************************************************************)
(* Ownership and activity.  The two properties are not inductive: that a   *)
(* step at "select" concerns a live run depends on where the task stands,  *)
(* so the invariant says for each place of the task what run there is.     *)
(***************************************************************************)

PlaceOfRun ==
  /\ pc \in {"idle", "stopping", "stopped"} =>
       /\ active = 0 /\ holder = "task"
       /\ runPhase \in {"Ready", "Ended"}
  /\ pc = "announce" =>
       /\ active = 0 /\ holder = "task" /\ runCount # 0
       /\ runPhase = "Allocated" /\ ~token /\ ~shutdownRequested
       /\ activity = Activity("Running", runCount)
  /\ pc \in {"select", "polling"} =>
       /\ active = runCount /\ runCount # 0 /\ holder = "run"
       /\ runPhase \in {"Allocated", "Running", "Ended"}
  /\ pc = "select" => runPhase # "Ended"

ActivityOfPlace ==
  /\ pc = "idle" /\ ~shutdownRequested => activity = Activity("Idle", 0)
  /\ pc \in {"announce", "select", "polling"} /\ ~shutdownRequested =>
       activity.state \in {"Running", "Cancelling"}
  /\ pc \in {"stopping", "stopped"} => stopped /\ shutdownRequested
  /\ pc \notin {"stopping", "stopped"} => ~stopped

OwnInv == TypeOK /\ OneOwner /\ ActivityTruthful /\ PlaceOfRun /\ ActivityOfPlace

LEMMA InitOwn == Init => OwnInv
<1> SUFFICES ASSUME Init PROVE OwnInv
  OBVIOUS
<1>1. TypeOK
  BY InitTypeOK
<1>2. activity.state = "Idle" /\ activity = Activity("Idle", 0)
  BY DEF Init, Activity
<1> QED
  BY <1>1, <1>2 DEF OwnInv, Init, OneOwner, ActivityTruthful, PlaceOfRun, ActivityOfPlace

(* Nothing that the invariant speaks of has changed.                       *)
LEMMA QuietOwn ==
  ASSUME OwnInv, TypeOK', UNCHANGED <<taskVars, holder, runCount, runPhase, token, asked>>
  PROVE  OwnInv'
  BY DEF OwnInv, taskVars, OneOwner, ActivityTruthful, PlaceOfRun, ActivityOfPlace

LEMMA StepOwn == OwnInv /\ [Next]_vars => OwnInv'
<1> SUFFICES ASSUME OwnInv, [Next]_vars PROVE OwnInv'
  OBVIOUS
<1>1. TypeOK /\ TypeOK'
  BY StepTypeOK DEF OwnInv
<1> USE DEF clientVars, taskVars, dataVars, runVars
<1>a. CASE ClientStep
  <2>1. UNCHANGED <<taskVars, holder, runCount, runPhase, token, asked>>
    BY <1>a DEF ClientStep, Call, CallShutdown, SendShutdown, DropHandle
  <2> QED
    BY <1>1, <2>1, QuietOwn
<1>b. CASE AbortTask
  BY <1>1, <1>b DEF AbortTask, OwnInv, OneOwner, ActivityTruthful, PlaceOfRun, ActivityOfPlace
<1>c. CASE Answers
  <2>1. UNCHANGED <<taskVars, holder, runCount, runPhase, token, asked>>
    BY <1>1, <1>c, AnswersShape
  <2> QED
    BY <1>1, <2>1, QuietOwn
<1>d. CASE SwitchModel \/ AddContext \/ ForwardEvent
  <2>1. UNCHANGED <<pc, activity, active, shutdownRequested, stopped, holder, runCount,
                    runPhase, token, asked>>
    BY <1>d DEF SwitchModel, AddContext, ForwardEvent
  <2> QED
    BY <1>1, <2>1 DEF OwnInv, OneOwner, ActivityTruthful, PlaceOfRun, ActivityOfPlace
<1>e. CASE AcceptPrompt
  <2>1. /\ pc = "idle" /\ ~shutdownRequested
        /\ pc' = "announce" /\ runCount' = runCount + 1 /\ runCount \in Nat
        /\ token' = FALSE /\ runPhase' = "Allocated"
        /\ activity' = Activity("Running", runCount')
        /\ UNCHANGED <<active, shutdownRequested, stopped, holder, asked>>
    BY <1>1, <1>e DEF AcceptPrompt, IdleReceives, Receives, FreshToken, TypeOK
  <2>2. activity'.state = "Running" /\ activity'.run = runCount'
    BY <2>1 DEF Activity
  <2> QED
    BY <1>1, <2>1, <2>2 DEF OwnInv, OneOwner, ActivityTruthful, PlaceOfRun, ActivityOfPlace
<1>f. CASE Announce
  BY <1>1, <1>f DEF Announce, Activity, OwnInv, OneOwner, ActivityTruthful, PlaceOfRun,
                    ActivityOfPlace
<1>g. CASE ShutdownIdle \/ ClosedIdle
  <2>1. /\ pc = "idle" /\ pc' = "idle" /\ shutdownRequested'
        /\ activity'.state = "ShuttingDown"
        /\ UNCHANGED <<active, stopped, holder, runCount, runPhase, token, asked>>
    BY <1>g DEF ShutdownIdle, ClosedIdle, IdleReceives, Receives, RequestShutdown, Activity
  <2> QED
    BY <1>1, <2>1 DEF OwnInv, OneOwner, ActivityTruthful, PlaceOfRun, ActivityOfPlace
<1>h. CASE ShutdownActive \/ ClosedActive
  <2>1. /\ pc = "select" /\ pc' = "select" /\ shutdownRequested' /\ token'
        /\ activity'.state = "ShuttingDown"
        /\ UNCHANGED <<active, stopped, holder, runCount, runPhase, asked>>
    BY <1>h DEF ShutdownActive, ClosedActive, Receives, RequestShutdown, CancelActive, Activity
  <2> QED
    BY <1>1, <2>1 DEF OwnInv, OneOwner, ActivityTruthful, PlaceOfRun, ActivityOfPlace
<1>i. CASE Stop
  <2>1. /\ pc = "idle" /\ pc' = "stopping" /\ shutdownRequested /\ stopped'
        /\ activity'.state = "Stopped"
        /\ UNCHANGED <<active, shutdownRequested, holder, runCount, runPhase, token, asked>>
    BY <1>1, <1>i DEF Stop, MayStop, Activity, OwnInv, PlaceOfRun
  <2> QED
    BY <1>1, <2>1 DEF OwnInv, OneOwner, ActivityTruthful, PlaceOfRun, ActivityOfPlace
<1>j. CASE AnswerShutdown
  BY <1>1, <1>j DEF AnswerShutdown, OwnInv, OneOwner, ActivityTruthful, PlaceOfRun,
                    ActivityOfPlace
<1>k. CASE CancelRun
  <2>1. /\ pc = "select" /\ ~shutdownRequested /\ token'
        /\ activity'.state = "Cancelling" /\ activity'.run = active
        /\ asked' = asked \cup {active}
        /\ UNCHANGED <<pc, active, shutdownRequested, stopped, holder, runCount, runPhase>>
    BY <1>k DEF CancelRun, AlreadyCancelling, Receives, CancelActive, Activity
  <2> QED
    BY <1>1, <2>1 DEF OwnInv, OneOwner, ActivityTruthful, PlaceOfRun, ActivityOfPlace
<1>l. CASE PollRun \/ RunPends
  BY <1>1, <1>l DEF PollRun, RunPends, OwnInv, OneOwner, ActivityTruthful, PlaceOfRun,
                    ActivityOfPlace
<1>m. CASE Settle
  <2>1. /\ pc = "polling" /\ pc' = "idle" /\ runPhase = "Ended" /\ active' = 0
        /\ holder' = "task"
        /\ activity' = (IF shutdownRequested THEN activity ELSE Activity("Idle", 0))
        /\ UNCHANGED <<shutdownRequested, stopped, runCount, runPhase, token, asked>>
    BY <1>m DEF Settle, RunReturned
  <2>2. Activity("Idle", 0).state = "Idle"
    BY DEF Activity
  <2> QED
    BY <1>1, <2>1, <2>2 DEF OwnInv, OneOwner, ActivityTruthful, PlaceOfRun, ActivityOfPlace
<1>n. CASE RunStep
  <2>1. /\ pc = "polling" /\ runPhase' \in {"Running", "Ended"}
        /\ UNCHANGED <<pc, activity, active, shutdownRequested, stopped, holder, runCount,
                       token, asked>>
    BY <1>n DEF RunStep, RunStarts, RunProgresses, RunEnds, Emits, Run!EmitRunStarted,
                Run!EmitProgress, Run!EmitRunFinished, Run!EmitRunAborted,
                Run!EmitRunFailed, Run!End, Run!Running
  <2> QED
    BY <1>1, <2>1 DEF OwnInv, OneOwner, ActivityTruthful, PlaceOfRun, ActivityOfPlace
<1>o. CASE UNCHANGED vars
  BY <1>1, <1>o DEF vars, OwnInv, OneOwner, ActivityTruthful, PlaceOfRun, ActivityOfPlace
<1> QED
  BY <1>a, <1>b, <1>c, <1>d, <1>e, <1>f, <1>g, <1>h, <1>i, <1>j, <1>k, <1>l, <1>m, <1>n, <1>o
     DEF Next, TaskStep, Answers, Terminated

LEMMA OwnHolds == Spec => []OwnInv
  BY InitOwn, StepOwn, PTL DEF Spec

(* The run's future owns the session exactly while a run is active, so the *)
(* task never touches a session that a run may be writing.                 *)
THEOREM ControllerOneOwner == Spec => []OneOwner
<1>1. OwnInv => OneOwner
  BY DEF OwnInv
<1> QED
  BY <1>1, OwnHolds, PTL

(* What snapshots, Busy errors and StateChanged report is the truth about  *)
(* the run and its token.                                                  *)
THEOREM ControllerActivityTruthful == Spec => []ActivityTruthful
<1>1. OwnInv => ActivityTruthful
  BY DEF OwnInv
<1> QED
  BY <1>1, OwnHolds, PTL

(* The two together: the session's owner is the run that is reported.      *)
THEOREM ControllerOwnershipTruthful == Spec => []OwnershipTruthful
<1>1. OneOwner /\ ActivityTruthful => OwnershipTruthful
  BY DEF OwnershipTruthful
<1> QED
  BY <1>1, ControllerOneOwner, ControllerActivityTruthful, PTL

-----------------------------------------------------------------------------
(***************************************************************************)
(* The run is driven as RunContract allows: every step of the controller   *)
(* is a step of the contract or does not touch the run.                    *)
(***************************************************************************)

LEMMA InitContract == Init => Run!Init
  BY DEF Init, Run!Init

LEMMA StepContract == OwnInv /\ [Next]_vars => [Run!Next]_(Run!vars)
<1> SUFFICES ASSUME OwnInv, [Next]_vars PROVE [Run!Next]_(Run!vars)
  OBVIOUS
<1> USE DEF Run!vars, Run!Next, runVars
<1>1. CASE AcceptPrompt
  <2>1. runPhase \in {"Ready", "Ended"}
    BY <1>1 DEF AcceptPrompt, IdleReceives, Receives, OwnInv, PlaceOfRun
  <2>2. Run!Allocate
    BY <1>1, <2>1 DEF AcceptPrompt, FreshToken, Run!Allocate
  <2> QED
    BY <2>2
<1>2. CASE CancelRun \/ ShutdownActive \/ ClosedActive
  <2>1. pc = "select" /\ token' = TRUE /\ UNCHANGED <<runPhase, runLog, runResult>>
    BY <1>2 DEF CancelRun, ShutdownActive, ClosedActive, Receives, CancelActive
  <2>2. runPhase \in {"Allocated", "Running"}
    BY <2>1 DEF OwnInv, PlaceOfRun
  <2>3. Run!Cancel
    BY <2>1, <2>2 DEF Run!Cancel
  <2> QED
    BY <2>3
<1>3. CASE RunStarts
  BY <1>3 DEF RunStarts
<1>4. CASE RunProgresses
  BY <1>4 DEF RunProgresses
<1>5. CASE RunEnds
  BY <1>5 DEF RunEnds
<1>6. CASE Answers
  <2>1. UNCHANGED runVars
    BY <1>6, AnswersShape DEF OwnInv
  <2> QED
    BY <2>1
<1>7. CASE ClientStep
  <2>1. UNCHANGED runVars
    BY <1>7 DEF ClientStep, Call, CallShutdown, SendShutdown, DropHandle
  <2> QED
    BY <2>1
<1>8. CASE \/ AbortTask \/ Announce \/ SwitchModel \/ AddContext \/ ShutdownIdle \/ ClosedIdle
           \/ Stop \/ AnswerShutdown \/ ForwardEvent \/ PollRun \/ RunPends \/ Settle
  <2>1. UNCHANGED runVars
    BY <1>8 DEF AbortTask, Announce, SwitchModel, AddContext, ShutdownIdle, ClosedIdle, Stop,
                AnswerShutdown, ForwardEvent, PollRun, RunPends, Settle
  <2> QED
    BY <2>1
<1>9. CASE UNCHANGED vars
  BY <1>9 DEF vars
<1> QED
  BY <1>1, <1>2, <1>3, <1>4, <1>5, <1>6, <1>7, <1>8, <1>9
     DEF Next, TaskStep, RunStep, Answers, Terminated

(* The controller allocates a run only after the last has ended, cancels   *)
(* only a run that has not, and otherwise leaves the run alone.            *)
THEOREM ControllerDrivesContract == Spec => DrivesContract
  BY InitContract, StepContract, OwnHolds, PTL DEF Spec, DrivesContract

-----------------------------------------------------------------------------
(***************************************************************************)
(* Replies.  CallsAreHeld is inductive by itself: the queue gains a caller *)
(* that waited nowhere and loses the one it hands over.                    *)
(***************************************************************************)

OncePerCaller ==
  \A i, j \in DOMAIN requests : requests[i].from = requests[j].from => i = j

LEMMA QueueGrows ==
  ASSUME requests \in Seq(Request), OncePerCaller, NEW m \in Request,
         m.from \notin Queued, requests' = Append(requests, m)
  PROVE  Queued' = Queued \cup {m.from} /\ OncePerCaller'
<1> DEFINE n == Len(requests)
<1>1. /\ n \in Nat /\ DOMAIN requests = 1 .. n /\ DOMAIN requests' = 1 .. n + 1
      /\ \A i \in 1 .. n : requests'[i] = requests[i]
      /\ requests'[n + 1] = m
  OBVIOUS
<1> HIDE DEF n
<1>2. Queued' = Queued \cup {m.from}
  BY <1>1 DEF Queued
<1>3. \A i \in 1 .. n : requests[i].from # m.from
  BY <1>1 DEF Queued
<1>4. OncePerCaller'
  BY <1>1, <1>3 DEF OncePerCaller
<1> QED
  BY <1>2, <1>4

LEMMA QueueShrinks ==
  ASSUME requests \in Seq(Request), OncePerCaller, requests # <<>>,
         requests' = Tail(requests)
  PROVE  Queued' = Queued \ {Caller} /\ OncePerCaller' /\ Caller \in Queued
<1> DEFINE n == Len(requests)
<1>1. /\ n \in Nat \ {0} /\ DOMAIN requests = 1 .. n /\ DOMAIN requests' = 1 .. n - 1
      /\ \A i \in 1 .. n - 1 : requests'[i] = requests[i + 1]
      /\ Head(requests) = requests[1]
  OBVIOUS
<1> HIDE DEF n
<1>2. Caller = requests[1].from /\ 1 \in 1 .. n
  BY <1>1 DEF Caller
<1>3. Caller \in Queued
  BY <1>1, <1>2 DEF Queued
<1>4. \A i \in 2 .. n : requests[i].from # Caller
  BY <1>1, <1>2 DEF OncePerCaller
<1>5. ASSUME NEW x \in Queued' PROVE x \in Queued \ {Caller}
  <2>1. PICK i \in 1 .. n - 1 : x = requests'[i].from
    BY <1>1 DEF Queued
  <2>2. i + 1 \in 2 .. n /\ i + 1 \in DOMAIN requests /\ x = requests[i + 1].from
    BY <1>1, <2>1
  <2> QED
    BY <1>4, <2>2 DEF Queued
<1>6. ASSUME NEW x \in Queued \ {Caller} PROVE x \in Queued'
  <2>1. PICK i \in 1 .. n : x = requests[i].from
    BY <1>1 DEF Queued
  <2>2. i # 1
    BY <1>2, <2>1
  <2>3. i - 1 \in 1 .. n - 1 /\ x = requests'[i - 1].from
    BY <1>1, <2>1, <2>2
  <2> QED
    BY <1>1, <2>3 DEF Queued
<1>7. OncePerCaller'
  <2> SUFFICES ASSUME NEW i \in DOMAIN requests', NEW j \in DOMAIN requests',
                      requests'[i].from = requests'[j].from
               PROVE  i = j
    BY DEF OncePerCaller
  <2>1. i + 1 \in DOMAIN requests /\ j + 1 \in DOMAIN requests
    BY <1>1
  <2>2. requests[i + 1].from = requests[j + 1].from
    BY <1>1
  <2>3. i + 1 = j + 1
    BY <2>1, <2>2 DEF OncePerCaller
  <2> QED
    BY <1>1, <2>3
<1> QED
  BY <1>3, <1>5, <1>6, <1>7

LEMMA EmptyQueue == requests' = <<>> => Queued' = {} /\ OncePerCaller'
  BY DEF Queued, OncePerCaller

CallInv == TypeOK /\ CallsAreHeld

LEMMA InitCalls == Init => CallInv
<1> SUFFICES ASSUME Init PROVE CallInv
  OBVIOUS
<1>1. Queued = {} /\ DOMAIN requests = {}
  BY DEF Init, Queued
<1> QED
  BY <1>1, InitTypeOK DEF Init, CallInv, CallsAreHeld

(* A reply to the caller whose request was taken from the queue.           *)
LEMMA AnsweredCalls ==
  ASSUME CallInv, TypeOK', NEW a, NEW place, NEW op,
         Receives(place, op), Reply(Caller, a), replies' = replies
  PROVE  CallsAreHeld'
<1>1. requests \in Seq(Request) /\ requests # <<>> /\ requests' = Tail(requests) /\ OncePerCaller
  BY DEF Receives, CallInv, TypeOK, CallsAreHeld, OncePerCaller
<1>2. Queued' = Queued \ {Caller} /\ OncePerCaller' /\ Caller \in Queued
  BY <1>1, QueueShrinks
<1>3. stage' = [stage EXCEPT ![Caller] = "idle"] /\ stage \in [Clients -> {"idle", "checked", "sent"}]
  BY DEF Reply, CallInv, TypeOK
<1> QED
  BY <1>2, <1>3 DEF CallInv, CallsAreHeld, OncePerCaller

LEMMA EnqueueCalls ==
  ASSUME CallInv, TypeOK', NEW c \in Clients, NEW r \in Requests,
         stage[c] # "sent", Enqueue(c, r), replies' = replies
  PROVE  CallsAreHeld'
<1>1. stage \in [Clients -> {"idle", "checked", "sent"}] /\ requests \in Seq(Request)
      /\ OncePerCaller /\ c \notin Queued \cup replies
  BY DEF CallInv, TypeOK, CallsAreHeld, OncePerCaller
<1>2. CASE Listening
  <2> DEFINE m == [from |-> c, op |-> r.op, arg |-> r.arg]
  <2>1. m \in Request /\ m.from = c
    BY DEF Request
  <2>2. requests' = Append(requests, m) /\ stage' = [stage EXCEPT ![c] = "sent"]
    BY <1>2 DEF Enqueue
  <2> HIDE DEF m
  <2>3. Queued' = Queued \cup {c} /\ OncePerCaller'
    BY <1>1, <2>1, <2>2, QueueGrows
  <2> QED
    BY <1>1, <2>2, <2>3 DEF CallInv, CallsAreHeld, OncePerCaller
<1>3. CASE ~Listening
  <2>1. requests' = requests /\ stage' = [stage EXCEPT ![c] = "idle"]
    BY <1>3 DEF Enqueue, Reply
  <2>2. Queued' = Queued /\ OncePerCaller'
    BY <1>1, <2>1 DEF Queued, OncePerCaller
  <2> QED
    BY <1>1, <2>1, <2>2 DEF CallInv, CallsAreHeld, OncePerCaller
<1> QED
  BY <1>2, <1>3

LEMMA ShutdownCalls ==
  ASSUME CallInv, NEW place, NEW op, Receives(place, op),
         replies' = replies \cup {Caller}, stage' = stage
  PROVE  CallsAreHeld'
<1>1. requests \in Seq(Request) /\ requests # <<>> /\ requests' = Tail(requests) /\ OncePerCaller
  BY DEF Receives, CallInv, TypeOK, CallsAreHeld, OncePerCaller
<1>2. Queued' = Queued \ {Caller} /\ OncePerCaller' /\ Caller \in Queued
  BY <1>1, QueueShrinks
<1> QED
  BY <1>2 DEF CallInv, CallsAreHeld, OncePerCaller

(* Neither the queue nor the callers have changed.                         *)
LEMMA QuietCalls ==
  ASSUME CallInv, UNCHANGED <<requests, stage, replies>>
  PROVE  CallsAreHeld'
  BY DEF CallInv, CallsAreHeld, Queued

LEMMA StepCalls == CallInv /\ [Next]_vars => CallInv'
<1> SUFFICES ASSUME CallInv, [Next]_vars PROVE CallsAreHeld'
  BY StepTypeOK DEF CallInv
<1>1. TypeOK /\ TypeOK'
  BY StepTypeOK DEF CallInv
<1> USE DEF clientVars, taskVars, dataVars, runVars
<1>2. CASE Answers
  <2>1. PICK a \in AnswerType, place \in {"idle", "select"}, op \in Operations :
          /\ Receives(place, op) /\ Reply(Caller, a)
          /\ UNCHANGED <<holds, left, channel, taskVars, dataVars, runVars, asked>>
    BY <1>1, <1>2, AnswersShape
  <2> QED
    BY <1>1, <2>1, AnsweredCalls
<1>3. CASE AcceptPrompt
  BY <1>1, <1>3, AnsweredCalls DEF AcceptPrompt, IdleReceives
<1>4. CASE SwitchModel
  BY <1>1, <1>4, AnsweredCalls DEF SwitchModel, IdleReceives
<1>5. CASE AddContext
  BY <1>1, <1>5, AnsweredCalls DEF AddContext, IdleReceives
<1>6. CASE CancelRun
  BY <1>1, <1>6, AnsweredCalls DEF CancelRun
<1>7. CASE ShutdownIdle
  BY <1>7, ShutdownCalls DEF ShutdownIdle, IdleReceives
<1>8. CASE ShutdownActive
  BY <1>8, ShutdownCalls DEF ShutdownActive
<1>9. CASE AbortTask
  <2>1. Queued' = {} /\ OncePerCaller' /\ replies' = {}
    BY <1>9, EmptyQueue DEF AbortTask
  <2>2. \A c \in Clients : stage'[c] # "sent"
    BY <1>1, <1>9 DEF AbortTask, CallInv, CallsAreHeld
  <2> QED
    BY <2>1, <2>2 DEF CallsAreHeld, OncePerCaller
<1>10. CASE AnswerShutdown
  <2>1. Queued' = {} /\ OncePerCaller' /\ replies' = {}
    BY <1>10, EmptyQueue DEF AnswerShutdown
  <2>2. \A c \in Clients : stage'[c] # "sent"
    BY <1>1, <1>10 DEF AnswerShutdown, CallInv, CallsAreHeld
  <2> QED
    BY <2>1, <2>2 DEF CallsAreHeld, OncePerCaller
<1>11. ASSUME NEW c \in Clients, NEW r \in Requests,
              Call(c, r) \/ CallShutdown(c, r) \/ SendShutdown(c, r)
       PROVE  CallsAreHeld'
  <2>1. CASE Call(c, r)
    BY <1>1, <2>1, EnqueueCalls DEF Call
  <2>2. CASE SendShutdown(c, r)
    BY <1>1, <2>2, EnqueueCalls DEF SendShutdown
  <2>3. CASE CallShutdown(c, r)
    <3>1. stage[c] = "idle" /\ requests' = requests /\ replies' = replies
          /\ stage' \in {[stage EXCEPT ![c] = "idle"], [stage EXCEPT ![c] = "checked"]}
      BY <2>3 DEF CallShutdown, Reply
    <3>2. \A d \in Clients : (stage'[d] = "sent") <=> (stage[d] = "sent")
      BY <1>1, <3>1 DEF TypeOK
    <3>3. Queued' = Queued
      BY <3>1 DEF Queued
    <3> QED
      BY <3>1, <3>2, <3>3 DEF CallInv, CallsAreHeld
  <2> QED
    BY <1>11, <2>1, <2>2, <2>3
<1>12. CASE \E c \in Clients : DropHandle(c)
  BY <1>12, QuietCalls DEF DropHandle
<1>13. CASE \/ Announce \/ ClosedIdle \/ Stop \/ ClosedActive \/ ForwardEvent \/ PollRun
            \/ RunPends \/ Settle
  <2>1. UNCHANGED <<requests, stage, replies>>
    BY <1>13 DEF Announce, ClosedIdle, Stop, ClosedActive, ForwardEvent, PollRun, RunPends, Settle
  <2> QED
    BY <2>1, QuietCalls
<1>14. CASE RunStep
  <2>1. UNCHANGED <<requests, stage, replies>>
    BY <1>14 DEF RunStep, RunStarts, RunProgresses, RunEnds, Emits
  <2> QED
    BY <2>1, QuietCalls
<1>15. CASE UNCHANGED vars
  BY <1>15, QuietCalls DEF vars
<1> QED
  BY <1>2, <1>3, <1>4, <1>5, <1>6, <1>7, <1>8, <1>9, <1>10, <1>11, <1>12, <1>13, <1>14, <1>15
     DEF Next, ClientStep, TaskStep, Answers, Terminated

(* A caller that awaits a reply is known to the task in exactly one place. *)
THEOREM ControllerCallsAreHeld == Spec => []CallsAreHeld
<1>1. CallInv => CallsAreHeld
  BY DEF CallInv
<1> QED
  BY <1>1, InitCalls, StepCalls, PTL DEF Spec

-----------------------------------------------------------------------------
(***************************************************************************)
(* The cache.  Only a run changes the messages behind the task's back, and *)
(* it does so only while it owns the session.                              *)
(***************************************************************************)

CacheInv == OwnInv /\ CacheFresh

LEMMA StepCache == CacheInv /\ [Next]_vars => CacheInv'
<1> SUFFICES ASSUME CacheInv, [Next]_vars PROVE CacheFresh'
  BY StepOwn DEF CacheInv
<1>1. TypeOK /\ session \in SessionData /\ cache \in SessionData
  BY DEF CacheInv, OwnInv, TypeOK
<1> USE DEF clientVars, taskVars, dataVars, runVars
<1>2. CASE Answers
  <2>1. UNCHANGED <<pc, cache, session>>
    BY <1>1, <1>2, AnswersShape
  <2> QED
    BY <2>1 DEF CacheInv, CacheFresh
<1>3. CASE ClientStep
  <2>1. UNCHANGED <<pc, cache, session>>
    BY <1>3 DEF ClientStep, Call, CallShutdown, SendShutdown, DropHandle
  <2> QED
    BY <2>1 DEF CacheInv, CacheFresh
<1>4. CASE SwitchModel \/ AddContext
  <2>1. /\ pc' = pc /\ pc = "idle"
        /\ cache'.model = session'.model /\ cache'.context = session'.context
        /\ cache'.messages = session'.messages
    BY <1>1, <1>4 DEF SwitchModel, AddContext, IdleReceives, Receives, SessionData,
                      CacheInv, CacheFresh
  <2> QED
    BY <2>1 DEF CacheFresh
<1>5. CASE AcceptPrompt
  <2>1. /\ pc' = "announce" /\ session' = session
        /\ cache'.model = cache.model /\ cache'.context = cache.context
    BY <1>1, <1>5 DEF AcceptPrompt, SessionData
  <2> QED
    BY <2>1 DEF CacheInv, CacheFresh
<1>6. CASE Settle
  BY <1>6 DEF Settle, Reloaded, CacheFresh
<1>7. CASE RunStep
  <2>1. pc = "polling" /\ pc' = pc /\ cache' = cache
    BY <1>7 DEF RunStep, RunStarts, RunProgresses, RunEnds, Emits
  <2>2. session' \in {session, [session EXCEPT !.messages = @ + 1]}
    BY <1>7 DEF RunStep, RunStarts, RunProgresses, RunEnds, KeepsMessage
  <2>3. session'.model = session.model /\ session'.context = session.context
    BY <1>1, <2>2 DEF SessionData
  <2> QED
    BY <2>1, <2>3 DEF CacheInv, CacheFresh
<1>8. CASE \/ Announce \/ AbortTask \/ ShutdownIdle \/ ClosedIdle \/ Stop \/ AnswerShutdown
           \/ CancelRun \/ ShutdownActive \/ ClosedActive \/ ForwardEvent \/ PollRun \/ RunPends
  <2>1. UNCHANGED <<cache, session>>
    BY <1>8 DEF Announce, AbortTask, ShutdownIdle, ClosedIdle, Stop, AnswerShutdown, CancelRun,
                ShutdownActive, ClosedActive, ForwardEvent, PollRun, RunPends
  <2>2. pc' \in {"idle", "stopping", "stopped"} => pc \in {"idle", "stopping", "stopped"}
    BY <1>8 DEF Announce, AbortTask, ShutdownIdle, ClosedIdle, Stop, AnswerShutdown, CancelRun,
                ShutdownActive, ClosedActive, ForwardEvent, PollRun, RunPends, IdleReceives,
                Receives, MayStop, CacheInv, OwnInv, PlaceOfRun
  <2> QED
    BY <2>1, <2>2 DEF CacheInv, CacheFresh
<1>9. CASE UNCHANGED vars
  BY <1>9 DEF vars, CacheInv, CacheFresh
<1> QED
  BY <1>2, <1>3, <1>4, <1>5, <1>6, <1>7, <1>8, <1>9 DEF Next, TaskStep, Answers, Terminated

(* What snapshots report of the session is what the session holds.         *)
THEOREM ControllerCacheFresh == Spec => []CacheFresh
<1>1. Init => CacheInv
  BY InitOwn DEF Init, CacheInv, CacheFresh
<1>2. CacheInv => CacheFresh
  BY DEF CacheInv
<1> QED
  BY <1>1, <1>2, StepCache, PTL DEF Spec
-----------------------------------------------------------------------------
(***************************************************************************)
(* The stream of events.  What the properties say of it is kept up by what *)
(* is known of the run that is under way: which of its events have been    *)
(* forwarded, which wait in the channel, and that nothing that separates   *)
(* runs has been sent since its PromptAccepted.                            *)
(***************************************************************************)

ControllerEvent ==
  [kind : {"StateChanged"}, activity : [state : ActivityState, run : Nat]]
  \cup [kind : {"PromptAccepted"}, run : Nat]
  \cup [kind : {"Agent"}, request : Nat, run : Nat, event : AgentKind]
  \cup [kind : {"PromptRejected", "ControllerError", "Stopped"}]

(* The run's future is there. *)
Live == pc \in {"select", "polling"}

IsAgent(e)     == e.kind = "Agent"
OfRun(e)       == e.kind \in {"PromptAccepted", "Agent"}
IsAccepted(e)  == e.kind = "PromptAccepted"
Ends(e)        == e.event \in Run!TerminalKinds

StreamTyped == events \in Seq(ControllerEvent) /\ events # <<>>

(* Runs are numbered from 1, and the number of a prompt that is announced  *)
(* next is new.                                                            *)
Numbered ==
  /\ \A i \in DOMAIN events : OfRun(events[i]) =>
       /\ events[i].run \in 1 .. runCount
       /\ pc = "announce" => events[i].run # runCount
  /\ \A i, j \in DOMAIN events :
       IsAccepted(events[i]) /\ IsAccepted(events[j]) /\ events[i].run = events[j].run => i = j
  /\ \A i \in DOMAIN channel : channel[i].run = runCount
  /\ ~Live => channel = <<>>

(* Nothing separates the stream's end from the prompt of the current run.  *)
PromptStands ==
  \E j \in DOMAIN events :
    /\ events[j] = PromptAccepted(runCount)
    /\ \A k \in DOMAIN events : k > j => ~Separates(events[k])

AgentAt(i) == IsAgent(events[i]) =>
  /\ events[i].request = events[i].run
  /\ \E j \in 1 .. i - 1 :
       /\ events[j] = PromptAccepted(events[i].run)
       /\ \A k \in j + 1 .. i - 1 : ~Separates(events[k])

(* The terminal event of a run: none yet, in the channel, or forwarded.    *)
EndForwarded(r) == \E i \in DOMAIN events : EndsRun(events[i], r)
EndWaits        == \E i \in DOMAIN channel : Ends(channel[i])

EndsOnce ==
  /\ \A r \in 1 .. runCount : \A i, j \in DOMAIN events :
       EndsRun(events[i], r) /\ EndsRun(events[j], r) => i = j
  /\ \A i, j \in DOMAIN channel : Ends(channel[i]) /\ Ends(channel[j]) => i = j
  /\ ~(EndForwarded(runCount) /\ EndWaits)
  /\ pc = "announce" \/ Live =>
       (runPhase = "Ended" <=> EndForwarded(runCount) \/ EndWaits)
  /\ \A r \in 1 .. runCount :
       (r # runCount \/ pc \in {"idle", "stopping", "stopped"}) => EndForwarded(r)

QuietAt(i) == IsQuiet(events[i]) =>
  \A j \in 1 .. i - 1 : IsAccepted(events[j]) =>
    \E k \in j .. i : EndsRun(events[k], events[j].run)

AbortsAsked ==
  /\ OnlyAskedRunsAbort
  /\ \A i \in DOMAIN channel : channel[i].event = "RunAborted" =>
       runCount \in asked \/ shutdownRequested

StreamInv ==
  /\ OwnInv /\ StreamTyped /\ Numbered
  /\ Live => PromptStands
  /\ \A i \in DOMAIN events : AgentAt(i) /\ QuietAt(i)
  /\ EndsOnce
  /\ FaithfulForwarding
  /\ AbortsAsked

-----------------------------------------------------------------------------
(* Sequences and ranks. *)

LEMMA Elements ==
  ASSUME NEW S, NEW s \in Seq(S)
  PROVE  /\ Len(s) \in Nat /\ DOMAIN s = 1 .. Len(s)
         /\ \A i \in 1 .. Len(s) : s[i] \in S
  OBVIOUS

LEMMA ShortSequences ==
  ASSUME NEW S, NEW e \in S
  PROVE  <<>> \in Seq(S) /\ <<e>> \in Seq(S)
  OBVIOUS

LEMMA Concatenated ==
  ASSUME NEW S, NEW s \in Seq(S), NEW t \in Seq(S)
  PROVE  /\ s \o t \in Seq(S) /\ Len(s) \in Nat /\ Len(t) \in Nat
         /\ Len(s \o t) = Len(s) + Len(t)
         /\ DOMAIN s = 1 .. Len(s) /\ DOMAIN (s \o t) = 1 .. Len(s) + Len(t)
         /\ \A i \in 1 .. Len(s) : (s \o t)[i] = s[i]
         /\ \A i \in 1 .. Len(t) : (s \o t)[Len(s) + i] = t[i]
  OBVIOUS

(* Three sequences in a row, the last two with elements of C only.         *)
LEMMA Joined ==
  ASSUME NEW S, NEW C, C \subseteq S, NEW d \in Seq(S), NEW s \in Seq(C), NEW b \in Seq(C),
         NEW u, u = (d \o s) \o b
  PROVE  /\ u \in Seq(S) /\ Len(u) \in Nat /\ Len(d) <= Len(u)
         /\ \A i \in 1 .. Len(d) : u[i] = d[i]
         /\ \A i \in Len(d) + 1 .. Len(u) : u[i] \in C
<1>1. PICK v : v = s \o b
  OBVIOUS
<1>2. v \in Seq(C) /\ v \in Seq(S)
  <2>1. v \in Seq(C)
    BY <1>1
  <2> QED
    BY <2>1
<1>3. \A i \in 1 .. Len(v) : v[i] \in C
  BY <1>2, Elements
<1>4. u = d \o v
  BY <1>1
<1>5. /\ u \in Seq(S) /\ Len(d) \in Nat /\ Len(v) \in Nat /\ Len(u) = Len(d) + Len(v)
      /\ \A i \in 1 .. Len(d) : u[i] = d[i]
      /\ \A i \in 1 .. Len(v) : u[Len(d) + i] = v[i]
  BY <1>2, <1>4, Concatenated
<1>6. ASSUME NEW i \in Len(d) + 1 .. Len(u) PROVE u[i] \in C
  <2>1. i - Len(d) \in 1 .. Len(v) /\ Len(d) + (i - Len(d)) = i
    BY <1>5
  <2> QED
    BY <1>3, <1>5, <2>1
<1>7. Len(u) \in Nat /\ Len(d) <= Len(u)
  BY <1>5
<1> QED
  BY <1>5, <1>6, <1>7

LEMMA Appended ==
  ASSUME NEW S, NEW s \in Seq(S), NEW e \in S, NEW u, u = Append(s, e)
  PROVE  /\ u \in Seq(S) /\ u # <<>> /\ Len(s) \in Nat /\ Len(u) = Len(s) + 1
         /\ DOMAIN s = 1 .. Len(s) /\ DOMAIN u = 1 .. Len(s) + 1
         /\ \A i \in 1 .. Len(s) : u[i] = s[i]
         /\ u[Len(s) + 1] = e
  OBVIOUS

LEMMA HeadTaken ==
  ASSUME NEW S, NEW s \in Seq(S), s # <<>>
  PROVE  /\ Len(s) \in Nat \ {0} /\ Len(Tail(s)) = Len(s) - 1
         /\ DOMAIN s = 1 .. Len(s) /\ DOMAIN Tail(s) = 1 .. Len(s) - 1
         /\ \A i \in 1 .. Len(s) - 1 : Tail(s)[i] = s[1 + i]
         /\ Head(s) = s[1] /\ Head(s) \in S
  OBVIOUS

(* How many of the first of two runs of indices, and of both, there are.   *)
LEMMA Ranks ==
  ASSUME NEW n \in Nat, NEW k \in Nat, NEW F \in SUBSET (1 .. n)
  PROVE  /\ Cardinality(F) \in Nat
         /\ Cardinality(F \cup (n + 1 .. n + k)) = Cardinality(F) + k
<1>1. IsFiniteSet(1 .. n) /\ IsFiniteSet(n + 1 .. n + k)
  BY FS_Interval
<1>2. IsFiniteSet(F)
  BY <1>1, FS_Subset
<1>3. Cardinality(F) \in Nat
  BY <1>2, FS_CardinalityType
<1>4. Cardinality(n + 1 .. n + k) = k
  <2>1. Cardinality(n + 1 .. n + k) = IF n + 1 > n + k THEN 0 ELSE n + k - (n + 1) + 1
    BY FS_Interval
  <2> QED
    BY <2>1
<1>5. F \cap (n + 1 .. n + k) = {}
  OBVIOUS
<1>6. Cardinality(F \cap (n + 1 .. n + k)) = 0
  BY <1>5, FS_EmptySet
<1> DEFINE G == n + 1 .. n + k
<1> HIDE DEF G
<1>7. Cardinality(F \cup G) = Cardinality(F) + Cardinality(G) - Cardinality(F \cap G)
  BY <1>1, <1>2, FS_Union DEF G
<1>8. Cardinality(F \cup G) = Cardinality(F) + k
  BY <1>3, <1>4, <1>6, <1>7 DEF G
<1> QED
  BY <1>3, <1>8 DEF G

LEMMA RanksBelow ==
  ASSUME NEW n \in Nat, NEW k \in Nat, NEW F \in SUBSET (1 .. n),
         NEW G, G = F \cup (n + 1 .. n + k)
  PROVE  /\ Cardinality(F) \in Nat /\ Cardinality(G) = Cardinality(F) + k
         /\ \A i \in F : {j \in G : j <= i} = {j \in F : j <= i}
         /\ \A i \in 1 .. k : Cardinality({j \in G : j <= n + i}) = Cardinality(F) + i
         /\ \A i \in G : i \in F \/ \E j \in 1 .. k : i = n + j
<1>1. Cardinality(F) \in Nat /\ Cardinality(G) = Cardinality(F) + k
  BY Ranks
<1>2. ASSUME NEW i \in F PROVE {j \in G : j <= i} = {j \in F : j <= i}
  OBVIOUS
<1>3. ASSUME NEW i \in 1 .. k
      PROVE  Cardinality({j \in G : j <= n + i}) = Cardinality(F) + i
  <2> DEFINE H == F \cup (n + 1 .. n + i)
  <2>a. ASSUME NEW j \in G, j <= n + i PROVE j \in H
    <3>1. CASE j \in F
      BY <3>1
    <3>2. CASE j \in n + 1 .. n + k
      BY <2>a, <3>2
    <3> QED
      BY <3>1, <3>2
  <2>b. ASSUME NEW j \in H PROVE j \in G /\ j <= n + i
    OBVIOUS
  <2>1. {j \in G : j <= n + i} = H
    BY <2>a, <2>b
  <2>2. Cardinality(F \cup (n + 1 .. n + i)) = Cardinality(F) + i
    BY Ranks
  <2> QED
    BY <2>1, <2>2
<1>4. ASSUME NEW i \in G, i \notin F PROVE \E j \in 1 .. k : i = n + j
  <2>1. i - n \in 1 .. k /\ i = n + (i - n)
    BY <1>4
  <2> QED
    BY <2>1
<1> QED
  BY <1>1, <1>2, <1>3, <1>4

(* The stream keeps what it has and may gain something at its end.         *)
Grows ==
  /\ events' \in Seq(ControllerEvent) /\ events' # <<>>
  /\ Len(events) \in Nat /\ Len(events') \in Nat /\ Len(events) <= Len(events')
  /\ DOMAIN events = 1 .. Len(events) /\ DOMAIN events' = 1 .. Len(events')
  /\ \A i \in 1 .. Len(events) : events'[i] = events[i]

(* A step appends the first k events of the channel to a stream of n.      *)
ForwardsFirst(n, k) ==
  /\ Grows /\ n = Len(events) /\ n + k <= Len(events')
  /\ pc # "aborted" /\ UNCHANGED <<runCount, runLog>>
  /\ Forwarded' = Forwarded \cup (n + 1 .. n + k)
  /\ \A i \in 1 .. k : events'[n + i].event = channel[i].event
  /\ Len(channel) \in Nat /\ k <= Len(channel) /\ DOMAIN channel = 1 .. Len(channel)
  /\ Len(channel') = Len(channel) - k /\ DOMAIN channel' = 1 .. Len(channel')
  /\ \A i \in 1 .. Len(channel') : channel'[i] = channel[k + i]
  /\ active' = 0 => channel' = <<>>

(* It leaves the correspondence of stream, channel and log as it is.       *)
LEMMA ForwardsMore ==
  ASSUME FaithfulForwarding, NEW n \in Nat, NEW k \in Nat, ForwardsFirst(n, k)
  PROVE  FaithfulForwarding'
<1> PICK F : F = Forwarded
  OBVIOUS
<1> DEFINE c == Cardinality(F)
<1>0. /\ n \in Nat /\ F \in SUBSET (1 .. n)
      /\ Forwarded' = F \cup (n + 1 .. n + k)
      /\ \A i \in 1 .. k : events'[n + i].event = channel[i].event
  BY DEF Forwarded, Grows, ForwardsFirst
<1>f. /\ pc # "aborted" /\ UNCHANGED runLog
      /\ Len(channel) \in Nat /\ k <= Len(channel) /\ DOMAIN channel = 1 .. Len(channel)
      /\ Len(channel') = Len(channel) - k /\ DOMAIN channel' = 1 .. Len(channel')
      /\ \A i \in 1 .. Len(channel') : channel'[i] = channel[k + i]
      /\ active' = 0 => channel' = <<>>
  BY Zenon DEF ForwardsFirst
<1>1. /\ c + Len(channel) = Len(runLog)
      /\ \A i \in F : events[i].event = runLog[Place(i)].kind
      /\ \A i \in DOMAIN channel : channel[i].event = runLog[c + i].kind
  BY <1>f DEF FaithfulForwarding
<1>2. /\ \A i \in F : Place(i) = Cardinality({j \in F : j <= i})
      /\ \A i : Place(i)' = Cardinality({j \in Forwarded' : j <= i})
  BY DEF Place
<1>3. \A i \in F : i \in 1 .. n /\ events'[i] = events[i]
  BY <1>0 DEF Grows, ForwardsFirst
<1>4. PICK G : G = Forwarded'
  OBVIOUS
<1>5. /\ c \in Nat /\ Cardinality(G) = c + k
      /\ \A i \in F : {j \in G : j <= i} = {j \in F : j <= i}
      /\ \A i \in 1 .. k : Cardinality({j \in G : j <= n + i}) = c + i
      /\ \A i \in G : i \in F \/ \E j \in 1 .. k : i = n + j
  <2>1. G = F \cup (n + 1 .. n + k)
    BY Zenon, <1>0, <1>4
  <2> QED
    BY <1>0, <2>1, RanksBelow
<1>6. ASSUME NEW i \in 1 .. k PROVE events'[n + i].event = runLog[Place(n + i)'].kind
  <2>1. Place(n + i)' = c + i
    BY Zenon, <1>2, <1>4, <1>5
  <2>2. i \in DOMAIN channel
    BY <1>f
  <2> QED
    BY <1>0, <1>1, <2>1, <2>2
<1>7. ASSUME NEW i \in G PROVE events'[i].event = runLog[Place(i)'].kind
  <2>1. CASE i \in F
    <3>1. Place(i)' = Place(i)
      BY Zenon, <1>2, <1>4, <1>5, <2>1
    <3> QED
      BY Zenon, <1>1, <1>3, <2>1, <3>1
  <2>2. CASE i \notin F
    BY Zenon, <1>5, <1>6, <2>2
  <2> QED
    BY <2>1, <2>2
<1>8. ASSUME NEW i \in 1 .. Len(channel')
      PROVE  channel'[i].event = runLog[(c + k) + i].kind
  <2>1. k + i \in DOMAIN channel /\ c + (k + i) = (c + k) + i
    BY <1>5, <1>f
  <2>2. channel'[i] = channel[k + i]
    BY <1>f
  <2>3. channel[k + i].event = runLog[c + (k + i)].kind
    BY Zenon, <1>1, <2>1
  <2> QED
    BY Zenon, <2>1, <2>2, <2>3
<1>9. Cardinality(G) + Len(channel') = Len(runLog)
  BY <1>1, <1>5, <1>f
<1> QED
  BY Zenon, <1>4, <1>5, <1>7, <1>8, <1>9, <1>f DEF FaithfulForwarding

-----------------------------------------------------------------------------
(* What the steps do to the stream. *)

(* Events that belong to no run and separate nothing. *)
Remarks == {e \in ControllerEvent : ~OfRun(e) /\ ~Separates(e)}

LEMMA EventsTyped ==
  /\ \A a \in [state : ActivityState, run : Nat] :
       /\ State(a) \in ControllerEvent /\ ~OfRun(State(a))
       /\ a.state \notin {"Idle", "Stopped"} => State(a) \in Remarks
  /\ \A r \in Nat : /\ PromptAccepted(r) \in ControllerEvent
                    /\ IsAccepted(PromptAccepted(r)) /\ PromptAccepted(r).run = r
                    /\ ~IsQuiet(PromptAccepted(r)) /\ ~IsAgent(PromptAccepted(r))
  /\ {PromptRejected, ControllerError, StoppedEvent} \subseteq Remarks
  /\ \A r \in Nat, x \in [run : Nat, event : AgentKind] :
       /\ Agent(r, x) \in ControllerEvent /\ IsAgent(Agent(r, x))
       /\ ~Separates(Agent(r, x)) /\ ~IsAccepted(Agent(r, x))
       /\ Agent(r, x).request = r /\ Agent(r, x).run = x.run /\ Agent(r, x).event = x.event
  BY DEF State, ControllerEvent, OfRun, Remarks, Separates, IsQuiet, PromptAccepted, IsAccepted,
         IsAgent, PromptRejected, ControllerError, StoppedEvent, Agent

(* A remark may be made; the run, its channel and its place stay.          *)
QuietStep ==
  /\ \/ events' = events
     \/ /\ pc \in {"idle", "select"} /\ pc' = pc
        /\ \E e \in Remarks :
             /\ events' = Append(events, e)
             /\ e.kind = "StateChanged" \/ (e.kind = "PromptRejected" /\ pc = "idle")
  /\ UNCHANGED <<channel, active, terminalSeen, runCount, runPhase, runLog>>
  /\ asked \subseteq asked' /\ (shutdownRequested => shutdownRequested')
  /\ \/ pc' = pc
     \/ pc = "select" /\ pc' = "polling"
     \/ pc = "polling" /\ pc' = "select"
     \/ AnswerShutdown /\ pc = "stopping" /\ pc' = "stopped"

Quiet ==
  \/ ClientStep \/ Answers \/ SwitchModel \/ AddContext \/ ShutdownIdle \/ ClosedIdle
  \/ AnswerShutdown \/ CancelRun \/ ShutdownActive \/ ClosedActive \/ PollRun \/ RunPends
  \/ UNCHANGED vars

LEMMA QuietSteps == OwnInv /\ Quiet => QuietStep
<1> SUFFICES ASSUME OwnInv, Quiet PROVE QuietStep
  OBVIOUS
<1>0. TypeOK
  BY DEF OwnInv
<1> USE DEF clientVars, taskVars, dataVars, runVars
<1>1. CASE ClientStep
  BY <1>1 DEF ClientStep, Call, CallShutdown, SendShutdown, DropHandle, QuietStep
<1>2. CASE Answers
  <2>1. UNCHANGED <<channel, active, terminalSeen, runCount, runPhase, runLog, asked,
                    shutdownRequested, pc>>
    BY <1>0, <1>2, AnswersShape
  <2>2. CASE RejectPrompt
    <3>1. /\ events' = Append(events, PromptRejected) /\ pc = "idle"
          /\ PromptRejected.kind = "PromptRejected"
      BY <2>2 DEF RejectPrompt, IdleReceives, Receives, PromptRejected
    <3> QED
      BY <2>1, <3>1, EventsTyped DEF QuietStep
  <2>3. CASE ~RejectPrompt
    <3>1. events' = events
      BY <1>2, <2>3 DEF Answers, CancelNothing, CancelAgain, AnswerSnapshot, ReadIdle, RefuseBusy
    <3> QED
      BY <2>1, <3>1 DEF QuietStep
  <2> QED
    BY <2>2, <2>3
<1>3. CASE SwitchModel \/ AddContext \/ AnswerShutdown \/ PollRun \/ RunPends \/ UNCHANGED vars
  BY <1>3 DEF SwitchModel, AddContext, AnswerShutdown, PollRun, RunPends, vars, QuietStep
<1>4. ASSUME NEW a \in [state : ActivityState, run : Nat],
             a.state \notin {"Idle", "Stopped"}, events' = EmitState(a)
      PROVE  \/ events' = events
             \/ \E e \in Remarks : events' = Append(events, e) /\ e.kind = "StateChanged"
  <2>1. State(a) \in Remarks /\ State(a).kind = "StateChanged"
    BY <1>4, EventsTyped DEF State
  <2> QED
    BY <1>4, <2>1 DEF EmitState
<1>5. CASE ShutdownIdle \/ ClosedIdle \/ ShutdownActive \/ ClosedActive
  <2>1. /\ pc \in {"idle", "select"} /\ pc' = pc /\ shutdownRequested'
        /\ activity' = Activity("ShuttingDown", 0) /\ events' = EmitState(activity')
        /\ UNCHANGED <<channel, active, terminalSeen, runCount, runPhase, runLog, asked>>
    BY <1>5 DEF ShutdownIdle, ClosedIdle, ShutdownActive, ClosedActive, RequestShutdown,
                IdleReceives, Receives
  <2>2. /\ Activity("ShuttingDown", 0) \in [state : ActivityState, run : Nat]
        /\ Activity("ShuttingDown", 0).state = "ShuttingDown"
    BY DEF Activity, ActivityState
  <2> QED
    BY <1>4, <2>1, <2>2 DEF QuietStep
<1>6. CASE CancelRun
  <2>1. /\ pc = "select" /\ pc' = pc /\ asked \subseteq asked'
        /\ activity' = Activity("Cancelling", active) /\ events' = EmitState(activity')
        /\ UNCHANGED <<channel, active, terminalSeen, runCount, runPhase, runLog,
                       shutdownRequested>>
    BY <1>6 DEF CancelRun, Receives
  <2>2. /\ Activity("Cancelling", active) \in [state : ActivityState, run : Nat]
        /\ Activity("Cancelling", active).state = "Cancelling"
    BY <1>0 DEF Activity, ActivityState, TypeOK
  <2> QED
    BY <1>4, <2>1, <2>2 DEF QuietStep
<1> QED
  BY <1>1, <1>2, <1>3, <1>5, <1>6 DEF Quiet

LEMMA QuietGrows ==
  ASSUME StreamTyped, QuietStep
  PROVE  /\ Grows
         /\ \A i \in DOMAIN events' \ DOMAIN events : events'[i] \in Remarks
<1>1. CASE events' = events
  <2>1. Len(events) \in Nat /\ DOMAIN events = 1 .. Len(events)
    BY DEF StreamTyped
  <2> QED
    BY <1>1, <2>1 DEF StreamTyped, Grows
<1>2. CASE events' # events
  <2>1. PICK e \in Remarks : events' = Append(events, e)
    BY <1>2 DEF QuietStep
  <2>2. e \in ControllerEvent /\ events \in Seq(ControllerEvent)
    BY DEF Remarks, StreamTyped
  <2> QED
    BY <2>1, <2>2, Appended DEF Grows
<1> QED
  BY <1>1, <1>2

(* What holds of an event and those before it still does when others follow. *)
LEMMA OldKept ==
  ASSUME Grows, NEW i \in DOMAIN events
  PROVE  (AgentAt(i) => AgentAt(i)') /\ (QuietAt(i) => QuietAt(i)')
<1>1. \A j \in 1 .. i : j \in DOMAIN events /\ events'[j] = events[j]
  BY DEF Grows
<1>2. i \in Nat /\ i \in 1 .. i
  BY DEF Grows
<1>3. AgentAt(i) => AgentAt(i)'
  <2> SUFFICES ASSUME AgentAt(i), IsAgent(events[i]) PROVE AgentAt(i)'
    BY <1>1, <1>2 DEF AgentAt
  <2>1. PICK j \in 1 .. i - 1 :
          /\ events[j] = PromptAccepted(events[i].run)
          /\ \A k \in j + 1 .. i - 1 : ~Separates(events[k])
    BY DEF AgentAt
  <2>2. /\ events'[j] = PromptAccepted(events'[i].run)
        /\ events'[i].request = events'[i].run
    BY <1>1, <1>2, <2>1 DEF AgentAt
  <2>3. ASSUME NEW k \in j + 1 .. i - 1 PROVE ~Separates(events'[k])
    BY <1>1, <1>2, <2>1
  <2> QED
    BY <2>2, <2>3 DEF AgentAt
<1>4. QuietAt(i) => QuietAt(i)'
  BY <1>1, <1>2 DEF QuietAt
<1> QED
  BY <1>3, <1>4

(* What of the stream's properties any step keeps that appends neither a   *)
(* prompt nor an end: all that is said of old events.                      *)
LEMMA QuietStream == StreamInv /\ OwnInv' /\ QuietStep => StreamInv'
<1> SUFFICES ASSUME StreamInv, OwnInv', QuietStep PROVE StreamInv'
  OBVIOUS
<1>1. /\ Grows
      /\ \A i \in DOMAIN events' \ DOMAIN events : events'[i] \in Remarks
  BY QuietGrows DEF StreamInv
<1> DEFINE n == Len(events)
<1>2. /\ n \in Nat /\ DOMAIN events = 1 .. n /\ DOMAIN events \subseteq DOMAIN events'
      /\ \A i \in DOMAIN events : events'[i] = events[i]
      /\ \A i \in DOMAIN events' : i \in DOMAIN events \/ i > n
  BY <1>1 DEF Grows
<1>3. \A i \in DOMAIN events' : i \in DOMAIN events \/
        (~OfRun(events'[i]) /\ ~Separates(events'[i]) /\ ~IsAgent(events'[i])
         /\ ~IsAccepted(events'[i]) /\ ~IsQuiet(events'[i])
         /\ \A r : ~EndsRun(events'[i], r))
  BY <1>1 DEF Remarks, OfRun, Separates, IsAgent, IsAccepted, IsQuiet, EndsRun
<1>4. /\ UNCHANGED <<channel, active, runCount, runPhase, runLog>>
      /\ asked \subseteq asked' /\ (shutdownRequested => shutdownRequested')
  BY DEF QuietStep
<1>5. /\ Live' = Live /\ (pc' = "announce" <=> pc = "announce") /\ (pc' = "aborted" <=> pc = "aborted")
      /\ (pc' \in {"idle", "stopping", "stopped"} <=> pc \in {"idle", "stopping", "stopped"})
      /\ (pc' \in {"stopping", "stopped"} <=> pc \in {"stopping", "stopped"})
  BY DEF QuietStep, Live
<1> HIDE DEF n
<1>a. StreamTyped'
  BY <1>1 DEF Grows, StreamTyped
<1>b. Numbered'
  BY <1>2, <1>3, <1>4, <1>5 DEF StreamInv, Numbered
<1>c. Live' => PromptStands'
  BY <1>2, <1>3, <1>4, <1>5 DEF StreamInv, PromptStands
<1>d. \A i \in DOMAIN events' : AgentAt(i)' /\ QuietAt(i)'
  <2> SUFFICES ASSUME NEW i \in DOMAIN events' PROVE AgentAt(i)' /\ QuietAt(i)'
    OBVIOUS
  <2>1. CASE i \in DOMAIN events
    BY <1>1, <2>1, OldKept DEF StreamInv
  <2>2. CASE i \notin DOMAIN events
    BY <1>3, <2>2 DEF AgentAt, QuietAt
  <2> QED
    BY <2>1, <2>2
<1>e. EndsOnce'
  BY <1>2, <1>3, <1>4, <1>5 DEF StreamInv, EndsOnce, EndForwarded, EndWaits
<1>g. FaithfulForwarding'
  <2>1. CASE pc = "aborted"
    BY <1>5, <2>1 DEF FaithfulForwarding
  <2>2. CASE pc # "aborted"
    <3>1. PICK m \in Nat : m = n
      BY <1>2
    <3>2. Forwarded' = Forwarded \cup (m + 1 .. m + 0)
      BY <1>2, <1>3, <1>4, <3>1 DEF Forwarded, IsAgent
    <3>3. /\ channel \in Seq([run : Nat, event : AgentKind])
          /\ active = 0 => channel = <<>>
      BY <2>2 DEF StreamInv, OwnInv, TypeOK, FaithfulForwarding
    <3>4. ForwardsFirst(m, 0)
      BY <1>1, <1>2, <1>4, <2>2, <3>1, <3>2, <3>3 DEF ForwardsFirst, Grows, n
    <3> QED
      BY <3>4, ForwardsMore DEF StreamInv
  <2> QED
    BY <2>1, <2>2
<1>h. AbortsAsked'
  BY <1>2, <1>3, <1>4 DEF StreamInv, AbortsAsked, OnlyAskedRunsAbort, IsAgent
<1> QED
  BY <1>a, <1>b, <1>c, <1>d, <1>e, <1>g, <1>h DEF StreamInv

LEMMA StreamGrows ==
  ASSUME StreamTyped, NEW s \in Seq(ControllerEvent), events' = events \o s
  PROVE  /\ Grows /\ Len(s) \in Nat /\ Len(events') = Len(events) + Len(s)
         /\ \A i \in 1 .. Len(s) : events'[Len(events) + i] = s[i]
<1>1. events \in Seq(ControllerEvent) /\ events # <<>>
  BY DEF StreamTyped
<1>2. /\ events' \in Seq(ControllerEvent) /\ Len(events) \in Nat /\ Len(s) \in Nat
      /\ Len(events') = Len(events) + Len(s)
      /\ DOMAIN events = 1 .. Len(events) /\ DOMAIN events' = 1 .. Len(events')
      /\ \A i \in 1 .. Len(events) : events'[i] = events[i]
      /\ \A i \in 1 .. Len(s) : events'[Len(events) + i] = s[i]
  BY <1>1, Concatenated
<1>3. events' # <<>>
  BY <1>1, <1>2
<1> QED
  BY <1>2, <1>3 DEF Grows

LEMMA AcceptStream == StreamInv /\ OwnInv' /\ AcceptPrompt => StreamInv'
<1> SUFFICES ASSUME StreamInv, OwnInv', AcceptPrompt PROVE StreamInv'
  OBVIOUS
<1>1. /\ pc = "idle" /\ pc' = "announce" /\ ~shutdownRequested
      /\ runCount' = runCount + 1 /\ runPhase' = "Allocated" /\ runLog' = <<>>
      /\ UNCHANGED <<channel, events, active, shutdownRequested, asked>>
  BY DEF AcceptPrompt, IdleReceives, Receives
<1>2. runCount \in Nat /\ channel = <<>>
  BY <1>1 DEF StreamInv, OwnInv, TypeOK, Numbered, Live
<1>3. \A i \in DOMAIN events : OfRun(events[i]) => events[i].run \in 1 .. runCount
  BY DEF StreamInv, Numbered
<1>a. StreamTyped'
  BY <1>1 DEF StreamInv, StreamTyped
<1>b. Numbered'
  BY <1>1, <1>2, <1>3 DEF StreamInv, Numbered
<1>d. \A i \in DOMAIN events' : AgentAt(i)' /\ QuietAt(i)'
  BY <1>1 DEF StreamInv, AgentAt, QuietAt
<1>e. EndsOnce'
  BY <1>1, <1>2, <1>3 DEF StreamInv, EndsOnce, EndForwarded, EndWaits, EndsRun, OfRun
<1>g. FaithfulForwarding'
  <2>1. Forwarded' = {}
    BY <1>1, <1>2, <1>3 DEF Forwarded, OfRun
  <2>2. Cardinality(Forwarded') = 0
    BY <2>1, FS_EmptySet
  <2> QED
    BY <1>1, <1>2, <2>1, <2>2 DEF FaithfulForwarding
<1>h. AbortsAsked'
  BY <1>1, <1>2 DEF StreamInv, AbortsAsked, OnlyAskedRunsAbort
<1> QED
  BY <1>1, <1>a, <1>b, <1>d, <1>e, <1>g, <1>h DEF StreamInv, Live

LEMMA EmitStream == StreamInv /\ OwnInv' /\ RunStep => StreamInv'
<1> SUFFICES ASSUME StreamInv, OwnInv', RunStep PROVE StreamInv'
  OBVIOUS
<1>1. PICK k \in AgentKind :
        /\ Emits(k) /\ runLog' = Append(runLog, [kind |-> k])
        /\ runPhase # "Ended" /\ (runPhase' = "Ended" <=> k \in Run!TerminalKinds)
        /\ k = "RunAborted" => token
  BY DEF RunStep, RunStarts, RunProgresses, RunEnds, Run!EmitRunStarted, Run!EmitProgress,
         Run!EmitRunFinished, Run!EmitRunAborted, Run!EmitRunFailed, Run!End, Run!Running,
         Run!Plain, Run!TerminalKinds, AgentKind
<1> DEFINE x == [run |-> runCount, event |-> k]
<1>2. /\ pc = "polling" /\ channel' = Append(channel, x)
      /\ UNCHANGED <<events, pc, active, shutdownRequested, runCount, asked>>
  BY <1>1 DEF Emits, taskVars, clientVars
<1>3. /\ channel \in Seq([run : Nat, event : AgentKind]) /\ runLog \in Seq([kind : AgentKind])
      /\ runCount \in Nat /\ x \in [run : Nat, event : AgentKind]
      /\ x.run = runCount /\ x.event = k
      /\ [kind |-> k] \in [kind : AgentKind] /\ [kind |-> k].kind = k
  BY DEF StreamInv, OwnInv, TypeOK
<1> HIDE DEF x
<1>4. /\ Len(channel) \in Nat /\ DOMAIN channel = 1 .. Len(channel)
      /\ Len(channel') = Len(channel) + 1 /\ DOMAIN channel' = 1 .. Len(channel) + 1
      /\ \A i \in 1 .. Len(channel) : channel'[i] = channel[i]
      /\ channel'[Len(channel) + 1] = x
  BY <1>2, <1>3, Appended
<1>5. /\ Len(runLog) \in Nat /\ Len(runLog') = Len(runLog) + 1
      /\ \A i \in 1 .. Len(runLog) : runLog'[i] = runLog[i]
      /\ runLog'[Len(runLog) + 1].kind = k
  BY <1>1, <1>3, Appended
<1>6. \A i \in DOMAIN channel' : i \in DOMAIN channel \/ i = Len(channel) + 1
  BY <1>4
<1>7. Live /\ Live' /\ runCount # 0
  BY <1>2 DEF Live, StreamInv, OwnInv, PlaceOfRun
<1>a. StreamTyped'
  BY <1>2 DEF StreamInv, StreamTyped
<1>b. Numbered'
  <2>1. \A i \in DOMAIN channel' : channel'[i].run = runCount'
    BY <1>2, <1>3, <1>4, <1>6 DEF StreamInv, Numbered
  <2> QED
    BY <1>2, <1>7, <2>1 DEF StreamInv, Numbered
<1>c. PromptStands'
  BY <1>2, <1>7 DEF StreamInv, PromptStands
<1>d. \A i \in DOMAIN events' : AgentAt(i)' /\ QuietAt(i)'
  BY <1>2 DEF StreamInv, AgentAt, QuietAt
<1>e. EndsOnce'
  <2>1. ~EndForwarded(runCount) /\ ~EndWaits
    BY <1>1, <1>7 DEF StreamInv, EndsOnce
  <2>2. \A i \in DOMAIN channel' : Ends(channel'[i]) <=> (i = Len(channel) + 1 /\ k \in Run!TerminalKinds)
    BY <1>3, <1>4, <1>6, <2>1 DEF EndWaits, Ends
  <2>3. EndWaits' <=> k \in Run!TerminalKinds
    BY <1>4, <2>2 DEF EndWaits
  <2>4. \A r : EndForwarded(r)' <=> EndForwarded(r)
    BY <1>2 DEF EndForwarded
  <2> QED
    BY <1>1, <1>2, <2>1, <2>2, <2>3, <2>4 DEF StreamInv, EndsOnce
<1>g. FaithfulForwarding'
  <2> PICK F : F = Forwarded
    OBVIOUS
  <2> PICK c : c = Cardinality(Forwarded)
    OBVIOUS
  <2>1. /\ c + Len(channel) = Len(runLog)
        /\ \A i \in F : events[i].event = runLog[Place(i)].kind
        /\ \A i \in 1 .. Len(channel) : channel[i].event = runLog[c + i].kind
    BY <1>2, <1>4 DEF StreamInv, FaithfulForwarding
  <2>2. F \in SUBSET (1 .. Len(events)) /\ Len(events) \in Nat
    BY DEF Forwarded, StreamInv, StreamTyped
  <2>3. /\ c \in Nat
        /\ \A i \in F : Place(i) \in 1 .. c
    <3>0. IsFiniteSet(1 .. Len(events))
      BY <2>2, FS_Interval
    <3>a. IsFiniteSet(F)
      BY <2>2, <3>0, FS_Subset
    <3>1. IsFiniteSet(F) /\ c \in Nat
      BY <3>a, FS_CardinalityType
    <3>2. ASSUME NEW i \in F PROVE Place(i) \in 1 .. c
      <4> DEFINE G == {j \in F : j <= i}
      <4>1. G \in SUBSET F /\ i \in G
        BY <2>2
      <4>2. IsFiniteSet(G) /\ Cardinality(G) <= c /\ Cardinality(G) \in Nat
        BY <3>1, <4>1, FS_Subset, FS_CardinalityType
      <4>3. Cardinality(G) # 0
        BY <4>1, <4>2, FS_EmptySet
      <4> QED
        BY <3>1, <4>2, <4>3 DEF Place
    <3> QED
      BY <3>1, <3>2
  <2>4. Forwarded' = F /\ Cardinality(Forwarded') = c /\ \A i : Place(i)' = Place(i)
    BY <1>2 DEF Forwarded, Place
  <2>5. ASSUME NEW i \in F PROVE events'[i].event = runLog'[Place(i)'].kind
    BY <1>2, <1>5, <2>1, <2>3, <2>4
  <2>6. ASSUME NEW i \in DOMAIN channel' PROVE channel'[i].event = runLog'[c + i].kind
    <3>1. CASE i \in 1 .. Len(channel)
      BY <1>4, <1>5, <2>1, <2>3, <3>1
    <3>2. CASE i = Len(channel) + 1
      BY <1>3, <1>4, <1>5, <2>1, <2>3, <3>2
    <3> QED
      BY <1>4, <3>1, <3>2
  <2>7. c + Len(channel') = Len(runLog')
    BY <1>4, <1>5, <2>1, <2>3
  <2>8. active' # 0
    BY <1>2, <1>7 DEF StreamInv, OwnInv, PlaceOfRun
  <2> QED
    BY Zenon, <2>4, <2>5, <2>6, <2>7, <2>8 DEF FaithfulForwarding
<1>h. AbortsAsked'
  <2>1. token => runCount \in asked \/ shutdownRequested
    BY <1>2 DEF StreamInv, OwnInv, ActivityTruthful, ActivityOfPlace
  <2>2. \A i \in DOMAIN channel' : channel'[i].event = "RunAborted" =>
          runCount \in asked \/ shutdownRequested
    BY <1>1, <1>3, <1>4, <1>6, <2>1 DEF StreamInv, AbortsAsked
  <2> QED
    BY <1>2, <2>2 DEF StreamInv, AbortsAsked, OnlyAskedRunsAbort
<1> QED
  BY <1>a, <1>b, <1>c, <1>d, <1>e, <1>g, <1>h DEF StreamInv

LEMMA AnnounceStream == StreamInv /\ OwnInv' /\ Announce => StreamInv'
<1> SUFFICES ASSUME StreamInv, OwnInv', Announce PROVE StreamInv'
  OBVIOUS
<1> DEFINE p == PromptAccepted(runCount)
           q == State(activity)
<1>1. /\ pc = "announce" /\ pc' = "select" /\ events' = events \o <<p, q>>
      /\ active' = runCount /\ runCount # 0 /\ runPhase = "Allocated"
      /\ activity = Activity("Running", runCount)
      /\ UNCHANGED <<channel, shutdownRequested, runCount, runPhase, runLog, asked>>
  BY DEF Announce, StreamInv, OwnInv, PlaceOfRun, runVars
<1>2. /\ p \in ControllerEvent /\ IsAccepted(p) /\ p.run = runCount /\ ~IsQuiet(p) /\ ~IsAgent(p)
      /\ q \in Remarks
  <2>1. runCount \in Nat /\ activity \in [state : ActivityState, run : Nat]
        /\ activity.state = "Running"
    BY <1>1 DEF StreamInv, OwnInv, TypeOK, Activity
  <2> QED
    BY <2>1, EventsTyped
<1>3. /\ q \in ControllerEvent /\ ~OfRun(q) /\ ~Separates(q) /\ ~IsAgent(q) /\ ~IsAccepted(q)
      /\ ~IsQuiet(q) /\ OfRun(p) /\ \A r : ~EndsRun(p, r) /\ ~EndsRun(q, r)
  BY <1>2 DEF Remarks, OfRun, Separates, IsAgent, IsAccepted, IsQuiet, EndsRun
<1>4. PICK n \in Nat : n = Len(events)
  BY DEF StreamInv, StreamTyped
<1>5. /\ Grows /\ Len(events') = n + 2
      /\ events'[n + 1] = p /\ events'[n + 2] = q
  <2> HIDE DEF p, q
  <2> DEFINE s == <<p, q>>
  <2>1. s \in Seq(ControllerEvent) /\ Len(s) = 2 /\ s[1] = p /\ s[2] = q
    BY <1>2, <1>3
  <2>2. events' = events \o s
    BY <1>1
  <2> HIDE DEF s
  <2>3. /\ Grows /\ Len(events') = Len(events) + Len(s)
        /\ \A i \in 1 .. Len(s) : events'[Len(events) + i] = s[i]
    BY <2>1, <2>2, StreamGrows DEF StreamInv
  <2>4. 1 \in 1 .. Len(s) /\ 2 \in 1 .. Len(s)
    BY <2>1
  <2> QED
    BY <1>4, <2>1, <2>3, <2>4
<1>6. PromptAccepted(runCount)' = p
  BY <1>1 DEF PromptAccepted
<1> HIDE DEF p, q
<1>7. /\ DOMAIN events = 1 .. n /\ DOMAIN events' = 1 .. n + 2
      /\ \A i \in DOMAIN events : i \in DOMAIN events' /\ events'[i] = events[i]
      /\ \A i \in DOMAIN events' : i \in DOMAIN events \/ i = n + 1 \/ i = n + 2
  BY <1>4, <1>5 DEF Grows
<1>8. channel = <<>> /\ runCount \in Nat
  BY <1>1 DEF StreamInv, Numbered, Live, OwnInv, TypeOK
<1>a. StreamTyped'
  BY <1>5 DEF Grows, StreamTyped
<1>b. Numbered'
  <2>1. \A i \in DOMAIN events' : OfRun(events'[i]) => events'[i].run \in 1 .. runCount
    BY <1>1, <1>2, <1>3, <1>5, <1>7, <1>8 DEF StreamInv, Numbered
  <2>2. \A i \in DOMAIN events : IsAccepted(events[i]) => events[i].run # runCount
    BY <1>1 DEF StreamInv, Numbered, IsAccepted, OfRun
  <2>3. \A i, j \in DOMAIN events' :
          IsAccepted(events'[i]) /\ IsAccepted(events'[j]) /\ events'[i].run = events'[j].run => i = j
    BY <1>2, <1>3, <1>5, <1>7, <2>2 DEF StreamInv, Numbered
  <2>4. channel' = <<>> /\ pc' # "announce" /\ \A i \in DOMAIN channel' : channel'[i].run = runCount'
    BY <1>1, <1>8
  <2> QED
    BY <1>1, <2>1, <2>3, <2>4 DEF Numbered
<1>c. PromptStands'
  <2>1. n + 1 \in DOMAIN events' /\ events'[n + 1] = PromptAccepted(runCount)'
    BY <1>5, <1>6, <1>7
  <2>2. \A k \in DOMAIN events' : k > n + 1 => ~Separates(events'[k])
    BY <1>3, <1>5, <1>7
  <2> QED
    BY <2>1, <2>2 DEF PromptStands
<1>d. ASSUME NEW i \in DOMAIN events' PROVE AgentAt(i)' /\ QuietAt(i)'
  <2>1. CASE i \in DOMAIN events
    BY <1>5, <2>1, OldKept DEF StreamInv
  <2>2. CASE i \notin DOMAIN events
    BY <1>2, <1>3, <1>5, <1>7, <2>2 DEF AgentAt, QuietAt
  <2> QED
    BY <2>1, <2>2
<1>e. EndsOnce'
  <2>1. \A i \in DOMAIN events', r \in 1 .. runCount :
          EndsRun(events'[i], r) => i \in DOMAIN events /\ EndsRun(events[i], r)
    BY <1>3, <1>5, <1>7
  <2>2. \A r \in 1 .. runCount : EndForwarded(r)' <=> EndForwarded(r)
    BY <1>7, <2>1 DEF EndForwarded
  <2>3. ~EndForwarded(runCount) /\ ~EndWaits /\ runCount \in 1 .. runCount
    BY <1>1, <1>8 DEF StreamInv, EndsOnce
  <2>4. ~EndForwarded(runCount)' /\ ~EndWaits'
    BY <1>1, <2>2, <2>3 DEF EndForwarded, EndWaits
  <2>5. \A r \in 1 .. runCount' : \A i, j \in DOMAIN events' :
          EndsRun(events'[i], r) /\ EndsRun(events'[j], r) => i = j
    BY <1>1, <2>1 DEF StreamInv, EndsOnce
  <2>6. \A r \in 1 .. runCount' :
          (r # runCount' \/ pc' \in {"idle", "stopping", "stopped"}) => EndForwarded(r)'
    BY <1>1, <2>2 DEF StreamInv, EndsOnce
  <2> QED
    BY <1>1, <1>8, <2>4, <2>5, <2>6 DEF EndsOnce
<1>g. FaithfulForwarding'
  <2>1. Forwarded' = Forwarded \cup (n + 1 .. n + 0)
    BY <1>1, <1>2, <1>3, <1>4, <1>5, <1>7 DEF Forwarded, IsAgent
  <2>2. ForwardsFirst(n, 0)
    BY <1>1, <1>4, <1>5, <1>8, <2>1 DEF ForwardsFirst
  <2> QED
    BY <2>2, ForwardsMore DEF StreamInv
<1>h. AbortsAsked'
  BY <1>1, <1>2, <1>3, <1>5, <1>7 DEF StreamInv, AbortsAsked, OnlyAskedRunsAbort, IsAgent
<1> QED
  BY <1>a, <1>b, <1>c, <1>d, <1>e, <1>g, <1>h DEF StreamInv

LEMMA ForwardStream == StreamInv /\ OwnInv' /\ ForwardEvent => StreamInv'
<1> SUFFICES ASSUME StreamInv, OwnInv', ForwardEvent PROVE StreamInv'
  OBVIOUS
<1> DEFINE x == Head(channel)
           e == Agent(active, x)
<1>1. /\ pc = "select" /\ pc' = "select" /\ channel # <<>>
      /\ channel' = Tail(channel) /\ events' = Append(events, e)
      /\ active = runCount /\ active # 0
      /\ UNCHANGED <<active, shutdownRequested, runCount, runPhase, runLog, asked>>
  BY DEF ForwardEvent, StreamInv, OwnInv, PlaceOfRun, runVars
<1>2. /\ channel \in Seq([run : Nat, event : AgentKind]) /\ runCount \in Nat
  BY DEF StreamInv, OwnInv, TypeOK
<1>3. /\ Len(channel) \in Nat \ {0} /\ DOMAIN channel = 1 .. Len(channel)
      /\ Len(channel') = Len(channel) - 1 /\ DOMAIN channel' = 1 .. Len(channel')
      /\ \A i \in 1 .. Len(channel') : channel'[i] = channel[1 + i]
      /\ x = channel[1] /\ x \in [run : Nat, event : AgentKind]
  <2>1. channel # <<>> /\ channel' = Tail(channel)
    BY <1>1
  <2>2. /\ Len(channel) \in Nat \ {0} /\ Len(Tail(channel)) = Len(channel) - 1
        /\ DOMAIN channel = 1 .. Len(channel) /\ DOMAIN Tail(channel) = 1 .. Len(channel) - 1
        /\ \A i \in 1 .. Len(channel) - 1 : Tail(channel)[i] = channel[1 + i]
        /\ Head(channel) = channel[1] /\ Head(channel) \in [run : Nat, event : AgentKind]
    BY <1>2, <2>1, HeadTaken
  <2> QED
    BY Zenon, <2>1, <2>2
<1>4. x.run = runCount
  BY <1>3 DEF StreamInv, Numbered
<1>5. /\ e \in ControllerEvent /\ IsAgent(e) /\ ~Separates(e) /\ ~IsAccepted(e) /\ ~IsQuiet(e)
      /\ e.request = runCount /\ e.run = runCount /\ e.event = x.event
  BY <1>1, <1>2, <1>3, <1>4, EventsTyped DEF Separates
<1>6. PICK n \in Nat : n = Len(events)
  BY DEF StreamInv, StreamTyped
<1> HIDE DEF x, e
<1>7. /\ Grows /\ Len(events') = n + 1 /\ events'[n + 1] = e
  <2>1. events \in Seq(ControllerEvent)
    BY DEF StreamInv, StreamTyped
  <2> QED
    BY <1>1, <1>5, <1>6, <2>1, Appended DEF Grows
<1>8. /\ DOMAIN events = 1 .. n /\ DOMAIN events' = 1 .. n + 1
      /\ \A i \in DOMAIN events : i \in DOMAIN events' /\ events'[i] = events[i]
      /\ \A i \in DOMAIN events' : i \in DOMAIN events \/ i = n + 1
  BY <1>6, <1>7 DEF Grows
<1>9. Live /\ Live'
  BY <1>1 DEF Live
<1>a. StreamTyped'
  BY <1>7 DEF Grows, StreamTyped
<1>b. Numbered'
  <2>1. \A i \in DOMAIN events' : OfRun(events'[i]) => events'[i].run \in 1 .. runCount
    BY <1>1, <1>2, <1>5, <1>7, <1>8 DEF StreamInv, Numbered
  <2>2. \A i, j \in DOMAIN events' :
          IsAccepted(events'[i]) /\ IsAccepted(events'[j]) /\ events'[i].run = events'[j].run => i = j
    BY <1>5, <1>7, <1>8 DEF StreamInv, Numbered
  <2>3. \A i \in DOMAIN channel' : channel'[i].run = runCount
    BY <1>3 DEF StreamInv, Numbered
  <2> QED
    BY <1>1, <1>9, <2>1, <2>2, <2>3 DEF Numbered
<1>c. PromptStands'
  <2>1. PICK j \in DOMAIN events :
          /\ events[j] = PromptAccepted(runCount)
          /\ \A k \in DOMAIN events : k > j => ~Separates(events[k])
    BY <1>9 DEF StreamInv, PromptStands
  <2>2. \A k \in DOMAIN events' : k > j => ~Separates(events'[k])
    BY <1>5, <1>7, <1>8, <2>1
  <2>3. events'[j] = PromptAccepted(runCount)' /\ j \in DOMAIN events'
    BY <1>1, <1>8, <2>1 DEF PromptAccepted
  <2> QED
    BY <2>2, <2>3 DEF PromptStands
<1>d. ASSUME NEW i \in DOMAIN events' PROVE AgentAt(i)' /\ QuietAt(i)'
  <2>1. CASE i \in DOMAIN events
    BY <1>7, <2>1, OldKept DEF StreamInv
  <2>2. CASE i = n + 1
    <3>1. PICK j \in DOMAIN events :
            /\ events[j] = PromptAccepted(runCount)
            /\ \A k \in DOMAIN events : k > j => ~Separates(events[k])
      BY <1>9 DEF StreamInv, PromptStands
    <3>2. j \in 1 .. i - 1 /\ events'[j] = PromptAccepted(events'[i].run)
      BY <1>5, <1>7, <1>8, <2>2, <3>1
    <3>3. \A k \in j + 1 .. i - 1 : ~Separates(events'[k])
      BY <1>8, <2>2, <3>1
    <3>4. AgentAt(i)'
      BY <1>5, <1>7, <2>2, <3>2, <3>3 DEF AgentAt
    <3> QED
      BY <1>5, <1>7, <2>2, <3>4 DEF QuietAt
  <2> QED
    BY <1>8, <2>1, <2>2
<1>e. EndsOnce'
  <2>1. \A r \in 1 .. runCount : EndsRun(e, r) <=> (r = runCount /\ Ends(x))
    BY <1>2, <1>5 DEF EndsRun, IsAgent, Ends
  <2>2. \A r \in 1 .. runCount :
          EndForwarded(r)' <=> (EndForwarded(r) \/ (r = runCount /\ Ends(x)))
    BY <1>7, <1>8, <2>1 DEF EndForwarded
  <2>3. EndWaits <=> (EndWaits' \/ Ends(x))
    <3>1. \A i \in DOMAIN channel : i = 1 \/ (i - 1 \in DOMAIN channel' /\ channel[i] = channel'[i - 1])
      BY <1>3
    <3>2. \A i \in DOMAIN channel' : 1 + i \in DOMAIN channel /\ channel'[i] = channel[1 + i]
      BY <1>3
    <3>3. 1 \in DOMAIN channel
      BY <1>3
    <3> QED
      BY <1>3, <3>1, <3>2, <3>3 DEF EndWaits
  <2>4. Ends(x) => ~EndWaits'
    <3> SUFFICES ASSUME Ends(x), NEW i \in DOMAIN channel', Ends(channel'[i]) PROVE FALSE
      BY DEF EndWaits
    <3>1. 1 + i \in DOMAIN channel /\ Ends(channel[1 + i]) /\ Ends(channel[1]) /\ 1 \in DOMAIN channel
      BY <1>3
    <3>2. 1 + i = 1
      BY <3>1 DEF StreamInv, EndsOnce
    <3> QED
      BY <1>3, <3>2
  <2>5. \A i, j \in DOMAIN channel' : Ends(channel'[i]) /\ Ends(channel'[j]) => i = j
    <3> SUFFICES ASSUME NEW i \in DOMAIN channel', NEW j \in DOMAIN channel',
                        Ends(channel'[i]), Ends(channel'[j])
                 PROVE  i = j
      OBVIOUS
    <3>1. /\ 1 + i \in DOMAIN channel /\ Ends(channel[1 + i])
          /\ 1 + j \in DOMAIN channel /\ Ends(channel[1 + j])
      BY <1>3
    <3>2. 1 + i = 1 + j
      BY <3>1 DEF StreamInv, EndsOnce
    <3> QED
      BY <1>3, <3>2
  <2>6. runCount \in 1 .. runCount
    BY <1>1, <1>2
  <2>7. \A r \in 1 .. runCount : \A i, j \in DOMAIN events' :
          EndsRun(events'[i], r) /\ EndsRun(events'[j], r) => i = j
    <3>1. ASSUME NEW r \in 1 .. runCount, NEW i \in DOMAIN events', NEW j \in DOMAIN events',
                 EndsRun(events'[i], r), EndsRun(events'[j], r)
          PROVE  i = j
      <4>1. CASE i \in DOMAIN events /\ j \in DOMAIN events
        BY <1>8, <3>1, <4>1 DEF StreamInv, EndsOnce
      <4>2. Ends(x) => ~EndForwarded(runCount)
        BY <2>3 DEF StreamInv, EndsOnce
      <4>3. CASE i = n + 1 /\ j \in DOMAIN events
        BY <1>7, <1>8, <2>1, <3>1, <4>2, <4>3 DEF EndForwarded
      <4>4. CASE j = n + 1 /\ i \in DOMAIN events
        BY <1>7, <1>8, <2>1, <3>1, <4>2, <4>4 DEF EndForwarded
      <4> QED
        BY <1>8, <4>1, <4>3, <4>4
    <3> QED
      BY <3>1
  <2>8. EndForwarded(runCount)' <=> (EndForwarded(runCount) \/ Ends(x))
    <3>1. PICK r \in Nat : r = runCount
      BY <1>2
    <3>2. EndForwarded(runCount)' <=> EndForwarded(r)'
      BY <1>1, <3>1 DEF EndForwarded
    <3> QED
      BY <2>2, <2>6, <3>1, <3>2
  <2> QED
    BY <1>1, <1>9, <2>2, <2>3, <2>4, <2>5, <2>7, <2>8 DEF StreamInv, EndsOnce
<1>g. FaithfulForwarding'
  <2>1. Forwarded' = Forwarded \cup (n + 1 .. n + 1)
    <3>1. ASSUME NEW i \in Forwarded' PROVE i \in Forwarded \/ i = n + 1
      BY <1>1, <1>8 DEF Forwarded
    <3>2. ASSUME NEW i \in Forwarded PROVE i \in Forwarded'
      BY <1>1, <1>8 DEF Forwarded
    <3>3. n + 1 \in Forwarded'
      BY <1>1, <1>5, <1>7, <1>8 DEF Forwarded, IsAgent
    <3>4. \A i : i \in n + 1 .. n + 1 <=> i = n + 1
      OBVIOUS
    <3> QED
      BY <3>1, <3>2, <3>3, <3>4
  <2>2. ForwardsFirst(n, 1)
    BY <1>1, <1>3, <1>5, <1>6, <1>7, <2>1 DEF ForwardsFirst
  <2> QED
    BY <2>2, ForwardsMore DEF StreamInv
<1>h. AbortsAsked'
  <2>1. \A i \in DOMAIN channel' : channel'[i].event = "RunAborted" =>
          runCount \in asked \/ shutdownRequested
    BY <1>3 DEF StreamInv, AbortsAsked
  <2>2. x.event = "RunAborted" => runCount \in asked \/ shutdownRequested
    BY <1>3 DEF StreamInv, AbortsAsked
  <2> QED
    BY <1>1, <1>5, <1>7, <1>8, <2>1, <2>2 DEF StreamInv, AbortsAsked, OnlyAskedRunsAbort
<1> QED
  BY <1>a, <1>b, <1>c, <1>d, <1>e, <1>g, <1>h DEF StreamInv

(* A run's terminal event lies behind the prompt that it answers.          *)
LEMMA EndAfterPrompt ==
  ASSUME StreamInv, NEW j \in DOMAIN events, NEW k \in DOMAIN events,
         IsAccepted(events[j]), EndsRun(events[k], events[j].run)
  PROVE  j <= k
<1>1. IsAgent(events[k]) /\ events[k].run = events[j].run
  BY DEF EndsRun, IsAgent
<1>2. AgentAt(k) /\ k \in Nat /\ DOMAIN events = 1 .. Len(events) /\ Len(events) \in Nat
  BY DEF StreamInv, StreamTyped
<1>3. PICK i \in 1 .. k - 1 : events[i] = PromptAccepted(events[k].run)
  BY <1>1, <1>2 DEF AgentAt
<1>4. i \in DOMAIN events /\ IsAccepted(events[i]) /\ events[i].run = events[j].run
  BY <1>1, <1>2, <1>3 DEF PromptAccepted, IsAccepted
<1>5. i = j
  BY <1>4 DEF StreamInv, Numbered
<1> QED
  BY <1>2, <1>3, <1>5

LEMMA StopStream == StreamInv /\ OwnInv' /\ Stop => StreamInv'
<1> SUFFICES ASSUME StreamInv, OwnInv', Stop PROVE StreamInv'
  OBVIOUS
<1> DEFINE p == State(Activity("Stopped", 0))
           q == StoppedEvent
<1>1. /\ pc = "idle" /\ pc' = "stopping" /\ events' = events \o <<p, q>>
      /\ active = 0
      /\ UNCHANGED <<channel, active, shutdownRequested, runCount, runPhase, runLog, asked>>
  BY DEF Stop, MayStop, StreamInv, OwnInv, PlaceOfRun, runVars
<1>2. /\ p \in ControllerEvent /\ ~OfRun(p) /\ q \in Remarks
  <2>1. Activity("Stopped", 0) \in [state : ActivityState, run : Nat]
    BY DEF Activity, ActivityState
  <2> QED
    BY <2>1, EventsTyped
<1>3. /\ q \in ControllerEvent /\ ~OfRun(q) /\ ~Separates(q) /\ ~IsAgent(q) /\ ~IsAccepted(q)
      /\ ~IsQuiet(q) /\ ~IsAgent(p) /\ ~IsAccepted(p)
      /\ \A r : ~EndsRun(p, r) /\ ~EndsRun(q, r)
  BY <1>2 DEF Remarks, OfRun, Separates, IsAgent, IsAccepted, IsQuiet, EndsRun
<1>4. PICK n \in Nat : n = Len(events)
  BY DEF StreamInv, StreamTyped
<1>5. /\ Grows /\ Len(events') = n + 2
      /\ events'[n + 1] = p /\ events'[n + 2] = q
  <2> HIDE DEF p, q
  <2> DEFINE s == <<p, q>>
  <2>1. s \in Seq(ControllerEvent) /\ Len(s) = 2 /\ s[1] = p /\ s[2] = q
    BY <1>2, <1>3
  <2>2. events' = events \o s
    BY <1>1
  <2> HIDE DEF s
  <2>3. /\ Grows /\ Len(events') = Len(events) + Len(s)
        /\ \A i \in 1 .. Len(s) : events'[Len(events) + i] = s[i]
    BY <2>1, <2>2, StreamGrows DEF StreamInv
  <2>4. 1 \in 1 .. Len(s) /\ 2 \in 1 .. Len(s)
    BY <2>1
  <2> QED
    BY <1>4, <2>1, <2>3, <2>4
<1> HIDE DEF p, q
<1>7. /\ DOMAIN events = 1 .. n /\ DOMAIN events' = 1 .. n + 2
      /\ \A i \in DOMAIN events : i \in DOMAIN events' /\ events'[i] = events[i]
      /\ \A i \in DOMAIN events' : i \in DOMAIN events \/ i = n + 1 \/ i = n + 2
  BY <1>4, <1>5 DEF Grows
<1>8. channel = <<>> /\ runCount \in Nat /\ ~Live /\ ~Live'
  BY <1>1 DEF StreamInv, Numbered, Live, OwnInv, TypeOK
<1>a. StreamTyped'
  BY <1>5 DEF Grows, StreamTyped
<1>b. Numbered'
  <2>1. \A i \in DOMAIN events' : OfRun(events'[i]) => events'[i].run \in 1 .. runCount
    BY <1>1, <1>2, <1>3, <1>5, <1>7, <1>8 DEF StreamInv, Numbered
  <2>3. \A i, j \in DOMAIN events' :
          IsAccepted(events'[i]) /\ IsAccepted(events'[j]) /\ events'[i].run = events'[j].run => i = j
    BY <1>2, <1>3, <1>5, <1>7 DEF StreamInv, Numbered
  <2>4. channel' = <<>> /\ pc' # "announce" /\ \A i \in DOMAIN channel' : channel'[i].run = runCount'
    BY <1>1, <1>8
  <2> QED
    BY <1>1, <2>1, <2>3, <2>4 DEF Numbered
<1>d. ASSUME NEW i \in DOMAIN events' PROVE AgentAt(i)' /\ QuietAt(i)'
  <2>1. CASE i \in DOMAIN events
    BY <1>5, <2>1, OldKept DEF StreamInv
  <2>2. CASE i = n + 1
    <3>1. ASSUME NEW j \in 1 .. i - 1, IsAccepted(events'[j])
          PROVE  \E k \in j .. i : EndsRun(events'[k], events'[j].run)
      <4>1. j \in DOMAIN events /\ events'[j] = events[j] /\ IsAccepted(events[j])
        BY <1>7, <2>2, <3>1
      <4>2. events[j].run \in 1 .. runCount
        BY <4>1 DEF StreamInv, Numbered, IsAccepted, OfRun
      <4>3. PICK k \in DOMAIN events : EndsRun(events[k], events[j].run)
        BY <1>1, <4>2 DEF StreamInv, EndsOnce, EndForwarded
      <4>4. j <= k
        BY <4>1, <4>3, EndAfterPrompt
      <4>5. k \in j .. i /\ events'[k] = events[k]
        BY <1>7, <2>2, <4>4
      <4> QED
        BY <4>1, <4>3, <4>5
    <3> QED
      BY <1>3, <1>5, <2>2, <3>1 DEF AgentAt, QuietAt
  <2>3. CASE i = n + 2
    BY <1>3, <1>5, <2>3 DEF AgentAt, QuietAt
  <2> QED
    BY <1>7, <2>1, <2>2, <2>3
<1>e. EndsOnce'
  <2>1. \A i \in DOMAIN events', r \in 1 .. runCount :
          EndsRun(events'[i], r) => i \in DOMAIN events /\ EndsRun(events[i], r)
    BY <1>3, <1>5, <1>7
  <2>2. \A r \in 1 .. runCount : EndForwarded(r) => EndForwarded(r)'
    BY <1>7 DEF EndForwarded
  <2>3. ~EndWaits' /\ \A i \in DOMAIN channel' : FALSE
    BY <1>1, <1>8 DEF EndWaits
  <2>5. \A r \in 1 .. runCount' : \A i, j \in DOMAIN events' :
          EndsRun(events'[i], r) /\ EndsRun(events'[j], r) => i = j
    BY <1>1, <1>7, <2>1 DEF StreamInv, EndsOnce
  <2>6. \A r \in 1 .. runCount' : EndForwarded(r)'
    BY <1>1, <2>2 DEF StreamInv, EndsOnce
  <2> QED
    BY <1>1, <1>8, <2>3, <2>5, <2>6 DEF EndsOnce
<1>g. FaithfulForwarding'
  <2>1. Forwarded' = Forwarded \cup (n + 1 .. n + 0)
    BY <1>1, <1>2, <1>3, <1>4, <1>5, <1>7 DEF Forwarded, IsAgent
  <2>2. ForwardsFirst(n, 0)
    BY <1>1, <1>4, <1>5, <1>8, <2>1 DEF ForwardsFirst
  <2> QED
    BY <2>2, ForwardsMore DEF StreamInv
<1>h. AbortsAsked'
  BY <1>1, <1>2, <1>3, <1>5, <1>7 DEF StreamInv, AbortsAsked, OnlyAskedRunsAbort, IsAgent
<1> QED
  BY <1>8, <1>a, <1>b, <1>d, <1>e, <1>g, <1>h DEF StreamInv

LEMMA AbortStream == StreamInv /\ OwnInv' /\ AbortTask => StreamInv'
<1> SUFFICES ASSUME StreamInv, OwnInv', AbortTask PROVE StreamInv'
  OBVIOUS
<1>1. /\ pc' = "aborted" /\ channel' = <<>> /\ ~Live'
      /\ UNCHANGED <<events, active, shutdownRequested, runCount, runPhase, runLog, asked>>
  BY DEF AbortTask, runVars, Live
<1>a. StreamTyped'
  BY <1>1 DEF StreamInv, StreamTyped
<1>b. Numbered'
  BY <1>1 DEF StreamInv, Numbered
<1>d. \A i \in DOMAIN events' : AgentAt(i)' /\ QuietAt(i)'
  BY <1>1 DEF StreamInv, AgentAt, QuietAt
<1>e. EndsOnce'
  BY <1>1 DEF StreamInv, EndsOnce, EndForwarded, EndWaits
<1>g. FaithfulForwarding'
  BY <1>1 DEF FaithfulForwarding
<1>h. AbortsAsked'
  BY <1>1 DEF StreamInv, AbortsAsked, OnlyAskedRunsAbort
<1> QED
  BY <1>1, <1>a, <1>b, <1>d, <1>e, <1>g, <1>h DEF StreamInv

(* What comes behind the first of the events that close a settlement.      *)
LEMMA JoinedLast ==
  ASSUME NEW S, NEW C, NEW d \in Seq(S), NEW s \in Seq(S), NEW b \in Seq(S), Len(s) <= 1,
         \A p \in 1 .. Len(b) : b[p] \in C,
         NEW u, u = (d \o s) \o b
  PROVE  \A i \in Len(d) + 2 .. Len(u) : u[i] \in C
<1>0. d \o s \in Seq(S)
  BY Concatenated
<1>1. PICK w \in Seq(S) : w = d \o s
  BY <1>0
<1>2. Len(w) = Len(d) + Len(s) /\ Len(d) \in Nat /\ Len(s) \in Nat
  BY <1>1, Concatenated
<1>3. /\ Len(u) = Len(w) + Len(b) /\ Len(b) \in Nat
      /\ \A p \in 1 .. Len(b) : u[Len(w) + p] = b[p]
  BY <1>1, Concatenated
<1>4. ASSUME NEW i \in Len(d) + 2 .. Len(u) PROVE u[i] \in C
  <2>1. i - Len(w) \in 1 .. Len(b) /\ Len(w) + (i - Len(w)) = i
    BY <1>2, <1>3
  <2> QED
    BY <1>3, <2>1
<1> QED
  BY <1>4

(* What a settlement appends: the rest of the channel, then events that    *)
(* belong to no run.                                                       *)
LEMMA SettledEvents ==
  ASSUME StreamInv, Settle, NEW n \in Nat, n = Len(events),
         NEW m \in Nat, m = Len(channel)
  PROVE  /\ Grows /\ n + m <= Len(events')
         /\ \A i \in 1 .. m : events'[n + i] = Agent(active, channel[i])
         /\ \A i \in n + m + 1 .. Len(events') :
              /\ ~OfRun(events'[i]) /\ events'[i].kind \in {"StateChanged", "ControllerError"}
              /\ i # n + m + 1 => events'[i].kind = "StateChanged"
<1> DEFINE Closing == {e \in ControllerEvent :
                        ~OfRun(e) /\ e.kind \in {"StateChanged", "ControllerError"}}
<1>1. /\ active \in Nat /\ channel \in Seq([run : Nat, event : AgentKind])
      /\ DOMAIN channel = 1 .. m
  BY DEF StreamInv, OwnInv, TypeOK
<1>2. PICK d : d = Drained
  OBVIOUS
<1>3. /\ d \in Seq(ControllerEvent) /\ Len(d) = m
      /\ \A i \in 1 .. m : d[i] = Agent(active, channel[i])
  <2>0. \A i \in 1 .. m : channel[i] \in [run : Nat, event : AgentKind]
    BY <1>1, Elements
  <2>1. \A i \in 1 .. m : Agent(active, channel[i]) \in ControllerEvent
    BY <1>1, <2>0, EventsTyped
  <2>2. d = [i \in 1 .. m |-> Agent(active, channel[i])]
    BY <1>1, <1>2 DEF Drained
  <2> QED
    BY <2>1, <2>2
<1>4. PICK s : s = SettlementError
  OBVIOUS
<1>5. PICK b : b = BackToIdle
  OBVIOUS
<1>6. /\ s \in Seq(Closing) /\ b \in Seq(Closing) /\ Len(s) <= 1
      /\ \A i \in 1 .. Len(b) : b[i].kind = "StateChanged"
  <2>1. Activity("Idle", 0) \in [state : ActivityState, run : Nat]
    BY DEF Activity, ActivityState
  <2>2. ControllerError \in Closing /\ State(Activity("Idle", 0)) \in Closing
    BY <2>1, EventsTyped DEF Remarks, ControllerError, State
  <2> HIDE DEF Closing
  <2>4. State(Activity("Idle", 0)).kind = "StateChanged"
    BY DEF State
  <2>3. s \in {<<>>, <<ControllerError>>} /\ b \in {<<>>, <<State(Activity("Idle", 0))>>}
    BY <1>4, <1>5 DEF SettlementError, BackToIdle
  <2>5. s \in Seq(Closing) /\ b \in Seq(Closing)
    BY Zenon, <2>2, <2>3, ShortSequences
  <2>6. Len(s) <= 1
    <3>1. PICK e : e = ControllerError
      OBVIOUS
    <3>2. CASE s = <<>>
      BY <3>2
    <3>3. CASE s = <<e>>
      BY <3>3
    <3> QED
      BY Zenon, <2>3, <3>1, <3>2, <3>3
  <2>7. \A i \in 1 .. Len(b) : b[i].kind = "StateChanged"
    <3>1. PICK e : e = State(Activity("Idle", 0))
      OBVIOUS
    <3>2. CASE b = <<>>
      BY <3>2
    <3>3. CASE b = <<e>>
      BY <2>4, <3>1, <3>3
    <3> QED
      BY Zenon, <2>3, <3>1, <3>2, <3>3
  <2> QED
    BY <2>5, <2>6, <2>7
<1>7. /\ Closing \subseteq ControllerEvent
      /\ \A e \in Closing : ~OfRun(e) /\ e.kind \in {"StateChanged", "ControllerError"}
  OBVIOUS
<1>8. d \in Seq(ControllerEvent)
  BY <1>3
<1> HIDE DEF Closing
<1>9. PICK u : u = (d \o s) \o b
  OBVIOUS
<1>10. u \in Seq(ControllerEvent) /\ Len(u) \in Nat /\ Len(d) <= Len(u)
  BY <1>6, <1>7, <1>8, <1>9, Joined
<1>11. \A i \in 1 .. Len(d) : u[i] = d[i]
  BY <1>6, <1>7, <1>8, <1>9, Joined
<1>13. \A i \in 1 .. m : u[i] = Agent(active, channel[i])
  BY <1>3, <1>11
<1>14. \A i \in m + 1 .. Len(u) : u[i] \in Closing
  <2>1. \A i \in Len(d) + 1 .. Len(u) : u[i] \in Closing
    BY <1>6, <1>7, <1>8, <1>9, Joined
  <2> QED
    BY <1>3, <2>1
<1>15. events' = events \o u
  BY <1>2, <1>4, <1>5, <1>9 DEF Settle, SettlementEvents
<1>16. /\ Grows /\ Len(events') = n + Len(u) /\ Len(u) \in Nat
       /\ \A i \in 1 .. Len(u) : events'[n + i] = u[i]
  BY <1>10, <1>15, StreamGrows DEF StreamInv
<1>17. m <= Len(u)
  BY <1>3, <1>10
<1>18. \A i \in 1 .. m : events'[n + i] = Agent(active, channel[i])
  <2>1. \A i \in 1 .. m : i \in 1 .. Len(u)
    BY <1>16, <1>17
  <2> QED
    BY <1>13, <1>16, <2>1
<1>12. \A i \in m + 2 .. Len(u) : u[i].kind = "StateChanged"
  <2>1. /\ s \in Seq(ControllerEvent) /\ b \in Seq(ControllerEvent)
        /\ d \in Seq(ControllerEvent) /\ Len(s) <= 1 /\ u = (d \o s) \o b
    BY <1>6, <1>7, <1>8, <1>9
  <2> DEFINE C == {e \in ControllerEvent : e.kind = "StateChanged"}
  <2>2. \A p \in 1 .. Len(b) : b[p] \in C
    BY <1>6, <2>1, Elements
  <2> HIDE DEF C
  <2>3. \A i \in Len(d) + 2 .. Len(u) : u[i] \in C
    BY <2>1, <2>2, JoinedLast
  <2> QED
    BY <1>3, <2>3 DEF C
<1>19. ASSUME NEW i \in n + m + 1 .. Len(events')
       PROVE  /\ ~OfRun(events'[i]) /\ events'[i].kind \in {"StateChanged", "ControllerError"}
              /\ i # n + m + 1 => events'[i].kind = "StateChanged"
  <2>1. i - n \in m + 1 .. Len(u) /\ i - n \in 1 .. Len(u) /\ n + (i - n) = i
    BY <1>16
  <2>2. ASSUME i # n + m + 1 PROVE i - n \in m + 2 .. Len(u)
    <3>1. PICK q : q = i - n
      OBVIOUS
    <3>2. q \in m + 1 .. Len(u) /\ q # m + 1
      BY <2>1, <2>2, <3>1
    <3> QED
      BY <1>16, <3>1, <3>2
  <2>3. events'[i] = u[i - n]
    BY <1>16, <2>1
  <2>4. u[i - n] \in Closing
    BY <1>14, <2>1
  <2>5. i # n + m + 1 => u[i - n].kind = "StateChanged"
    BY <1>12, <2>2
  <2> QED
    BY <1>7, <2>3, <2>4, <2>5
<1>20. Grows /\ n + m <= Len(events')
  BY <1>16, <1>17
<1>21. \A i \in n + m + 1 .. Len(events') :
         /\ ~OfRun(events'[i]) /\ events'[i].kind \in {"StateChanged", "ControllerError"}
         /\ i # n + m + 1 => events'[i].kind = "StateChanged"
  BY <1>19
<1> QED
  BY <1>18, <1>20, <1>21

LEMMA SettleStream == StreamInv /\ OwnInv' /\ Settle => StreamInv'
<1> SUFFICES ASSUME StreamInv, OwnInv', Settle PROVE StreamInv'
  OBVIOUS
<1>1. /\ pc = "polling" /\ pc' = "idle" /\ runPhase = "Ended" /\ channel' = <<>>
      /\ active = runCount /\ runCount # 0 /\ runCount \in Nat
      /\ UNCHANGED <<shutdownRequested, runCount, runPhase, runLog, asked>>
  BY DEF Settle, RunReturned, StreamInv, OwnInv, PlaceOfRun, TypeOK, runVars
<1>2. /\ channel \in Seq([run : Nat, event : AgentKind]) /\ Live /\ ~Live'
      /\ \A i \in DOMAIN channel : channel[i].run = runCount
  BY <1>1 DEF StreamInv, OwnInv, TypeOK, Numbered, Live
<1>3. PICK n \in Nat : n = Len(events)
  BY DEF StreamInv, StreamTyped
<1>4. PICK m \in Nat : m = Len(channel)
  BY <1>2
<1>5. DOMAIN channel = 1 .. m
  BY <1>2, <1>4
<1>6. /\ Grows /\ n + m <= Len(events')
      /\ \A i \in 1 .. m : events'[n + i] = Agent(active, channel[i])
      /\ \A i \in n + m + 1 .. Len(events') : ~OfRun(events'[i])
  BY <1>3, <1>4, SettledEvents
<1>7. PICK w \in Nat : w = Len(events')
  BY <1>6 DEF Grows
<1>8. /\ DOMAIN events = 1 .. n /\ DOMAIN events' = 1 .. w
      /\ \A i \in DOMAIN events : i \in DOMAIN events' /\ events'[i] = events[i]
  BY <1>3, <1>6, <1>7 DEF Grows
<1>9. \A i \in DOMAIN events' :
        \/ i \in DOMAIN events
        \/ i \in n + 1 .. n + m /\ \E k \in DOMAIN channel : i = n + k
        \/ i \in n + m + 1 .. w
  <2> SUFFICES ASSUME NEW i \in DOMAIN events', i \notin DOMAIN events, i \notin n + m + 1 .. w
               PROVE  i \in n + 1 .. n + m /\ \E k \in DOMAIN channel : i = n + k
    OBVIOUS
  <2>1. i - n \in 1 .. m /\ i = n + (i - n) /\ i \in n + 1 .. n + m
    BY <1>8
  <2> QED
    BY <1>5, <2>1
(* the events that were drained *)
<1>10. ASSUME NEW k \in DOMAIN channel
       PROVE  /\ n + k \in DOMAIN events' /\ n + k > n
              /\ IsAgent(events'[n + k]) /\ ~Separates(events'[n + k])
              /\ ~IsAccepted(events'[n + k]) /\ ~IsQuiet(events'[n + k])
              /\ events'[n + k].request = runCount /\ events'[n + k].run = runCount
              /\ events'[n + k].event = channel[k].event
  <2>1. n + k \in DOMAIN events' /\ n + k > n
    BY <1>5, <1>6, <1>7, <1>8
  <2>2. events'[n + k] = Agent(active, channel[k])
    BY <1>5, <1>6
  <2>3. channel[k] \in [run : Nat, event : AgentKind] /\ channel[k].run = runCount /\ active \in Nat
    BY <1>1, <1>2, Elements
  <2> QED
    BY <1>1, <2>1, <2>2, <2>3, EventsTyped DEF Separates
(* the events that close the settlement *)
<1>11. ASSUME NEW i \in n + m + 1 .. w
       PROVE  /\ ~OfRun(events'[i]) /\ ~IsAgent(events'[i]) /\ ~IsAccepted(events'[i])
              /\ \A r : ~EndsRun(events'[i], r)
  BY <1>6, <1>7 DEF OfRun, IsAgent, IsAccepted, EndsRun
<1>a. StreamTyped'
  BY <1>6 DEF Grows, StreamTyped
<1>b. Numbered'
  <2>1. \A i \in DOMAIN events' : OfRun(events'[i]) => events'[i].run \in 1 .. runCount
    <3>1. ASSUME NEW i \in DOMAIN events', OfRun(events'[i]) PROVE events'[i].run \in 1 .. runCount
      <4>1. CASE i \in DOMAIN events
        BY <1>8, <3>1, <4>1 DEF StreamInv, Numbered
      <4>2. CASE i \notin DOMAIN events
        <5>1. PICK k \in DOMAIN channel : i = n + k
          BY <1>9, <1>11, <3>1, <4>2
        <5> QED
          BY <1>1, <1>10, <5>1
      <4> QED
        BY <4>1, <4>2
    <3> QED
      BY <3>1
  <2>2. \A i \in DOMAIN events' : IsAccepted(events'[i]) => i \in DOMAIN events
    BY <1>9, <1>10, <1>11
  <2>3. \A i, j \in DOMAIN events' :
          IsAccepted(events'[i]) /\ IsAccepted(events'[j]) /\ events'[i].run = events'[j].run => i = j
    BY <1>8, <2>2 DEF StreamInv, Numbered
  <2>4. channel' = <<>> /\ pc' # "announce" /\ \A i \in DOMAIN channel' : channel'[i].run = runCount'
    BY <1>1
  <2> QED
    BY <1>1, <2>1, <2>3, <2>4 DEF Numbered
<1>12. \A r \in 1 .. runCount, i \in DOMAIN events' :
         EndsRun(events'[i], r) <=>
           \/ i \in DOMAIN events /\ EndsRun(events[i], r)
           \/ r = runCount /\ \E k \in DOMAIN channel : i = n + k /\ Ends(channel[k])
  <2> SUFFICES ASSUME NEW r \in 1 .. runCount, NEW i \in DOMAIN events'
               PROVE  EndsRun(events'[i], r) <=>
                        \/ i \in DOMAIN events /\ EndsRun(events[i], r)
                        \/ r = runCount /\ \E k \in DOMAIN channel : i = n + k /\ Ends(channel[k])
    OBVIOUS
  <2>1. ASSUME NEW k \in DOMAIN channel
        PROVE  EndsRun(events'[n + k], r) <=> (r = runCount /\ Ends(channel[k]))
    BY <1>10 DEF EndsRun, IsAgent, Ends
  <2>2. CASE i \in DOMAIN events
    <3>1. \A k \in DOMAIN channel : i # n + k
      BY <1>8, <1>10, <2>2
    <3> QED
      BY <1>8, <2>2, <3>1
  <2>3. CASE i \notin DOMAIN events /\ \E k \in DOMAIN channel : i = n + k
    <3>1. PICK k \in DOMAIN channel : i = n + k
      BY <2>3
    <3>2. \A l \in DOMAIN channel : i = n + l => l = k
      BY <1>5, <3>1
    <3> QED
      BY <2>1, <2>3, <3>1, <3>2
  <2>4. CASE i \in n + m + 1 .. w
    <3>1. i \notin DOMAIN events /\ \A k \in DOMAIN channel : i # n + k
      BY <1>5, <1>8, <2>4
    <3> QED
      BY <1>11, <2>4, <3>1
  <2> QED
    BY <1>9, <2>2, <2>3, <2>4
<1>13. \A r \in 1 .. runCount : EndForwarded(r)' <=> (EndForwarded(r) \/ (r = runCount /\ EndWaits))
  <2> SUFFICES ASSUME NEW r \in 1 .. runCount
               PROVE  EndForwarded(r)' <=> (EndForwarded(r) \/ (r = runCount /\ EndWaits))
    OBVIOUS
  <2>1. EndForwarded(r)' => EndForwarded(r) \/ (r = runCount /\ EndWaits)
    BY <1>12 DEF EndForwarded, EndWaits
  <2>2. EndForwarded(r) => EndForwarded(r)'
    BY <1>8 DEF EndForwarded
  <2>3. r = runCount /\ EndWaits => EndForwarded(r)'
    BY <1>10, <1>12 DEF EndForwarded, EndWaits
  <2> QED
    BY <2>1, <2>2, <2>3
<1>14. \A r \in 1 .. runCount : EndForwarded(r)'
  <2>1. EndForwarded(runCount) \/ EndWaits
    BY <1>1, <1>2 DEF StreamInv, EndsOnce
  <2>2. \A r \in 1 .. runCount : r # runCount => EndForwarded(r)
    BY DEF StreamInv, EndsOnce
  <2> QED
    BY <1>13, <2>1, <2>2
<1>15. PICK p \in DOMAIN events :
         /\ events[p] = PromptAccepted(runCount)
         /\ \A k \in DOMAIN events : k > p => ~Separates(events[k])
  BY <1>2 DEF StreamInv, PromptStands
<1>d. ASSUME NEW i \in DOMAIN events' PROVE AgentAt(i)' /\ QuietAt(i)'
  <2>1. CASE i \in DOMAIN events
    BY <1>6, <2>1, OldKept DEF StreamInv
  <2>2. ASSUME NEW k \in DOMAIN channel, i = n + k PROVE AgentAt(i)' /\ QuietAt(i)'
    <3>1. p \in 1 .. i - 1 /\ events'[p] = PromptAccepted(events'[i].run)
      BY <1>8, <1>10, <1>15, <2>2
    <3>2. ASSUME NEW l \in p + 1 .. i - 1 PROVE ~Separates(events'[l])
      <4>1. CASE l \in DOMAIN events
        BY <1>8, <1>15, <4>1
      <4>2. CASE l \notin DOMAIN events
        <5>1. l - n \in DOMAIN channel /\ l = n + (l - n)
          BY <1>5, <1>8, <2>2, <4>2
        <5> QED
          BY <1>10, <5>1
      <4> QED
        BY <4>1, <4>2
    <3>3. AgentAt(i)'
      BY <1>10, <2>2, <3>1, <3>2 DEF AgentAt
    <3> QED
      BY <1>10, <2>2, <3>3 DEF QuietAt
  <2>3. CASE i \in n + m + 1 .. w
    <3>1. ASSUME NEW j \in 1 .. i - 1, IsAccepted(events'[j])
          PROVE  \E k \in j .. i : EndsRun(events'[k], events'[j].run)
      <4>1. j \in DOMAIN events' /\ j \in Nat
        BY <1>8, <2>3
      <4>2. j \in DOMAIN events /\ events'[j] = events[j] /\ IsAccepted(events[j])
        BY <1>8, <1>9, <1>10, <1>11, <3>1, <4>1
      <4>3. events[j].run \in 1 .. runCount
        BY <4>2 DEF StreamInv, Numbered, IsAccepted, OfRun
      <4>4. PICK k \in DOMAIN events' : EndsRun(events'[k], events[j].run)
        BY <1>14, <4>3 DEF EndForwarded
      <4>5. CASE k \in DOMAIN events
        <5>1. EndsRun(events[k], events[j].run)
          BY <1>8, <4>4, <4>5
        <5>2. j <= k
          BY <4>2, <4>5, <5>1, EndAfterPrompt
        <5>3. k \in j .. i
          BY <1>8, <2>3, <4>5, <5>2
        <5> QED
          BY <4>2, <4>4, <5>3
      <4>6. CASE k \notin DOMAIN events
        <5>1. k \in n + 1 .. n + m
          BY <1>9, <1>11, <4>4, <4>6
        <5>2. k \in j .. i
          BY <1>8, <2>3, <4>2, <5>1
        <5> QED
          BY <4>2, <4>4, <5>2
      <4> QED
        BY <4>5, <4>6
    <3> QED
      BY <1>11, <2>3, <3>1 DEF AgentAt, QuietAt
  <2> QED
    BY <1>9, <2>1, <2>2, <2>3
<1>e. EndsOnce'
  <2>1. ASSUME NEW r \in 1 .. runCount, NEW i \in DOMAIN events', NEW j \in DOMAIN events',
               EndsRun(events'[i], r), EndsRun(events'[j], r)
        PROVE  i = j
    <3>1. /\ \/ i \in DOMAIN events /\ EndsRun(events[i], r)
             \/ r = runCount /\ \E k \in DOMAIN channel : i = n + k /\ Ends(channel[k])
          /\ \/ j \in DOMAIN events /\ EndsRun(events[j], r)
             \/ r = runCount /\ \E k \in DOMAIN channel : j = n + k /\ Ends(channel[k])
      BY <1>12, <2>1
    <3>2. ~(EndForwarded(runCount) /\ EndWaits)
      BY DEF StreamInv, EndsOnce
    <3>3. CASE i \in DOMAIN events /\ EndsRun(events[i], r)
      <4>1. j \in DOMAIN events /\ EndsRun(events[j], r)
        BY <3>1, <3>2, <3>3 DEF EndForwarded, EndWaits
      <4> QED
        BY <3>3, <4>1 DEF StreamInv, EndsOnce
    <3>4. CASE r = runCount /\ \E k \in DOMAIN channel : i = n + k /\ Ends(channel[k])
      <4>1. PICK k \in DOMAIN channel : i = n + k /\ Ends(channel[k])
        BY <3>4
      <4>2. PICK l \in DOMAIN channel : j = n + l /\ Ends(channel[l])
        BY <3>1, <3>2, <3>4, <4>1 DEF EndForwarded, EndWaits
      <4>3. k = l
        BY <4>1, <4>2 DEF StreamInv, EndsOnce
      <4> QED
        BY <4>1, <4>2, <4>3
    <3> QED
      BY <3>1, <3>3, <3>4
  <2>2. ~EndWaits' /\ \A i \in DOMAIN channel' : FALSE
    BY <1>1 DEF EndWaits
  <2>3. \A r \in 1 .. runCount' : EndForwarded(r)'
    BY <1>1, <1>14
  <2>4. \A r \in 1 .. runCount' : \A i, j \in DOMAIN events' :
          EndsRun(events'[i], r) /\ EndsRun(events'[j], r) => i = j
    BY <1>1, <2>1
  <2> QED
    BY <1>1, <1>2, <2>2, <2>3, <2>4 DEF EndsOnce
<1>g. FaithfulForwarding'
  <2>1. Forwarded' = Forwarded \cup (n + 1 .. n + m)
    <3>1. ASSUME NEW i \in Forwarded' PROVE i \in Forwarded \/ i \in n + 1 .. n + m
      BY <1>1, <1>8, <1>9, <1>11, <3>1 DEF Forwarded, IsAgent
    <3>2. ASSUME NEW i \in Forwarded PROVE i \in Forwarded'
      BY <1>1, <1>8 DEF Forwarded
    <3>3. ASSUME NEW i \in n + 1 .. n + m PROVE i \in Forwarded'
      <4>1. i - n \in DOMAIN channel /\ i = n + (i - n)
        BY <1>5
      <4> QED
        BY <1>1, <1>10, <4>1 DEF Forwarded, IsAgent
    <3> QED
      BY <3>1, <3>2, <3>3
  <2>2. /\ Len(channel) \in Nat /\ m <= Len(channel) /\ DOMAIN channel = 1 .. Len(channel)
        /\ Len(channel') = Len(channel) - m /\ DOMAIN channel' = 1 .. Len(channel')
        /\ \A i \in 1 .. Len(channel') : channel'[i] = channel[m + i]
    BY <1>1, <1>4, <1>5
  <2>3. \A i \in 1 .. m : events'[n + i].event = channel[i].event
    BY <1>5, <1>10
  <2>4. ForwardsFirst(n, m)
    BY <1>1, <1>3, <1>6, <2>1, <2>2, <2>3 DEF ForwardsFirst
  <2> QED
    BY <2>4, ForwardsMore DEF StreamInv
<1>h. AbortsAsked'
  <2>1. ASSUME NEW i \in DOMAIN events', IsAgent(events'[i]), events'[i].event = "RunAborted"
        PROVE  events'[i].run \in asked \/ (shutdownRequested /\ events'[i].run = runCount)
    <3>1. CASE i \in DOMAIN events
      BY <1>8, <2>1, <3>1 DEF StreamInv, AbortsAsked, OnlyAskedRunsAbort, IsAgent
    <3>2. CASE i \notin DOMAIN events
      <4>1. PICK k \in DOMAIN channel : i = n + k
        BY <1>9, <1>11, <2>1, <3>2
      <4> QED
        BY <1>10, <2>1, <4>1 DEF StreamInv, AbortsAsked
    <3> QED
      BY <3>1, <3>2
  <2> QED
    BY <1>1, <2>1 DEF AbortsAsked, OnlyAskedRunsAbort, IsAgent
<1> QED
  BY <1>2, <1>a, <1>b, <1>d, <1>e, <1>g, <1>h DEF StreamInv

LEMMA InitStream == Init => StreamInv
<1> SUFFICES ASSUME Init PROVE StreamInv
  OBVIOUS
<1> DEFINE e == State(Activity("Idle", 0))
<1>1. /\ pc = "idle" /\ runCount = 0 /\ channel = <<>> /\ runLog = <<>> /\ events = <<e>>
  BY DEF Init
<1>2. e \in ControllerEvent /\ ~OfRun(e)
  <2>1. Activity("Idle", 0) \in [state : ActivityState, run : Nat]
    BY DEF Activity, ActivityState
  <2> QED
    BY <2>1, EventsTyped
<1>3. ~IsAgent(e) /\ ~IsAccepted(e) /\ \A r : ~EndsRun(e, r)
  BY <1>2 DEF OfRun, IsAgent, IsAccepted, EndsRun
<1> HIDE DEF e
<1>4. /\ DOMAIN events = {1} /\ events[1] = e /\ DOMAIN channel = {}
      /\ Len(channel) = 0 /\ Len(runLog) = 0
  BY <1>1
<1>5. ~Live
  BY <1>1 DEF Live
<1>a. StreamTyped
  BY <1>1, <1>2 DEF StreamTyped
<1>b. Numbered
  BY <1>1, <1>2, <1>3, <1>4, <1>5 DEF Numbered
<1>d. \A i \in DOMAIN events : AgentAt(i) /\ QuietAt(i)
  BY <1>3, <1>4 DEF AgentAt, QuietAt
<1>e. EndsOnce
  BY <1>1, <1>3, <1>4, <1>5 DEF EndsOnce, EndForwarded, EndWaits
<1>g. FaithfulForwarding
  <2>1. Forwarded = {}
    BY <1>3, <1>4 DEF Forwarded, IsAgent
  <2>2. Cardinality(Forwarded) = 0
    BY <2>1, FS_EmptySet
  <2> QED
    BY <1>1, <1>4, <2>1, <2>2 DEF FaithfulForwarding
<1>h. AbortsAsked
  BY <1>3, <1>4 DEF AbortsAsked, OnlyAskedRunsAbort, IsAgent
<1> QED
  BY <1>5, <1>a, <1>b, <1>d, <1>e, <1>g, <1>h, InitOwn DEF StreamInv

LEMMA StepStream == StreamInv /\ [Next]_vars => StreamInv'
<1> SUFFICES ASSUME StreamInv, [Next]_vars PROVE StreamInv'
  OBVIOUS
<1>1. OwnInv /\ OwnInv'
  BY StepOwn DEF StreamInv
<1>2. CASE Quiet
  BY <1>1, <1>2, QuietSteps, QuietStream
<1> QED
  BY <1>1, <1>2, AcceptStream, EmitStream, AnnounceStream, ForwardStream, StopStream,
     AbortStream, SettleStream
     DEF Next, TaskStep, Answers, Terminated, Quiet

LEMMA StreamHolds == Spec => []StreamInv
  BY InitStream, StepStream, PTL DEF Spec

(* Nothing is lost on the way from a run to a frontend, and what arrives   *)
(* can be told apart: each run's events between its prompt and the next    *)
(* Idle or Stopped, with exactly one terminal event.                       *)
THEOREM ControllerEventsDelivered == Spec => []EventsDelivered
<1>1. StreamInv => EventsDelivered
  <2> SUFFICES ASSUME StreamInv PROVE RunsAreDelimited
    BY DEF EventsDelivered, StreamInv
  <2>1. ASSUME NEW i \in DOMAIN events, events[i].kind = "Agent"
        PROVE  /\ events[i].request = events[i].run
               /\ \E j \in 1 .. i - 1 :
                    /\ events[j] = PromptAccepted(events[i].run)
                    /\ \A k \in j + 1 .. i - 1 : ~Separates(events[k])
    BY <2>1 DEF StreamInv, AgentAt, IsAgent
  <2>2. ASSUME NEW i \in DOMAIN events, IsQuiet(events[i]),
               NEW j \in 1 .. i - 1, events[j].kind = "PromptAccepted"
        PROVE  \E k \in j .. i :
                 /\ EndsRun(events[k], events[j].run)
                 /\ \A m \in j .. i : EndsRun(events[m], events[j].run) => m = k
    <3>1. DOMAIN events = 1 .. Len(events) /\ Len(events) \in Nat
      BY DEF StreamInv, StreamTyped
    <3>2. \A k \in j .. i : k \in DOMAIN events
      BY <3>1
    <3>3. j \in DOMAIN events
      BY <3>1
    <3>4. events[j].run \in 1 .. runCount
      BY <2>2, <3>3 DEF StreamInv, Numbered, OfRun
    <3>5. PICK k \in j .. i : EndsRun(events[k], events[j].run)
      BY <2>2 DEF StreamInv, QuietAt, IsAccepted
    <3>6. \A m \in j .. i : EndsRun(events[m], events[j].run) => m = k
      BY <3>2, <3>4, <3>5 DEF StreamInv, EndsOnce
    <3> QED
      BY <3>5, <3>6
  <2> QED
    BY <2>1, <2>2 DEF RunsAreDelimited
<1> QED
  BY <1>1, StreamHolds, PTL

(* A run is aborted only when a caller who was told its number asked for   *)
(* it, or the shutdown did: no cancellation carries over to the next run.  *)
THEOREM ControllerOnlyAskedRunsAbort == Spec => []OnlyAskedRunsAbort
<1>1. StreamInv => OnlyAskedRunsAbort
  BY DEF StreamInv, AbortsAsked
<1> QED
  BY <1>1, StreamHolds, PTL

-----------------------------------------------------------------------------
(***************************************************************************)
(* What a frontend that follows the stream relies on besides: when a       *)
(* prompt is announced or refused, or an error is reported, every run      *)
(* before it has ended; a run emits nothing after its end; and the task    *)
(* knows of an end that it has forwarded.                                  *)
(***************************************************************************)

(* The run of every prompt before event k has ended before k.              *)
AllEnded(k) ==
  \A j \in 1 .. k - 1 : IsAccepted(events[j]) =>
    \E m \in j .. k - 1 : EndsRun(events[m], events[j].run)

OrderAt(k) ==
  /\ events[k].kind \in {"PromptAccepted", "PromptRejected", "ControllerError"} => AllEnded(k)
  /\ events[k].kind = "ControllerError" =>
       \E j \in 1 .. k - 1 :
         /\ IsAccepted(events[j])
         /\ \A i \in j + 1 .. k - 1 : ~Separates(events[i])
  /\ IsAgent(events[k]) => \A i \in 1 .. k - 1 : ~EndsRun(events[i], events[k].run)
  /\ IsAccepted(events[k]) =>
       \A j \in 1 .. k - 1 : IsAccepted(events[j]) => events[j].run < events[k].run

LogEndsRun ==
  \A p \in DOMAIN runLog : runLog[p].kind \in Run!TerminalKinds =>
    p = Len(runLog) /\ runPhase = "Ended"

StreamOrder ==
  /\ \A k \in DOMAIN events : OrderAt(k)
  /\ LogEndsRun
  /\ Live /\ EndForwarded(runCount) => terminalSeen

(* A run whose end was forwarded has ended behind its prompt.              *)
LEMMA EndedBehind ==
  ASSUME StreamInv, NEW j \in DOMAIN events, IsAccepted(events[j]), EndForwarded(events[j].run)
  PROVE  \E m \in j .. Len(events) : EndsRun(events[m], events[j].run)
<1>1. PICK m \in DOMAIN events : EndsRun(events[m], events[j].run)
  BY DEF EndForwarded
<1>2. j <= m
  BY <1>1, EndAfterPrompt
<1>3. DOMAIN events = 1 .. Len(events) /\ Len(events) \in Nat
  BY DEF StreamInv, StreamTyped
<1> QED
  BY <1>1, <1>2, <1>3

(* The end of the current run is the last of its log, so nothing waits     *)
(* behind it in the channel.                                               *)
LEMMA EndIsLast ==
  ASSUME StreamInv, LogEndsRun, pc # "aborted"
  PROVE  /\ \A i \in DOMAIN events : EndsRun(events[i], runCount) =>
              /\ channel = <<>> /\ runLog # <<>>
              /\ events[i].event = runLog[Len(runLog)].kind
         /\ \A i \in DOMAIN channel : Ends(channel[i]) => i = Len(channel)
<1> PICK F : F = Forwarded
  OBVIOUS
<1> PICK c : c = Cardinality(Forwarded)
  OBVIOUS
<1>1. /\ c + Len(channel) = Len(runLog)
      /\ \A i \in F : events[i].event = runLog[Place(i)].kind
      /\ \A i \in DOMAIN channel : channel[i].event = runLog[c + i].kind
  BY DEF StreamInv, FaithfulForwarding
<1>2. /\ channel \in Seq([run : Nat, event : AgentKind]) /\ runLog \in Seq([kind : AgentKind])
      /\ Len(channel) \in Nat /\ DOMAIN channel = 1 .. Len(channel)
      /\ Len(runLog) \in Nat /\ DOMAIN runLog = 1 .. Len(runLog)
  BY DEF StreamInv, OwnInv, TypeOK
<1>3. F \in SUBSET (1 .. Len(events)) /\ Len(events) \in Nat
  BY DEF Forwarded, StreamInv, StreamTyped
<1>4. c \in Nat /\ \A i \in F : Place(i) \in 1 .. c
  <2>1. IsFiniteSet(1 .. Len(events))
    BY <1>3, FS_Interval
  <2>2. IsFiniteSet(F)
    BY <1>3, <2>1, FS_Subset
  <2>3. c \in Nat
    BY <2>2, FS_CardinalityType
  <2>4. ASSUME NEW i \in F PROVE Place(i) \in 1 .. c
    <3> DEFINE G == {j \in F : j <= i}
    <3>1. G \in SUBSET F /\ i \in G
      BY <1>3
    <3>2. IsFiniteSet(G) /\ Cardinality(G) <= c /\ Cardinality(G) \in Nat
      BY <2>2, <3>1, FS_Subset, FS_CardinalityType
    <3>3. Cardinality(G) # 0
      BY <3>1, <3>2, FS_EmptySet
    <3> QED
      BY <2>3, <3>2, <3>3 DEF Place
  <2> QED
    BY <2>3, <2>4
<1>5. ASSUME NEW i \in DOMAIN events, EndsRun(events[i], runCount)
      PROVE  /\ channel = <<>> /\ runLog # <<>>
             /\ events[i].event = runLog[Len(runLog)].kind
  <2>1. i \in F /\ events[i].event \in Run!TerminalKinds
    BY <1>5 DEF EndsRun, Forwarded
  <2>2. PICK p : p = Place(i)
    OBVIOUS
  <2>3. p \in 1 .. c /\ events[i].event = runLog[p].kind
    BY <1>1, <1>4, <2>1, <2>2
  <2>4. p \in DOMAIN runLog
    BY <1>1, <1>2, <1>4, <2>3
  <2>5. p = Len(runLog)
    BY <2>1, <2>3, <2>4 DEF LogEndsRun
  <2>6. Len(channel) = 0
    BY <1>1, <1>2, <1>4, <2>3, <2>5
  <2> QED
    BY <1>2, <2>3, <2>4, <2>5, <2>6
<1>6. ASSUME NEW i \in DOMAIN channel, Ends(channel[i]) PROVE i = Len(channel)
  <2>1. c + i \in DOMAIN runLog /\ runLog[c + i].kind \in Run!TerminalKinds
    BY <1>1, <1>2, <1>4, <1>6 DEF Ends
  <2>2. c + i = Len(runLog)
    BY <2>1 DEF LogEndsRun
  <2> QED
    BY <1>1, <1>2, <1>4, <2>2
<1> QED
  BY <1>5, <1>6

(* What holds of an event and those before it still does when others follow. *)
LEMMA OldOrder ==
  ASSUME Grows, NEW k \in DOMAIN events, OrderAt(k)
  PROVE  OrderAt(k)'
<1>1. /\ k \in Nat /\ \A i \in 1 .. k : events'[i] = events[i]
      /\ \A i \in 1 .. k - 1 : i \in 1 .. k /\ events'[i] = events[i]
      /\ k \in 1 .. k /\ events'[k] = events[k]
  BY DEF Grows
<1>2. ASSUME AllEnded(k), NEW j \in 1 .. k - 1, IsAccepted(events'[j])
      PROVE  \E m \in j .. k - 1 : EndsRun(events'[m], events'[j].run)
  <2>1. PICK m \in j .. k - 1 : EndsRun(events[m], events[j].run)
    BY <1>1, <1>2 DEF AllEnded
  <2>2. events'[m] = events[m] /\ events'[j] = events[j]
    BY <1>1
  <2> QED
    BY <2>1, <2>2
<1>3. AllEnded(k) => AllEnded(k)'
  BY <1>2 DEF AllEnded
<1>4. ASSUME NEW j \in 1 .. k - 1, IsAccepted(events[j]),
             \A i \in j + 1 .. k - 1 : ~Separates(events[i])
      PROVE  IsAccepted(events'[j]) /\ \A i \in j + 1 .. k - 1 : ~Separates(events'[i])
  <2>1. \A i \in j + 1 .. k - 1 : i \in 1 .. k - 1
    BY <1>1
  <2> QED
    BY <1>1, <1>4, <2>1
<1>5. events[k].kind = "ControllerError" =>
        \E j \in 1 .. k - 1 :
          IsAccepted(events'[j]) /\ \A i \in j + 1 .. k - 1 : ~Separates(events'[i])
  BY <1>4 DEF OrderAt
<1>6. IsAgent(events[k]) => \A i \in 1 .. k - 1 : ~EndsRun(events'[i], events'[k].run)
  BY <1>1 DEF OrderAt
<1>7. IsAccepted(events[k]) =>
        \A j \in 1 .. k - 1 : IsAccepted(events'[j]) => events'[j].run < events'[k].run
  BY <1>1 DEF OrderAt
<1> QED
  BY <1>1, <1>3, <1>5, <1>6, <1>7 DEF OrderAt

(* An event that belongs to no run and is no error, and comes when every   *)
(* run before it has ended if it refuses a prompt.                         *)
LEMMA QuietOrder == StreamInv /\ StreamOrder /\ StreamInv' /\ QuietStep => StreamOrder'
<1> SUFFICES ASSUME StreamInv, StreamOrder, StreamInv', QuietStep PROVE StreamOrder'
  OBVIOUS
<1>1. Grows /\ \A i \in DOMAIN events' \ DOMAIN events : events'[i] \in Remarks
  BY QuietGrows DEF StreamInv
<1>2. PICK n : n = Len(events)
  OBVIOUS
<1>3. /\ n \in Nat /\ DOMAIN events = 1 .. n /\ \A i \in 1 .. n : events'[i] = events[i]
  BY <1>1, <1>2 DEF Grows
<1>4. ASSUME NEW k \in DOMAIN events', k \notin DOMAIN events
      PROVE  /\ k = n + 1 /\ ~OfRun(events'[k])
             /\ \/ events'[k].kind = "StateChanged"
                \/ events'[k].kind = "PromptRejected" /\ pc = "idle"
  <2>1. events' # events
    BY <1>4
  <2>2. PICK e \in Remarks : /\ events' = Append(events, e)
                             /\ e.kind = "StateChanged" \/ (e.kind = "PromptRejected" /\ pc = "idle")
    BY <2>1 DEF QuietStep
  <2>3. e \in ControllerEvent /\ events \in Seq(ControllerEvent) /\ ~OfRun(e)
    BY <2>2 DEF Remarks, StreamInv, StreamTyped
  <2>4. DOMAIN events' = 1 .. n + 1 /\ events'[n + 1] = e
    BY <1>2, <2>2, <2>3, Appended
  <2> QED
    BY <1>3, <1>4, <2>2, <2>3, <2>4
<1>5. ASSUME NEW k \in DOMAIN events' PROVE OrderAt(k)'
  <2>1. CASE k \in DOMAIN events
    BY <1>1, <2>1, OldOrder DEF StreamOrder
  <2>2. CASE k \notin DOMAIN events /\ events'[k].kind = "StateChanged"
    BY <2>2 DEF OrderAt, IsAgent, IsAccepted
  <2>3. CASE k \notin DOMAIN events /\ events'[k].kind = "PromptRejected"
    <3>1. k = n + 1 /\ k - 1 = n /\ pc = "idle"
      BY <1>3, <1>4, <2>3
    <3>2. ASSUME NEW j \in 1 .. n, IsAccepted(events'[j])
          PROVE  \E m \in j .. n : EndsRun(events'[m], events'[j].run)
      <4>1. j \in DOMAIN events /\ events'[j] = events[j] /\ IsAccepted(events[j])
        BY <1>3, <3>2
      <4>2. events[j].run \in 1 .. runCount
        BY <4>1 DEF StreamInv, Numbered, IsAccepted, OfRun
      <4>3. EndForwarded(events[j].run)
        BY <3>1, <4>2 DEF StreamInv, EndsOnce
      <4>4. PICK m \in j .. n : EndsRun(events[m], events[j].run)
        BY <1>2, <4>1, <4>3, EndedBehind
      <4>5. events'[m] = events[m]
        BY <1>3, <4>4
      <4> QED
        BY <4>1, <4>4, <4>5
    <3>3. AllEnded(k)'
      BY <3>1, <3>2 DEF AllEnded
    <3> QED
      BY <2>3, <3>3 DEF OrderAt, IsAgent, IsAccepted
  <2> QED
    BY <1>4, <2>1, <2>2, <2>3
<1>6. LogEndsRun'
  BY DEF QuietStep, StreamOrder, LogEndsRun
<1>7. Live' /\ EndForwarded(runCount)' => terminalSeen'
  <2> SUFFICES ASSUME Live', EndForwarded(runCount)' PROVE terminalSeen'
    OBVIOUS
  <2>1. Live /\ UNCHANGED <<runCount, terminalSeen>>
    BY DEF QuietStep, Live
  <2>2. PICK i \in DOMAIN events' : EndsRun(events'[i], runCount)
    BY <2>1 DEF EndForwarded
  <2>3. i \in DOMAIN events
    BY <1>4, <2>2 DEF EndsRun, OfRun
  <2>4. EndForwarded(runCount)
    BY <1>3, <2>2, <2>3 DEF EndForwarded
  <2> QED
    BY <2>1, <2>4 DEF StreamOrder
<1> QED
  BY <1>5, <1>6, <1>7 DEF StreamOrder

LEMMA AnnounceOrder == StreamInv /\ StreamOrder /\ StreamInv' /\ Announce => StreamOrder'
<1> SUFFICES ASSUME StreamInv, StreamOrder, StreamInv', Announce PROVE StreamOrder'
  OBVIOUS
<1> DEFINE p == PromptAccepted(runCount)
           q == State(activity)
<1>1. /\ pc = "announce" /\ events' = events \o <<p, q>> /\ runCount \in Nat
      /\ activity \in [state : ActivityState, run : Nat]
      /\ UNCHANGED <<runCount, runPhase, runLog>>
  BY DEF Announce, runVars, StreamInv, OwnInv, TypeOK
<1>2. /\ p \in ControllerEvent /\ q \in ControllerEvent /\ p.kind = "PromptAccepted"
      /\ p.run = runCount /\ q.kind = "StateChanged"
  BY <1>1, EventsTyped DEF PromptAccepted, State
<1> HIDE DEF p, q
<1>3. PICK n \in Nat : n = Len(events)
  BY DEF StreamInv, StreamTyped
<1>4. /\ Grows /\ Len(events') = n + 2 /\ events'[n + 1] = p /\ events'[n + 2] = q
  <2> DEFINE s == <<p, q>>
  <2>1. s \in Seq(ControllerEvent) /\ Len(s) = 2 /\ s[1] = p /\ s[2] = q
    BY <1>2
  <2>2. events' = events \o s
    BY <1>1
  <2> HIDE DEF s
  <2>3. /\ Grows /\ Len(events') = Len(events) + Len(s)
        /\ \A i \in 1 .. Len(s) : events'[Len(events) + i] = s[i]
    BY <2>1, <2>2, StreamGrows DEF StreamInv
  <2>4. 1 \in 1 .. Len(s) /\ 2 \in 1 .. Len(s)
    BY <2>1
  <2> QED
    BY <1>3, <2>1, <2>3, <2>4
<1>5. /\ DOMAIN events = 1 .. n /\ DOMAIN events' = 1 .. n + 2
      /\ \A i \in 1 .. n : events'[i] = events[i]
  BY <1>3, <1>4 DEF Grows
<1>6. ASSUME NEW j \in 1 .. n, IsAccepted(events[j])
      PROVE  /\ events[j].run \in Nat /\ events[j].run < runCount
             /\ \E m \in j .. n : EndsRun(events[m], events[j].run)
  <2>1. events[j].run \in 1 .. runCount /\ events[j].run # runCount
    BY <1>1, <1>5, <1>6 DEF StreamInv, Numbered, IsAccepted, OfRun
  <2>2. EndForwarded(events[j].run)
    BY <2>1 DEF StreamInv, EndsOnce
  <2>3. j \in DOMAIN events
    BY <1>5
  <2>4. \E m \in j .. Len(events) : EndsRun(events[m], events[j].run)
    BY <1>6, <2>2, <2>3, EndedBehind
  <2> QED
    BY <1>1, <1>3, <2>1, <2>4
<1>7. OrderAt(n + 1)'
  <2>1. (n + 1) - 1 = n /\ events'[n + 1].kind = "PromptAccepted"
    BY <1>2, <1>4
  <2>2. ASSUME NEW j \in 1 .. n, IsAccepted(events'[j])
        PROVE  /\ events'[j].run < events'[n + 1].run
               /\ \E m \in j .. n : EndsRun(events'[m], events'[j].run)
    <3>1. events'[j] = events[j] /\ \A m \in j .. n : events'[m] = events[m]
      BY <1>5
    <3> QED
      BY <1>2, <1>4, <1>6, <2>2, <3>1
  <2>3. AllEnded(n + 1)'
    BY <2>1, <2>2 DEF AllEnded
  <2> QED
    BY <2>1, <2>2, <2>3 DEF OrderAt, IsAgent
<1>8. ASSUME NEW k \in DOMAIN events' PROVE OrderAt(k)'
  <2>1. CASE k \in DOMAIN events
    BY <1>4, <2>1, OldOrder DEF StreamOrder
  <2>2. CASE k = n + 1
    BY <1>7, <2>2
  <2>3. CASE k = n + 2
    BY <1>2, <1>4, <2>3 DEF OrderAt, IsAgent, IsAccepted
  <2> QED
    BY <1>3, <1>5, <2>1, <2>2, <2>3
<1>9. LogEndsRun'
  BY <1>1 DEF StreamOrder, LogEndsRun
<1>10. ~EndForwarded(runCount)'
  <2> SUFFICES ASSUME NEW i \in DOMAIN events', EndsRun(events'[i], runCount) PROVE FALSE
    BY <1>1 DEF EndForwarded
  <2>1. i \in DOMAIN events
    BY <1>2, <1>3, <1>4, <1>5 DEF EndsRun
  <2> QED
    BY <1>1, <1>5, <2>1 DEF StreamInv, Numbered, EndsRun, OfRun
<1> QED
  BY <1>8, <1>9, <1>10 DEF StreamOrder

(* The first of the channel's events is forwarded: no end came before.     *)
LEMMA ForwardOrder == StreamInv /\ StreamOrder /\ StreamInv' /\ ForwardEvent => StreamOrder'
<1> SUFFICES ASSUME StreamInv, StreamOrder, StreamInv', ForwardEvent PROVE StreamOrder'
  OBVIOUS
<1> PICK x : x = Head(channel)
  OBVIOUS
<1> DEFINE e == Agent(active, x)
<1>1. /\ pc = "select" /\ channel # <<>> /\ events' = Append(events, e)
      /\ terminalSeen' = (terminalSeen \/ x.event \in Run!TerminalKinds)
      /\ UNCHANGED <<runCount, runPhase, runLog>>
  BY DEF ForwardEvent, runVars
<1>2. /\ x \in [run : Nat, event : AgentKind] /\ x.run = runCount /\ active \in Nat
  <2>1. channel \in Seq([run : Nat, event : AgentKind]) /\ active \in Nat
    BY DEF StreamInv, OwnInv, TypeOK
  <2> DEFINE S == [run : Nat, event : AgentKind]
  <2>3. channel \in Seq(S) /\ channel # <<>>
    BY <1>1, <2>1
  <2> HIDE DEF S
  <2>4. /\ Len(channel) \in Nat \ {0} /\ DOMAIN channel = 1 .. Len(channel)
        /\ Head(channel) = channel[1] /\ Head(channel) \in S
    BY <2>3, HeadTaken
  <2>2. x = channel[1] /\ 1 \in DOMAIN channel /\ x \in [run : Nat, event : AgentKind]
    BY <2>4 DEF S
  <2> QED
    BY <2>1, <2>2 DEF StreamInv, Numbered
<1>3. /\ e \in ControllerEvent /\ IsAgent(e) /\ ~IsAccepted(e) /\ e.run = runCount
      /\ e.event = x.event /\ e.kind = "Agent"
  <2>1. /\ e \in ControllerEvent /\ IsAgent(e) /\ ~IsAccepted(e)
        /\ e.run = x.run /\ e.event = x.event
    BY <1>2, EventsTyped
  <2> QED
    BY <1>2, <2>1 DEF IsAgent
<1> HIDE DEF e
<1>4. PICK n \in Nat : n = Len(events)
  BY DEF StreamInv, StreamTyped
<1>5. /\ Grows /\ DOMAIN events = 1 .. n /\ DOMAIN events' = 1 .. n + 1
      /\ events'[n + 1] = e /\ \A i \in 1 .. n : events'[i] = events[i]
  BY <1>1, <1>3, <1>4, Appended DEF StreamInv, StreamTyped, Grows
<1>6. \A i \in 1 .. n : ~EndsRun(events[i], runCount)
  BY <1>1, <1>5, EndIsLast DEF StreamOrder
<1>7. ASSUME NEW k \in DOMAIN events' PROVE OrderAt(k)'
  <2>1. CASE k \in DOMAIN events
    BY <1>5, <2>1, OldOrder DEF StreamOrder
  <2>2. CASE k = n + 1
    <3>1. k - 1 = n
      BY <1>4, <2>2
    <3>2. \A i \in 1 .. n : ~EndsRun(events'[i], events'[k].run)
      BY <1>3, <1>5, <1>6, <2>2
    <3> QED
      BY <1>3, <1>5, <2>2, <3>1, <3>2 DEF OrderAt
  <2> QED
    BY <1>4, <1>5, <2>1, <2>2
<1>8. LogEndsRun'
  BY <1>1 DEF StreamOrder, LogEndsRun
<1>9. ASSUME EndForwarded(runCount)' PROVE terminalSeen'
  <2>1. PICK i \in DOMAIN events' : EndsRun(events'[i], runCount)
    BY <1>1, <1>9 DEF EndForwarded
  <2>2. i = n + 1
    BY <1>4, <1>5, <1>6, <2>1
  <2> QED
    BY <1>1, <1>3, <1>5, <2>1, <2>2 DEF EndsRun
<1> QED
  BY <1>7, <1>8, <1>9 DEF StreamOrder

LEMMA SettleOrder == StreamInv /\ StreamOrder /\ StreamInv' /\ Settle => StreamOrder'
<1> SUFFICES ASSUME StreamInv, StreamOrder, StreamInv', Settle PROVE StreamOrder'
  OBVIOUS
<1>1. /\ pc = "polling" /\ pc' = "idle" /\ runCount \in Nat \ {0} /\ Live /\ ~Live'
      /\ UNCHANGED <<runCount, runPhase, runLog>>
  BY DEF Settle, runVars, Live, StreamInv, OwnInv, TypeOK, PlaceOfRun
<1>2. PICK n \in Nat : n = Len(events)
  BY DEF StreamInv, StreamTyped
<1>3. PICK m \in Nat : m = Len(channel)
  BY DEF StreamInv, OwnInv, TypeOK
<1>4. /\ Grows /\ n + m <= Len(events')
      /\ \A i \in 1 .. m : events'[n + i] = Agent(active, channel[i])
      /\ \A i \in n + m + 1 .. Len(events') :
           /\ ~OfRun(events'[i]) /\ events'[i].kind \in {"StateChanged", "ControllerError"}
           /\ i # n + m + 1 => events'[i].kind = "StateChanged"
  BY <1>2, <1>3, SettledEvents
<1>5. /\ DOMAIN events = 1 .. n /\ DOMAIN events' = 1 .. Len(events') /\ Len(events') \in Nat
      /\ DOMAIN channel = 1 .. m /\ \A i \in 1 .. n : events'[i] = events[i]
  BY <1>2, <1>3, <1>4 DEF Grows, StreamInv, OwnInv, TypeOK
<1>6. ASSUME NEW i \in 1 .. m
      PROVE  /\ IsAgent(events'[n + i]) /\ ~IsAccepted(events'[n + i])
             /\ ~Separates(events'[n + i]) /\ events'[n + i].kind = "Agent"
             /\ events'[n + i].run = runCount /\ events'[n + i].event = channel[i].event
  <2>1. channel[i] \in [run : Nat, event : AgentKind] /\ channel[i].run = runCount /\ active \in Nat
    BY <1>5, Elements DEF StreamInv, OwnInv, TypeOK, Numbered
  <2> QED
    BY <1>4, <2>1, EventsTyped DEF IsAgent
<1>7. ASSUME NEW i \in n + 1 .. n + m
      PROVE  /\ i - n \in 1 .. m /\ n + (i - n) = i
             /\ IsAgent(events'[i]) /\ ~IsAccepted(events'[i]) /\ ~Separates(events'[i])
             /\ events'[i].kind = "Agent" /\ events'[i].run = runCount
             /\ events'[i].event = channel[i - n].event
  <2>1. i - n \in 1 .. m /\ n + (i - n) = i
    BY <1>2, <1>3
  <2> QED
    BY <1>6, <2>1
<1>8. /\ \A i \in 1 .. n : EndsRun(events[i], runCount) => m = 0
      /\ \A i \in 1 .. m : Ends(channel[i]) => i = m
  BY <1>1, <1>3, <1>5, EndIsLast DEF StreamOrder
<1>9. ASSUME NEW k \in n + 1 .. n + m PROVE OrderAt(k)'
  <2>1. ASSUME NEW i \in 1 .. k - 1, EndsRun(events'[i], runCount) PROVE FALSE
    <3>1. CASE i <= n
      BY <1>2, <1>3, <1>5, <1>8, <1>9, <2>1, <3>1
    <3>2. CASE i > n
      <4>1. i \in n + 1 .. n + m /\ i - n # m
        BY <1>2, <1>3, <1>9, <2>1, <3>2
      <4>2. i - n \in 1 .. m /\ Ends(channel[i - n])
        BY <1>7, <2>1, <4>1 DEF EndsRun, Ends
      <4> QED
        BY <1>8, <4>1, <4>2
    <3> QED
      BY <1>2, <2>1, <3>1, <3>2
  <2> QED
    BY <1>7, <1>9, <2>1 DEF OrderAt
<1>10. ASSUME NEW j \in 1 .. n, IsAccepted(events[j])
       PROVE  \E i \in j .. n + m : EndsRun(events'[i], events[j].run)
  <2>1. events[j].run \in 1 .. runCount /\ j \in DOMAIN events
    BY <1>5, <1>10 DEF StreamInv, Numbered, IsAccepted, OfRun
  <2>a. PICK r : r = events[j].run
    OBVIOUS
  <2>b. r \in 1 .. runCount'
    BY <1>1, <2>1, <2>a
  <2>2. EndForwarded(r)'
    BY <1>1, <2>b DEF StreamInv, EndsOnce
  <2>3. PICK i \in DOMAIN events' : EndsRun(events'[i], events[j].run)
    BY <2>2, <2>a DEF EndForwarded
  <2>4. i \in 1 .. n + m
    BY <1>2, <1>3, <1>4, <1>5, <2>3 DEF EndsRun, OfRun
  <2>5. j <= i
    <3>1. CASE i \in 1 .. n
      <4>1. i \in DOMAIN events /\ EndsRun(events[i], events[j].run)
        BY <1>5, <2>3, <3>1
      <4> QED
        BY <1>10, <2>1, <4>1, EndAfterPrompt
    <3>2. CASE i \notin 1 .. n
      BY <1>2, <1>3, <2>4, <3>2
    <3> QED
      BY <3>1, <3>2
  <2>6. i \in j .. n + m
    BY <1>2, <1>3, <2>4, <2>5
  <2> QED
    BY <2>3, <2>6
<1>11. ASSUME events'[n + m + 1].kind = "ControllerError", n + m + 1 \in DOMAIN events'
       PROVE  OrderAt(n + m + 1)'
  <2>1. (n + m + 1) - 1 = n + m
    BY <1>2, <1>3
  <2>2. ASSUME NEW j \in 1 .. n + m, IsAccepted(events'[j])
        PROVE  \E i \in j .. n + m : EndsRun(events'[i], events'[j].run)
    <3>1. j \in 1 .. n /\ events'[j] = events[j]
      BY <1>2, <1>3, <1>5, <1>7, <2>2
    <3> QED
      BY <1>10, <2>2, <3>1
  <2>3. AllEnded(n + m + 1)'
    BY <2>1, <2>2 DEF AllEnded
  <2>4. PICK j \in DOMAIN events :
          /\ events[j] = PromptAccepted(runCount)
          /\ \A i \in DOMAIN events : i > j => ~Separates(events[i])
    BY <1>1 DEF StreamInv, PromptStands
  <2>5. IsAccepted(events'[j]) /\ j \in 1 .. n + m
    BY <1>1, <1>2, <1>3, <1>5, <2>4, EventsTyped
  <2>6. ASSUME NEW i \in j + 1 .. n + m PROVE ~Separates(events'[i])
    <3>1. CASE i \in 1 .. n
      BY <1>2, <1>3, <1>5, <2>4, <2>6, <3>1
    <3>2. CASE i \notin 1 .. n
      BY <1>2, <1>3, <1>5, <1>7, <2>4, <2>6, <3>2
    <3> QED
      BY <3>1, <3>2
  <2> QED
    BY <1>11, <2>1, <2>3, <2>5, <2>6 DEF OrderAt, IsAgent, IsAccepted
<1>12. ASSUME NEW k \in DOMAIN events' PROVE OrderAt(k)'
  <2>1. CASE k \in DOMAIN events
    BY <1>4, <2>1, OldOrder DEF StreamOrder
  <2>2. CASE k \in n + 1 .. n + m
    BY <1>9, <2>2
  <2>3. CASE k \in n + m + 1 .. Len(events') /\ events'[k].kind = "StateChanged"
    BY <2>3 DEF OrderAt, IsAgent, IsAccepted
  <2>4. CASE k \in n + m + 1 .. Len(events') /\ events'[k].kind # "StateChanged"
    <3>1. k = n + m + 1 /\ events'[k].kind = "ControllerError"
      BY <1>4, <2>4
    <3> QED
      BY <1>11, <1>12, <3>1
  <2> QED
    BY <1>2, <1>3, <1>5, <2>1, <2>2, <2>3, <2>4
<1>13. LogEndsRun'
  BY <1>1 DEF StreamOrder, LogEndsRun
<1> QED
  BY <1>1, <1>12, <1>13 DEF StreamOrder

LEMMA StopOrder == StreamInv /\ StreamOrder /\ StreamInv' /\ Stop => StreamOrder'
<1> SUFFICES ASSUME StreamInv, StreamOrder, StreamInv', Stop PROVE StreamOrder'
  OBVIOUS
<1> DEFINE p == State(Activity("Stopped", 0))
           q == StoppedEvent
<1>1. /\ pc' = "stopping" /\ events' = events \o <<p, q>>
      /\ UNCHANGED <<runCount, runPhase, runLog>>
  BY DEF Stop, runVars
<1>2. /\ p \in ControllerEvent /\ q \in ControllerEvent
      /\ p.kind = "StateChanged" /\ q.kind = "Stopped"
  <2>1. Activity("Stopped", 0) \in [state : ActivityState, run : Nat]
    BY DEF Activity, ActivityState
  <2> QED
    BY <2>1, EventsTyped DEF Remarks, State, StoppedEvent
<1> HIDE DEF p, q
<1>3. PICK n \in Nat : n = Len(events)
  BY DEF StreamInv, StreamTyped
<1>4. /\ Grows /\ Len(events') = n + 2 /\ events'[n + 1] = p /\ events'[n + 2] = q
  <2> DEFINE s == <<p, q>>
  <2>1. s \in Seq(ControllerEvent) /\ Len(s) = 2 /\ s[1] = p /\ s[2] = q
    BY <1>2
  <2>2. events' = events \o s
    BY <1>1
  <2> HIDE DEF s
  <2>3. /\ Grows /\ Len(events') = Len(events) + Len(s)
        /\ \A i \in 1 .. Len(s) : events'[Len(events) + i] = s[i]
    BY <2>1, <2>2, StreamGrows DEF StreamInv
  <2>4. 1 \in 1 .. Len(s) /\ 2 \in 1 .. Len(s)
    BY <2>1
  <2> QED
    BY <1>3, <2>1, <2>3, <2>4
<1>5. DOMAIN events = 1 .. n /\ DOMAIN events' = 1 .. n + 2
  BY <1>3, <1>4 DEF Grows
<1>6. ASSUME NEW k \in DOMAIN events' PROVE OrderAt(k)'
  <2>1. CASE k \in DOMAIN events
    BY <1>4, <2>1, OldOrder DEF StreamOrder
  <2>2. CASE k \notin DOMAIN events
    <3>1. events'[k].kind \in {"StateChanged", "Stopped"}
      BY <1>2, <1>3, <1>4, <1>5, <2>2
    <3> QED
      BY <3>1 DEF OrderAt, IsAgent, IsAccepted
  <2> QED
    BY <2>1, <2>2
<1>7. LogEndsRun'
  BY <1>1 DEF StreamOrder, LogEndsRun
<1>8. ~Live'
  BY <1>1 DEF Live
<1> QED
  BY <1>6, <1>7, <1>8 DEF StreamOrder

(* The steps that send nothing. *)
LEMMA SilentOrder ==
  StreamInv /\ StreamOrder /\ (AcceptPrompt \/ RunStep \/ AbortTask) => StreamOrder'
<1> SUFFICES ASSUME StreamInv, StreamOrder, AcceptPrompt \/ RunStep \/ AbortTask
             PROVE  StreamOrder'
  OBVIOUS
<1>1. events' = events
  BY DEF AcceptPrompt, RunStep, RunStarts, RunProgresses, RunEnds, Emits, AbortTask
<1>2. \A k \in DOMAIN events' : OrderAt(k)'
  BY <1>1 DEF StreamOrder, OrderAt, AllEnded
<1>3. CASE AcceptPrompt
  <2>1. runLog' = <<>> /\ ~Live'
    BY <1>3 DEF AcceptPrompt, Live
  <2> QED
    BY <1>2, <2>1 DEF StreamOrder, LogEndsRun
<1>4. CASE AbortTask
  <2>1. ~Live' /\ UNCHANGED <<runLog, runPhase>>
    BY <1>4 DEF AbortTask, Live, runVars
  <2> QED
    BY <1>2, <2>1 DEF StreamOrder, LogEndsRun
<1>5. CASE RunStep
  <2>1. PICK k \in AgentKind :
          /\ Emits(k) /\ runLog' = Append(runLog, [kind |-> k])
          /\ runPhase # "Ended" /\ (runPhase' = "Ended" <=> k \in Run!TerminalKinds)
    BY <1>5 DEF RunStep, RunStarts, RunProgresses, RunEnds, Run!EmitRunStarted, Run!EmitProgress,
           Run!EmitRunFinished, Run!EmitRunAborted, Run!EmitRunFailed, Run!End, Run!Running,
           Run!Plain, Run!TerminalKinds, AgentKind
  <2>2. /\ pc = "polling" /\ UNCHANGED <<pc, terminalSeen, runCount>>
    BY <2>1 DEF Emits, taskVars
  <2>3. runLog \in Seq([kind : AgentKind]) /\ [kind |-> k] \in [kind : AgentKind]
    BY DEF StreamInv, OwnInv, TypeOK
  <2>4. /\ Len(runLog) \in Nat /\ Len(runLog') = Len(runLog) + 1
        /\ DOMAIN runLog = 1 .. Len(runLog) /\ DOMAIN runLog' = 1 .. Len(runLog) + 1
        /\ \A i \in 1 .. Len(runLog) : runLog'[i] = runLog[i]
        /\ runLog'[Len(runLog) + 1].kind = k
    BY <2>1, <2>3, Appended
  <2>5. LogEndsRun'
    BY <2>1, <2>4 DEF StreamOrder, LogEndsRun
  <2>6. Live' /\ EndForwarded(runCount)' => terminalSeen'
    BY <1>1, <2>2 DEF StreamOrder, Live, EndForwarded
  <2> QED
    BY <1>2, <2>5, <2>6 DEF StreamOrder
<1> QED
  BY <1>3, <1>4, <1>5

LEMMA InitStreamOrder == Init => StreamOrder
<1> SUFFICES ASSUME Init PROVE StreamOrder
  OBVIOUS
<1> DEFINE e == State(Activity("Idle", 0))
<1>1. events = <<e>> /\ e.kind = "StateChanged" /\ pc = "idle" /\ runLog = <<>>
  BY DEF Init, State
<1> HIDE DEF e
<1>2. DOMAIN events = {1} /\ events[1] = e /\ DOMAIN runLog = {}
  BY <1>1
<1> QED
  BY <1>1, <1>2 DEF StreamOrder, OrderAt, IsAgent, IsAccepted, LogEndsRun, Live

LEMMA StepStreamOrder == StreamInv /\ StreamOrder /\ [Next]_vars => StreamOrder'
<1> SUFFICES ASSUME StreamInv, StreamOrder, [Next]_vars PROVE StreamOrder'
  OBVIOUS
<1>1. StreamInv' /\ OwnInv
  BY StepStream DEF StreamInv
<1>2. CASE Quiet
  BY <1>1, <1>2, QuietSteps, QuietOrder
<1> QED
  BY <1>1, <1>2, AnnounceOrder, ForwardOrder, StopOrder, SettleOrder, SilentOrder
     DEF Next, TaskStep, Answers, Terminated, Quiet

(* When a prompt is announced or refused, or an error is reported, every   *)
(* run announced before has ended, and no run emits anything after its     *)
(* end: the order in which frontends may apply what they receive.          *)
THEOREM ControllerEventsOrdered == Spec => []StreamOrder
<1>1. Init => StreamInv /\ StreamOrder
  BY InitStream, InitStreamOrder
<1>2. StreamInv /\ StreamOrder /\ [Next]_vars => (StreamInv /\ StreamOrder)'
  BY StepStream, StepStreamOrder
<1> QED
  BY <1>1, <1>2, PTL DEF Spec

-----------------------------------------------------------------------------
(***************************************************************************)
(* The end.  Only AnswerShutdown tells a caller that the controller has    *)
(* shut down, and after Stop no event is sent any more.                    *)
(***************************************************************************)

AnsweredAtTheEnd ==
  /\ \A c \in Clients : answer[c].kind = "ShutDown" => pc = "stopped"
  /\ pc \in {"stopping", "stopped"} => events[Len(events)] = StoppedEvent

EndInv == StreamInv /\ AnsweredAtTheEnd

(* Whatever else answers a caller does not say that.                       *)
LEMMA AnswersSay ==
  ASSUME TypeOK, [Next]_vars, ~AnswerShutdown, NEW c \in Clients
  PROVE  answer'[c] = answer[c] \/ answer'[c].kind # "ShutDown"
<1>1. answer \in [Clients -> AnswerType]
  BY DEF TypeOK
<1>2. ASSUME NEW d, NEW a, Reply(d, a), a.kind # "ShutDown"
      PROVE  answer'[c] = answer[c] \/ answer'[c].kind # "ShutDown"
  BY <1>1, <1>2 DEF Reply
<1>3. /\ \A k \in AnswerKind \ {"ShutDown"} : Answer(k).kind # "ShutDown"
      /\ \A k \in RunAnswerKind : \A r : AnswerOf(k, r).kind # "ShutDown"
  BY DEF Answer, AnswerOf, RunAnswerKind
<1>4. ASSUME NEW d, NEW r, Enqueue(d, r)
      PROVE  answer'[c] = answer[c] \/ answer'[c].kind # "ShutDown"
  BY <1>2, <1>3, <1>4 DEF Enqueue, AnswerKind
<1>5. CASE ClientStep
  BY <1>2, <1>3, <1>4, <1>5 DEF ClientStep, Call, CallShutdown, SendShutdown, DropHandle, AnswerKind
<1>6. CASE AbortTask
  BY <1>1, <1>3, <1>6 DEF AbortTask, AnswerKind
<1>7. CASE SwitchModel
  <2>1. PICK k \in {"InvalidModel", "Unchanged", "Changed"} : Reply(Caller, Answer(k))
    BY <1>7 DEF SwitchModel
  <2> QED
    BY <1>2, <1>3, <2>1 DEF AnswerKind
<1>8. CASE RejectPrompt \/ CancelNothing \/ AddContext \/ \E op : ReadIdle(op) \/ RefuseBusy(op)
  BY <1>2, <1>3, <1>8 DEF RejectPrompt, CancelNothing, AddContext, ReadIdle, RefuseBusy, AnswerKind
<1>9. CASE AcceptPrompt \/ AnswerSnapshot \/ CancelAgain \/ CancelRun
  BY <1>2, <1>3, <1>9 DEF AcceptPrompt, AnswerSnapshot, CancelAgain, CancelRun, RunAnswerKind
<1>10. CASE \/ Announce \/ ShutdownIdle \/ ClosedIdle \/ Stop \/ ShutdownActive \/ ClosedActive
            \/ ForwardEvent \/ PollRun \/ RunPends \/ Settle \/ RunStep \/ UNCHANGED vars
  <2>1. answer' = answer
    BY <1>10 DEF Announce, ShutdownIdle, ClosedIdle, Stop, ShutdownActive, ClosedActive,
                 ForwardEvent, PollRun, RunPends, Settle, RunStep, RunStarts, RunProgresses,
                 RunEnds, Emits, clientVars, vars
  <2> QED
    BY <2>1
<1> QED
  BY <1>5, <1>6, <1>7, <1>8, <1>9, <1>10 DEF Next, TaskStep, Terminated

LEMMA StepEnd == EndInv /\ [Next]_vars => EndInv'
<1> SUFFICES ASSUME EndInv, [Next]_vars PROVE AnsweredAtTheEnd'
  BY StepStream DEF EndInv
<1>1. /\ TypeOK /\ OwnInv /\ StreamTyped /\ AnsweredAtTheEnd
  BY DEF EndInv, StreamInv, OwnInv
<1>2. CASE Stop
  <2>1. pc' = "stopping" /\ events' = events \o <<State(activity'), StoppedEvent>> /\ pc = "idle"
    BY <1>1, <1>2 DEF Stop, MayStop, OwnInv, PlaceOfRun
  <2>2. events'[Len(events')] = StoppedEvent
    <3>1. Activity("Stopped", 0) \in [state : ActivityState, run : Nat]
      BY DEF Activity, ActivityState
    <3>2. activity' \in [state : ActivityState, run : Nat]
      BY <1>2, <3>1 DEF Stop
    <3>3. State(activity') \in ControllerEvent /\ StoppedEvent \in ControllerEvent
      BY <3>2, EventsTyped DEF Remarks
    <3> DEFINE s == <<State(activity'), StoppedEvent>>
    <3>4. s \in Seq(ControllerEvent) /\ Len(s) = 2 /\ s[2] = StoppedEvent /\ 2 \in 1 .. Len(s)
      BY <3>3
    <3>5. events' = events \o s
      BY <2>1
    <3> HIDE DEF s
    <3>6. /\ Len(events') = Len(events) + Len(s)
          /\ \A i \in 1 .. Len(s) : events'[Len(events) + i] = s[i]
      BY <1>1, <3>4, <3>5, StreamGrows
    <3> QED
      BY <3>4, <3>6
  <2>3. \A c \in Clients : answer'[c].kind # "ShutDown"
    <3>1. ~AnswerShutdown
      BY <2>1 DEF AnswerShutdown
    <3> QED
      BY <1>1, <2>1, <3>1, AnswersSay DEF AnsweredAtTheEnd
  <2> QED
    BY <2>2, <2>3 DEF AnsweredAtTheEnd
<1>3. CASE AnswerShutdown
  BY <1>1, <1>3 DEF AnswerShutdown, AnsweredAtTheEnd
<1>4. CASE ~Stop /\ ~AnswerShutdown
  <2>1. \A c \in Clients : answer'[c].kind = "ShutDown" => answer[c].kind = "ShutDown"
    BY <1>1, <1>4, AnswersSay
  <2>2. CASE Quiet
    <3>1. QuietStep
      BY <1>1, <2>2, QuietSteps
    <3>2. \/ pc' = pc
          \/ /\ pc = "select"
             /\ pc' = "polling"
          \/ /\ pc = "polling"
             /\ pc' = "select"
      <4>1. ~AnswerShutdown
        BY <1>4
      <4> QED
        BY <3>1, <4>1, Zenon DEF QuietStep
    <3>3. pc \in {"stopping", "stopped"} => events' = events
      BY <3>1 DEF QuietStep
    <3> QED
      BY <1>1, <2>1, <3>2, <3>3 DEF AnsweredAtTheEnd
  <2>3. CASE ~Quiet
    <3>1. /\ pc \notin {"stopping", "stopped"} /\ pc' \notin {"stopping", "stopped"}
      BY <1>4, <2>3 DEF Next, TaskStep, Quiet, Answers, Terminated, AbortTask, AcceptPrompt,
                     IdleReceives, Receives, Announce, ForwardEvent, Settle, RunStep, RunStarts,
                     RunProgresses, RunEnds, Emits, taskVars
    <3> QED
      BY <1>1, <2>1, <3>1 DEF AnsweredAtTheEnd
  <2> QED
    BY <2>2, <2>3
<1> QED
  BY <1>2, <1>3, <1>4

(* Whoever was told that the controller has shut down finds everything     *)
(* settled and Stopped the last event that is ever sent.                   *)
THEOREM ControllerShutdownAnsweredLast == Spec => []ShutdownAnsweredLast
<1>1. Init => EndInv
  BY InitStream DEF Init, EndInv, AnsweredAtTheEnd, Answer
<1>2. EndInv => ShutdownAnsweredLast
  BY DEF EndInv, StreamInv, AnsweredAtTheEnd, OwnInv, PlaceOfRun, ActivityOfPlace,
         ShutdownAnsweredLast
<1> QED
  BY <1>1, <1>2, StepEnd, PTL DEF Spec

-----------------------------------------------------------------------------
(***************************************************************************)
(* Busy.  With a run active the task takes no step of the idle loop, and   *)
(* the run itself only adds messages.                                      *)
(***************************************************************************)

BusyAnswers == {"Busy", "Snapshot", "AlreadyCancelling", "CancellationRequested", "Closed"}

LEMMA StepBusy ==
  ASSUME OwnInv, OwnInv', [Next]_vars, active # 0
  PROVE  /\ session'.model = session.model /\ session'.context = session.context
         /\ \A c \in Clients : answer'[c] # answer[c] => answer'[c].kind \in BusyAnswers
<1>1. /\ pc \notin {"idle", "announce", "stopping", "stopped"} /\ ~stopped
      /\ answer \in [Clients -> AnswerType] /\ session \in SessionData
  BY DEF OwnInv, OneOwner, ActivityOfPlace, TypeOK
<1>2. ASSUME NEW c, NEW a, Reply(c, a), a.kind \in BusyAnswers
      PROVE  \A d \in Clients : answer'[d] # answer[d] => answer'[d].kind \in BusyAnswers
  BY <1>1, <1>2 DEF Reply
<1>3. /\ Answer("Busy").kind \in BusyAnswers /\ Answer("Closed").kind \in BusyAnswers
      /\ \A k \in {"Snapshot", "AlreadyCancelling", "CancellationRequested"} : \A r :
           AnswerOf(k, r).kind \in BusyAnswers
  BY DEF Answer, AnswerOf, BusyAnswers
<1> HIDE DEF BusyAnswers
<1>4. CASE ClientStep
  <2>1. session' = session
    BY <1>4 DEF ClientStep, Call, CallShutdown, SendShutdown, DropHandle, dataVars
  <2>2. ASSUME NEW c, NEW r, Enqueue(c, r)
        PROVE  \A d \in Clients : answer'[d] # answer[d] => answer'[d].kind \in BusyAnswers
    BY <1>2, <1>3, <2>2 DEF Enqueue
  <2> QED
    BY <1>1, <1>4, <2>1, <2>2 DEF ClientStep, Call, CallShutdown, SendShutdown, DropHandle
<1>5. CASE AbortTask
  BY <1>1, <1>3, <1>5 DEF AbortTask, dataVars
<1>6. CASE CancelAgain \/ CancelRun \/ AnswerSnapshot \/ \E op : RefuseBusy(op)
  <2>1. session' = session
    BY <1>6 DEF CancelAgain, CancelRun, AnswerSnapshot, RefuseBusy, dataVars
  <2>2. \E a : Reply(Caller, a) /\ a.kind \in BusyAnswers
    BY <1>3, <1>6 DEF CancelAgain, CancelRun, AnswerSnapshot, RefuseBusy
  <2> QED
    BY <1>2, <2>1, <2>2
<1>7. CASE RunStep
  <2>1. session' \in {session, [session EXCEPT !.messages = @ + 1]} /\ answer' = answer
    BY <1>7 DEF RunStep, RunStarts, RunProgresses, RunEnds, KeepsMessage, Emits, clientVars
  <2> QED
    BY <1>1, <2>1 DEF SessionData
<1>8. CASE \/ ShutdownActive \/ ClosedActive \/ ForwardEvent \/ PollRun \/ RunPends \/ Settle
           \/ UNCHANGED vars
  <2>1. session' = session /\ answer' = answer
    BY <1>8 DEF ShutdownActive, ClosedActive, ForwardEvent, PollRun, RunPends, Settle, dataVars,
                clientVars, vars
  <2> QED
    BY <2>1
<1>9. ~(\/ RejectPrompt \/ AcceptPrompt \/ Announce \/ CancelNothing \/ (\E op : ReadIdle(op))
        \/ SwitchModel \/ AddContext \/ ShutdownIdle \/ ClosedIdle \/ Stop \/ AnswerShutdown)
  BY <1>1 DEF RejectPrompt, AcceptPrompt, Announce, CancelNothing, ReadIdle, SwitchModel,
              AddContext, ShutdownIdle, ClosedIdle, Stop, MayStop, AnswerShutdown, IdleReceives,
              Receives
<1> QED
  BY <1>4, <1>5, <1>6, <1>7, <1>8, <1>9 DEF Next, TaskStep, Terminated

(* While a run is active the model and the context with which it was       *)
(* accepted stay the session's, and no caller is told otherwise.           *)
THEOREM ControllerBusyMutatesNothing == Spec => BusyMutatesNothing
<1>1. OwnInv /\ OwnInv' /\ [Next]_vars =>
        [active # 0 =>
           /\ session'.model = session.model /\ session'.context = session.context
           /\ \A c \in Clients : answer'[c] # answer[c] =>
                answer'[c].kind \in {"Busy", "Snapshot", "AlreadyCancelling",
                                    "CancellationRequested", "Closed"}]_vars
  BY StepBusy DEF BusyAnswers
<1> QED
  BY <1>1, OwnHolds, PTL DEF Spec, BusyMutatesNothing
=============================================================================
