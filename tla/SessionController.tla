-------------------------- MODULE SessionController --------------------------
(***************************************************************************)
(* The permanent controller task (coding_agent/session_controller.rs): it  *)
(* owns the PromptSession and the future of the active run, takes requests *)
(* from cloned handles over a channel, forwards the run's events to the    *)
(* frontend, and settles, cancels and shuts down.                          *)
(*                                                                         *)
(* Clients are callers that each hold a clone of the handle and await one  *)
(* call at a time.  The run is known by its RunContract only, so whatever  *)
(* an engine that keeps the contract does, in any order with respect to    *)
(* the requests, is a behaviour here.  A step of the controller ends where *)
(* its task awaits, or where another party could tell the difference.      *)
(***************************************************************************)
EXTENDS Naturals, Sequences, FiniteSets

CONSTANTS
  Clients,        (* callers holding a SessionControllerHandle             *)
  Requests,       (* the requests they make: records [op, arg]             *)
  Models,         (* models the provider lists                             *)
  DefaultModel,   (* the one the session starts with                       *)
  MaxCalls,       (* bound on the calls of each client                     *)
  MaxProgress,    (* bound on the progress events of one run               *)
  AgentCap        (* AGENT_EVENT_CAPACITY                                  *)

(* The variants of ControllerRequest. *)
Operations == {"SubmitPrompt", "CancelCurrent", "Snapshot", "ListModels",
               "SwitchModel", "AddContext", "SessionTree", "Shutdown"}

ASSUME ControllerAssumption ==
  /\ DefaultModel \in Models
  /\ MaxCalls \in [Clients -> Nat]
  /\ MaxProgress \in Nat /\ AgentCap \in Nat \ {0}
  /\ \A r \in Requests : r.op \in Operations

VARIABLES
  (* the clients *)
  holds,              (* clients that still hold their handle              *)
  stage,              (* where each client's call stands                   *)
  answer,             (* the outcome of each client's last call            *)
  left,               (* calls each client may still make                  *)
  (* channels *)
  requests,           (* requests sent and not yet received                *)
  channel,            (* agent events sent and not yet received            *)
  events,             (* every SessionControllerEvent sent, oldest first   *)
  (* the controller task *)
  pc,                 (* where run_controller stands                       *)
  activity,           (* ControllerActivity                                *)
  active,             (* run_id of the active run, or 0                    *)
  terminalSeen,       (* terminal_seen of the active run                   *)
  shutdownRequested,
  replies,            (* shutdown_replies: clients owed an answer          *)
  stopped,            (* the flag shared with the handles                  *)
  cache,              (* SnapshotData                                      *)
  (* the session and the run that may own it *)
  holder,             (* who owns the PromptSession: "task" or "run"       *)
  session,            (* messages, model and context files                 *)
  runCount,           (* run_counter of the Agent                          *)
  runPhase, token, runLog, runResult,   (* the run, see RunContract        *)
  (* history, read by the properties only *)
  asked               (* runs for which CancellationRequested was answered *)

clientVars == <<holds, stage, answer, left>>
taskVars   == <<pc, activity, active, terminalSeen, shutdownRequested, replies, stopped>>
dataVars   == <<cache, holder, session>>
runVars    == <<runCount, runPhase, token, runLog, runResult>>
vars == <<holds, stage, answer, left, requests, channel, events, pc, activity,
          active, terminalSeen, shutdownRequested, replies, stopped, cache,
          holder, session, runCount, runPhase, token, runLog, runResult, asked>>

(* Tools are progress to the controller: it forwards without looking. *)
Run == INSTANCE RunContract WITH
  Calls <- {}, phase <- runPhase, open <- {}, cancelled <- token, log <- runLog,
  result <- runResult

Activity(state, r) == [state |-> state, run |-> r]

State(a)          == [kind |-> "StateChanged", activity |-> a]
PromptAccepted(r) == [kind |-> "PromptAccepted", run |-> r]
PromptRejected    == [kind |-> "PromptRejected"]
Agent(r, e)       == [kind |-> "Agent", request |-> r, run |-> e.run, event |-> e.event]
ControllerError   == [kind |-> "ControllerError"]
StoppedEvent      == [kind |-> "Stopped"]

Answer(k)      == [kind |-> k]
AnswerOf(k, r) == [kind |-> k, run |-> r]

Data(n, m, k) == [messages |-> n, model |-> m, context |-> k]

(* ControllerRequest, with the client that holds its reply channel. *)
Request == {[from |-> c, op |-> r.op, arg |-> r.arg] : c \in Clients, r \in Requests}

ActivityState == {"Idle", "Running", "Cancelling", "ShuttingDown", "Stopped"}
AgentKind     == {"RunStarted", "TextDelta"} \cup Run!TerminalKinds
AnswerKind    == {"None", "Closed", "Stopped", "Rejected", "NothingRunning", "Ok",
                  "InvalidModel", "Unchanged", "Changed", "ShutDown", "Busy"}
RunAnswerKind == {"Accepted", "Snapshot", "AlreadyCancelling", "CancellationRequested"}
AnswerType    == [kind : AnswerKind] \cup [kind : RunAnswerKind, run : Nat]
SessionData   == [messages : Nat, model : Models, context : Nat]

TypeOK ==
  /\ holds \in [Clients -> BOOLEAN]
  /\ stage \in [Clients -> {"idle", "checked", "sent"}]
  /\ answer \in [Clients -> AnswerType]
  /\ left \in [Clients -> Nat]
  /\ requests \in Seq(Request)
  /\ channel \in Seq([run : Nat, event : AgentKind]) /\ Len(channel) <= AgentCap
  /\ pc \in {"idle", "announce", "select", "polling", "stopping", "stopped", "aborted"}
  /\ activity \in [state : ActivityState, run : Nat]
  /\ active \in Nat /\ runCount \in Nat /\ asked \subseteq Nat
  /\ terminalSeen \in BOOLEAN /\ shutdownRequested \in BOOLEAN
  /\ stopped \in BOOLEAN /\ token \in BOOLEAN
  /\ replies \subseteq Clients
  /\ cache \in SessionData /\ session \in SessionData
  /\ holder \in {"task", "run"}
  /\ runPhase \in {"Ready", "Allocated", "Running", "Ended"}
  /\ runLog \in Seq([kind : AgentKind])
  /\ runResult \in {"None", "Ok", "Err"}

Init ==
  /\ holds = [c \in Clients |-> TRUE]
  /\ stage = [c \in Clients |-> "idle"]
  /\ answer = [c \in Clients |-> Answer("None")]
  /\ left = MaxCalls
  /\ requests = <<>> /\ channel = <<>>
  /\ events = <<State(Activity("Idle", 0))>>
  /\ pc = "idle"
  /\ activity = Activity("Idle", 0)
  /\ active = 0 /\ terminalSeen = FALSE
  /\ shutdownRequested = FALSE /\ replies = {} /\ stopped = FALSE
  /\ session = Data(0, DefaultModel, 0)
  /\ cache = session
  /\ holder = "task"
  /\ runCount = 0
  /\ runPhase = "Ready" /\ token = FALSE /\ runLog = <<>> /\ runResult = "None"
  /\ asked = {}

(* The receiving half of the request channel exists. *)
Listening == pc \notin {"stopped", "aborted"}

(* recv() returns None: nothing queued and every handle dropped. *)
SendersGone == requests = <<>> /\ \A c \in Clients : ~holds[c]

(* Handing a oneshot reply to a client completes its call. *)
Reply(c, a) ==
  /\ stage' = [stage EXCEPT ![c] = "idle"]
  /\ answer' = [answer EXCEPT ![c] = a]

NothingQueued == {}                 \* mutant: the receiver outlives the task

(* Clients whose queued request is dropped see their reply channel close. *)
Queued == {requests[i].from : i \in DOMAIN requests}

(* emit_state; announcing the same activity twice in a row is recorded     *)
(* once, which keeps the events of a closed channel finite.                *)
EmitState(a) ==
  IF events[Len(events)] = State(a) THEN events ELSE Append(events, State(a))

(* From here on the loop's head stops the task once no run is active. *)
RequestShutdown ==
  /\ shutdownRequested' = TRUE
  /\ activity' = Activity("ShuttingDown", 0)
  /\ events' = EmitState(activity')

CancelForgotten == UNCHANGED token  \* mutant: the run is not told

(* run.cancellation.cancel() *)
CancelActive == token' = TRUE

-----------------------------------------------------------------------------
(***************************************************************************)
(* The handles.                                                            *)
(***************************************************************************)

Enqueue(c, r) ==
  IF Listening
  THEN /\ requests' = Append(requests, [from |-> c, op |-> r.op, arg |-> r.arg])
       /\ stage' = [stage EXCEPT ![c] = "sent"]
       /\ UNCHANGED answer
  ELSE Reply(c, Answer("Closed")) /\ UNCHANGED requests

(* submit_prompt, cancel_current, snapshot and the other request methods. *)
Call(c, r) ==
  /\ holds[c] /\ stage[c] = "idle" /\ left[c] > 0
  /\ r.op # "Shutdown"
  /\ left' = [left EXCEPT ![c] = @ - 1]
  /\ Enqueue(c, r)
  /\ UNCHANGED <<holds, channel, events, taskVars, dataVars, runVars, asked>>

(* shutdown reads the stopped flag before it sends. *)
CallShutdown(c, r) ==
  /\ holds[c] /\ stage[c] = "idle" /\ left[c] > 0
  /\ r.op = "Shutdown"
  /\ left' = [left EXCEPT ![c] = @ - 1]
  /\ IF stopped
     THEN Reply(c, Answer("Stopped"))
     ELSE stage' = [stage EXCEPT ![c] = "checked"] /\ UNCHANGED answer
  /\ UNCHANGED <<holds, requests, channel, events, taskVars, dataVars, runVars, asked>>

SendShutdown(c, r) ==
  /\ stage[c] = "checked"
  /\ r.op = "Shutdown"
  /\ Enqueue(c, r)
  /\ UNCHANGED <<holds, left, channel, events, taskVars, dataVars, runVars, asked>>

DropHandle(c) ==
  /\ holds[c] /\ stage[c] = "idle"
  /\ holds' = [holds EXCEPT ![c] = FALSE]
  /\ UNCHANGED <<stage, answer, left, requests, channel, events, taskVars,
                 dataVars, runVars, asked>>

(* Dropping the SessionControllerTaskHandle aborts a task that is at an    *)
(* await: its queue, its run future and every reply it owes are dropped.   *)
AbortTask ==
  /\ pc \in {"idle", "select"}
  /\ pc' = "aborted"
  /\ LET lost == Queued \cup replies IN
       /\ stage' = [c \in Clients |-> IF c \in lost THEN "idle" ELSE stage[c]]
       /\ answer' = [c \in Clients |-> IF c \in lost THEN Answer("Closed") ELSE answer[c]]
  /\ requests' = <<>> /\ channel' = <<>> /\ replies' = {}
  /\ UNCHANGED <<holds, left, events, activity, active, terminalSeen,
                 shutdownRequested, stopped, dataVars, runVars, asked>>

-----------------------------------------------------------------------------
(***************************************************************************)
(* The task with no active run: handle_idle_request and the loop's head.   *)
(***************************************************************************)

(* The next request, which is of the given operation. *)
Receives(place, op) ==
  /\ pc = place
  /\ requests # <<>>
  /\ Head(requests).op = op
  /\ requests' = Tail(requests)

Caller   == Head(requests).from
Argument == Head(requests).arg

ReceivesAnyway(op) ==                \* mutant: the active run is not looked at
  \E place \in {"idle", "select"} : Receives(place, op)

IdleReceives(op) == ~shutdownRequested /\ Receives("idle", op)

(* classify_prompt refuses the text: the reply precedes the event. *)
RejectPrompt ==
  /\ IdleReceives("SubmitPrompt")
  /\ Argument \in {"empty", "reserved", "unknown"}
  /\ Reply(Caller, Answer("Rejected"))
  /\ events' = Append(events, PromptRejected)
  /\ UNCHANGED <<holds, left, channel, taskVars, dataVars, runVars, asked>>

TokenReused == token                \* mutant: the last run's token is kept

(* Every run gets a CancellationToken of its own. *)
FreshToken == FALSE

(* The prompt is accepted: the RunId and a fresh token are allocated and   *)
(* the caller is answered before anything is announced.                    *)
AcceptPrompt ==
  /\ IdleReceives("SubmitPrompt")
  /\ Argument = "prompt"
  /\ runCount' = runCount + 1
  /\ runPhase' = "Allocated" /\ token' = FreshToken
  /\ runLog' = <<>> /\ runResult' = "None"
  /\ activity' = Activity("Running", runCount + 1)
  /\ cache' = [cache EXCEPT !.messages = @ + 1]
  /\ Reply(Caller, AnswerOf("Accepted", runCount + 1))
  /\ pc' = "announce"
  /\ UNCHANGED <<holds, left, channel, events, active, terminalSeen,
                 shutdownRequested, replies, stopped, holder, session, asked>>

(* PromptAccepted and Running are announced, and the session moves into    *)
(* the run's future.                                                       *)
Announce ==
  /\ pc = "announce"
  /\ events' = events \o <<PromptAccepted(runCount), State(activity)>>
  /\ active' = runCount
  /\ terminalSeen' = FALSE
  /\ holder' = "run"
  /\ pc' = "select"
  /\ UNCHANGED <<clientVars, requests, channel, activity, shutdownRequested,
                 replies, stopped, cache, session, runVars, asked>>

CancelNothing ==
  /\ IdleReceives("CancelCurrent")
  /\ Reply(Caller, Answer("NothingRunning"))
  /\ UNCHANGED <<holds, left, channel, events, taskVars, dataVars, runVars, asked>>

(* ListModels and SessionTree only read. *)
ReadIdle(op) ==
  /\ IdleReceives(op)
  /\ Reply(Caller, Answer("Ok"))
  /\ UNCHANGED <<holds, left, channel, events, taskVars, dataVars, runVars, asked>>

SwitchModel ==
  /\ IdleReceives("SwitchModel")
  /\ IF Argument \in Models \ {cache.model}
     THEN /\ session' = [session EXCEPT !.model = Argument]
          /\ cache' = [cache EXCEPT !.model = Argument]
     ELSE UNCHANGED <<session, cache>>
  /\ Reply(Caller, Answer(CASE Argument \notin Models    -> "InvalidModel"
                            [] Argument = cache.model    -> "Unchanged"
                            [] OTHER                     -> "Changed"))
  /\ UNCHANGED <<holds, left, channel, events, taskVars, holder, runVars, asked>>

AddContext ==
  /\ IdleReceives("AddContext")
  /\ session' = [session EXCEPT !.context = @ + 1]
  /\ cache' = [cache EXCEPT !.context = @ + 1]
  /\ Reply(Caller, Answer("Ok"))
  /\ UNCHANGED <<holds, left, channel, events, taskVars, holder, runVars, asked>>

(* Answered at the end only, by AnswerShutdown. *)
ShutdownIdle ==
  /\ IdleReceives("Shutdown")
  /\ RequestShutdown
  /\ replies' = replies \cup {Caller}
  /\ UNCHANGED <<clientVars, channel, pc, active, terminalSeen, stopped,
                 dataVars, runVars, asked>>

ClosedIdle ==
  /\ pc = "idle" /\ ~shutdownRequested
  /\ SendersGone
  /\ RequestShutdown
  /\ UNCHANGED <<clientVars, requests, channel, pc, active, terminalSeen,
                 replies, stopped, dataVars, runVars, asked>>

StopRegardless == shutdownRequested \* mutant: the active run is forgotten

(* The loop's head, once shutdown was requested and no run is active. *)
MayStop == shutdownRequested /\ active = 0

Stop ==
  /\ pc \in {"idle", "select"}
  /\ MayStop
  /\ activity' = Activity("Stopped", 0)
  /\ stopped' = TRUE
  /\ events' = events \o <<State(activity'), StoppedEvent>>
  /\ pc' = "stopping"
  /\ UNCHANGED <<clientVars, requests, channel, active, terminalSeen,
                 shutdownRequested, replies, dataVars, runVars, asked>>

(* Those who asked for the shutdown are answered, then the task returns    *)
(* and whatever is still queued is dropped.                                *)
AnswerShutdown ==
  /\ pc = "stopping"
  /\ stage' = [c \in Clients |-> IF c \in replies \cup Queued THEN "idle" ELSE stage[c]]
  /\ answer' = [c \in Clients |-> IF c \in replies THEN Answer("ShutDown")
                                  ELSE IF c \in Queued THEN Answer("Closed")
                                  ELSE answer[c]]
  /\ replies' = {}
  /\ requests' = <<>>
  /\ pc' = "stopped"
  /\ UNCHANGED <<holds, left, channel, events, activity, active, terminalSeen,
                 shutdownRequested, stopped, dataVars, runVars, asked>>

-----------------------------------------------------------------------------
(***************************************************************************)
(* The task with an active run: the biased select, handle_active_request,  *)
(* forward_agent_event and the settlement.                                 *)
(***************************************************************************)

(* Mutations and reads of the session are refused, not queued. *)
RefuseBusy(op) ==
  /\ Receives("select", op)
  /\ Reply(Caller, Answer("Busy"))
  /\ UNCHANGED <<holds, left, channel, events, taskVars, dataVars, runVars, asked>>

(* A snapshot is answered from the cache in either state. *)
AnswerSnapshot ==
  /\ Receives("select", "Snapshot") \/ IdleReceives("Snapshot")
  /\ Reply(Caller, AnswerOf("Snapshot", activity.run))
  /\ UNCHANGED <<holds, left, channel, events, taskVars, dataVars, runVars, asked>>

CancelTwice == FALSE                \* mutant: every cancel is the first one

(* The run has been told before, whoever asked for it. *)
AlreadyCancelling == shutdownRequested \/ activity.state = "ShuttingDown" \/ token

CancelAgain ==
  /\ Receives("select", "CancelCurrent")
  /\ AlreadyCancelling
  /\ Reply(Caller, AnswerOf("AlreadyCancelling", active))
  /\ UNCHANGED <<holds, left, channel, events, taskVars, dataVars, runVars, asked>>

CancelRun ==
  /\ Receives("select", "CancelCurrent")
  /\ ~AlreadyCancelling
  /\ CancelActive
  /\ activity' = Activity("Cancelling", active)
  /\ events' = EmitState(activity')
  /\ Reply(Caller, AnswerOf("CancellationRequested", active))
  /\ asked' = asked \cup {active}
  /\ UNCHANGED <<holds, left, channel, pc, active, terminalSeen,
                 shutdownRequested, replies, stopped, dataVars, runCount,
                 runPhase, runLog, runResult>>

ShutdownActive ==
  /\ Receives("select", "Shutdown")
  /\ RequestShutdown
  /\ CancelActive
  /\ replies' = replies \cup {Caller}
  /\ UNCHANGED <<clientVars, channel, pc, active, terminalSeen, stopped,
                 dataVars, runCount, runPhase, runLog, runResult, asked>>

(* recv() returned None.  The loop goes round, and the next recv() returns *)
(* None again.                                                             *)
ClosedActive ==
  /\ pc = "select"
  /\ SendersGone
  /\ RequestShutdown
  /\ CancelActive
  /\ UNCHANGED <<clientVars, requests, channel, pc, active, terminalSeen,
                 replies, stopped, dataVars, runCount, runPhase, runLog,
                 runResult, asked>>

(* The select is biased: an agent event is taken only when recv() has      *)
(* nothing to return, and the run is polled only when there is no event.   *)
NoRequestReady == requests = <<>> /\ ~SendersGone

ForwardEvent ==
  /\ pc = "select"
  /\ NoRequestReady
  /\ channel # <<>>
  /\ channel' = Tail(channel)
  /\ events' = Append(events, Agent(active, Head(channel)))
  /\ terminalSeen' = (terminalSeen \/ Head(channel).event \in Run!TerminalKinds)
  /\ UNCHANGED <<clientVars, requests, pc, activity, active, shutdownRequested,
                 replies, stopped, dataVars, runVars, asked>>

PollRun ==
  /\ pc = "select"
  /\ NoRequestReady
  /\ channel = <<>>
  /\ pc' = "polling"
  /\ UNCHANGED <<clientVars, requests, channel, events, activity, active,
                 terminalSeen, shutdownRequested, replies, stopped, dataVars,
                 runVars, asked>>

(* The run awaits something: the provider, a tool, or room for an event. *)
RunPends ==
  /\ pc = "polling"
  /\ runPhase # "Ended"
  /\ pc' = "select"
  /\ UNCHANGED <<clientVars, requests, channel, events, activity, active,
                 terminalSeen, shutdownRequested, replies, stopped, dataVars,
                 runVars, asked>>

AlwaysRoom == TRUE                  \* mutant: emit does not wait for room

(* emit awaits room in the agent event channel. *)
HasRoom == Len(channel) < AgentCap

(* A step of the run that emits an event, and may keep a message. *)
Emits(kind) ==
  /\ pc = "polling"
  /\ HasRoom
  /\ channel' = Append(channel, [run |-> runCount, event |-> kind])
  /\ UNCHANGED <<clientVars, requests, events, taskVars, cache, holder,
                 runCount, asked>>

KeepsMessage ==
  session' \in {session, [session EXCEPT !.messages = @ + 1]}

RunStarts ==
  /\ Run!EmitRunStarted
  /\ KeepsMessage
  /\ Emits("RunStarted")

RunProgresses ==
  /\ Len(runLog) <= MaxProgress
  /\ Run!EmitProgress("TextDelta")
  /\ Emits("TextDelta")
  /\ UNCHANGED session

RunEnds ==
  /\ \/ Run!EmitRunFinished /\ Emits("RunFinished")
     \/ Run!EmitRunAborted /\ Emits("RunAborted")
     \/ Run!EmitRunFailed /\ Emits("RunFailed")
  /\ KeepsMessage

ReturnedOnPoll == runPhase # "Ready" \* mutant: a pending run is settled

(* Polling the run's future gave its result. *)
RunReturned == runPhase = "Ended"

DrainedNothing == <<>>              \* mutant: the channel is not drained

(* The events still in the channel when the future returned. *)
Drained == [i \in DOMAIN channel |-> Agent(active, channel[i])]

(* An error is added unless a terminal event was forwarded before. *)
SettlementError ==
  IF runResult = "Err" /\ ~terminalSeen THEN <<ControllerError>> ELSE <<>>

BackToIdle ==
  IF shutdownRequested THEN <<>> ELSE <<State(Activity("Idle", 0))>>

IdleTooEarly == BackToIdle \o Drained \o SettlementError \* mutant: Idle first

(* What the frontend receives on a settlement, in this order. *)
SettlementEvents == Drained \o SettlementError \o BackToIdle

StaleCache == cache                 \* mutant: the cache is not reloaded

(* SnapshotData::load after a run. *)
Reloaded == session

(* The future returned: the session comes back, the channel is drained and *)
(* the cache reloaded.                                                     *)
Settle ==
  /\ pc = "polling"
  /\ RunReturned
  /\ events' = events \o SettlementEvents
  /\ channel' = <<>>
  /\ active' = 0
  /\ holder' = "task"
  /\ cache' = Reloaded
  /\ activity' = IF shutdownRequested THEN activity ELSE Activity("Idle", 0)
  /\ pc' = "idle"
  /\ UNCHANGED <<clientVars, requests, terminalSeen, shutdownRequested,
                 replies, stopped, session, runVars, asked>>

-----------------------------------------------------------------------------
ClientStep ==
  \E c \in Clients :
    \/ \E r \in Requests : Call(c, r) \/ CallShutdown(c, r) \/ SendShutdown(c, r)
    \/ DropHandle(c)

TaskStep ==
  \/ RejectPrompt \/ AcceptPrompt \/ Announce \/ CancelNothing
  \/ \E op \in {"ListModels", "SessionTree"} : ReadIdle(op)
  \/ SwitchModel \/ AddContext \/ ShutdownIdle \/ ClosedIdle
  \/ Stop \/ AnswerShutdown
  \/ \E op \in {"SubmitPrompt", "ListModels", "SwitchModel", "AddContext",
                "SessionTree"} : RefuseBusy(op)
  \/ AnswerSnapshot \/ CancelAgain \/ CancelRun \/ ShutdownActive
  \/ ClosedActive \/ ForwardEvent \/ PollRun \/ RunPends \/ Settle

RunStep == RunStarts \/ RunProgresses \/ RunEnds

(* The task has returned or was aborted and the clients are done. *)
Terminated == ~Listening /\ UNCHANGED vars

Next == ClientStep \/ AbortTask \/ TaskStep \/ RunStep \/ Terminated

(***************************************************************************)
(* The runtime polls the controller's task whenever it was woken, and a    *)
(* client that is between its check of the flag and its send goes on.  Of  *)
(* the run only this is assumed: once cancelled, and polled again and      *)
(* again, it starts and ends (AgentLoop!CancelEndsRun).                    *)
(***************************************************************************)
Fairness ==
  /\ WF_vars(TaskStep)
  /\ \A c \in Clients : WF_vars(\E r \in Requests : SendShutdown(c, r))
  /\ SF_vars(token /\ RunStarts)
  /\ SF_vars(token /\ RunEnds)

Spec == Init /\ [][Next]_vars /\ Fairness

-----------------------------------------------------------------------------
(***************************************************************************)
(* Properties.                                                             *)
(***************************************************************************)

(* A run is active exactly while its future owns the session, so the task  *)
(* never touches a session that a run may be writing (run_controller,      *)
(* "proves the run has settled").                                          *)
OneOwner ==
  /\ active \in {0, runCount}
  /\ (holder = "run") <=> (active # 0)
  /\ pc \in {"select", "polling"} => active # 0
  /\ pc \in {"idle", "announce", "stopping", "stopped"} => active = 0

(* The activity that snapshots, Busy errors and StateChanged report is the *)
(* truth about the run and its token: Idle only when a prompt would be     *)
(* accepted, Running only for an uncancelled run, Cancelling only for one  *)
(* that was asked to stop, and a shutdown is never covered up again.       *)
ActivityTruthful ==
  /\ activity.state = "Idle" => active = 0 /\ ~shutdownRequested
  /\ activity.state \in {"Running", "Cancelling"} =>
       /\ activity.run = runCount
       /\ pc = "announce" \/ active = runCount
       /\ (activity.state = "Cancelling") <=> token
       /\ token => runCount \in asked
  /\ activity.state \in {"ShuttingDown", "Stopped"} <=> shutdownRequested
  /\ active # 0 /\ shutdownRequested => token
  /\ activity.state = "Stopped" <=> stopped

(* Both: who owns the session is what the clients are told of it.          *)
OwnershipTruthful == OneOwner /\ ActivityTruthful

(* A caller that awaits a reply is known to the task in exactly one place: *)
(* once in the queue, or among those that the end of the shutdown answers. *)
(* No reply is owed twice and none is forgotten.                           *)
CallsAreHeld ==
  /\ \A i, j \in DOMAIN requests : requests[i].from = requests[j].from => i = j
  /\ \A c \in Clients : stage[c] = "sent" <=> c \in Queued \cup replies
  /\ Queued \cap replies = {}

(* Where the forwarded events of the current run stand in the stream, and  *)
(* the rank of one of them among them.                                     *)
Forwarded == {i \in DOMAIN events : events[i].kind = "Agent" /\ events[i].run = runCount}
Place(i)  == Cardinality({j \in Forwarded : j <= i})

(* The controller "forwards it without reconstructing or altering events"  *)
(* (architecture.md): what the frontend was sent and what is in the        *)
(* channel are together what the run has emitted, in order; and nothing is *)
(* left in the channel once the run has settled.                           *)
FaithfulForwarding ==
  pc # "aborted" =>
    /\ Cardinality(Forwarded) + Len(channel) = Len(runLog)
    /\ \A i \in Forwarded : events[i].event = runLog[Place(i)].kind
    /\ \A i \in DOMAIN channel :
         channel[i].event = runLog[Cardinality(Forwarded) + i].kind
    /\ active = 0 => channel = <<>>

(* Events that separate one run from the next for a frontend. *)
IsQuiet(e) == e.kind = "StateChanged" /\ e.activity.state \in {"Idle", "Stopped"}
Separates(e) == e.kind = "PromptAccepted" \/ IsQuiet(e)
EndsRun(e, r) == e.kind = "Agent" /\ e.run = r /\ e.event \in Run!TerminalKinds

(* A frontend can attribute events by position: every Agent event lies     *)
(* after the PromptAccepted of its run with nothing else between that      *)
(* separates, carries the request of that prompt, and exactly one terminal *)
(* event lies between a PromptAccepted and any later Idle or Stopped.      *)
RunsAreDelimited ==
  \A i \in DOMAIN events :
    /\ events[i].kind = "Agent" =>
         /\ events[i].request = events[i].run
         /\ \E j \in 1 .. i - 1 :
              /\ events[j] = PromptAccepted(events[i].run)
              /\ \A k \in j + 1 .. i - 1 : ~Separates(events[k])
    /\ IsQuiet(events[i]) =>
         \A j \in 1 .. i - 1 : events[j].kind = "PromptAccepted" =>
           \E k \in j .. i :
             /\ EndsRun(events[k], events[j].run)
             /\ \A m \in j .. i : EndsRun(events[m], events[j].run) => m = k

(* Nothing is lost on the way to a frontend, and what arrives can be told  *)
(* apart.                                                                  *)
EventsDelivered == FaithfulForwarding /\ RunsAreDelimited

(* Whoever was told that the controller has shut down finds everything     *)
(* settled: no run owns the session, no token is left uncancelled, Stopped *)
(* is the last event that will ever be sent (shutdown_during_run_cancels_  *)
(* and_settles_before_join).                                               *)
ShutdownAnsweredLast ==
  (\E c \in Clients : answer[c].kind = "ShutDown") =>
    /\ active = 0 /\ holder = "task"
    /\ runPhase \in {"Ready", "Ended"}
    /\ stopped /\ events[Len(events)] = StoppedEvent

(* A run is aborted only when it was asked to be, by a caller who was told *)
(* its number or by the shutdown: a cancellation never carries over to     *)
(* the next run.                                                           *)
OnlyAskedRunsAbort ==
  \A i \in DOMAIN events :
    (events[i].kind = "Agent" /\ events[i].event = "RunAborted") =>
      events[i].run \in asked \/ (shutdownRequested /\ events[i].run = runCount)

(* What snapshots report is what the session holds: model and context at   *)
(* any time, the number of messages whenever no run is active.             *)
CacheFresh ==
  /\ cache.model = session.model /\ cache.context = session.context
  /\ pc \in {"idle", "stopping", "stopped"} => cache.messages = session.messages

(* "Mutations received while a run is active return Busy rather than       *)
(* queueing" (architecture.md): the model and the context with which a run *)
(* was accepted stay the session's until it has settled, and no caller is  *)
(* told otherwise.                                                         *)
BusyMutatesNothing ==
  [][active # 0 =>
       /\ session'.model = session.model /\ session'.context = session.context
       /\ \A c \in Clients : answer'[c] # answer[c] =>
            answer'[c].kind \in {"Busy", "Snapshot", "AlreadyCancelling",
                                "CancellationRequested", "Closed"}]_vars

(* The controller uses the run as its contract allows: it allocates one    *)
(* only after the last has ended, and cancels only what has not.           *)
DrivesContract == Run!Init /\ [][Run!Next]_(Run!vars)

(* Every call is answered, whatever the others do, and even when the run   *)
(* that is active has stalled.                                             *)
EveryCallAnswered == \A c \in Clients : stage[c] # "idle" ~> stage[c] = "idle"

(* A run that was cancelled, by request or by the shutdown, settles as     *)
(* long as somebody holds a handle.                                        *)
CancelledRunSettles ==
  (active # 0 /\ (active \in asked \/ shutdownRequested)) ~>
    (active = 0 \/ pc = "aborted" \/ \A c \in Clients : ~holds[c])

(* Nobody waits for ever: neither a caller nor a run that was told to end. *)
CallsAndRunsSettle == EveryCallAnswered /\ CancelledRunSettles

(* What dropped_request_sender_auto_shuts_down_controller says of dropping *)
(* the handles: the controller shuts down.                                 *)
HandlesGoneStops == (\A c \in Clients : ~holds[c]) ~> ~Listening

(* What failure_does_not_stop_controller says of the end of a run: Idle is *)
(* next after the terminal event.                                          *)
FailureReportedOnce ==
  \A i \in DOMAIN events \ {1} :
    events[i].kind = "ControllerError" =>
      ~\E r \in 1 .. runCount : EndsRun(events[i - 1], r)
=============================================================================
