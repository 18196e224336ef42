------------------------------ MODULE AgentLoop ------------------------------
(***************************************************************************)
(* Agent::run_allocated, run_inner, execute_tool and finish_aborted        *)
(* (agent/engine.rs): the loop of provider requests and tool batches that  *)
(* makes up one run, for a sequence of runs over one session.              *)
(*                                                                         *)
(* Four parties interleave: the run's future, the provider's producer task *)
(* (ProviderStream), the tool together with the spawned forwarder of its   *)
(* output, and whoever holds the cancellation token.  A step of the run    *)
(* ends where the code awaits or reads the token, so cancellation arrives  *)
(* between any two of them.                                                *)
(***************************************************************************)
EXTENDS Naturals, Sequences

CONSTANTS
  MaxRuns,        (* bound on the runs of the model                        *)
  MaxToolRounds,  (* AgentConfig.max_tool_rounds                           *)
  MaxCalls,       (* bound on the tool calls of one response               *)
  MaxDeltas,      (* bound on the text deltas of one response              *)
  MaxOutputs,     (* bound on the output chunks of one tool execution      *)
  DoneReasons,    (* stop reasons a provider reports in Done               *)
  StreamCap       (* capacity of the provider's channel                    *)

ASSUME LoopAssumption ==
  /\ MaxRuns \in Nat /\ MaxToolRounds \in Nat /\ MaxCalls \in Nat
  /\ MaxDeltas \in Nat /\ MaxOutputs \in Nat /\ StreamCap \in Nat \ {0}
  /\ DoneReasons \subseteq {"Stop", "Length", "ToolUse", "Error"}

VARIABLES
  (* the run's future *)
  run,            (* run_counter: the number of runs allocated             *)
  pc,             (* where the future of the current run stands            *)
  round,          (* the loop variable of run_inner                        *)
  token,          (* run_token: cancelled or not                           *)
  acc,            (* MessageAccumulator: text, calls, stop reason, error   *)
  batch,          (* calls of the response not yet executed                *)
  terminate,      (* any_terminate                                         *)
  result,         (* "None", "Ok" or "Err"                                 *)
  (* what it leaves behind *)
  session,        (* the messages of the session                           *)
  log,            (* AgentEvents of this run, oldest first                 *)
  (* the tool being executed and its forwarder *)
  tool,           (* "none", "running", or what execute returned           *)
  current,        (* tool_call_id the forwarder was spawned with           *)
  outq,           (* chunks in the execution's output channel              *)
  outputs,        (* chunks sent by this execution                         *)
  (* the provider's producer task *)
  producer, inbox, deltas, calls, requestToken,
  (* history, read by the properties only *)
  mark,           (* Len(log) when the token was cancelled                 *)
  requests,       (* provider requests made by this run                    *)
  base            (* Len(session) when this run was allocated              *)

Stream == INSTANCE ProviderStream
streamVars == <<producer, inbox, deltas, calls, requestToken>>
toolVars   == <<tool, current, outq, outputs>>
history    == <<mark, requests, base>>
vars == <<run, pc, round, token, acc, batch, terminate, result, session, log,
          tool, current, outq, outputs, producer, inbox, deltas, calls,
          requestToken, mark, requests, base>>

Calls == 1 .. MaxCalls

(* Messages of the session, to the detail the properties tell apart. *)
User          == [role |-> "User"]
ToolResult(c) == [role |-> "ToolResult", call |-> c]

(* text tells whether the message says anything beside its calls s. *)
Assistant(stop, s, text) ==
  [role |-> "Assistant", stop |-> stop, calls |-> s, text |-> text]

Plain(k)   == [kind |-> k]
Tool(k, c) == [kind |-> k, call |-> c]

Message == {User} \cup [role : {"ToolResult"}, call : Calls]
             \cup [role : {"Assistant"}, calls : Seq(Calls), text : BOOLEAN,
                   stop : {"Stop", "Length", "ToolUse", "Error", "Aborted"}]
Event   == [kind : {"RunStarted", "TextDelta", "ProviderError", "RunFinished",
                    "RunAborted", "RunFailed"}]
             \cup [kind : {"ToolStarted", "ToolOutput", "ToolFinished"}, call : Calls]

NoResponse == [text |-> FALSE, calls |-> <<>>, stop |-> "Stop", error |-> FALSE]

Places == {"ready", "append_user", "request", "starting", "opened", "recv",
           "shutdown", "joining", "respond", "batch", "tool_start", "tool",
           "aborting", "finishing", "failing", "ended"}

TypeOK ==
  /\ run \in 0 .. MaxRuns
  /\ pc \in Places
  /\ round \in 0 .. MaxToolRounds
  /\ token \in BOOLEAN
  /\ acc \in [text : BOOLEAN, calls : Seq(Calls), error : BOOLEAN,
              stop : {"Stop", "Length", "ToolUse", "Error"}]
  /\ batch \in Seq(Calls)
  /\ terminate \in BOOLEAN
  /\ result \in {"None", "Ok", "Err"}
  /\ tool \in {"none", "running", "ok", "terminate", "err"}
  /\ current \in 0 .. MaxCalls
  /\ outq \in 0 .. MaxOutputs
  /\ outputs \in 0 .. MaxOutputs
  /\ session \in Seq(Message) /\ log \in Seq(Event)
  /\ mark \in Nat /\ base \in Nat /\ requests \in 0 .. MaxToolRounds + 1
  /\ Stream!StreamTypeOK

Init ==
  /\ run = 0 /\ pc = "ready" /\ round = 0 /\ token = FALSE
  /\ acc = NoResponse
  /\ batch = <<>> /\ terminate = FALSE /\ result = "None"
  /\ session = <<>> /\ log = <<>>
  /\ tool = "none" /\ current = 0 /\ outq = 0 /\ outputs = 0
  /\ Stream!StreamInit
  /\ mark = 0 /\ requests = 0 /\ base = 0

InRun == pc \notin {"ready", "ended"}

-----------------------------------------------------------------------------
(***************************************************************************)
(* The run's future.                                                       *)
(***************************************************************************)

(* allocate_run_id and set_abort_token: a fresh token for each run. *)
Allocate ==
  /\ pc \in {"ready", "ended"}
  /\ run < MaxRuns
  /\ run' = run + 1
  /\ pc' = "append_user"
  /\ round' = 0
  /\ token' = FALSE
  /\ batch' = <<>>
  /\ terminate' = FALSE
  /\ result' = "None"
  /\ log' = <<>>
  /\ mark' = 0 /\ requests' = 0 /\ base' = Len(session)
  /\ UNCHANGED <<acc, session, toolVars, streamVars>>

(***************************************************************************)
(* What a request says of the session's messages (build_messages of        *)
(* DeepSeek, build_input of Codex): items that carry the calls they make   *)
(* or, for a result, the call they answer.                                 *)
(***************************************************************************)
Item(kind, s) == [item |-> kind, calls |-> s]

SkipsTextless(m) ==                 \* mutant: a message without text is left out
  CASE m.role = "User"       -> <<Item("user", <<>>)>>
    [] m.role = "ToolResult" -> <<Item("result", <<m.call>>)>>
    [] m.role = "Assistant"  -> IF m.text THEN <<Item("assistant", m.calls)>> ELSE <<>>

(* An assistant message that says nothing is left out. *)
DeepSeekItems(m) ==
  CASE m.role = "User"       -> <<Item("user", <<>>)>>
    [] m.role = "ToolResult" -> <<Item("result", <<m.call>>)>>
    [] m.role = "Assistant"  -> IF m.text \/ m.calls # <<>>
                                THEN <<Item("assistant", m.calls)>> ELSE <<>>

(* Text and calls are items of their own. *)
CodexItems(m) ==
  CASE m.role = "User"       -> <<Item("user", <<>>)>>
    [] m.role = "ToolResult" -> <<Item("result", <<m.call>>)>>
    [] m.role = "Assistant"  -> (IF m.text THEN <<Item("assistant", <<>>)>> ELSE <<>>)
         \o [k \in DOMAIN m.calls |-> Item("call", <<m.calls[k]>>)]

(* run_allocated appends the prompt first.  Whether or not the session     *)
(* takes it, RunStarted is emitted before anything else.                   *)
AppendUser ==
  /\ pc = "append_user"
  /\ log' = Append(log, Plain("RunStarted"))
  /\ \/ session' = Append(session, User) /\ pc' = "request"
     \/ session' = session /\ pc' = "failing"
  /\ UNCHANGED <<run, round, token, acc, batch, terminate, result, toolVars,
                 streamVars, history>>

(* The biased select polls the token before the provider. *)
Request ==
  /\ pc = "request"
  /\ IF token
     THEN pc' = "aborting" /\ UNCHANGED requests
     ELSE pc' = "starting" /\ requests' = requests + 1
  /\ UNCHANGED <<run, round, token, acc, batch, terminate, result, session,
                 log, toolVars, streamVars, mark, base>>

StartNotInterrupted == FALSE       \* mutant: a plain await of the provider

(* The select around ProviderApi::stream also waits for the token. *)
StartInterrupted == token

StartAborted ==
  /\ pc = "starting"
  /\ StartInterrupted
  /\ pc' = "aborting"
  /\ UNCHANGED <<run, round, token, acc, batch, terminate, result, session,
                 log, toolVars, streamVars, history>>

StartFails ==
  /\ pc = "starting"
  /\ pc' = "failing"
  /\ UNCHANGED <<run, round, token, acc, batch, terminate, result, session,
                 log, toolVars, streamVars, history>>

StartSucceeds ==
  /\ pc = "starting"
  /\ pc' = "opened"
  /\ Stream!Open
  /\ acc' = NoResponse
  /\ UNCHANGED <<run, round, token, batch, terminate, result, session, log,
                 toolVars, history>>

(* The check before the stream loop, and the one in each of its selects.   *)
(* The second check, after an event was received, sees the same token.     *)
SeeCancelled ==
  /\ pc \in {"opened", "recv"}
  /\ token
  /\ pc' = "joining"
  /\ Stream!CancelRequest
  /\ UNCHANGED <<run, round, token, acc, batch, terminate, result, session,
                 log, toolVars, history>>

EnterLoop ==
  /\ pc = "opened"
  /\ ~token
  /\ pc' = "recv"
  /\ UNCHANGED <<run, round, token, acc, batch, terminate, result, session,
                 log, toolVars, streamVars, history>>

(* MessageAccumulator::push *)
Pushed(a, e) ==
  CASE e.kind = "TextDelta" -> [a EXCEPT !.text = TRUE]
    [] e.kind = "ToolCall"  -> [a EXCEPT !.calls = Append(@, e.call)]
    [] e.kind = "Done"      -> [a EXCEPT !.stop = e.stop]
    [] e.kind = "Error"     -> [a EXCEPT !.stop = "Error", !.error = TRUE]

(* An event of the stream: forwarded when it is text, accumulated, and the *)
(* end of the loop when it is Done or Error.                               *)
ReceiveEvent ==
  /\ pc = "recv"
  /\ ~token
  /\ Stream!Receive
  /\ LET e == Head(inbox) IN
       /\ acc' = Pushed(acc, e)
       /\ log' = IF e.kind = "TextDelta" THEN Append(log, Plain("TextDelta")) ELSE log
       /\ pc' = IF e.kind \in {"Done", "Error"} THEN "shutdown" ELSE pc
  /\ UNCHANGED <<run, round, token, batch, terminate, result, session,
                 toolVars, history>>

(* recv returned None: whatever has been accumulated is the response. *)
ReceiveClosed ==
  /\ pc = "recv"
  /\ ~token
  /\ Stream!ChannelClosed
  /\ pc' = "shutdown"
  /\ UNCHANGED <<run, round, token, acc, batch, terminate, result, session,
                 log, toolVars, streamVars, history>>

(* stream.shutdown cancels the request and awaits the producer. *)
BeginShutdown ==
  /\ pc = "shutdown"
  /\ pc' = "joining"
  /\ Stream!CancelRequest
  /\ UNCHANGED <<run, round, token, acc, batch, terminate, result, session,
                 log, toolVars, history>>

(* After the loop the token is read again: a response that was complete is *)
(* dropped, and not kept in the session, if the run was cancelled.  On the *)
(* path of SeeCancelled the token is set already.                          *)
AfterStream == IF token THEN "aborting" ELSE "respond"

JoinProducer ==
  /\ pc = "joining"
  /\ Stream!Close
  /\ pc' = AfterStream
  /\ acc' = IF AfterStream = "respond" THEN acc ELSE NoResponse
  /\ UNCHANGED <<run, round, token, batch, terminate, result, session,
                 log, toolVars, history>>

-----------------------------------------------------------------------------
(* Only Stop is overridden by the presence of tool calls. *)
StopReason == IF acc.calls # <<>> /\ acc.stop = "Stop" THEN "ToolUse" ELSE acc.stop

(* MessageAccumulator::build, and the stop reason set on what it built. *)
Built(a) == Assistant(StopReason, a.calls, a.text)

AfterResponseUnbounded ==          \* mutant: the round limit is not checked
  IF StopReason = "ToolUse" THEN "batch" ELSE "finishing"

AfterResponseNoTools == "finishing" \* mutant: calls are kept, never executed

AfterResponse ==
  CASE StopReason # "ToolUse"  -> "finishing"
    [] StopReason = "ToolUse" /\ round >= MaxToolRounds -> "failing"
    [] OTHER                   -> "batch"

(* The response becomes a message; ProviderError precedes it. *)
Respond ==
  /\ pc = "respond"
  /\ log' = IF StopReason = "Error" /\ acc.error
            THEN Append(log, Plain("ProviderError"))
            ELSE log
  /\ \/ /\ session' = Append(session, Built(acc))
        /\ pc' = AfterResponse
     \/ session' = session /\ pc' = "failing"
  /\ batch' = acc.calls
  /\ terminate' = FALSE
  /\ acc' = NoResponse
  /\ UNCHANGED <<run, round, token, result, toolVars, streamVars, history>>

MayStartToolAlways == batch # <<>>  \* mutant: the token is not read per call

(* The next call of the batch, unless the run was cancelled meanwhile. *)
MayStartTool == batch # <<>> /\ ~token

NextTool ==
  /\ pc = "batch"
  /\ MayStartTool
  /\ pc' = "tool_start"
  /\ UNCHANGED <<run, round, token, acc, batch, terminate, result, session,
                 log, toolVars, streamVars, history>>

(* ToolStarted is emitted even for a tool that does not exist.  The emit   *)
(* may wait for room in the event channel, so the token can be set since.  *)
StartTool ==
  /\ pc = "tool_start"
  /\ log' = Append(log, Tool("ToolStarted", Head(batch)))
  /\ \/ pc' = "tool" /\ tool' = "running" /\ current' = Head(batch)
        /\ outq' = 0 /\ outputs' = 0
     \/ pc' = "failing" /\ UNCHANGED toolVars
  /\ UNCHANGED <<run, round, token, acc, batch, terminate, result, session,
                 streamVars, history>>

ForwarderDetached == TRUE           \* mutant: the forwarder is not awaited

(* The forwarder is joined on both paths: all output has become events. *)
ForwarderJoined == outq = 0

(* execute returned Ok. *)
FinishTool ==
  /\ pc = "tool"
  /\ tool \in {"ok", "terminate"} /\ ForwarderJoined
  /\ log' = Append(log, Tool("ToolFinished", Head(batch)))
  /\ \/ /\ session' = Append(session, ToolResult(Head(batch)))
        /\ pc' = "batch"
        /\ batch' = Tail(batch)
        /\ terminate' = (terminate \/ tool = "terminate")
     \/ session' = session /\ pc' = "failing" /\ UNCHANGED <<batch, terminate>>
  /\ tool' = "none" /\ current' = 0 /\ outputs' = 0
  /\ UNCHANGED <<run, round, token, acc, result, outq, streamVars,
                 history>>

(* execute returned Err. *)
FailTool ==
  /\ pc = "tool"
  /\ tool = "err" /\ ForwarderJoined
  /\ pc' = "failing"
  /\ tool' = "none" /\ current' = 0 /\ outputs' = 0
  /\ UNCHANGED <<run, round, token, acc, batch, terminate, result, session,
                 log, outq, streamVars, history>>

AfterBatchNoCheck ==                \* mutant: no token check after the batch
  IF terminate THEN "finishing" ELSE "request"

(* The batch is over: executed, or cut short by cancellation. *)
AfterBatch ==
  IF token THEN "aborting" ELSE IF terminate THEN "finishing" ELSE "request"

EndBatch ==
  /\ pc = "batch"
  /\ ~MayStartTool
  /\ pc' = AfterBatch
  /\ round' = IF AfterBatch = "request" THEN round + 1 ELSE round
  /\ UNCHANGED <<run, token, acc, batch, terminate, result, session, log, toolVars,
                 streamVars, history>>

(* finish_aborted: the aborted message is kept if the session takes it. *)
FinishAborted ==
  /\ pc = "aborting"
  /\ session' \in {session, Append(session, Assistant("Aborted", <<>>, FALSE))}
  /\ log' = Append(log, Plain("RunAborted"))
  /\ result' = "Ok"
  /\ pc' = "ended"
  /\ UNCHANGED <<run, round, token, acc, batch, terminate, toolVars,
                 streamVars, history>>

FinishRun ==
  /\ pc = "finishing"
  /\ log' = Append(log, Plain("RunFinished"))
  /\ result' = "Ok"
  /\ pc' = "ended"
  /\ UNCHANGED <<run, round, token, acc, batch, terminate, session, toolVars,
                 streamVars, history>>

FailRun ==
  /\ pc = "failing"
  /\ log' = Append(log, Plain("RunFailed"))
  /\ result' = "Err"
  /\ pc' = "ended"
  /\ UNCHANGED <<run, round, token, acc, batch, terminate, session, toolVars,
                 streamVars, history>>

-----------------------------------------------------------------------------
(***************************************************************************)
(* The tool, the forwarder, the producer and the canceller.                *)
(***************************************************************************)

ToolSendsOutput ==
  /\ tool = "running"
  /\ outputs < MaxOutputs
  /\ outputs' = outputs + 1
  /\ outq' = outq + 1
  /\ UNCHANGED <<run, pc, round, token, acc, batch, terminate, result, session,
                 log, tool, current, streamVars, history>>

ToolReturns ==
  /\ tool = "running"
  /\ tool' \in {"ok", "terminate", "err"}
  /\ UNCHANGED <<run, pc, round, token, acc, batch, terminate, result, session,
                 log, current, outq, outputs, streamVars, history>>

(* The spawned task that turns output chunks into events. *)
ForwardOutput ==
  /\ outq > 0
  /\ outq' = outq - 1
  /\ log' = Append(log, Tool("ToolOutput", current))
  /\ UNCHANGED <<run, pc, round, token, acc, batch, terminate, result, session,
                 tool, current, outputs, streamVars, history>>

ProducerStep ==
  /\ Stream!Produce
  /\ UNCHANGED <<run, pc, round, token, acc, batch, terminate, result, session,
                 log, toolVars, history>>

ProducerStops ==
  /\ Stream!StopOnCancel(token)
  /\ UNCHANGED <<run, pc, round, token, acc, batch, terminate, result, session,
                 log, toolVars, history>>

Cancel ==
  /\ InRun
  /\ ~token
  /\ token' = TRUE
  /\ mark' = Len(log)
  /\ UNCHANGED <<run, pc, round, acc, batch, terminate, result, session, log,
                 toolVars, streamVars, requests, base>>

(* Every run of the model has been made and has ended. *)
Done == pc = "ended" /\ run = MaxRuns /\ UNCHANGED vars

RunStep ==
  \/ AppendUser \/ Request \/ StartAborted
  \/ SeeCancelled \/ EnterLoop \/ ReceiveEvent \/ ReceiveClosed
  \/ BeginShutdown \/ JoinProducer \/ Respond
  \/ NextTool \/ StartTool \/ FinishTool \/ FailTool
  \/ EndBatch \/ FinishAborted \/ FinishRun \/ FailRun

ProviderStarts == StartFails \/ StartSucceeds

Next ==
  \/ Allocate \/ RunStep \/ ProviderStarts
  \/ ToolSendsOutput \/ ToolReturns \/ ForwardOutput
  \/ ProducerStep \/ ProducerStops
  \/ Cancel \/ Done

(***************************************************************************)
(* The runtime polls a future that was woken, so each task that can take a *)
(* step takes one.  Nothing is assumed of ProviderApi::stream, of a        *)
(* producer that was not cancelled or of a tool that was not: each may     *)
(* stall for ever.  A cancelled producer returns, since each of its awaits *)
(* selects on the token; a cancelled tool returns, as AgentTool::execute   *)
(* asks of it.                                                             *)
(***************************************************************************)
Fairness ==
  /\ WF_vars(RunStep)
  /\ WF_vars(ForwardOutput)
  /\ WF_vars(ProducerStops)
  /\ WF_vars(token /\ ToolReturns)

Spec == Init /\ [][Next]_vars /\ Fairness

-----------------------------------------------------------------------------
(***************************************************************************)
(* Properties.                                                             *)
(***************************************************************************)

(* What the contract sees: the token is the run's; a failed tool stays     *)
(* open until the run fails.                                               *)
Phase ==
  CASE pc = "ready"       -> "Ready"
    [] pc = "append_user" -> "Allocated"
    [] pc = "ended"       -> "Ended"
    [] OTHER              -> "Running"

Open ==
  IF InRun /\ log # <<>> /\ log[Len(log)].kind \in {"ToolStarted", "ToolOutput"}
  THEN {log[Len(log)].call} ELSE {}

Contract == INSTANCE RunContract WITH
  phase <- Phase, open <- Open, cancelled <- token

(* Every step of the engine, the forwarder and the tools is a step of the  *)
(* contract or changes nothing a consumer sees (agent/events.rs, "Events   *)
(* are emitted in a strict order within a run").                           *)
KeepsContract == Contract!Init /\ [][Contract!Next]_(Contract!vars)

(* The messages of this run. *)
Mine == SubSeq(session, base + 1, Len(session))

(* The calls of message i are answered one after the other, at once. *)
Answered(s, i) ==
  \A k \in DOMAIN s[i].calls :
    i + k \in DOMAIN s /\ s[i + k] = ToolResult(s[i].calls[k])

(* Message j stands where a call of an earlier message is answered. *)
AnswersCall(s, j) ==
  \E i \in 1 .. j - 1 : s[i].role = "Assistant" /\ j - i \in DOMAIN s[i].calls

(* Calls and results pair up: none is missing and none is one too many. *)
AllAnswered(s) ==
  \A i \in DOMAIN s :
    /\ s[i].role = "Assistant" => Answered(s, i)
    /\ s[i].role = "ToolResult" => AnswersCall(s, i)

(* The items carry the calls c: in the last of them, or one by one. *)
Carry(items, c) ==
  \/ Len(items) > 0 /\ items[Len(items)].calls = c
  \/ /\ Len(items) >= Len(c)
     /\ \A k \in DOMAIN c : items[Len(items) - Len(c) + k].calls = <<c[k]>>

(* What a message makes or answers is in what either provider is sent. *)
Sent(m) ==
  LET c == CASE m.role = "User"       -> <<>>
             [] m.role = "ToolResult" -> <<m.call>>
             [] m.role = "Assistant"  -> m.calls
  IN  Carry(DeepSeekItems(m), c) /\ Carry(CodexItems(m), c)

(* When the model is asked again, every call of this run is followed by    *)
(* its result, in order and before anything else is said, and what either  *)
(* provider is sent of each message tells of its calls or of the one it    *)
(* answers; and so has the session when the run is to be reported          *)
(* finished: neither cancellation in the middle of a batch, nor a failed   *)
(* append, nor a message left out leads to a request that lacks one        *)
(* (run_inner).  And the model is asked once more than there are rounds,   *)
(* at most.                                                                *)
RequestsCarryResults ==
  /\ pc = "starting" =>
       AllAnswered(Mine) /\ \A i \in DOMAIN Mine : Sent(Mine[i])
  /\ pc = "finishing" =>
       \A i \in DOMAIN Mine :
         (Mine[i].role = "Assistant" /\ Mine[i].stop = "ToolUse") => Answered(Mine, i)
  /\ requests <= MaxToolRounds + 1

(* Places of the messages, or of the events, that report a finished tool. *)
Results  == {i \in DOMAIN Mine : Mine[i].role = "ToolResult"}
Finished == {i \in DOMAIN log : log[i].kind = "ToolFinished"}

(* f takes the events of E to the results of the session, one to one, in   *)
(* order and call by call.                                                 *)
Pairs(f, E) ==
  /\ \A r \in Results : \E e \in E : f[e] = r
  /\ \A e \in E : Mine[f[e]].call = log[e].call
  /\ \A d, e \in E : d < e => f[d] < f[e]

InStep(E) == \E f \in [E -> Results] : Pairs(f, E)

(* The last finished tool has no result. *)
LastLost == \E e \in Finished : (\A d \in Finished : d <= e) /\ InStep(Finished \ {e})

(* What the frontends were shown and what the session kept agree: the same *)
(* tools finished, in the same order, except that a failed append can lose *)
(* the last result, and then the run has failed; and a run is reported     *)
(* finished only after its last message was kept.                          *)
TranscriptMatchesEvents ==
  pc = "ended" =>
    /\ InStep(Finished) \/ (result = "Err" /\ LastLost)
    /\ log[Len(log)].kind = "RunFinished" =>
         /\ Len(Mine) > 1
         /\ LET m == Mine[Len(Mine)] IN
              \/ m.role = "Assistant" /\ m.stop \in {"Stop", "Length", "Error"}
              \/ m.role = "ToolResult" /\ terminate

(* Once the token is set, only the tool whose check came before it may     *)
(* still be started (run_inner, "must not start another tool from this     *)
(* batch").                                                                *)
StartedLate == {i \in mark + 1 .. Len(log) : log[i].kind = "ToolStarted"}

AtMostOneMoreTool == token => \A i, j \in StartedLate : i = j

(* No producer task outlives its response: whatever ends a response, the   *)
(* task that filled it has returned before the run goes on, and the run    *)
(* leaves nothing running (ProviderStream, "ownership proof").             *)
NoDetachedTask ==
  /\ pc \notin {"opened", "recv", "shutdown", "joining"} => producer # "running"
  /\ pc # "tool" => (tool # "running" /\ outq = 0)

(* Cancellation takes hold, and of everything: no further tool is started  *)
(* and no task is left to go on by itself.                                 *)
CancelTakesHold == AtMostOneMoreTool /\ NoDetachedTask

(* A cancelled run ends, even when the provider or the tool had stalled.   *)
CancelEndsRun == (InRun /\ token) ~> ~InRun
=============================================================================
