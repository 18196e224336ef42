--------------------------- MODULE AgentLoopProofs ---------------------------
(***************************************************************************)
(* The agent's loop for any number of runs, rounds, calls and chunks: it   *)
(* implements RunContract, cancellation takes hold, requests carry the     *)
(* results they need and the session agrees with the events.               *)
(***************************************************************************)
EXTENDS AgentLoop, SequenceTheorems, TLAPS

(***************************************************************************)
(* Facts about data.                                                       *)
(***************************************************************************)

(* Appending keeps what was there and adds one at the end. *)
LEMMA AppendFacts ==
  ASSUME NEW S, NEW s \in Seq(S), NEW e \in S
  PROVE  /\ Append(s, e) \in Seq(S)
         /\ Append(s, e) # <<>>
         /\ Len(Append(s, e)) = Len(s) + 1
         /\ DOMAIN Append(s, e) = 1 .. Len(s) + 1
         /\ Append(s, e)[Len(s) + 1] = e
         /\ \A i \in 1 .. Len(s) : Append(s, e)[i] = s[i]
         /\ DOMAIN s = 1 .. Len(s)
         /\ Len(s) \in Nat
         /\ (s = <<>>) <=> (Len(s) = 0)
  OBVIOUS

LEMMA AppendTyped ==
  ASSUME NEW S, NEW s \in Seq(S), NEW e \in S, NEW t \in {s, Append(s, e)}
  PROVE  t \in Seq(S)
  OBVIOUS

(* The head and the tail of a sequence that is not empty. *)
LEMMA TailFacts ==
  ASSUME NEW S, NEW s \in Seq(S), s # <<>>
  PROVE  /\ Head(s) \in S /\ Head(s) = s[1]
         /\ Tail(s) \in Seq(S)
         /\ Len(Tail(s)) = Len(s) - 1
         /\ \A i \in 1 .. Len(s) - 1 : Tail(s)[i] = s[i + 1]
  OBVIOUS

(* What the run appends to its session are messages. *)
LEMMA MessagesAreMessages ==
  /\ User \in Message
  /\ \A c \in Calls : ToolResult(c) \in Message
  /\ \A s \in Seq(Calls), t \in BOOLEAN, r \in {"Stop", "Length", "ToolUse", "Error", "Aborted"} :
       Assistant(r, s, t) \in Message
  BY DEF User, ToolResult, Assistant, Message

(* What the run, or the forwarder, appends to its log are events. *)
LEMMA EventsAreEvents ==
  /\ \A k \in {"RunStarted", "TextDelta", "ProviderError", "RunFinished",
               "RunAborted", "RunFailed"} : Plain(k) \in Event
  /\ \A k \in {"ToolStarted", "ToolOutput", "ToolFinished"}, c \in Calls : Tool(k, c) \in Event
  BY DEF Plain, Tool, Event

-----------------------------------------------------------------------------
(***************************************************************************)
(* Where the future stands, and what that says of everything else.         *)
(***************************************************************************)

InStream    == {"opened", "recv", "shutdown", "joining"}
InResponse  == {"starting", "respond"} \cup InStream
InBatch     == {"batch", "tool_start", "tool"}

(* The rounds a run has had and the requests it has made go together. *)
Counts ==
  /\ pc = "append_user" => requests = 0 /\ round = 0
  /\ pc = "request" => requests = round
  /\ pc \in InResponse \cup InBatch => requests = round + 1
  /\ pc \in InBatch => round < MaxToolRounds

(* A tool runs, and its forwarder, exactly while the run waits for it. *)
ToolPlace ==
  /\ tool # "none" <=> pc = "tool"
  /\ outq <= outputs
  /\ pc # "tool" => outq = 0
  /\ pc \in {"tool_start", "tool"} => batch # <<>>
  /\ pc = "tool" => current = Head(batch)

(* A producer runs only while the run reads its stream. *)
ProducerPlace == pc \notin InStream => producer # "running"

(* The parts of TypeOK. *)
PlacesOK ==
  /\ pc \in Places
  /\ result \in {"None", "Ok", "Err"}
  /\ tool \in {"none", "running", "ok", "terminate", "err"}
  /\ producer \in {"none", "running", "finished", "failed", "stopped"}

FlagsOK == token \in BOOLEAN /\ terminate \in BOOLEAN /\ requestToken \in BOOLEAN

NumbersOK ==
  /\ run \in 0 .. MaxRuns
  /\ round \in 0 .. MaxToolRounds
  /\ current \in 0 .. MaxCalls
  /\ outq \in 0 .. MaxOutputs
  /\ outputs \in 0 .. MaxOutputs
  /\ mark \in Nat /\ base \in Nat /\ requests \in 0 .. MaxToolRounds + 1
  /\ deltas \in 0 .. MaxDeltas /\ calls \in 0 .. MaxCalls

Response == [text : BOOLEAN, calls : Seq(Calls), error : BOOLEAN,
             stop : {"Stop", "Length", "ToolUse", "Error"}]

DataOK ==
  /\ acc \in Response
  /\ batch \in Seq(Calls)
  /\ session \in Seq(Message)
  /\ log \in Seq(Event)
  /\ inbox \in Seq(Stream!StreamEvent)

LEMMA TypeParts == TypeOK <=> PlacesOK /\ FlagsOK /\ NumbersOK /\ DataOK
  BY Zenon DEF TypeOK, Stream!StreamTypeOK, PlacesOK, FlagsOK, NumbersOK, DataOK, Response

Typed == PlacesOK /\ FlagsOK /\ NumbersOK /\ DataOK /\ Counts /\ ToolPlace /\ ProducerPlace

LEMMA InitTyped == Init => Typed
<1> SUFFICES ASSUME Init PROVE Typed
  OBVIOUS
<1> USE DEF Init, Stream!StreamInit
<1>1. PlacesOK
  BY DEF PlacesOK, Places
<1>2. FlagsOK
  BY Zenon DEF FlagsOK
<1>3. NumbersOK
  BY LoopAssumption DEF NumbersOK
<1>4. DataOK
  <2>1. /\ batch \in Seq(Calls) /\ NoResponse.calls \in Seq(Calls)
        /\ session \in Seq(Message) /\ log \in Seq(Event) /\ inbox \in Seq(Stream!StreamEvent)
    BY DEF NoResponse
  <2>2. NoResponse \in Response
    BY <2>1 DEF NoResponse, Response
  <2> QED
    BY <2>1, <2>2 DEF DataOK
<1>5. Counts /\ ToolPlace /\ ProducerPlace
  BY DEF Counts, ToolPlace, ProducerPlace, InResponse, InStream, InBatch
<1> QED
  BY <1>1, <1>2, <1>3, <1>4, <1>5 DEF Typed

-----------------------------------------------------------------------------
(* Flags stay flags. *)
LEMMA StepFlags == Typed /\ [Next]_vars => FlagsOK'
<1> SUFFICES ASSUME Typed, [Next]_vars PROVE FlagsOK'
  OBVIOUS
<1>0. FlagsOK
  BY DEF Typed
<1> USE DEF FlagsOK, streamVars, toolVars, history
<1>1. CASE Allocate
  BY Zenon, <1>0, <1>1 DEF Allocate
<1>2. CASE AppendUser
  BY Zenon, <1>0, <1>2 DEF AppendUser
<1>3. CASE Request
  BY Zenon, <1>0, <1>3 DEF Request
<1>4. CASE StartAborted
  BY Zenon, <1>0, <1>4 DEF StartAborted
<1>5. CASE SeeCancelled
  BY Zenon, <1>0, <1>5 DEF SeeCancelled, Stream!CancelRequest
<1>6. CASE EnterLoop
  BY Zenon, <1>0, <1>6 DEF EnterLoop
<1>7. CASE ReceiveEvent
  BY Zenon, <1>0, <1>7 DEF ReceiveEvent, Stream!Receive
<1>8. CASE ReceiveClosed
  BY Zenon, <1>0, <1>8 DEF ReceiveClosed
<1>9. CASE BeginShutdown
  BY Zenon, <1>0, <1>9 DEF BeginShutdown, Stream!CancelRequest
<1>10. CASE JoinProducer
  BY Zenon, <1>0, <1>10 DEF JoinProducer, Stream!Close, AfterStream
<1>11. CASE Respond
  BY Zenon, <1>0, <1>11 DEF Respond
<1>12. CASE NextTool
  BY Zenon, <1>0, <1>12 DEF NextTool
<1>13. CASE StartTool
  BY Zenon, <1>0, <1>13 DEF StartTool
<1>14. CASE FinishTool
  BY Zenon, <1>0, <1>14 DEF FinishTool
<1>15. CASE FailTool
  BY Zenon, <1>0, <1>15 DEF FailTool
<1>16. CASE EndBatch
  BY Zenon, <1>0, <1>16 DEF EndBatch
<1>17. CASE FinishAborted
  BY Zenon, <1>0, <1>17 DEF FinishAborted
<1>18. CASE FinishRun
  BY Zenon, <1>0, <1>18 DEF FinishRun
<1>19. CASE FailRun
  BY Zenon, <1>0, <1>19 DEF FailRun
<1>20. CASE StartFails
  BY Zenon, <1>0, <1>20 DEF StartFails
<1>21. CASE StartSucceeds
  BY Zenon, <1>0, <1>21 DEF StartSucceeds, Stream!Open
<1>22. CASE ToolSendsOutput
  BY Zenon, <1>0, <1>22 DEF ToolSendsOutput
<1>23. CASE ToolReturns
  BY Zenon, <1>0, <1>23 DEF ToolReturns
<1>24. CASE ForwardOutput
  BY Zenon, <1>0, <1>24 DEF ForwardOutput
<1>25. CASE ProducerStep
  BY Zenon, <1>0, <1>25 DEF ProducerStep, Stream!Produce, Stream!SendDelta, Stream!SendToolCall, Stream!SendDone, Stream!SendError, Stream!TransportFails, Stream!Push
<1>26. CASE ProducerStops
  BY Zenon, <1>0, <1>26 DEF ProducerStops, Stream!StopOnCancel
<1>27. CASE Cancel
  BY Zenon, <1>0, <1>27 DEF Cancel
<1>28. CASE UNCHANGED vars
  BY Zenon, <1>0, <1>28 DEF vars
<1> QED
  BY Zenon, <1>1, <1>2, <1>3, <1>4, <1>5, <1>6, <1>7, <1>8, <1>9, <1>10, <1>11, <1>12, <1>13, <1>14, <1>15, <1>16, <1>17, <1>18, <1>19, <1>20, <1>21, <1>22, <1>23, <1>24, <1>25, <1>26, <1>27, <1>28
     DEF Next, RunStep, ProviderStarts, Done

(* The places and counters of the run, its tool and its producer. *)
LEMMA StepControl ==
  Typed /\ [Next]_vars => PlacesOK' /\ NumbersOK' /\ Counts' /\ ToolPlace' /\ ProducerPlace'
<1> SUFFICES ASSUME Typed, [Next]_vars
             PROVE  PlacesOK' /\ NumbersOK' /\ Counts' /\ ToolPlace' /\ ProducerPlace'
  OBVIOUS
<1> USE LoopAssumption DEF Typed, PlacesOK, NumbersOK, DataOK, Counts, ToolPlace, ProducerPlace,
        Places, InResponse, InStream, InBatch, streamVars, toolVars, history
<1>1. CASE Allocate
  BY <1>1 DEF Allocate
<1>2. CASE AppendUser
  BY <1>2 DEF AppendUser
<1>3. CASE Request
  BY <1>3 DEF Request
<1>4. CASE StartAborted
  BY <1>4 DEF StartAborted
<1>5. CASE SeeCancelled
  BY <1>5 DEF SeeCancelled, Stream!CancelRequest
<1>6. CASE EnterLoop
  BY <1>6 DEF EnterLoop
<1>7. CASE ReceiveEvent
  BY <1>7 DEF ReceiveEvent, Stream!Receive
<1>8. CASE ReceiveClosed
  BY <1>8 DEF ReceiveClosed
<1>9. CASE BeginShutdown
  BY <1>9 DEF BeginShutdown, Stream!CancelRequest
<1>10. CASE JoinProducer
  BY <1>10 DEF JoinProducer, Stream!Close, Stream!ProducerSettled, AfterStream
<1>11. CASE Respond
  <2>1. AfterResponse \in {"finishing", "failing", "batch"}
        /\ (AfterResponse = "batch" => ~ (round >= MaxToolRounds))
    BY Zenon DEF AfterResponse
  <2>2. /\ pc = "respond" /\ pc' \in {"finishing", "failing", "batch"}
        /\ pc' = "batch" => ~ (round >= MaxToolRounds)
    BY Zenon, <1>11, <2>1 DEF Respond
  <2> QED
    BY <1>11, <2>2 DEF Respond
<1>12. CASE NextTool
  BY <1>12 DEF NextTool, MayStartTool
<1>13. CASE StartTool
  <2>1. Head(batch) \in 0 .. MaxCalls
    BY <1>13, TailFacts DEF StartTool, Calls
  <2> QED
    BY <1>13, <2>1 DEF StartTool
<1>14. CASE FinishTool
  BY <1>14 DEF FinishTool, ForwarderJoined
<1>15. CASE FailTool
  BY <1>15 DEF FailTool, ForwarderJoined
<1>16. CASE EndBatch
  BY <1>16 DEF EndBatch, AfterBatch
<1>17. CASE FinishAborted
  BY <1>17 DEF FinishAborted
<1>18. CASE FinishRun
  BY <1>18 DEF FinishRun
<1>19. CASE FailRun
  BY <1>19 DEF FailRun
<1>20. CASE StartFails
  BY <1>20 DEF StartFails
<1>21. CASE StartSucceeds
  BY <1>21 DEF StartSucceeds, Stream!Open
<1>22. CASE ToolSendsOutput
  BY <1>22 DEF ToolSendsOutput
<1>23. CASE ToolReturns
  BY <1>23 DEF ToolReturns
<1>24. CASE ForwardOutput
  BY <1>24 DEF ForwardOutput
<1>25. CASE ProducerStep
  <2>1. /\ producer = "running" /\ producer' \in {"running", "finished", "failed"}
        /\ deltas' \in 0 .. MaxDeltas /\ calls' \in 0 .. MaxCalls
    <3>1. CASE Stream!SendDelta
      BY <3>1 DEF Stream!SendDelta, Stream!Push
    <3>2. CASE Stream!SendToolCall
      BY <3>2 DEF Stream!SendToolCall, Stream!Push
    <3>3. CASE Stream!SendError \/ Stream!TransportFails \/ \E r \in DoneReasons : Stream!SendDone(r)
      BY <3>3 DEF Stream!SendError, Stream!TransportFails, Stream!SendDone, Stream!Push
    <3> QED
      BY <1>25, <3>1, <3>2, <3>3 DEF ProducerStep, Stream!Produce
  <2> QED
    BY <1>25, <2>1 DEF ProducerStep
<1>26. CASE ProducerStops
  BY <1>26 DEF ProducerStops, Stream!StopOnCancel
<1>27. CASE Cancel
  BY <1>27 DEF Cancel, InRun
<1>28. CASE UNCHANGED vars
  BY <1>28 DEF vars
<1> QED
  BY <1>1, <1>2, <1>3, <1>4, <1>5, <1>6, <1>7, <1>8, <1>9, <1>10, <1>11, <1>12, <1>13, <1>14, <1>15, <1>16, <1>17, <1>18, <1>19, <1>20, <1>21, <1>22, <1>23, <1>24, <1>25, <1>26, <1>27, <1>28
     DEF Next, RunStep, ProviderStarts, Done

(* Accumulating an event of the stream gives a response. *)
LEMMA PushedIsResponse ==
  ASSUME NEW a \in Response, NEW e \in Stream!StreamEvent
  PROVE  Pushed(a, e) \in Response
<1> USE LoopAssumption DEF Pushed, Response
<1>1. CASE e \in [kind : {"TextDelta"}]
  BY <1>1
<1>2. CASE e \in [kind : {"ToolCall"}, call : 1 .. MaxCalls]
  <2>1. Append(a.calls, e.call) \in Seq(Calls)
    BY <1>2 DEF Calls
  <2> QED
    BY <1>2, <2>1
<1>3. CASE e \in [kind : {"Done"}, stop : DoneReasons]
  BY <1>3
<1>4. CASE e \in [kind : {"Error"}]
  BY <1>4
<1> QED
  BY <1>1, <1>2, <1>3, <1>4 DEF Stream!StreamEvent

LEMMA BuiltIsMessage ==
  ASSUME acc \in Response PROVE Built(acc) \in Message
<1>1. acc.calls \in Seq(Calls) /\ acc.text \in BOOLEAN
  BY Zenon DEF Response
<1>2. StopReason \in {"Stop", "Length", "ToolUse", "Error", "Aborted"}
  BY DEF StopReason, Response
<1> QED
  BY <1>1, <1>2, MessagesAreMessages DEF Built

(* The response, the batch, the session, the log and the stream. *)
LEMMA StepData == Typed /\ [Next]_vars => DataOK'
<1> SUFFICES ASSUME Typed, [Next]_vars PROVE DataOK'
  OBVIOUS
<1>d. /\ acc \in Response /\ batch \in Seq(Calls) /\ session \in Seq(Message)
      /\ log \in Seq(Event) /\ inbox \in Seq(Stream!StreamEvent)
      /\ NoResponse \in Response
  <2>1. NoResponse.calls \in Seq(Calls)
    BY DEF NoResponse
  <2> QED
    BY <2>1 DEF Typed, DataOK, NoResponse, Response
<1> USE DEF DataOK, streamVars, toolVars, history
<1>1. CASE Allocate
  BY <1>d, <1>1 DEF Allocate
<1>2. CASE AppendUser
  BY <1>d, <1>2, MessagesAreMessages, EventsAreEvents DEF AppendUser
<1>3. CASE Request
  BY <1>d, <1>3 DEF Request
<1>4. CASE StartAborted
  BY <1>d, <1>4 DEF StartAborted
<1>5. CASE SeeCancelled
  BY <1>d, <1>5 DEF SeeCancelled, Stream!CancelRequest
<1>6. CASE EnterLoop
  BY <1>d, <1>6 DEF EnterLoop
<1>7. CASE ReceiveEvent
  <2>1. Head(inbox) \in Stream!StreamEvent /\ inbox' \in Seq(Stream!StreamEvent)
    BY <1>d, <1>7, TailFacts DEF ReceiveEvent, Stream!Receive
  <2>2. Pushed(acc, Head(inbox)) \in Response
    BY <1>d, <2>1, PushedIsResponse
  <2>3. log' \in Seq(Event)
    BY <1>d, <1>7, EventsAreEvents DEF ReceiveEvent
  <2> QED
    BY <1>d, <1>7, <2>1, <2>2, <2>3 DEF ReceiveEvent
<1>8. CASE ReceiveClosed
  BY <1>d, <1>8 DEF ReceiveClosed
<1>9. CASE BeginShutdown
  BY <1>d, <1>9 DEF BeginShutdown, Stream!CancelRequest
<1>10. CASE JoinProducer
  BY <1>d, <1>10 DEF JoinProducer, Stream!Close, Stream!ProducerSettled, AfterStream
<1>11. CASE Respond
  <2>1. session' \in Seq(Message)
    <3>1. Built(acc) \in Message
      BY <1>d, BuiltIsMessage
    <3>2. session' \in {session, Append(session, Built(acc))}
      BY Zenon, <1>11 DEF Respond
    <3>3. session \in Seq(Message)
      BY <1>d
    <3> QED
      BY <3>1, <3>2, <3>3
  <2>2. log' \in Seq(Event)
    BY <1>d, <1>11, EventsAreEvents DEF Respond
  <2>3. acc.calls \in Seq(Calls)
    BY <1>d DEF Response
  <2> QED
    BY <1>d, <1>11, <2>1, <2>2, <2>3 DEF Respond
<1>12. CASE NextTool
  BY <1>d, <1>12 DEF NextTool, MayStartTool
<1>13. CASE StartTool
  <2>1. Head(batch) \in Calls
    BY <1>d, <1>13, TailFacts DEF StartTool, Typed, ToolPlace
  <2> QED
    BY <1>d, <1>13, <2>1, EventsAreEvents DEF StartTool
<1>14. CASE FinishTool
  <2>1. Head(batch) \in Calls /\ Tail(batch) \in Seq(Calls)
    BY <1>d, <1>14, TailFacts DEF FinishTool, Typed, ToolPlace
  <2>2. session' \in Seq(Message) /\ log' \in Seq(Event)
    <3>1. ToolResult(Head(batch)) \in Message /\ Tool("ToolFinished", Head(batch)) \in Event
      BY <2>1, MessagesAreMessages, EventsAreEvents
    <3>2. /\ session' \in {session, Append(session, ToolResult(Head(batch)))}
          /\ log' = Append(log, Tool("ToolFinished", Head(batch)))
      BY Zenon, <1>14 DEF FinishTool
    <3>3. session \in Seq(Message) /\ log \in Seq(Event)
      BY <1>d
    <3>4. log' \in {log, Append(log, Tool("ToolFinished", Head(batch)))}
      BY Zenon, <3>2
    <3> QED
      BY Zenon, <3>1, <3>2, <3>3, <3>4, AppendTyped
  <2> QED
    BY <1>d, <1>14, <2>1, <2>2 DEF FinishTool
<1>15. CASE FailTool
  BY <1>d, <1>15 DEF FailTool, ForwarderJoined
<1>16. CASE EndBatch
  BY <1>d, <1>16 DEF EndBatch, AfterBatch
<1>17. CASE FinishAborted
  <2>1. Assistant("Aborted", <<>>, FALSE) \in Message
    <3>1. <<>> \in Seq(Calls)
      OBVIOUS
    <3> QED
      BY Zenon, <3>1, MessagesAreMessages
  <2>2. Plain("RunAborted") \in Event
    BY EventsAreEvents
  <2>3. session \in Seq(Message) /\ log \in Seq(Event)
    BY <1>d
  <2>4. session' \in Seq(Message) /\ log' \in Seq(Event)
    BY Zenon, <1>17, <2>1, <2>2, <2>3, AppendTyped DEF FinishAborted
  <2> QED
    BY <1>d, <1>17, <2>4 DEF FinishAborted
<1>18. CASE FinishRun
  BY <1>d, <1>18, EventsAreEvents DEF FinishRun
<1>19. CASE FailRun
  BY <1>d, <1>19, EventsAreEvents DEF FailRun
<1>20. CASE StartFails
  BY <1>d, <1>20 DEF StartFails
<1>21. CASE StartSucceeds
  BY <1>d, <1>21 DEF StartSucceeds, Stream!Open
<1>22. CASE ToolSendsOutput
  BY <1>d, <1>22 DEF ToolSendsOutput
<1>23. CASE ToolReturns
  BY <1>d, <1>23 DEF ToolReturns
<1>24. CASE ForwardOutput
  <2>1. pc = "tool" /\ current = Head(batch) /\ batch # <<>>
    BY <1>24 DEF ForwardOutput, Typed, ToolPlace, NumbersOK
  <2>2. current \in Calls
    BY <1>d, <2>1, TailFacts
  <2> QED
    BY <1>d, <1>24, <2>2, EventsAreEvents DEF ForwardOutput
<1>25. CASE ProducerStep
  <2>1. inbox' \in Seq(Stream!StreamEvent)
    <3>1. ASSUME NEW e \in Stream!StreamEvent, Stream!Push(e)
          PROVE  inbox' \in Seq(Stream!StreamEvent)
      BY <1>d, <3>1 DEF Stream!Push
    <3>2. /\ [kind |-> "TextDelta"] \in Stream!StreamEvent
          /\ [kind |-> "Error"] \in Stream!StreamEvent
          /\ \A r \in DoneReasons : [kind |-> "Done", stop |-> r] \in Stream!StreamEvent
          /\ calls < MaxCalls => [kind |-> "ToolCall", call |-> calls + 1] \in Stream!StreamEvent
      BY LoopAssumption DEF Stream!StreamEvent, Typed, NumbersOK
    <3> QED
      BY <1>d, <1>25, <3>1, <3>2 DEF ProducerStep, Stream!Produce, Stream!SendDelta,
         Stream!SendToolCall, Stream!SendDone, Stream!SendError, Stream!TransportFails
  <2> QED
    BY <1>d, <1>25, <2>1 DEF ProducerStep
<1>26. CASE ProducerStops
  BY <1>d, <1>26 DEF ProducerStops, Stream!StopOnCancel
<1>27. CASE Cancel
  BY <1>d, <1>27 DEF Cancel, InRun
<1>28. CASE UNCHANGED vars
  BY <1>d, <1>28 DEF vars
<1> QED
  BY <1>1, <1>2, <1>3, <1>4, <1>5, <1>6, <1>7, <1>8, <1>9, <1>10, <1>11, <1>12, <1>13, <1>14, <1>15, <1>16, <1>17, <1>18, <1>19, <1>20, <1>21, <1>22, <1>23, <1>24, <1>25, <1>26, <1>27, <1>28
     DEF Next, RunStep, ProviderStarts, Done

LEMMA StepTyped == Typed /\ [Next]_vars => Typed'
  BY StepFlags, StepControl, StepData DEF Typed

LEMMA SpecTyped == Spec => []Typed
  BY InitTyped, StepTyped, PTL DEF Spec

(* Types are kept, the number of requests of a run among them: the rounds  *)
(* of the loop and the check that ends it agree (run_inner).               *)
THEOREM LoopTypes == Spec => []TypeOK
<1>1. Typed => TypeOK
  BY TypeParts DEF Typed
<1> QED
  BY <1>1, SpecTyped, PTL

-----------------------------------------------------------------------------
(***************************************************************************)
(* The end of the log follows the place of the run.                        *)
(***************************************************************************)

InTool == {"ToolStarted", "ToolOutput"}

LastEvent == log[Len(log)]

LogPlace ==
  /\ pc \in {"ready", "append_user"} <=> log = <<>>
  /\ pc = "tool" => LastEvent.kind \in InTool /\ LastEvent.call = current
  /\ LastEvent.kind \in InTool => pc \in {"ready", "append_user", "tool", "failing"}
  /\ pc = "aborting" => token

(* What the log ends with after an event was appended to it. *)
LEMMA LogAppended ==
  ASSUME log \in Seq(Event), NEW e \in Event, log' = Append(log, e)
  PROVE  /\ log' # <<>> /\ LastEvent' = e
         /\ Len(log') = Len(log) + 1
         /\ \A i \in 1 .. Len(log) : log'[i] = log[i]
  BY DEF LastEvent

LEMMA EventFields ==
  /\ \A k : Plain(k).kind = k
  /\ \A k, c : Tool(k, c).kind = k /\ Tool(k, c).call = c
  BY DEF Plain, Tool

LEMMA InitLog == Init => LogPlace
  BY DEF Init, LogPlace

(* A step that reports an event other than of a running tool. *)
LEMMA ReportKeeps ==
  ASSUME log \in Seq(Event), NEW e \in Event, log' = Append(log, e),
         e.kind \notin InTool, pc' \notin {"ready", "append_user", "tool"},
         pc' = "aborting" => token'
  PROVE  LogPlace'
<1>1. log' # <<>> /\ LastEvent' = e
  BY LogAppended
<1> QED
  BY Zenon, <1>1 DEF LogPlace

LEMMA StepLog == Typed /\ LogPlace /\ [Next]_vars => LogPlace'
<1> SUFFICES ASSUME Typed, LogPlace, [Next]_vars PROVE LogPlace'
  OBVIOUS
<1>d. /\ log \in Seq(Event) /\ batch \in Seq(Calls)
      /\ pc \in {"tool_start", "tool"} => batch # <<>>
      /\ outq # 0 => pc = "tool"
  BY DEF Typed, DataOK, ToolPlace
<1> USE DEF LogPlace, LastEvent, InTool, streamVars, toolVars, history
<1>1. CASE Allocate
  BY <1>d, <1>1 DEF Allocate
<1>2. CASE AppendUser
  <2>1. Plain("RunStarted") \in Event /\ Plain("RunStarted").kind \notin InTool
    BY EventsAreEvents, EventFields
  <2> QED
    BY <1>d, <1>2, <2>1, ReportKeeps DEF AppendUser
<1>3. CASE Request
  BY <1>d, <1>3 DEF Request
<1>4. CASE StartAborted
  BY <1>d, <1>4 DEF StartAborted, StartInterrupted
<1>5. CASE SeeCancelled
  BY <1>d, <1>5 DEF SeeCancelled, Stream!CancelRequest
<1>6. CASE EnterLoop
  BY <1>d, <1>6 DEF EnterLoop
<1>7. CASE ReceiveEvent
  <2>1. Plain("TextDelta") \in Event /\ Plain("TextDelta").kind \notin InTool
    BY EventsAreEvents, EventFields
  <2>2. pc = "recv" /\ pc' \in {"recv", "shutdown"}
    BY <1>7 DEF ReceiveEvent
  <2>3. CASE log' = log
    BY <2>2, <2>3
  <2>4. CASE log' = Append(log, Plain("TextDelta"))
    BY <1>d, <2>1, <2>2, <2>4, ReportKeeps
  <2> QED
    BY <1>7, <2>3, <2>4 DEF ReceiveEvent
<1>8. CASE ReceiveClosed
  BY <1>d, <1>8 DEF ReceiveClosed
<1>9. CASE BeginShutdown
  BY <1>d, <1>9 DEF BeginShutdown, Stream!CancelRequest
<1>10. CASE JoinProducer
  BY <1>d, <1>10 DEF JoinProducer, Stream!Close, Stream!ProducerSettled, AfterStream
<1>11. CASE Respond
  <2>1. Plain("ProviderError") \in Event /\ Plain("ProviderError").kind \notin InTool
    BY EventsAreEvents, EventFields
  <2>2. pc = "respond" /\ pc' \in {"batch", "finishing", "failing"}
    BY Zenon, <1>11 DEF Respond, AfterResponse
  <2>3. CASE log' = log
    BY <2>2, <2>3
  <2>4. CASE log' = Append(log, Plain("ProviderError"))
    BY <1>d, <2>1, <2>2, <2>4, ReportKeeps
  <2> QED
    BY <1>11, <2>3, <2>4 DEF Respond
<1>12. CASE NextTool
  BY <1>d, <1>12 DEF NextTool, MayStartTool
<1>13. CASE StartTool
  <2>1. Head(batch) \in Calls
    BY <1>d, <1>13, TailFacts DEF StartTool
  <2> DEFINE e == Tool("ToolStarted", Head(batch))
  <2>2. e \in Event /\ e.kind = "ToolStarted" /\ e.call = Head(batch)
    BY <2>1, EventsAreEvents, EventFields
  <2>3. log' = Append(log, e) /\ ((pc' = "tool" /\ current' = Head(batch)) \/ pc' = "failing")
    BY <1>13 DEF StartTool
  <2> HIDE DEF e
  <2>4. log' # <<>> /\ LastEvent' = e
    BY <1>d, <2>2, <2>3, LogAppended
  <2> QED
    BY <2>2, <2>3, <2>4
<1>14. CASE FinishTool
  <2>1. Head(batch) \in Calls
    BY <1>d, <1>14, TailFacts DEF FinishTool
  <2>2. /\ Tool("ToolFinished", Head(batch)) \in Event
        /\ Tool("ToolFinished", Head(batch)).kind \notin InTool
    BY <2>1, EventsAreEvents, EventFields
  <2>3. pc' \in {"batch", "failing"} /\ log' = Append(log, Tool("ToolFinished", Head(batch)))
    BY Zenon, <1>14 DEF FinishTool
  <2> QED
    BY <1>d, <2>2, <2>3, ReportKeeps
<1>15. CASE FailTool
  BY <1>d, <1>15 DEF FailTool, ForwarderJoined
<1>16. CASE EndBatch
  BY <1>d, <1>16 DEF EndBatch, AfterBatch
<1>17. CASE FinishAborted
  <2>1. Plain("RunAborted") \in Event /\ Plain("RunAborted").kind \notin InTool
    BY EventsAreEvents, EventFields
  <2> QED
    BY <1>d, <1>17, <2>1, ReportKeeps DEF FinishAborted
<1>18. CASE FinishRun
  <2>1. Plain("RunFinished") \in Event /\ Plain("RunFinished").kind \notin InTool
    BY EventsAreEvents, EventFields
  <2> QED
    BY <1>d, <1>18, <2>1, ReportKeeps DEF FinishRun
<1>19. CASE FailRun
  <2>1. Plain("RunFailed") \in Event /\ Plain("RunFailed").kind \notin InTool
    BY EventsAreEvents, EventFields
  <2> QED
    BY <1>d, <1>19, <2>1, ReportKeeps DEF FailRun
<1>20. CASE StartFails
  BY <1>d, <1>20 DEF StartFails
<1>21. CASE StartSucceeds
  BY <1>d, <1>21 DEF StartSucceeds, Stream!Open
<1>22. CASE ToolSendsOutput
  BY <1>d, <1>22 DEF ToolSendsOutput
<1>23. CASE ToolReturns
  BY <1>d, <1>23 DEF ToolReturns
<1>24. CASE ForwardOutput
  <2>1. pc = "tool" /\ current = Head(batch) /\ batch # <<>>
    BY <1>d, <1>24 DEF ForwardOutput, Typed, ToolPlace, NumbersOK
  <2> DEFINE e == Tool("ToolOutput", current)
  <2>2. e \in Event /\ e.kind = "ToolOutput" /\ e.call = current
    BY <1>d, <2>1, TailFacts, EventsAreEvents, EventFields
  <2>3. log' = Append(log, e) /\ pc' = pc /\ current' = current
    BY <1>24 DEF ForwardOutput, toolVars
  <2> HIDE DEF e
  <2>4. log' # <<>> /\ LastEvent' = e
    BY <1>d, <2>2, <2>3, LogAppended
  <2> QED
    BY <2>1, <2>2, <2>3, <2>4
<1>25. CASE ProducerStep
  BY <1>d, <1>25 DEF ProducerStep, Stream!Produce, Stream!SendDelta, Stream!SendToolCall, Stream!SendDone, Stream!SendError, Stream!TransportFails, Stream!Push
<1>26. CASE ProducerStops
  BY <1>d, <1>26 DEF ProducerStops, Stream!StopOnCancel
<1>27. CASE Cancel
  BY <1>d, <1>27 DEF Cancel, InRun
<1>28. CASE UNCHANGED vars
  BY <1>d, <1>28 DEF vars
<1> QED
  BY <1>1, <1>2, <1>3, <1>4, <1>5, <1>6, <1>7, <1>8, <1>9, <1>10, <1>11, <1>12, <1>13, <1>14, <1>15, <1>16, <1>17, <1>18, <1>19, <1>20, <1>21, <1>22, <1>23, <1>24, <1>25, <1>26, <1>27, <1>28
     DEF Next, RunStep, ProviderStarts, Done

-----------------------------------------------------------------------------
(***************************************************************************)
(* The loop implements RunContract.                                        *)
(***************************************************************************)

Inv == Typed /\ LogPlace

LEMMA InitInv == Init => Inv
  BY InitTyped, InitLog DEF Inv

LEMMA StepInv == Inv /\ [Next]_vars => Inv'
  BY StepTyped, StepLog DEF Inv

LEMMA SpecInv == Spec => []Inv
  BY InitInv, StepInv, PTL DEF Spec

(* The call that the contract takes for open. *)
LEMMA OpenNow ==
  ASSUME LogPlace
  PROVE  /\ pc = "tool" => Open = {current}
         /\ pc \notin {"tool", "failing"} => Open = {}
  BY DEF LogPlace, Open, InRun, LastEvent, InTool

LEMMA OpenNext ==
  ASSUME LogPlace'
  PROVE  /\ pc' = "tool" => Open' = {current'}
         /\ pc' \notin {"tool", "failing"} => Open' = {}
  BY DEF LogPlace, Open, InRun, LastEvent, InTool

(* A step that leaves the log and the running run is none of the contract. *)
LEMMA SilentStep ==
  ASSUME UNCHANGED <<log, token, result>>,
         pc \notin {"ready", "append_user", "ended"},
         pc' \notin {"ready", "append_user", "ended"}
  PROVE  UNCHANGED Contract!vars
<1>1. Phase' = Phase
  BY Zenon DEF Phase
<1>2. Open' = Open
  BY Zenon DEF Open, InRun
<1> QED
  BY Zenon, <1>1, <1>2 DEF Contract!vars

LEMMA InitContract == Init => Contract!Init
<1> SUFFICES ASSUME Init PROVE Contract!Init
  OBVIOUS
<1>1. Phase = "Ready" /\ Open = {}
  BY DEF Init, Phase, Open, InRun
<1> QED
  BY Zenon, <1>1 DEF Init, Contract!Init

(* What is open after an event was appended. *)
LEMMA OpenAfter ==
  ASSUME log \in Seq(Event), NEW e \in Event, log' = Append(log, e)
  PROVE  Open' = IF e.kind \in InTool /\ InRun' THEN {e.call} ELSE {}
  BY LogAppended DEF Open, LastEvent, InTool

LEMMA StepContract == Inv /\ Inv' /\ [Next]_vars => [Contract!Next]_(Contract!vars)
<1> SUFFICES ASSUME Inv, Inv', [Next]_vars PROVE [Contract!Next]_(Contract!vars)
  OBVIOUS
<1>d. /\ batch \in Seq(Calls)
      /\ pc \in {"tool_start", "tool"} => batch # <<>>
      /\ pc = "tool" => current = Head(batch)
      /\ outq # 0 => pc = "tool"
      /\ tool # "none" => pc = "tool"
      /\ pc = "aborting" => token
  BY DEF Inv, Typed, DataOK, ToolPlace, LogPlace
<1>o. /\ pc = "tool" => Open = {current}
      /\ pc \notin {"tool", "failing"} => Open = {}
  BY OpenNow DEF Inv
<1>n. /\ pc' = "tool" => Open' = {current'}
      /\ pc' \notin {"tool", "failing"} => Open' = {}
  BY OpenNext DEF Inv
<1>p. /\ pc = "ready" => Phase = "Ready"
      /\ pc = "append_user" => Phase = "Allocated"
      /\ pc = "ended" => Phase = "Ended"
      /\ pc \notin {"ready", "append_user", "ended"} => Phase = "Running"
      /\ pc' = "ready" => Phase' = "Ready"
      /\ pc' = "append_user" => Phase' = "Allocated"
      /\ pc' = "ended" => Phase' = "Ended"
      /\ pc' \notin {"ready", "append_user", "ended"} => Phase' = "Running"
  BY DEF Phase
<1>l. log \in Seq(Event)
  BY DEF Inv, Typed, DataOK
<1> USE DEF Contract!Next
<1>1. CASE Allocate
  <2>1. Contract!Allocate
    BY <1>1, <1>o, <1>n, <1>p DEF Allocate, Contract!Allocate
  <2> QED
    BY <2>1
<1>2. CASE AppendUser
  <2>1. Plain("RunStarted") \in Event /\ Plain("RunStarted").kind \notin InTool
    BY EventsAreEvents, EventFields DEF InTool
  <2>2. Open' = {} /\ Open = {}
    BY <1>2, <1>l, <1>o, <2>1, OpenAfter DEF AppendUser
  <2>3. Contract!EmitRunStarted
    BY <1>2, <1>p, <2>2 DEF AppendUser, Contract!EmitRunStarted, Contract!Plain, Plain
  <2> QED
    BY <2>3
<1>3. ASSUME NEW k \in {"TextDelta", "ProviderError"}, log' = Append(log, Plain(k)),
             UNCHANGED <<token, result>>,
             pc \notin {"ready", "append_user", "ended", "tool", "failing"},
             pc' \notin {"ready", "append_user", "ended"}
      PROVE  Contract!Next
  <2>1. Plain(k) \in Event /\ Plain(k).kind \notin InTool
    BY EventsAreEvents, EventFields DEF InTool
  <2>2. Open' = {} /\ Open = {}
    BY <1>3, <1>l, <1>o, <2>1, OpenAfter
  <2>3. Contract!EmitProgress(k)
    BY <1>3, <1>p, <2>2 DEF Contract!EmitProgress, Contract!Running, Contract!Plain, Plain
  <2> QED
    BY <2>3
<1>4. CASE ReceiveEvent
  <2>1. /\ pc = "recv" /\ pc' \in {"recv", "shutdown"} /\ UNCHANGED <<token, result>>
        /\ log' = log \/ log' = Append(log, Plain("TextDelta"))
    BY <1>4 DEF ReceiveEvent
  <2> QED
    BY <1>3, <2>1, SilentStep
<1>5. CASE Respond
  <2>1. /\ pc = "respond" /\ pc' \in {"batch", "finishing", "failing"} /\ UNCHANGED <<token, result>>
        /\ log' = log \/ log' = Append(log, Plain("ProviderError"))
    BY Zenon, <1>5 DEF Respond, AfterResponse
  <2> QED
    BY <1>3, <2>1, SilentStep
<1>6. CASE StartTool
  <2>1. Head(batch) \in Calls
    BY <1>d, <1>6, TailFacts DEF StartTool
  <2>2. /\ Tool("ToolStarted", Head(batch)) \in Event
        /\ Tool("ToolStarted", Head(batch)).kind = "ToolStarted"
        /\ Tool("ToolStarted", Head(batch)).call = Head(batch)
    BY <2>1, EventsAreEvents, EventFields
  <2>3. /\ log' = Append(log, Tool("ToolStarted", Head(batch)))
        /\ pc = "tool_start" /\ pc' \in {"tool", "failing"} /\ UNCHANGED <<token, result>>
    BY Zenon, <1>6 DEF StartTool
  <2>4. Open' = {Head(batch)} /\ Open = {}
    BY <1>l, <1>o, <2>2, <2>3, OpenAfter DEF InTool, InRun
  <2>5. Contract!EmitToolStarted(Head(batch))
    BY <1>p, <2>3, <2>4 DEF Contract!EmitToolStarted, Contract!Running, Contract!Tool, Tool
  <2> QED
    BY <2>1, <2>5
<1>7. CASE ForwardOutput
  <2>a. outq > 0 /\ pc' = pc
    BY Zenon, <1>7 DEF ForwardOutput
  <2>b. ToolPlace /\ outq \in 0 .. MaxOutputs
    BY Zenon DEF Inv, Typed, NumbersOK
  <2>c. pc = "tool" /\ batch # <<>> /\ current = Head(batch)
    BY <2>a, <2>b DEF ToolPlace
  <2>1. pc = "tool" /\ pc' = "tool" /\ Head(batch) \in Calls /\ current = Head(batch)
    BY <1>d, <2>a, <2>c, TailFacts
  <2>2. /\ log' = Append(log, Tool("ToolOutput", current))
        /\ UNCHANGED <<current, token, result>>
    BY Zenon, <1>7 DEF ForwardOutput
  <2>3. Contract!EmitToolOutput(current)
    BY <1>o, <1>n, <1>p, <2>1, <2>2
       DEF Contract!EmitToolOutput, Contract!Running, Contract!InCall, Contract!Tool, Tool
  <2> QED
    BY <2>1, <2>3
<1>8. CASE FinishTool
  <2>1. pc = "tool" /\ Head(batch) \in Calls /\ current = Head(batch)
    BY <1>d, <1>8, TailFacts DEF FinishTool
  <2>2. /\ log' = Append(log, Tool("ToolFinished", Head(batch)))
        /\ pc' \in {"batch", "failing"} /\ UNCHANGED <<token, result>>
    BY Zenon, <1>8 DEF FinishTool
  <2>3. /\ Tool("ToolFinished", Head(batch)) \in Event
        /\ Tool("ToolFinished", Head(batch)).kind = "ToolFinished"
    BY <2>1, EventsAreEvents, EventFields
  <2>4. Open' = {} /\ Open = {Head(batch)}
    BY <1>l, <1>o, <2>1, <2>2, <2>3, OpenAfter DEF InTool
  <2>5. Contract!EmitToolFinished(Head(batch))
    BY <1>p, <2>1, <2>2, <2>4
       DEF Contract!EmitToolFinished, Contract!Running, Contract!InCall, Contract!Tool, Tool
  <2> QED
    BY <2>1, <2>5
<1>9. CASE FinishAborted
  <2>1. Contract!EmitRunAborted
    BY <1>9, <1>d, <1>o, <1>n, <1>p
       DEF FinishAborted, Contract!EmitRunAborted, Contract!End, Contract!Running,
           Contract!Plain, Plain
  <2> QED
    BY <2>1
<1>10. CASE FinishRun
  <2>1. Contract!EmitRunFinished
    BY <1>10, <1>o, <1>n, <1>p
       DEF FinishRun, Contract!EmitRunFinished, Contract!End, Contract!Running,
           Contract!Plain, Plain
  <2> QED
    BY <2>1
<1>11. CASE FailRun
  <2>1. Contract!EmitRunFailed
    BY <1>11, <1>n, <1>p
       DEF FailRun, Contract!EmitRunFailed, Contract!End, Contract!Running, Contract!Plain, Plain
  <2> QED
    BY <2>1
<1>12. CASE Cancel
  <2>1. /\ token' = TRUE /\ UNCHANGED <<pc, log, result>>
        /\ pc \notin {"ready", "ended"} /\ pc \in Places
    BY <1>12 DEF Cancel, InRun, Inv, Typed, PlacesOK
  <2>2. Open' = Open /\ Phase' = Phase
    BY Zenon, <2>1 DEF Open, InRun, Phase
  <2>3. Contract!Cancel
    BY <1>p, <2>1, <2>2 DEF Contract!Cancel
  <2> QED
    BY <2>3
<1>13. CASE \/ Request \/ StartAborted \/ SeeCancelled \/ EnterLoop \/ ReceiveClosed
            \/ BeginShutdown \/ JoinProducer \/ NextTool \/ FailTool \/ EndBatch
            \/ ProviderStarts
  <2>1. /\ UNCHANGED <<log, token, result>>
        /\ pc \notin {"ready", "append_user", "ended"}
        /\ pc' \notin {"ready", "append_user", "ended"}
    BY <1>13 DEF Request, StartAborted, SeeCancelled, EnterLoop, ReceiveClosed, BeginShutdown, JoinProducer, NextTool, FailTool, EndBatch,
       ProviderStarts, StartFails, StartSucceeds, AfterStream, AfterBatch
  <2> QED
    BY <2>1, SilentStep
<1>14. CASE ToolSendsOutput \/ ToolReturns \/ ProducerStep \/ ProducerStops \/ UNCHANGED vars
  <2>1. UNCHANGED <<pc, log, token, result>>
    BY Zenon, <1>14 DEF ToolSendsOutput, ToolReturns, ProducerStep, ProducerStops, vars
  <2> QED
    BY Zenon, <2>1 DEF Contract!vars, Phase, Open, InRun
<1> QED
  BY Zenon, <1>1, <1>2, <1>4, <1>5, <1>6, <1>7, <1>8, <1>9, <1>10, <1>11, <1>12, <1>13, <1>14
     DEF Next, RunStep, Done

(* The loop implements RunContract: whatever the provider, the tool and    *)
(* the canceller do, the events of a run come in the order AgentEvent      *)
(* promises and its result is the one its terminal event tells of.         *)
THEOREM LoopKeepsContract == Spec => KeepsContract
  BY InitContract, StepContract, SpecInv, PTL DEF Spec, KeepsContract

-----------------------------------------------------------------------------
(***************************************************************************)
(* Cancellation takes hold.                                                *)
(***************************************************************************)

(* The strengthening: a call whose check came before the token was set     *)
(* has not been started yet when the run is about to start it.             *)
CancelPlace ==
  /\ token => mark <= Len(log)
  /\ AtMostOneMoreTool
  /\ token /\ pc = "tool_start" => StartedLate = {}

CancelInv == Inv /\ CancelPlace

LEMMA InitCancel == Init => CancelPlace
  BY DEF Init, CancelPlace, AtMostOneMoreTool

(* Another event than ToolStarted leaves StartedLate as it is. *)
LEMMA ReportLate ==
  ASSUME log \in Seq(Event), mark \in Nat, mark <= Len(log), mark' = mark,
         NEW e \in Event, log' = Append(log, e)
  PROVE  StartedLate' = IF e.kind = "ToolStarted" THEN StartedLate \cup {Len(log) + 1}
                        ELSE StartedLate
<1>1. /\ Len(log') = Len(log) + 1 /\ Len(log) \in Nat
      /\ log'[Len(log) + 1] = e
      /\ \A i \in 1 .. Len(log) : log'[i] = log[i]
  BY LogAppended DEF LastEvent
<1> QED
  BY <1>1 DEF StartedLate

(* A step that appends nothing, or an event other than ToolStarted, and    *)
(* does not get the run to tool_start.                                     *)
LEMMA ReportCancel ==
  ASSUME Inv, CancelPlace, token' = token, mark' = mark,
         pc' # "tool_start" \/ pc = "tool_start" \/ ~token,
         \/ log' = log
         \/ \E e \in Event : e.kind # "ToolStarted" /\ log' = Append(log, e)
  PROVE  CancelPlace'
<1>1. log \in Seq(Event) /\ mark \in Nat
  BY DEF Inv, Typed, DataOK, NumbersOK
<1>2. CASE ~token
  BY <1>2 DEF CancelPlace, AtMostOneMoreTool
<1>3. CASE token
  <2>1. StartedLate' = StartedLate /\ mark' <= Len(log')
    <3>1. CASE log' = log
      BY <1>3, <3>1 DEF StartedLate, CancelPlace
    <3>2. ASSUME NEW e \in Event, e.kind # "ToolStarted", log' = Append(log, e)
          PROVE  StartedLate' = StartedLate /\ mark' <= Len(log')
      <4>1. mark <= Len(log)
        BY <1>3 DEF CancelPlace
      <4>2. StartedLate' = StartedLate
        BY <1>1, <3>2, <4>1, ReportLate
      <4>3. Len(log') = Len(log) + 1 /\ Len(log) \in Nat
        BY <1>1, <3>2
      <4> QED
        BY <1>1, <4>1, <4>2, <4>3
    <3> QED
      BY <3>1, <3>2
  <2> QED
    BY <1>3, <2>1 DEF CancelPlace, AtMostOneMoreTool
<1> QED
  BY <1>2, <1>3

LEMMA StepCancel == Inv /\ CancelPlace /\ [Next]_vars => CancelPlace'
<1> SUFFICES ASSUME Inv, CancelPlace, [Next]_vars PROVE CancelPlace'
  OBVIOUS
<1>d. /\ log \in Seq(Event) /\ batch \in Seq(Calls) /\ mark \in Nat
      /\ pc \in {"tool_start", "tool"} => batch # <<>>
      /\ outq # 0 => pc = "tool"
      /\ pc = "tool" => current = Head(batch)
  BY DEF Inv, Typed, DataOK, NumbersOK, ToolPlace
<1> USE DEF streamVars, toolVars, history
<1>1. CASE Allocate
  BY <1>1 DEF Allocate, CancelPlace, AtMostOneMoreTool
<1>2. CASE Cancel
  <2>1. mark' = Len(log') /\ pc' = pc /\ token' /\ Len(log') \in Nat
    BY <1>d, <1>2 DEF Cancel
  <2>2. StartedLate' = {}
    BY <2>1 DEF StartedLate
  <2> QED
    BY <2>1, <2>2 DEF CancelPlace, AtMostOneMoreTool
<1>3. CASE StartTool
  <2>1. Head(batch) \in Calls
    BY <1>d, <1>3, TailFacts DEF StartTool
  <2>2. /\ Tool("ToolStarted", Head(batch)) \in Event
        /\ Tool("ToolStarted", Head(batch)).kind = "ToolStarted"
    BY <2>1, EventsAreEvents, EventFields
  <2>3. /\ log' = Append(log, Tool("ToolStarted", Head(batch)))
        /\ pc = "tool_start" /\ pc' \in {"tool", "failing"} /\ UNCHANGED <<token, mark>>
    BY Zenon, <1>3 DEF StartTool
  <2>4. CASE ~token
    BY <2>3, <2>4 DEF CancelPlace, AtMostOneMoreTool
  <2>5. CASE token
    <3>1. mark <= Len(log) /\ StartedLate = {}
      BY <2>3, <2>5 DEF CancelPlace
    <3>2. StartedLate' = {Len(log) + 1}
      BY <1>d, <2>2, <2>3, <3>1, ReportLate
    <3>3. mark' <= Len(log')
      BY <1>d, <2>3, <3>1
    <3> QED
      BY <2>3, <3>2, <3>3 DEF CancelPlace, AtMostOneMoreTool
  <2> QED
    BY <2>4, <2>5
<1>4. ASSUME NEW k \in {"RunStarted", "TextDelta", "ProviderError", "RunFinished", "RunAborted",
                        "RunFailed"}
      PROVE  Plain(k) \in Event /\ Plain(k).kind # "ToolStarted"
  BY EventsAreEvents, EventFields
<1>5. CASE AppendUser \/ ReceiveEvent \/ Respond \/ FinishAborted \/ FinishRun \/ FailRun
  <2>1. /\ UNCHANGED <<token, mark>> /\ pc' # "tool_start"
        /\ \/ log' = log
           \/ \E k \in {"RunStarted", "TextDelta", "ProviderError", "RunFinished", "RunAborted",
                        "RunFailed"} : log' = Append(log, Plain(k))
    BY Zenon, <1>5 DEF AppendUser, ReceiveEvent, Respond, AfterResponse, FinishAborted,
       FinishRun, FailRun
  <2> QED
    BY <1>4, <2>1, ReportCancel
<1>6. CASE FinishTool \/ ForwardOutput
  <2>1. Head(batch) \in Calls /\ current \in Calls
    BY <1>d, <1>6, TailFacts DEF FinishTool, ForwardOutput, Inv, Typed, NumbersOK
  <2>2. ASSUME NEW k \in {"ToolOutput", "ToolFinished"}, NEW c \in Calls
        PROVE  Tool(k, c) \in Event /\ Tool(k, c).kind # "ToolStarted"
    BY EventsAreEvents, EventFields
  <2>3. /\ UNCHANGED <<token, mark>> /\ (pc' # "tool_start" \/ pc' = pc)
        /\ \E k \in {"ToolOutput", "ToolFinished"}, c \in Calls : log' = Append(log, Tool(k, c))
    BY <1>6, <2>1 DEF FinishTool, ForwardOutput
  <2> QED
    BY <2>2, <2>3, ReportCancel
<1>7. CASE NextTool
  BY <1>7, ReportCancel DEF NextTool, MayStartTool
<1>8. CASE \/ Request \/ StartAborted \/ SeeCancelled \/ EnterLoop \/ ReceiveClosed
           \/ BeginShutdown \/ JoinProducer \/ FailTool \/ EndBatch \/ StartFails
           \/ StartSucceeds \/ ToolSendsOutput \/ ToolReturns \/ ProducerStep
           \/ ProducerStops
           \/ UNCHANGED vars
  <2>1. UNCHANGED <<token, mark, log>> /\ (pc' # "tool_start" \/ pc' = pc)
    BY Zenon, <1>8 DEF Request, StartAborted, SeeCancelled, EnterLoop, ReceiveClosed,
       BeginShutdown, JoinProducer, FailTool, EndBatch, StartFails,
       StartSucceeds, ToolSendsOutput, ToolReturns, ProducerStep,
       ProducerStops,
       AfterStream, AfterBatch, vars
  <2> QED
    BY <2>1, ReportCancel
<1> QED
  BY Zenon, <1>1, <1>2, <1>3, <1>5, <1>6, <1>7, <1>8 DEF Next, RunStep, ProviderStarts, Done

LEMMA SpecCancel == Spec => []CancelInv
<1>1. Init => CancelInv
  BY InitInv, InitCancel DEF CancelInv
<1>2. CancelInv /\ [Next]_vars => CancelInv'
  BY StepInv, StepCancel DEF CancelInv
<1> QED
  BY <1>1, <1>2, PTL DEF Spec

(* Once the token is set no tool is started but one that was already       *)
(* checked, and no producer, tool or forwarder is left to go on by itself. *)
THEOREM LoopCancelTakesHold == Spec => []CancelTakesHold
<1>1. CancelInv => NoDetachedTask
  BY DEF CancelInv, Inv, Typed, ToolPlace, ProducerPlace, InStream, NoDetachedTask
<1>2. CancelInv => CancelTakesHold
  BY <1>1 DEF CancelInv, CancelPlace, CancelTakesHold
<1> QED
  BY <1>2, SpecCancel, PTL

-----------------------------------------------------------------------------
(***************************************************************************)
(* Calls and results pair up: facts about sequences of messages.           *)
(***************************************************************************)

(* What is answered stays answered when another message follows. *)
LEMMA AnsweredKept ==
  ASSUME NEW s \in Seq(Message), NEW m \in Message, NEW i \in 1 .. Len(s)
  PROVE  /\ Answered(s, i) => Answered(Append(s, m), i)
         /\ AnswersCall(s, i) => AnswersCall(Append(s, m), i)
<1> DEFINE t == Append(s, m)
<1>1. /\ t \in Seq(Message) /\ DOMAIN t = 1 .. Len(s) + 1 /\ Len(s) \in Nat
      /\ DOMAIN s = 1 .. Len(s)
      /\ \A j \in 1 .. Len(s) : t[j] = s[j]
  BY AppendFacts
<1> HIDE DEF t
<1>2. ASSUME Answered(s, i) PROVE Answered(t, i)
  <2>1. t[i] = s[i]
    BY <1>1
  <2> QED
    BY <1>1, <1>2, <2>1 DEF Answered
<1>3. ASSUME AnswersCall(s, i) PROVE AnswersCall(t, i)
  <2>1. PICK j \in 1 .. i - 1 : s[j].role = "Assistant" /\ i - j \in DOMAIN s[j].calls
    BY <1>3 DEF AnswersCall
  <2>2. t[j] = s[j]
    BY <1>1, <2>1
  <2> QED
    BY <2>1, <2>2 DEF AnswersCall
<1> QED
  BY <1>2, <1>3 DEF t

(* The calls b are what is left of the last message with calls, p: the     *)
(* results of the others follow it, and all before it is answered.         *)
Pending(s, p, b) ==
  LET k == Len(s) - p IN
  /\ p \in 1 .. Len(s)
  /\ s[p].role = "Assistant" /\ s[p].calls \in Seq(Calls)
  /\ Len(s[p].calls) = k + Len(b)
  /\ \A j \in 1 .. k : s[p + j] = ToolResult(s[p].calls[j])
  /\ \A j \in 1 .. Len(b) : b[j] = s[p].calls[k + j]
  /\ \A i \in 1 .. p - 1 : s[i].role = "Assistant" => Answered(s, i)
  /\ \A i \in 1 .. Len(s) : s[i].role = "ToolResult" => AnswersCall(s, i)

(* A message with calls c opens a batch. *)
LEMMA BatchOpens ==
  ASSUME NEW s \in Seq(Message), AllAnswered(s), NEW m \in Message,
         m.role = "Assistant", m.calls \in Seq(Calls)
  PROVE  Pending(Append(s, m), Len(s) + 1, m.calls)
<1> DEFINE t == Append(s, m)
           n == Len(s)
<1>1. /\ t \in Seq(Message) /\ Len(t) = n + 1 /\ n \in Nat /\ t[n + 1] = m
      /\ DOMAIN s = 1 .. n
      /\ \A j \in 1 .. n : t[j] = s[j]
  BY AppendFacts
<1>2. \A i \in 1 .. n : /\ Answered(s, i) => Answered(t, i)
                        /\ AnswersCall(s, i) => AnswersCall(t, i)
  BY AnsweredKept
<1> HIDE DEF t, n
<1>3. \A i \in 1 .. n : /\ t[i].role = "Assistant" => Answered(t, i)
                        /\ t[i].role = "ToolResult" => AnswersCall(t, i)
  BY <1>1, <1>2 DEF AllAnswered
<1>4. \A i \in 1 .. n + 1 : t[i].role = "ToolResult" => AnswersCall(t, i)
  BY <1>1, <1>3
<1>5. Len(t) - (n + 1) = 0 /\ n + 1 \in 1 .. Len(t) /\ (n + 1) - 1 = n
  BY <1>1
<1>6. Pending(t, n + 1, m.calls)
  BY <1>1, <1>3, <1>4, <1>5 DEF Pending
<1> QED
  BY <1>6 DEF t, n

(* A result of the next call shortens it. *)
LEMMA BatchProceeds ==
  ASSUME NEW s \in Seq(Message), NEW p, NEW b \in Seq(Calls), b # <<>>, Pending(s, p, b)
  PROVE  Pending(Append(s, ToolResult(Head(b))), p, Tail(b))
<1> DEFINE m == ToolResult(Head(b))
           t == Append(s, m)
           n == Len(s)
           k == n - p
           c == s[p].calls
<1>1. /\ Head(b) \in Calls /\ Head(b) = b[1] /\ Len(Tail(b)) = Len(b) - 1
      /\ Len(b) \in Nat /\ Len(b) > 0
      /\ \A j \in 1 .. Len(b) - 1 : Tail(b)[j] = b[j + 1]
  BY TailFacts
<1>2. m \in Message /\ m.role = "ToolResult"
  BY <1>1, MessagesAreMessages DEF ToolResult
<1> HIDE DEF m
<1>3. /\ t \in Seq(Message) /\ Len(t) = n + 1 /\ n \in Nat /\ t[n + 1] = m
      /\ \A j \in 1 .. n : t[j] = s[j]
  BY <1>2, AppendFacts
<1>4. \A i \in 1 .. n : /\ Answered(s, i) => Answered(t, i)
                        /\ AnswersCall(s, i) => AnswersCall(t, i)
  BY <1>2, AnsweredKept
<1>5. /\ p \in 1 .. n /\ k \in Nat /\ c \in Seq(Calls) /\ s[p].role = "Assistant"
      /\ Len(c) = k + Len(b)
      /\ \A j \in 1 .. k : s[p + j] = ToolResult(c[j])
      /\ \A j \in 1 .. Len(b) : b[j] = c[k + j]
      /\ \A i \in 1 .. p - 1 : s[i].role = "Assistant" => Answered(s, i)
      /\ \A i \in 1 .. n : s[i].role = "ToolResult" => AnswersCall(s, i)
  BY <1>3 DEF Pending
<1> HIDE DEF t, n, k, c
<1>6. t[p] = s[p] /\ t[p].calls = c
  BY <1>3, <1>5 DEF c
<1>7. p + k = n /\ p + (k + 1) = n + 1 /\ (n + 1) - p = k + 1
  BY <1>3, <1>5 DEF k
<1>8. m = ToolResult(c[k + 1]) /\ k + 1 \in 1 .. Len(c)
  BY <1>1, <1>5 DEF m
<1>9. \A j \in 1 .. k + 1 : t[p + j] = ToolResult(c[j])
  <2> SUFFICES ASSUME NEW j \in 1 .. k + 1 PROVE t[p + j] = ToolResult(c[j])
    OBVIOUS
  <2>1. CASE j = k + 1
    BY <1>3, <1>7, <1>8, <2>1
  <2>2. CASE j \in 1 .. k
    <3>1. p + j \in 1 .. n
      BY <1>3, <1>5, <1>7, <2>2
    <3> QED
      BY <1>3, <1>5, <2>2, <3>1
  <2> QED
    BY <1>5, <2>1, <2>2
<1>10. \A j \in 1 .. Len(Tail(b)) : Tail(b)[j] = c[(k + 1) + j]
  <2> SUFFICES ASSUME NEW j \in 1 .. Len(b) - 1 PROVE b[j + 1] = c[(k + 1) + j]
    BY <1>1
  <2>1. j + 1 \in 1 .. Len(b) /\ (k + 1) + j = k + (j + 1)
    BY <1>1, <1>5
  <2> QED
    BY <1>5, <2>1
<1>11. \A i \in 1 .. n + 1 : t[i].role = "ToolResult" => AnswersCall(t, i)
  <2> SUFFICES ASSUME NEW i \in 1 .. n + 1, t[i].role = "ToolResult" PROVE AnswersCall(t, i)
    OBVIOUS
  <2>1. CASE i = n + 1
    <3>1. p \in 1 .. i - 1 /\ i - p = k + 1 /\ DOMAIN c = 1 .. Len(c)
      BY <1>3, <1>5, <1>7, <2>1
    <3> QED
      BY <1>5, <1>6, <1>8, <3>1 DEF AnswersCall
  <2>2. CASE i \in 1 .. n
    BY <1>3, <1>4, <1>5, <2>2
  <2> QED
    BY <1>3, <2>1, <2>2
<1>12. \A i \in 1 .. p - 1 : t[i].role = "Assistant" => Answered(t, i)
  BY <1>3, <1>4, <1>5
<1>13. p \in 1 .. n + 1 /\ Len(c) = (k + 1) + Len(Tail(b))
  BY <1>1, <1>3, <1>5
<1>14. Pending(t, p, Tail(b))
  BY <1>3, <1>5, <1>6, <1>7, <1>9, <1>10, <1>11, <1>12, <1>13 DEF Pending
<1> QED
  BY <1>14 DEF t, m

(* When nothing is left everything is answered. *)
LEMMA BatchCloses ==
  ASSUME NEW s \in Seq(Message), NEW p, Pending(s, p, <<>>)
  PROVE  AllAnswered(s)
<1> DEFINE n == Len(s)
           k == n - p
           c == s[p].calls
<1>1. n \in Nat /\ DOMAIN s = 1 .. n
  OBVIOUS
<1>2. /\ p \in 1 .. n /\ k \in Nat /\ c \in Seq(Calls)
      /\ Len(c) = k
      /\ \A j \in 1 .. k : s[p + j] = ToolResult(c[j])
      /\ \A i \in 1 .. p - 1 : s[i].role = "Assistant" => Answered(s, i)
      /\ \A i \in 1 .. n : s[i].role = "ToolResult" => AnswersCall(s, i)
  <2>1. Len(<<>>) = 0
    OBVIOUS
  <2> HIDE DEF c
  <2>2. p \in 1 .. n /\ c \in Seq(Calls) /\ Len(c) = k + 0
    BY <2>1 DEF Pending, c
  <2>3. /\ \A j \in 1 .. k : s[p + j] = ToolResult(c[j])
        /\ \A i \in 1 .. p - 1 : s[i].role = "Assistant" => Answered(s, i)
        /\ \A i \in 1 .. n : s[i].role = "ToolResult" => AnswersCall(s, i)
    BY Zenon DEF Pending, c
  <2>4. k \in Nat /\ k + 0 = k
    BY <1>1, <2>2
  <2> QED
    BY <2>2, <2>3, <2>4
<1> HIDE DEF n, k
<1>3. Answered(s, p)
  <2>1. DOMAIN c = 1 .. k
    BY <1>2
  <2>2. \A j \in 1 .. k : p + j \in 1 .. n
    BY <1>1, <1>2 DEF k
  <2> QED
    BY <1>1, <1>2, <2>1, <2>2 DEF Answered
<1>4. \A i \in p + 1 .. n : s[i].role # "Assistant"
  <2> SUFFICES ASSUME NEW i \in p + 1 .. n PROVE s[i].role # "Assistant"
    OBVIOUS
  <2>1. i - p \in 1 .. k /\ p + (i - p) = i
    BY <1>1, <1>2 DEF k
  <2>2. s[i] = ToolResult(c[i - p])
    BY <1>2, <2>1
  <2> QED
    BY <2>2 DEF ToolResult
<1>5. \A i \in 1 .. n : s[i].role = "Assistant" => Answered(s, i)
  BY <1>1, <1>2, <1>3, <1>4
<1> QED
  BY <1>1, <1>2, <1>5 DEF AllAnswered

-----------------------------------------------------------------------------
(***************************************************************************)
(* Requests carry the results they need.                                   *)
(***************************************************************************)

(* The end of a sequence. *)
LEMMA SuffixFacts ==
  ASSUME NEW S, NEW s \in Seq(S), NEW b \in Nat, b <= Len(s)
  PROVE  /\ SubSeq(s, b + 1, Len(s)) \in Seq(S)
         /\ Len(SubSeq(s, b + 1, Len(s))) = Len(s) - b
         /\ \A i \in 1 .. Len(SubSeq(s, b + 1, Len(s))) : SubSeq(s, b + 1, Len(s))[i] = s[b + i]
  OBVIOUS

(* The messages of a run. *)
LEMMA MineIs ==
  ASSUME session \in Seq(Message), base \in Nat, base <= Len(session)
  PROVE  /\ Mine \in Seq(Message) /\ Len(Mine) = Len(session) - base
         /\ \A i \in 1 .. Len(Mine) : Mine[i] = session[base + i]
  BY Zenon, SuffixFacts DEF Mine

LEMMA MineNext ==
  ASSUME session' \in Seq(Message), base' \in Nat, base' <= Len(session')
  PROVE  /\ Mine' \in Seq(Message) /\ Len(Mine') = Len(session') - base'
         /\ \A i \in 1 .. Len(Mine') : Mine'[i] = session'[base' + i]
  BY Zenon, SuffixFacts DEF Mine

(* What is appended to the session is appended to them. *)
LEMMA MineAppended ==
  ASSUME session \in Seq(Message), base \in Nat, base <= Len(session),
         NEW m \in Message, session' = Append(session, m), base' = base
  PROVE  /\ Mine' = Append(Mine, m) /\ Mine \in Seq(Message)
         /\ base' <= Len(session')
<1>1. /\ session' \in Seq(Message) /\ Len(session') = Len(session) + 1 /\ Len(session) \in Nat
      /\ session'[Len(session) + 1] = m
      /\ \A i \in 1 .. Len(session) : session'[i] = session[i]
  BY AppendFacts
<1>2. /\ Mine \in Seq(Message) /\ Len(Mine) = Len(session) - base
      /\ \A i \in 1 .. Len(Mine) : Mine[i] = session[base + i]
  BY MineIs
<1>3. /\ Mine' \in Seq(Message) /\ Len(Mine') = Len(session') - base
      /\ \A i \in 1 .. Len(Mine') : Mine'[i] = session'[base + i]
  BY <1>1, MineNext
<1>4. /\ Append(Mine, m) \in Seq(Message) /\ Len(Append(Mine, m)) = Len(Mine) + 1
      /\ Append(Mine, m)[Len(Mine) + 1] = m
      /\ \A i \in 1 .. Len(Mine) : Append(Mine, m)[i] = Mine[i]
  BY <1>2, AppendFacts
<1>5. Len(Mine') = Len(Append(Mine, m))
  BY <1>1, <1>2, <1>3, <1>4
<1>6. ASSUME NEW i \in 1 .. Len(Mine') PROVE Mine'[i] = Append(Mine, m)[i]
  <2>1. CASE i = Len(Mine) + 1
    BY <1>1, <1>2, <1>3, <1>4, <2>1
  <2>2. CASE i \in 1 .. Len(Mine)
    <3>1. base + i \in 1 .. Len(session)
      BY <1>1, <1>2, <2>2
    <3>2. Mine'[i] = session'[base + i] /\ session'[base + i] = session[base + i]
      BY <1>1, <1>3, <3>1
    <3>3. Mine[i] = session[base + i] /\ Append(Mine, m)[i] = Mine[i]
      BY <1>2, <1>4, <2>2
    <3> QED
      BY <3>2, <3>3
  <2>3. Len(Mine') = Len(Mine) + 1 /\ Len(Mine) \in Nat
    BY <1>2, <1>4, <1>5
  <2> QED
    BY <2>1, <2>2, <2>3
<1>7. Mine' = Append(Mine, m)
  BY <1>3, <1>4, <1>5, <1>6
<1> QED
  BY <1>1, <1>2, <1>7

BeforeResponse == {"request"} \cup InResponse

(* The last message lets the run be reported finished. *)
MayFinish(s) ==
  /\ Len(s) > 1
  /\ LET m == s[Len(s)] IN
       \/ m.role = "Assistant" /\ m.stop \in {"Stop", "Length", "Error"}
       \/ m.role = "ToolResult" /\ terminate

ToolUseAnswered(s) ==
  \A i \in DOMAIN s : s[i].role = "Assistant" /\ s[i].stop = "ToolUse" => Answered(s, i)

(* What the messages of the run look like from each of its places. *)
SessionPlace ==
  /\ base <= Len(session)
  /\ pc \in {"ready", "append_user"} => Mine = <<>>
  /\ pc \in BeforeResponse => Mine # <<>> /\ AllAnswered(Mine)
  /\ pc \in InBatch =>
       /\ \E p \in 1 .. Len(Mine) : Pending(Mine, p, batch)
       /\ Len(Mine) > 1
       /\ terminate => Mine[Len(Mine)].role = "ToolResult"
  /\ pc = "finishing" => ToolUseAnswered(Mine) /\ MayFinish(Mine)
  /\ pc = "ended" /\ LastEvent.kind = "RunFinished" => MayFinish(Mine)

LEMMA InitSession == Init => SessionPlace
  BY DEF Init, SessionPlace, Mine, BeforeResponse, InResponse, InStream, InBatch

(* A run that has appended its prompt. *)
LEMMA PromptAnswered == AllAnswered(<<User>>)
  BY DEF AllAnswered, User

(* A step that leaves the messages and the batch, within one of the groups *)
(* of places or out of them.                                               *)
LEMMA SessionKept ==
  ASSUME SessionPlace, UNCHANGED <<session, base, batch, terminate>>,
         pc' \in {"ready", "append_user"} => pc \in {"ready", "append_user"},
         pc' \in BeforeResponse => pc \in BeforeResponse,
         pc' \in InBatch => pc \in InBatch,
         pc' = "finishing" => pc = "finishing",
         pc' = "ended" /\ LastEvent'.kind = "RunFinished" =>
           \/ pc = "finishing"
           \/ pc = "ended" /\ LastEvent.kind = "RunFinished"
  PROVE  SessionPlace'
<1>1. Mine' = Mine
  BY DEF Mine
<1>2. /\ base' <= Len(session')
      /\ pc' \in {"ready", "append_user"} => Mine' = <<>>
      /\ pc' \in BeforeResponse => Mine' # <<>> /\ AllAnswered(Mine')
  BY Zenon, <1>1 DEF SessionPlace
<1>3. pc' \in InBatch =>
        /\ \E p \in 1 .. Len(Mine') : Pending(Mine', p, batch')
        /\ Len(Mine') > 1
        /\ terminate' => Mine'[Len(Mine')].role = "ToolResult"
  BY Zenon, <1>1 DEF SessionPlace
<1>4. /\ pc' = "finishing" => ToolUseAnswered(Mine') /\ MayFinish(Mine)'
      /\ pc' = "ended" /\ LastEvent'.kind = "RunFinished" => MayFinish(Mine)'
  BY Zenon, <1>1 DEF SessionPlace, MayFinish
<1> QED
  BY Zenon, <1>2, <1>3, <1>4 DEF SessionPlace

LEMMA StepSession == Inv /\ Inv' /\ SessionPlace /\ [Next]_vars => SessionPlace'
<1> SUFFICES ASSUME Inv, Inv', SessionPlace, [Next]_vars PROVE SessionPlace'
  OBVIOUS
<1>d. /\ session \in Seq(Message) /\ base \in Nat /\ base <= Len(session)
      /\ batch \in Seq(Calls) /\ acc \in Response /\ log \in Seq(Event)
      /\ session' \in Seq(Message)
      /\ pc \in {"tool_start", "tool"} => batch # <<>>
  BY DEF Inv, Typed, DataOK, NumbersOK, ToolPlace, SessionPlace
<1>m. Mine \in Seq(Message)
  BY <1>d, MineIs
<1>g. /\ BeforeResponse = {"request", "starting", "respond", "opened", "recv", "shutdown", "joining"}
      /\ InBatch = {"batch", "tool_start", "tool"}
  BY DEF BeforeResponse, InResponse, InStream, InBatch
<1> USE DEF streamVars, toolVars, history
<1>1. CASE Allocate
  <2>1. /\ pc' = "append_user" /\ session' = session /\ base' = Len(session)
    BY <1>1 DEF Allocate
  <2>2. base' <= Len(session') /\ Mine' = <<>>
    BY <1>d, <2>1, MineNext
  <2> QED
    BY <1>g, <2>1, <2>2 DEF SessionPlace
<1>2. CASE AppendUser
  <2>1. CASE session' = session
    BY <1>2, <1>g, <2>1, SessionKept DEF AppendUser
  <2>2. CASE session' = Append(session, User) /\ pc' = "request"
    <3>1. Mine' = <<User>> /\ base' <= Len(session')
      BY <1>2, <1>d, <2>2, MessagesAreMessages, MineAppended DEF AppendUser, SessionPlace
    <3>2. Mine' # <<>> /\ AllAnswered(Mine')
      BY <3>1, PromptAnswered
    <3> QED
      BY <1>g, <2>2, <3>1, <3>2 DEF SessionPlace
  <2> QED
    BY <1>2, <2>1, <2>2 DEF AppendUser
<1>3. CASE Respond
  <2>1. CASE session' = session /\ pc' = "failing"
    <3>1. Mine' = Mine
      BY <1>3, <2>1 DEF Respond, Mine
    <3> QED
      BY <1>3, <1>g, <1>d, <2>1 DEF Respond, SessionPlace
  <2>2. CASE session' = Append(session, Built(acc)) /\ pc' = AfterResponse
    <3> DEFINE m == Built(acc)
    <3>1. /\ m \in Message /\ m.role = "Assistant" /\ m.calls = acc.calls
          /\ m.stop = StopReason /\ acc.calls \in Seq(Calls)
      <4>1. acc.calls \in Seq(Calls)
        BY <1>d DEF Response
      <4> QED
        BY <4>1, <1>d, BuiltIsMessage DEF Built, Assistant
    <3>2. pc = "respond" /\ base' = base /\ batch' = acc.calls /\ terminate' = FALSE
      BY <1>3 DEF Respond
    <3> HIDE DEF m
    <3>3. Mine' = Append(Mine, m) /\ base' <= Len(session')
      BY <1>d, <2>2, <3>1, <3>2, MineAppended DEF m
    <3>4. Mine # <<>> /\ AllAnswered(Mine)
      BY <1>g, <3>2 DEF SessionPlace
    <3>5. /\ Len(Mine') = Len(Mine) + 1 /\ Len(Mine) > 0 /\ Len(Mine) \in Nat
          /\ Mine'[Len(Mine')] = m /\ DOMAIN Mine' = 1 .. Len(Mine) + 1
          /\ \A i \in 1 .. Len(Mine) : Mine'[i] = Mine[i]
      BY <1>m, <3>1, <3>3, <3>4, AppendFacts
    <3>6. CASE pc' = "batch"
      <4>1. Pending(Mine', Len(Mine) + 1, batch')
        BY <1>m, <3>1, <3>2, <3>3, <3>4, BatchOpens
      <4> QED
        BY <1>g, <3>2, <3>3, <3>5, <3>6, <4>1 DEF SessionPlace
    <3>7. CASE pc' = "finishing"
      <4>1. StopReason \in {"Stop", "Length", "Error"}
        <5>1. StopReason # "ToolUse"
          BY Zenon, <2>2, <3>7 DEF AfterResponse
        <5> QED
          BY <1>d, <5>1 DEF StopReason, Response
      <4>2. MayFinish(Mine)'
        BY <3>1, <3>5, <4>1 DEF MayFinish
      <4>3. ToolUseAnswered(Mine')
        <5> SUFFICES ASSUME NEW i \in 1 .. Len(Mine) + 1, Mine'[i].role = "Assistant",
                            Mine'[i].stop = "ToolUse"
                     PROVE  Answered(Mine', i)
          BY <3>5 DEF ToolUseAnswered
        <5>1. i \in 1 .. Len(Mine)
          BY <3>1, <3>5, <4>1
        <5>2. Answered(Mine, i)
          BY <1>m, <3>4, <3>5, <5>1 DEF AllAnswered
        <5> QED
          BY <1>m, <3>1, <3>3, <5>1, <5>2, AnsweredKept
      <4> QED
        BY <1>g, <3>3, <3>7, <4>2, <4>3 DEF SessionPlace
    <3>8. CASE pc' = "failing"
      BY <1>g, <3>3, <3>8 DEF SessionPlace
    <3> QED
      BY Zenon, <2>2, <3>6, <3>7, <3>8 DEF AfterResponse
  <2> QED
    BY Zenon, <1>3, <2>1, <2>2 DEF Respond
<1>4. CASE FinishTool
  <2>1. CASE session' = session /\ pc' = "failing"
    <3>1. Mine' = Mine /\ base' <= Len(session')
      BY <1>4, <1>d, <2>1 DEF FinishTool, Mine
    <3> QED
      BY <1>g, <2>1, <3>1 DEF SessionPlace
  <2>2. CASE session' = Append(session, ToolResult(Head(batch))) /\ pc' = "batch" /\ batch' = Tail(batch)
    <3> DEFINE m == ToolResult(Head(batch))
    <3>1. pc = "tool" /\ base' = base /\ batch # <<>>
      BY <1>4, <1>d DEF FinishTool
    <3>2. m \in Message /\ m.role = "ToolResult"
      BY <1>d, <3>1, TailFacts, MessagesAreMessages DEF ToolResult
    <3> HIDE DEF m
    <3>3. Mine' = Append(Mine, m) /\ base' <= Len(session')
      BY <1>d, <2>2, <3>1, <3>2, MineAppended DEF m
    <3>4. PICK p \in 1 .. Len(Mine) : Pending(Mine, p, batch)
      BY <1>g, <3>1 DEF SessionPlace
    <3>5. Pending(Mine', p, batch')
      BY <1>d, <1>m, <2>2, <3>1, <3>3, <3>4, BatchProceeds DEF m
    <3>6. /\ Len(Mine') = Len(Mine) + 1 /\ Len(Mine) \in Nat /\ Len(Mine) > 0
          /\ Mine'[Len(Mine')] = m
      BY <1>m, <3>2, <3>3, <3>4, AppendFacts
    <3>7. p \in 1 .. Len(Mine') /\ Len(Mine') > 1
      BY <3>4, <3>6
    <3> QED
      BY <1>g, <2>2, <3>2, <3>3, <3>5, <3>6, <3>7 DEF SessionPlace
  <2> QED
    BY Zenon, <1>4, <2>1, <2>2 DEF FinishTool
<1>5. CASE EndBatch
  <2>1. /\ pc = "batch" /\ pc' = AfterBatch /\ UNCHANGED <<session, base, batch, terminate, token>>
        /\ AfterBatch # "aborting" => batch = <<>>
    BY Zenon, <1>5 DEF EndBatch, MayStartTool, AfterBatch
  <2>2. Mine' = Mine /\ base' <= Len(session')
    BY <1>d, <2>1 DEF Mine
  <2>3. /\ Len(Mine) > 1 /\ terminate => Mine[Len(Mine)].role = "ToolResult"
        /\ \E p \in 1 .. Len(Mine) : Pending(Mine, p, batch)
        /\ Mine # <<>>
    BY <1>g, <1>m, <2>1 DEF SessionPlace
  <2>4. CASE pc' = "aborting"
    BY <1>g, <2>2, <2>4 DEF SessionPlace
  <2>5. CASE pc' # "aborting"
    <3>1. AllAnswered(Mine)
      BY <1>m, <2>1, <2>3, <2>5, BatchCloses
    <3>2. CASE pc' = "request"
      BY <1>g, <2>2, <2>3, <3>1, <3>2 DEF SessionPlace
    <3>3. CASE pc' = "finishing" /\ terminate
      <4>1. ToolUseAnswered(Mine)
        BY <3>1 DEF AllAnswered, ToolUseAnswered
      <4>2. MayFinish(Mine)'
        BY <2>1, <2>2, <2>3, <3>3, <1>g DEF MayFinish, SessionPlace
      <4> QED
        BY <1>g, <2>2, <3>3, <4>1, <4>2 DEF SessionPlace
    <3> QED
      BY <2>1, <2>5, <3>2, <3>3 DEF AfterBatch
  <2> QED
    BY <2>4, <2>5
<1>6. CASE FinishAborted
  <2>1. /\ pc' = "ended" /\ base' = base /\ log' = Append(log, Plain("RunAborted"))
        /\ session' \in {session, Append(session, Assistant("Aborted", <<>>, FALSE))}
    BY Zenon, <1>6 DEF FinishAborted
  <2>2. LastEvent'.kind # "RunFinished"
    BY <1>d, <2>1, EventsAreEvents, EventFields, LogAppended
  <2>3. base' <= Len(session')
    <3>1. Assistant("Aborted", <<>>, FALSE) \in Message
      <4>1. <<>> \in Seq(Calls)
        OBVIOUS
      <4> QED
        BY Zenon, <4>1, MessagesAreMessages
    <3>2. CASE session' = session
      BY <1>d, <2>1, <3>2
    <3>3. CASE session' = Append(session, Assistant("Aborted", <<>>, FALSE))
      BY <1>d, <2>1, <3>1, <3>3, MineAppended
    <3> QED
      BY Zenon, <2>1, <3>2, <3>3
  <2> QED
    BY <1>g, <2>1, <2>2, <2>3 DEF SessionPlace
<1>7. CASE FailRun
  <2>1. /\ pc' = "ended" /\ log' = Append(log, Plain("RunFailed"))
        /\ UNCHANGED <<session, base, batch, terminate>>
    BY Zenon, <1>7 DEF FailRun
  <2>2. LastEvent'.kind # "RunFinished"
    BY <1>d, <2>1, EventsAreEvents, EventFields, LogAppended
  <2> QED
    BY <1>g, <2>1, <2>2, SessionKept
<1>8. CASE FinishRun
  BY <1>8, <1>g, SessionKept DEF FinishRun
<1>9. CASE Request \/ StartAborted \/ SeeCancelled \/ EnterLoop \/ ReceiveEvent
           \/ ReceiveClosed \/ BeginShutdown \/ JoinProducer \/ NextTool \/ StartTool
           \/ FailTool \/ StartFails \/ StartSucceeds
  <2>1. /\ UNCHANGED <<session, base, batch, terminate>>
        /\ \/ pc' \in {"aborting", "failing"}
           \/ pc \in BeforeResponse /\ pc' \in BeforeResponse
           \/ pc \in InBatch /\ pc' \in InBatch
    BY <1>9, <1>g DEF Request, StartAborted, SeeCancelled, EnterLoop, ReceiveEvent, ReceiveClosed,
       BeginShutdown, JoinProducer, AfterStream, NextTool, StartTool, FailTool, StartFails,
       StartSucceeds
  <2> QED
    BY <1>g, <2>1, SessionKept
<1>10. CASE ToolSendsOutput \/ ToolReturns \/ ForwardOutput \/ ProducerStep \/ ProducerStops
            \/ Cancel \/ UNCHANGED vars
  <2>1. /\ UNCHANGED <<pc, session, base, batch, terminate>>
        /\ pc = "ended" => log' = log
    <3>1. ForwardOutput => pc = "tool"
      BY DEF ForwardOutput, Inv, Typed, ToolPlace, NumbersOK
    <3> QED
      BY Zenon, <1>10, <3>1 DEF ToolSendsOutput, ToolReturns, ForwardOutput, ProducerStep,
         ProducerStops, Cancel, vars
  <2>2. pc = "ended" => LastEvent' = LastEvent
    BY <2>1 DEF LastEvent
  <2> QED
    BY <2>1, <2>2, SessionKept
<1> QED
  BY Zenon, <1>1, <1>2, <1>3, <1>4, <1>5, <1>6, <1>7, <1>8, <1>9, <1>10
     DEF Next, RunStep, ProviderStarts, Done

(* What either provider is sent of any message tells of its calls. *)
LEMMA MessagesAreSent == \A m \in Message : Sent(m)
<1> SUFFICES ASSUME NEW m \in Message PROVE Sent(m)
  OBVIOUS
<1> USE DEF Sent, Carry, DeepSeekItems, CodexItems, Item
<1>1. CASE m = User
  BY <1>1 DEF User
<1>2. CASE m \in [role : {"ToolResult"}, call : Calls]
  BY <1>2
<1>3. CASE m.role = "Assistant" /\ m.calls \in Seq(Calls) /\ m.text \in BOOLEAN
  <2> DEFINE c == m.calls
             own == [k \in DOMAIN c |-> [item |-> "call", calls |-> <<c[k]>>]]
             text == IF m.text THEN <<[item |-> "assistant", calls |-> <<>>]>> ELSE <<>>
  <2>1. Carry(DeepSeekItems(m), c)
    <3>1. CASE m.text \/ c # <<>>
      <4>1. DeepSeekItems(m) = <<[item |-> "assistant", calls |-> c]>>
        BY Zenon, <1>3, <3>1
      <4> HIDE DEF c, DeepSeekItems
      <4>2. Len(DeepSeekItems(m)) = 1 /\ DeepSeekItems(m)[1].calls = c
        BY <4>1
      <4> QED
        BY <4>2
    <3>2. CASE ~m.text /\ c = <<>>
      <4>1. DeepSeekItems(m) = <<>>
        BY Zenon, <1>3, <3>2
      <4> QED
        BY <3>2, <4>1
    <3> QED
      BY Zenon, <3>1, <3>2
  <2>2. Carry(CodexItems(m), c)
    <3> DEFINE T == {[item |-> "call", calls |-> <<c[k]>>] : k \in DOMAIN c}
                      \cup {[item |-> "assistant", calls |-> <<>>]}
    <3>1. DOMAIN c = 1 .. Len(c) /\ Len(c) \in Nat
      BY <1>3
    <3>2. CodexItems(m) = text \o own
      BY Zenon, <1>3
    <3> HIDE DEF c
    <3>3. own \in Seq(T) /\ Len(own) = Len(c)
      BY <3>1
    <3>4. text \in Seq(T) /\ Len(text) \in Nat
      <4>1. CASE m.text
        BY <4>1
      <4>2. CASE ~m.text
        BY <4>2
      <4> QED
        BY <4>1, <4>2
    <3>5. \A k \in DOMAIN c : own[k].calls = <<c[k]>>
      OBVIOUS
    <3> HIDE DEF own, text, T, CodexItems
    <3>6. /\ Len(text \o own) = Len(text) + Len(c)
          /\ \A k \in 1 .. Len(c) : (text \o own)[Len(text) + k] = own[k]
      <4>1. /\ Len(text \o own) = Len(text) + Len(own)
            /\ \A i \in 1 .. Len(text) + Len(own) :
                 (text \o own)[i] = IF i <= Len(text) THEN text[i] ELSE own[i - Len(text)]
        BY Zenon, <3>3, <3>4, ConcatProperties
      <4>2. ASSUME NEW k \in 1 .. Len(c)
            PROVE  /\ Len(text) + k \in 1 .. Len(text) + Len(own)
                   /\ ~ (Len(text) + k <= Len(text)) /\ (Len(text) + k) - Len(text) = k
        BY <3>1, <3>3, <3>4
      <4> QED
        BY <3>3, <4>1, <4>2
    <3>7. Len(text \o own) - Len(c) = Len(text) /\ Len(text \o own) >= Len(c)
      BY <3>1, <3>4, <3>6
    <3> QED
      BY <3>1, <3>2, <3>5, <3>6, <3>7
  <2> QED
    BY Zenon, <1>3, <2>1, <2>2
<1> QED
  BY <1>1, <1>2, <1>3 DEF Message

SessionInv == Inv /\ SessionPlace

LEMMA SpecSession == Spec => []SessionInv
<1>1. Init => SessionInv
  BY InitInv, InitSession DEF SessionInv
<1>2. SessionInv /\ [Next]_vars => SessionInv'
  BY StepInv, StepSession DEF SessionInv
<1> QED
  BY <1>1, <1>2, PTL DEF Spec

(* The model is never asked again before every call is answered, nor is a  *)
(* run reported finished (run_inner).                                      *)
THEOREM LoopRequestsCarryResults == Spec => []RequestsCarryResults
<1>1. SessionInv => RequestsCarryResults
  <2> SUFFICES ASSUME SessionInv PROVE RequestsCarryResults
    OBVIOUS
  <2>1. requests <= MaxToolRounds + 1
    BY LoopAssumption DEF SessionInv, Inv, Typed, NumbersOK
  <2>2. Mine \in Seq(Message)
    BY MineIs DEF SessionInv, Inv, Typed, DataOK, NumbersOK, SessionPlace
  <2>3. \A i \in DOMAIN Mine : Sent(Mine[i])
    BY <2>2, MessagesAreSent
  <2>4. pc = "starting" => AllAnswered(Mine)
    BY DEF SessionInv, SessionPlace, BeforeResponse, InResponse
  <2>5. pc = "finishing" => ToolUseAnswered(Mine)
    BY DEF SessionInv, SessionPlace
  <2> QED
    BY Zenon, <2>1, <2>3, <2>4, <2>5 DEF RequestsCarryResults, ToolUseAnswered
<1> QED
  BY <1>1, SpecSession, PTL

-----------------------------------------------------------------------------
(***************************************************************************)
(* The session agrees with the events.                                     *)
(***************************************************************************)

(* The results in the session go with the finished tools of the log, until *)
(* an append fails.                                                        *)
MatchPlace ==
  /\ InStep(Finished) \/ LastLost
  /\ pc \notin {"failing", "ended"} => InStep(Finished)
  /\ pc = "ended" => InStep(Finished) \/ result = "Err"

(* The places of results and of finished tools. *)
LEMMA PlacesIn ==
  ASSUME Mine \in Seq(Message), log \in Seq(Event)
  PROVE  Results \subseteq 1 .. Len(Mine) /\ Finished \subseteq 1 .. Len(log)
  BY DEF Results, Finished

(* Pairs are kept when neither the results nor these events change. *)
LEMMA PairsKept ==
  ASSUME NEW E, InStep(E), Results' = Results,
         \A r \in Results : Mine'[r] = Mine[r],
         \A e \in E : log'[e] = log[e]
  PROVE  InStep(E)'
<1>1. PICK f \in [E -> Results] : Pairs(f, E)
  BY DEF InStep
<1>2. Pairs(f, E)'
  <2>1. \A e \in E : f[e] \in Results
    BY <1>1
  <2> QED
    BY Zenon, <1>1, <2>1 DEF Pairs
<1> QED
  BY Zenon, <1>1, <1>2 DEF InStep

(* A finished tool and its result extend them. *)
LEMMA PairsExtended ==
  ASSUME NEW E, InStep(E), E \subseteq 1 .. Len(log), Len(log) \in Nat,
         Results \subseteq 1 .. Len(Mine), Len(Mine) \in Nat,
         Results' = Results \cup {Len(Mine) + 1},
         \A r \in Results : Mine'[r] = Mine[r],
         \A e \in E : log'[e] = log[e],
         Mine'[Len(Mine) + 1].call = log'[Len(log) + 1].call,
         NEW F, F = E \cup {Len(log) + 1}
  PROVE  InStep(F)'
<1>1. PICK f \in [E -> Results] : Pairs(f, E)
  BY DEF InStep
<1> DEFINE n == Len(log) + 1
           q == Len(Mine) + 1
<1>2. n \notin E /\ \A e \in E : e < n /\ ~ (n < e)
  OBVIOUS
<1>3. q \notin Results /\ \A r \in Results : r < q
  OBVIOUS
<1>4. PICK N : N = n
  OBVIOUS
<1>5. PICK Q : Q = q
  OBVIOUS
<1>6. PICK R : R = Results
  OBVIOUS
<1> DEFINE h == [e \in F |-> IF e = N THEN Q ELSE f[e]]
<1>7. \A e \in E : f[e] \in Results
  BY <1>1
<1>8. h[N] = Q /\ \A e \in E : h[e] = f[e]
  BY <1>2, <1>4
<1>9. h \in [F -> Results']
  BY <1>4, <1>5, <1>7, <1>8
<1> HIDE DEF n, q, h
<1>10. Pairs(h, F)'
  <2>1. \A r \in Results' : \E e \in F : h[e] = r
    BY <1>1, <1>4, <1>5, <1>8 DEF Pairs, n, q
  <2>2. \A e \in F : Mine'[h[e]].call = log'[e].call
    <3>1. \A e \in E : Mine[f[e]].call = log[e].call
      BY <1>1 DEF Pairs
    <3>2. \A e \in E : Mine'[h[e]].call = log'[e].call
      BY <1>7, <1>8, <3>1
    <3> QED
      BY <1>4, <1>5, <1>8, <3>2 DEF n, q
  <2>3. \A d, e \in F : d < e => h[d] < h[e]
    <3>1. \A d, e \in E : d < e => h[d] < h[e]
      BY <1>1, <1>8 DEF Pairs
    <3>2. \A d \in E : h[d] < h[N]
      BY <1>3, <1>5, <1>7, <1>8
    <3>3. \A e \in E : ~ (N < e)
      BY <1>2, <1>4
    <3>4. ~ (N < N) /\ F = E \cup {N}
      BY <1>4 DEF n
    <3> QED
      BY <3>1, <3>2, <3>3, <3>4
  <2> QED
    BY Zenon, <2>1, <2>2, <2>3 DEF Pairs
<1> QED
  BY Zenon, <1>9, <1>10 DEF InStep

(* An event other than ToolFinished, and a message other than a result,    *)
(* add to neither.                                                         *)
LEMMA FinishedKept ==
  ASSUME log \in Seq(Event),
         log' = log \/ \E e \in Event : e.kind # "ToolFinished" /\ log' = Append(log, e)
  PROVE  Finished' = Finished /\ \A e \in Finished : log'[e] = log[e]
<1>1. CASE log' = log
  BY <1>1 DEF Finished
<1>2. ASSUME NEW e \in Event, e.kind # "ToolFinished", log' = Append(log, e)
      PROVE  Finished' = Finished /\ \A i \in Finished : log'[i] = log[i]
  <2>1. /\ DOMAIN log' = 1 .. Len(log) + 1 /\ DOMAIN log = 1 .. Len(log) /\ Len(log) \in Nat
        /\ log'[Len(log) + 1] = e
        /\ \A i \in 1 .. Len(log) : log'[i] = log[i]
    BY <1>2, AppendFacts
  <2>2. ASSUME NEW i \in Finished' PROVE i \in Finished
    <3>1. i \in 1 .. Len(log) + 1 /\ log'[i].kind = "ToolFinished"
      BY <2>1 DEF Finished
    <3>2. i # Len(log) + 1
      BY <1>2, <2>1, <3>1
    <3>3. i \in 1 .. Len(log) /\ log'[i] = log[i]
      BY <2>1, <3>1, <3>2
    <3> QED
      BY <2>1, <3>1, <3>3 DEF Finished
  <2>3. Finished \subseteq Finished' /\ Finished \subseteq 1 .. Len(log)
    BY <2>1 DEF Finished
  <2> QED
    BY <2>1, <2>2, <2>3
<1> QED
  BY <1>1, <1>2

LEMMA ResultsKept ==
  ASSUME Mine \in Seq(Message),
         Mine' = Mine \/ \E m \in Message : m.role # "ToolResult" /\ Mine' = Append(Mine, m)
  PROVE  Results' = Results /\ \A r \in Results : Mine'[r] = Mine[r]
<1>1. CASE Mine' = Mine
  BY <1>1 DEF Results
<1>2. ASSUME NEW m \in Message, m.role # "ToolResult", Mine' = Append(Mine, m)
      PROVE  Results' = Results /\ \A i \in Results : Mine'[i] = Mine[i]
  <2>1. /\ DOMAIN Mine' = 1 .. Len(Mine) + 1 /\ DOMAIN Mine = 1 .. Len(Mine) /\ Len(Mine) \in Nat
        /\ Mine'[Len(Mine) + 1] = m
        /\ \A i \in 1 .. Len(Mine) : Mine'[i] = Mine[i]
    BY <1>2, AppendFacts
  <2>2. ASSUME NEW i \in Results' PROVE i \in Results
    <3>1. i \in 1 .. Len(Mine) + 1 /\ Mine'[i].role = "ToolResult"
      BY <2>1 DEF Results
    <3>2. i # Len(Mine) + 1
      BY <1>2, <2>1, <3>1
    <3>3. i \in 1 .. Len(Mine) /\ Mine'[i] = Mine[i]
      BY <2>1, <3>1, <3>2
    <3> QED
      BY <2>1, <3>1, <3>3 DEF Results
  <2>3. Results \subseteq Results' /\ Results \subseteq 1 .. Len(Mine)
    BY <2>1 DEF Results
  <2> QED
    BY <2>1, <2>2, <2>3
<1> QED
  BY <1>1, <1>2

(* Such a step keeps what agrees, as long as the run does not turn back    *)
(* from failing.                                                           *)
LEMMA MatchKept ==
  ASSUME MatchPlace, Mine \in Seq(Message), log \in Seq(Event),
         log' = log \/ \E e \in Event : e.kind # "ToolFinished" /\ log' = Append(log, e),
         Mine' = Mine \/ \E m \in Message : m.role # "ToolResult" /\ Mine' = Append(Mine, m),
         pc' \notin {"failing", "ended"} => pc \notin {"failing", "ended"},
         pc' = "ended" => \/ pc \notin {"failing", "ended"}
                          \/ pc = "ended" /\ result' = result
                          \/ result' = "Err"
  PROVE  MatchPlace'
<1>1. Finished' = Finished /\ \A e \in Finished : log'[e] = log[e]
  BY FinishedKept
<1>2. Results' = Results /\ \A r \in Results : Mine'[r] = Mine[r]
  BY ResultsKept
<1>3. ASSUME InStep(Finished) PROVE InStep(Finished)'
  <2>1. PICK E : E = Finished
    OBVIOUS
  <2>2. InStep(E)'
    BY <1>1, <1>2, <1>3, <2>1, PairsKept
  <2> QED
    BY Zenon, <1>1, <2>1, <2>2 DEF InStep, Pairs
<1>4. ASSUME LastLost PROVE LastLost'
  <2>1. PICK e \in Finished : (\A d \in Finished : d <= e) /\ InStep(Finished \ {e})
    BY Zenon, <1>4 DEF LastLost
  <2>2. PICK E : E = Finished \ {e}
    OBVIOUS
  <2>3. InStep(E)'
    BY <1>1, <1>2, <2>1, <2>2, PairsKept
  <2>4. InStep(Finished \ {e})'
    BY Zenon, <1>1, <2>2, <2>3 DEF InStep, Pairs
  <2> QED
    BY Zenon, <1>1, <2>1, <2>4 DEF LastLost
<1> QED
  BY Zenon, <1>3, <1>4 DEF MatchPlace

LEMMA InitMatch == Init => MatchPlace
<1> SUFFICES ASSUME Init PROVE InStep(Finished) /\ pc = "ready"
  BY DEF MatchPlace
<1>1. Finished = {} /\ Results = {}
  BY DEF Init, Finished, Results, Mine
<1>2. Pairs([x \in {} |-> x], {})
  BY <1>1 DEF Pairs
<1>3. [x \in {} |-> x] \in [{} -> {}]
  OBVIOUS
<1>4. InStep({})
  BY Zenon, <1>1, <1>2, <1>3 DEF InStep
<1> QED
  BY <1>1, <1>4 DEF Init

LEMMA StepMatch == SessionInv /\ SessionInv' /\ MatchPlace /\ [Next]_vars => MatchPlace'
<1> SUFFICES ASSUME SessionInv, SessionInv', MatchPlace, [Next]_vars PROVE MatchPlace'
  OBVIOUS
<1>d. /\ session \in Seq(Message) /\ base \in Nat /\ base <= Len(session)
      /\ batch \in Seq(Calls) /\ log \in Seq(Event) /\ acc \in Response
      /\ pc \in {"tool_start", "tool"} => batch # <<>>
      /\ pc = "tool" => current = Head(batch)
      /\ outq # 0 => pc = "tool"
  BY DEF SessionInv, Inv, Typed, DataOK, NumbersOK, ToolPlace, SessionPlace
<1>m. Mine \in Seq(Message)
  BY <1>d, MineIs
<1>k. ASSUME session' = session, base' = base PROVE Mine' = Mine
  BY <1>k DEF Mine
<1> USE DEF streamVars, toolVars, history
<1>1. CASE Allocate
  <2>1. pc' = "append_user" /\ log' = <<>> /\ Mine' = <<>>
    BY <1>1, MineNext DEF Allocate, SessionInv, SessionPlace
  <2>2. Finished' = {} /\ Results' = {}
    BY <2>1 DEF Finished, Results
  <2>3. Pairs([x \in {} |-> x], {})'
    BY <2>2 DEF Pairs
  <2>4. [x \in {} |-> x] \in [{} -> {}]
    OBVIOUS
  <2>5. InStep(Finished)'
    BY Zenon, <2>2, <2>3, <2>4 DEF InStep, Pairs
  <2> QED
    BY <2>1, <2>5 DEF MatchPlace
<1>2. ASSUME NEW k \in {"RunStarted", "TextDelta", "ProviderError", "RunFinished", "RunAborted",
                        "RunFailed"}
      PROVE  Plain(k) \in Event /\ Plain(k).kind # "ToolFinished"
  BY EventsAreEvents, EventFields
<1>3. CASE AppendUser \/ FinishAborted
  <2> DEFINE m == IF pc = "append_user" THEN User ELSE Assistant("Aborted", <<>>, FALSE)
  <2>1. m \in Message /\ m.role # "ToolResult"
    <3>1. Assistant("Aborted", <<>>, FALSE) \in Message /\ User \in Message
      <4>1. <<>> \in Seq(Calls)
        OBVIOUS
      <4> QED
        BY Zenon, <4>1, MessagesAreMessages
    <3> QED
      BY <3>1 DEF User, Assistant
  <2>2. /\ session' = session \/ session' = Append(session, m)
        /\ base' = base
        /\ \E k \in {"RunStarted", "RunAborted"} : log' = Append(log, Plain(k))
        /\ pc \notin {"failing", "ended"}
    BY Zenon, <1>3 DEF AppendUser, FinishAborted
  <2> HIDE DEF m
  <2>3. Mine' = Mine \/ Mine' = Append(Mine, m)
    BY <1>d, <1>k, <2>1, <2>2, MineAppended
  <2> QED
    BY <1>d, <1>m, <1>2, <2>1, <2>2, <2>3, MatchKept
<1>4. CASE Respond
  <2>1. Built(acc) \in Message /\ Built(acc).role # "ToolResult"
    BY <1>d, BuiltIsMessage DEF Built, Assistant
  <2>2. /\ session' = session \/ session' = Append(session, Built(acc))
        /\ base' = base
        /\ log' = log \/ log' = Append(log, Plain("ProviderError"))
        /\ pc = "respond" /\ pc' # "ended"
    BY Zenon, <1>4 DEF Respond, AfterResponse
  <2>3. Mine' = Mine \/ Mine' = Append(Mine, Built(acc))
    BY <1>d, <1>k, <2>1, <2>2, MineAppended
  <2> QED
    BY <1>d, <1>m, <1>2, <2>1, <2>2, <2>3, MatchKept
<1>5. CASE FinishTool
  <2> DEFINE e == Tool("ToolFinished", Head(batch))
             m == ToolResult(Head(batch))
  <2>1. Head(batch) \in Calls /\ pc = "tool" /\ log' = Append(log, e) /\ base' = base
    BY <1>5, <1>d, TailFacts DEF FinishTool
  <2>2. /\ e \in Event /\ e.kind = "ToolFinished" /\ e.call = Head(batch)
        /\ m \in Message /\ m.role = "ToolResult" /\ m.call = Head(batch)
    BY <2>1, EventsAreEvents, EventFields, MessagesAreMessages DEF ToolResult
  <2>3. CASE session' = session /\ pc' = "failing"
    <3>1. Mine' = Mine
      BY <1>k, <2>1, <2>3
    <3> HIDE DEF e
    <3>2. /\ DOMAIN log' = 1 .. Len(log) + 1 /\ DOMAIN log = 1 .. Len(log) /\ Len(log) \in Nat
          /\ log'[Len(log) + 1] = e
          /\ \A i \in 1 .. Len(log) : log'[i] = log[i]
      BY <1>d, <2>1, <2>2, AppendFacts
    <3>3. Finished' = Finished \cup {Len(log) + 1}
      BY <2>2, <3>2 DEF Finished
    <3>4. Finished \subseteq 1 .. Len(log)
      BY <3>2 DEF Finished
    <3>5. PICK E : E = Finished
      OBVIOUS
    <3>6. InStep(E)'
      <4>1. InStep(E)
        BY <2>1, <3>5 DEF MatchPlace
      <4>2. Results' = Results
        BY <3>1 DEF Results
      <4> QED
        BY <3>1, <3>2, <3>4, <3>5, <4>1, <4>2, PairsKept
    <3>7. PICK n : n = Len(log) + 1
      OBVIOUS
    <3>8. Finished' \ {n} = E /\ n \in Finished' /\ \A d \in Finished' : d <= n
      BY <3>2, <3>3, <3>4, <3>5, <3>7
    <3>9. InStep(Finished \ {n})'
      BY Zenon, <3>6, <3>8 DEF InStep, Pairs
    <3>10. LastLost'
      BY Zenon, <3>8, <3>9 DEF LastLost
    <3> QED
      BY <2>3, <3>10 DEF MatchPlace
  <2>4. CASE session' = Append(session, m) /\ pc' = "batch"
    <3> HIDE DEF e, m
    <3>1. Mine' = Append(Mine, m)
      BY <1>d, <2>1, <2>2, <2>4, MineAppended
    <3>2. /\ DOMAIN log' = 1 .. Len(log) + 1 /\ DOMAIN log = 1 .. Len(log) /\ Len(log) \in Nat
          /\ log'[Len(log) + 1] = e
          /\ \A i \in 1 .. Len(log) : log'[i] = log[i]
      BY <1>d, <2>1, <2>2, AppendFacts
    <3>3. /\ DOMAIN Mine' = 1 .. Len(Mine) + 1 /\ DOMAIN Mine = 1 .. Len(Mine) /\ Len(Mine) \in Nat
          /\ Mine'[Len(Mine) + 1] = m
          /\ \A i \in 1 .. Len(Mine) : Mine'[i] = Mine[i]
      BY <1>m, <2>2, <3>1, AppendFacts
    <3>4. Finished' = Finished \cup {Len(log) + 1} /\ Finished \subseteq 1 .. Len(log)
      BY <2>2, <3>2 DEF Finished
    <3>5. Results' = Results \cup {Len(Mine) + 1} /\ Results \subseteq 1 .. Len(Mine)
      BY <2>2, <3>3 DEF Results
    <3>6. PICK E : E = Finished
      OBVIOUS
    <3>7. PICK F : F = Finished'
      OBVIOUS
    <3>8. InStep(E)
      BY <2>1, <3>6 DEF MatchPlace
    <3>9. InStep(F)'
      BY <2>2, <3>2, <3>3, <3>4, <3>5, <3>6, <3>7, <3>8, PairsExtended
    <3>10. InStep(Finished)'
      BY Zenon, <3>7, <3>9 DEF InStep, Pairs
    <3> QED
      BY <2>4, <3>10 DEF MatchPlace
  <2> QED
    BY Zenon, <1>5, <2>3, <2>4 DEF FinishTool
<1>6. CASE StartTool \/ ForwardOutput
  <2>1. ASSUME NEW k \in {"ToolStarted", "ToolOutput"}, NEW c \in Calls,
               log' = Append(log, Tool(k, c)), UNCHANGED <<session, base>>,
               pc \notin {"failing", "ended"}, pc' # "ended"
        PROVE  MatchPlace'
    <3>1. Tool(k, c) \in Event /\ Tool(k, c).kind # "ToolFinished"
      BY EventsAreEvents, EventFields
    <3> QED
      BY <1>d, <1>m, <1>k, <2>1, <3>1, MatchKept
  <2>2. CASE StartTool
    <3>1. Head(batch) \in Calls
      BY <1>d, <2>2, TailFacts DEF StartTool
    <3>2. /\ log' = Append(log, Tool("ToolStarted", Head(batch)))
          /\ UNCHANGED <<session, base>> /\ pc = "tool_start" /\ pc' \in {"tool", "failing"}
      BY Zenon, <2>2 DEF StartTool
    <3> QED
      BY <2>1, <3>1, <3>2
  <2>3. CASE ForwardOutput
    <3>1. pc = "tool" /\ Head(batch) \in Calls /\ current = Head(batch)
      BY <1>d, <2>3, TailFacts DEF ForwardOutput, SessionInv, Inv, Typed, NumbersOK
    <3>2. /\ log' = Append(log, Tool("ToolOutput", current))
          /\ UNCHANGED <<session, base, pc>>
      BY Zenon, <2>3 DEF ForwardOutput
    <3> QED
      BY <2>1, <3>1, <3>2
  <2> QED
    BY <1>6, <2>2, <2>3
<1>7. CASE ReceiveEvent \/ FinishRun \/ FailRun
  <2>1. UNCHANGED <<session, base>>
    BY Zenon, <1>7 DEF ReceiveEvent, FinishRun, FailRun
  <2>2. CASE ReceiveEvent
    <3>1. pc = "recv" /\ pc' # "ended" /\ (log' = log \/ log' = Append(log, Plain("TextDelta")))
      BY <2>2 DEF ReceiveEvent
    <3> QED
      BY <1>d, <1>m, <1>k, <1>2, <2>1, <3>1, MatchKept
  <2>3. CASE FinishRun
    <3>1. pc = "finishing" /\ pc' = "ended" /\ log' = Append(log, Plain("RunFinished"))
      BY <2>3 DEF FinishRun
    <3> QED
      BY <1>d, <1>m, <1>k, <1>2, <2>1, <3>1, MatchKept
  <2>4. CASE FailRun
    <3>1. pc' = "ended" /\ result' = "Err" /\ log' = Append(log, Plain("RunFailed"))
      BY <2>4 DEF FailRun
    <3> QED
      BY <1>d, <1>m, <1>k, <1>2, <2>1, <3>1, MatchKept
  <2> QED
    BY <1>7, <2>2, <2>3, <2>4
<1>8. CASE Request \/ StartAborted \/ SeeCancelled \/ EnterLoop \/ ReceiveClosed
           \/ BeginShutdown \/ JoinProducer \/ NextTool \/ FailTool \/ EndBatch
           \/ ProviderStarts \/ ToolSendsOutput \/ ToolReturns \/ ProducerStep
           \/ ProducerStops \/ Cancel \/ UNCHANGED vars
  <2>1. /\ UNCHANGED <<session, base, log, result>>
        /\ pc' = pc \/ pc \notin {"failing", "ended"}
    BY Zenon, <1>8 DEF Request, StartAborted, SeeCancelled, EnterLoop, ReceiveClosed,
       BeginShutdown, JoinProducer, NextTool, FailTool, EndBatch, ProviderStarts, StartFails,
       StartSucceeds, ToolSendsOutput, ToolReturns, ProducerStep, ProducerStops, Cancel, vars
  <2> QED
    BY <1>d, <1>m, <1>k, <2>1, MatchKept
<1> QED
  BY Zenon, <1>1, <1>3, <1>4, <1>5, <1>6, <1>7, <1>8 DEF Next, RunStep, Done

(* What the frontends were shown and what the session kept agree at the    *)
(* end of every run, but for the one result whose append failed the run.   *)
THEOREM LoopTranscriptMatchesEvents == Spec => []TranscriptMatchesEvents
<1> DEFINE I == SessionInv /\ MatchPlace
<1>1. Init => I
  BY InitInv, InitSession, InitMatch DEF SessionInv
<1>2. I /\ [Next]_vars => I'
  BY StepInv, StepSession, StepMatch DEF SessionInv
<1>3. I => TranscriptMatchesEvents
  BY Zenon DEF MatchPlace, SessionInv, SessionPlace, MayFinish, LastEvent, TranscriptMatchesEvents
<1> QED
  BY <1>1, <1>2, <1>3, PTL DEF Spec

-----------------------------------------------------------------------------
(***************************************************************************)
(* The order of the events: the loop's runs are runs of the contract, and  *)
(* the phase of such a run tells how its log ends.                         *)
(***************************************************************************)

(* The strengthening: the log is empty until RunStarted, the call that is  *)
(* open is the one the last event speaks of, and no call is open when the  *)
(* run is over.                                                            *)
EventIs(kinds) == log # <<>> /\ log[Len(log)].kind \in kinds

LogFollowsPhase ==
  /\ Phase \in {"Ready", "Allocated"} => log = <<>> /\ Open = {}
  /\ Phase \in {"Running", "Ended"} => log # <<>>
  /\ Phase = "Ended" => Open = {}
  /\ \A c \in Calls :
       Open = {c} => EventIs({"ToolStarted", "ToolOutput"}) /\ log[Len(log)].call = c

OrderInv ==
  /\ Contract!TypeOK
  /\ LogFollowsPhase
  /\ Contract!OneTerminal
  /\ Contract!ErrIffFailed
  /\ Contract!StartedFirst
  /\ Contract!OutputInsideTool

(* Every event that is appended is an event. *)
LEMMA ContractEvents ==
  ASSUME NEW c \in Calls
  PROVE  /\ \A k \in Contract!PlainKinds : Contract!Plain(k) \in Contract!Event
         /\ \A k \in Contract!ToolKinds : Contract!Tool(k, c) \in Contract!Event
  BY DEF Contract!Event, Contract!Plain, Contract!Tool

LEMMA ContractPlain == \A k \in Contract!PlainKinds : Contract!Plain(k) \in Contract!Event
  BY DEF Contract!Event, Contract!Plain

LEMMA InitOrder == Contract!Init => OrderInv
<1> SUFFICES ASSUME Contract!Init PROVE OrderInv
  OBVIOUS
<1>1. Contract!TypeOK
  <2>1. log \in Seq(Contract!Event)
    BY DEF Contract!Init
  <2>2. Open \in SUBSET Calls
    BY Zenon DEF Contract!Init
  <2> QED
    BY <2>1, <2>2 DEF Contract!Init, Contract!TypeOK
<1>2. DOMAIN log = {}
  BY DEF Contract!Init
<1> QED
  BY <1>1, <1>2 DEF Contract!Init, OrderInv, LogFollowsPhase, Contract!OneTerminal, Contract!ErrIffFailed,
                    Contract!StartedFirst, Contract!OutputInsideTool

-----------------------------------------------------------------------------
(* A step that appends an event e to the log of a running run, given what  *)
(* e is and what becomes of phase and open.                                *)
LEMMA OrderKept ==
  ASSUME OrderInv, Phase = "Running",
         NEW e \in Contract!Event,
         log' = Append(log, e),
         e.kind # "RunStarted",
         Contract!TypeOK', Open' = {} \/ e.kind \in {"ToolStarted", "ToolOutput"},
         \A c \in Calls : Open' = {c} => e.kind \in {"ToolStarted", "ToolOutput"} /\ e.call = c,
         Phase' = IF Contract!IsTerminal(e) THEN "Ended" ELSE "Running",
         Contract!IsTerminal(e) => Open' = {} /\ ((result' = "Err") <=> (e.kind = "RunFailed")),
         e.kind \in {"ToolOutput", "ToolFinished"} => Open = {e.call} /\ e.call \in Calls
  PROVE  OrderInv'
<1> USE DEF Contract!IsTerminal, Contract!TerminalKinds
<1>1. /\ log \in Seq(Contract!Event)
      /\ log # <<>>
  BY DEF OrderInv, Contract!TypeOK, LogFollowsPhase
<1> DEFINE n == Len(log)
<1>2. /\ DOMAIN log' = 1 .. n + 1 /\ Len(log') = n + 1
      /\ log'[n + 1] = e
      /\ \A i \in 1 .. n : log'[i] = log[i]
      /\ DOMAIN log = 1 .. n /\ n \in Nat /\ n > 0
      /\ log' # <<>>
  BY <1>1, AppendFacts
<1> HIDE DEF n
<1>3. \A i \in 1 .. n : ~Contract!IsTerminal(log[i])
  BY <1>1, <1>2 DEF OrderInv, Contract!OneTerminal, n
<1>4. LogFollowsPhase'
  <2>1. EventIs({"ToolStarted", "ToolOutput"})' <=> e.kind \in {"ToolStarted", "ToolOutput"}
    BY <1>2 DEF EventIs
  <2> QED
    BY <2>1, <1>2 DEF LogFollowsPhase
<1>5. Contract!OneTerminal'
  BY <1>2, <1>3 DEF Contract!OneTerminal
<1>6. Contract!ErrIffFailed'
  BY <1>2 DEF Contract!ErrIffFailed
<1>7. Contract!StartedFirst'
  BY <1>1, <1>2 DEF OrderInv, Contract!StartedFirst
<1>8. Contract!OutputInsideTool'
  <2> SUFFICES ASSUME NEW i \in DOMAIN log', log'[i].kind \in {"ToolOutput", "ToolFinished"}
               PROVE  /\ i > 1
                      /\ log'[i-1].kind \in {"ToolStarted", "ToolOutput"}
                      /\ log'[i-1].call = log'[i].call
    BY DEF Contract!OutputInsideTool
  <2>1. CASE i \in 1 .. n
    <3>1. log'[i] = log[i]
      BY <1>2, <2>1
    <3>2. i > 1 /\ log[i-1].kind \in {"ToolStarted", "ToolOutput"} /\ log[i-1].call = log[i].call
      BY <1>2, <2>1, <3>1 DEF OrderInv, Contract!OutputInsideTool
    <3>3. log'[i-1] = log[i-1]
      BY <1>2, <2>1, <3>2
    <3> QED
      BY <3>1, <3>2, <3>3
  <2>2. CASE i = n + 1
    <3>1. Open = {e.call} /\ e.call \in Calls
      BY <1>2, <2>2
    <3>2. log[n].kind \in {"ToolStarted", "ToolOutput"} /\ log[n].call = e.call
      BY <3>1 DEF OrderInv, LogFollowsPhase, EventIs, n
    <3>3. i - 1 = n /\ log'[n] = log[n] /\ i > 1
      BY <1>2, <2>2
    <3> QED
      BY <1>2, <2>2, <3>2, <3>3
  <2> QED
    BY <1>2, <2>1, <2>2
<1> QED
  BY <1>4, <1>5, <1>6, <1>7, <1>8 DEF OrderInv

LEMMA StepOrder == OrderInv /\ [Contract!Next]_(Contract!vars) => OrderInv'
<1> SUFFICES ASSUME OrderInv, [Contract!Next]_(Contract!vars) PROVE OrderInv'
  OBVIOUS
<1> USE DEF Contract!PlainKinds, Contract!ToolKinds, Contract!TerminalKinds
<1>t. Contract!TypeOK
  BY DEF OrderInv
<1>1. CASE Contract!Allocate
  <2>1. log' = <<>> /\ DOMAIN log' = {} /\ log' \in Seq(Contract!Event)
    BY <1>1 DEF Contract!Allocate
  <2>2. Contract!TypeOK'
    BY <1>1, <1>t, <2>1 DEF Contract!Allocate, Contract!TypeOK
  <2>3. Open = {}
    BY <1>1 DEF Contract!Allocate, OrderInv, LogFollowsPhase
  <2> QED
    BY <1>1, <2>1, <2>2, <2>3 DEF Contract!Allocate, OrderInv, LogFollowsPhase, Contract!OneTerminal,
         Contract!ErrIffFailed, Contract!StartedFirst, Contract!OutputInsideTool
<1>2. CASE Contract!Cancel
  BY <1>2 DEF Contract!Cancel, OrderInv, Contract!TypeOK, LogFollowsPhase, EventIs, Contract!OneTerminal,
              Contract!ErrIffFailed, Contract!StartedFirst, Contract!OutputInsideTool
<1>3. CASE Contract!EmitRunStarted
  <2>1. log = <<>> /\ Open = {} /\ Open' = {} /\ Phase' = "Running"
    BY <1>3 DEF Contract!EmitRunStarted, OrderInv, LogFollowsPhase
  <2>2. /\ log' = <<Contract!Plain("RunStarted")>> /\ log'[1].kind = "RunStarted"
        /\ DOMAIN log' = {1} /\ Len(log') = 1 /\ log' # <<>>
    BY <1>3, <2>1 DEF Contract!EmitRunStarted, Contract!Plain
  <2>3. log' \in Seq(Contract!Event)
    BY <2>2, ContractPlain
  <2>4. Contract!TypeOK'
    BY <1>3, <1>t, <2>3 DEF Contract!EmitRunStarted, Contract!TypeOK
  <2>5. LogFollowsPhase' /\ Contract!StartedFirst' /\ Contract!OutputInsideTool' /\ Contract!ErrIffFailed'
    BY <2>1, <2>2 DEF LogFollowsPhase, Contract!StartedFirst, Contract!OutputInsideTool, Contract!ErrIffFailed
  <2>6. Contract!OneTerminal'
    BY <2>1, <2>2 DEF Contract!OneTerminal, Contract!IsTerminal
  <2> QED
    BY <2>4, <2>5, <2>6 DEF OrderInv
<1>4. ASSUME NEW k \in {"TextDelta", "ProviderError"}, Contract!EmitProgress(k)
      PROVE  OrderInv'
  <2>1. /\ Contract!Plain(k) \in Contract!Event /\ Contract!Plain(k).kind = k
    BY ContractPlain DEF Contract!Plain
  <2>2. /\ Phase = "Running" /\ Phase' = "Running" /\ Open' = {} /\ log' = Append(log, Contract!Plain(k))
    BY <1>4 DEF Contract!EmitProgress, Contract!Running
  <2>3. Contract!TypeOK'
    BY <1>4, <1>t, <2>1 DEF Contract!EmitProgress, Contract!TypeOK
  <2> QED
    BY <2>1, <2>2, <2>3, OrderKept DEF Contract!IsTerminal
<1>5. ASSUME NEW c \in Calls, Contract!EmitToolStarted(c)
      PROVE  OrderInv'
  <2>1. /\ Contract!Tool("ToolStarted", c) \in Contract!Event
        /\ Contract!Tool("ToolStarted", c).kind = "ToolStarted" /\ Contract!Tool("ToolStarted", c).call = c
    BY ContractEvents DEF Contract!Tool
  <2>2. /\ Phase = "Running" /\ Phase' = "Running" /\ Open' = {c}
        /\ log' = Append(log, Contract!Tool("ToolStarted", c))
    BY <1>5 DEF Contract!EmitToolStarted, Contract!Running
  <2>3. Contract!TypeOK'
    BY <1>5, <1>t, <2>1 DEF Contract!EmitToolStarted, Contract!TypeOK
  <2> QED
    BY <2>1, <2>2, <2>3, OrderKept DEF Contract!IsTerminal
<1>6. ASSUME NEW c \in Calls, Contract!EmitToolOutput(c)
      PROVE  OrderInv'
  <2>1. /\ Contract!Tool("ToolOutput", c) \in Contract!Event
        /\ Contract!Tool("ToolOutput", c).kind = "ToolOutput" /\ Contract!Tool("ToolOutput", c).call = c
    BY ContractEvents DEF Contract!Tool
  <2>2. /\ Phase = "Running" /\ Phase' = "Running" /\ Open' = {c} /\ Open = {c}
        /\ log' = Append(log, Contract!Tool("ToolOutput", c))
    BY <1>6 DEF Contract!EmitToolOutput, Contract!Running, Contract!InCall
  <2>3. Contract!TypeOK'
    BY <1>6, <1>t, <2>1 DEF Contract!EmitToolOutput, Contract!TypeOK
  <2> QED
    BY <2>1, <2>2, <2>3, OrderKept DEF Contract!IsTerminal
<1>7. ASSUME NEW c \in Calls, Contract!EmitToolFinished(c)
      PROVE  OrderInv'
  <2>1. /\ Contract!Tool("ToolFinished", c) \in Contract!Event
        /\ Contract!Tool("ToolFinished", c).kind = "ToolFinished" /\ Contract!Tool("ToolFinished", c).call = c
    BY ContractEvents DEF Contract!Tool
  <2>2. /\ Phase = "Running" /\ Phase' = "Running" /\ Open' = {} /\ Open = {c}
        /\ log' = Append(log, Contract!Tool("ToolFinished", c))
    BY <1>7 DEF Contract!EmitToolFinished, Contract!Running, Contract!InCall
  <2>3. Contract!TypeOK'
    BY <1>7, <1>t, <2>1 DEF Contract!EmitToolFinished, Contract!TypeOK
  <2> QED
    BY <2>1, <2>2, <2>3, OrderKept DEF Contract!IsTerminal
<1>8. ASSUME NEW kind \in Contract!TerminalKinds, NEW res \in {"Ok", "Err"}, Contract!End(kind, res),
             (res = "Err") <=> (kind = "RunFailed")
      PROVE  OrderInv'
  <2>1. /\ Contract!Plain(kind) \in Contract!Event /\ Contract!Plain(kind).kind = kind
    BY ContractPlain DEF Contract!Plain
  <2>2. /\ Phase = "Running" /\ Phase' = "Ended" /\ Open' = {} /\ result' = res
        /\ log' = Append(log, Contract!Plain(kind))
    BY <1>8 DEF Contract!End, Contract!Running
  <2>3. Contract!TypeOK'
    BY <1>8, <1>t, <2>1 DEF Contract!End, Contract!TypeOK
  <2> QED
    BY <1>8, <2>1, <2>2, <2>3, OrderKept DEF Contract!IsTerminal
<1>9. CASE Contract!EmitRunFinished
  BY <1>8, <1>9 DEF Contract!EmitRunFinished
<1>10. CASE Contract!EmitRunAborted
  BY <1>8, <1>10 DEF Contract!EmitRunAborted
<1>11. CASE Contract!EmitRunFailed
  BY <1>8, <1>11 DEF Contract!EmitRunFailed
<1>12. CASE UNCHANGED Contract!vars
  BY <1>12 DEF Contract!vars, OrderInv, Contract!TypeOK, LogFollowsPhase, EventIs, Contract!OneTerminal,
               Contract!ErrIffFailed, Contract!StartedFirst, Contract!OutputInsideTool
<1> QED
  BY <1>1, <1>2, <1>3, <1>4, <1>5, <1>6, <1>7, <1>9, <1>10, <1>11, <1>12 DEF Contract!Next

-----------------------------------------------------------------------------
(* The strict order of AgentEvent, for the events the loop emits.          *)
THEOREM LoopStrictOrder == Spec => []Contract!StrictOrder
<1>1. Init => OrderInv
  BY InitContract, InitOrder
<1>2. OrderInv => Contract!StrictOrder
  BY DEF OrderInv, Contract!StrictOrder
<1> QED
  BY <1>1, <1>2, StepOrder, LoopKeepsContract, PTL DEF Spec, KeepsContract
=============================================================================
