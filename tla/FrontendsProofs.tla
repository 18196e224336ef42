--------------------------- MODULE FrontendsProofs ---------------------------
(***************************************************************************)
(* The program for any bounds and models: what is shown follows the        *)
(* controller, and whatever was begun for the user is over when control    *)
(* goes back to it.                                                        *)
(***************************************************************************)
EXTENDS Frontends, SessionControllerProofs

(***************************************************************************)
(* The controller as the program drives it.  Nobody aborts its task, and   *)
(* the frontend is its only client, so what the frontend does not ask for  *)
(* does not happen.                                                        *)
(***************************************************************************)

ControllerInv == StreamInv /\ StreamOrder /\ CallInv /\ CacheInv /\ pc # "aborted"

OneFrontend == (at = "absent") # (standing = "absent")

(* No run is active or about to be. *)
Free == pc \notin {"announce", "select", "polling"}

(* The end of run r is among the first n events. *)
EndedWithin(r, n) == \E i \in 1 .. n : EndsRun(events[i], r)

(* What a command asks for. *)
CommandRequests == {"ListModels", "Snapshot", "SwitchModel", "AddContext", "SessionTree"}

NoPromptQueued == \A i \in DOMAIN requests : requests[i].op # "SubmitPrompt"

-----------------------------------------------------------------------------
(***************************************************************************)
(* The Ratatui frontend.                                                   *)
(***************************************************************************)

TuiPlaced ==
  /\ at \in {"starting", "key", "drain", "command", "leaving", "unwinding"} => stage[Tui] = "idle"
  /\ script \in Seq(CommandRequests)
  /\ at \notin {"command", "commandCall"} => script = <<>>
  /\ at = "commandCall" => script # <<>>
  /\ at \notin {"command", "commandCall", "leaving", "closing", "left"} => ui \notin CommandShown
  /\ at \in {"command", "commandCall"} => ui \in CommandShown /\ command \in Commands
  /\ at = "submitting" => ui = "Idle"

TerminalPlaced ==
  /\ at \in {"absent", "starting"} => terminal = {} /\ owned = {} /\ ~restored
  /\ at \notin {"absent", "starting", "left"} => terminal = Modes /\ owned = Modes /\ ~restored
  /\ at = "left" => terminal \subseteq refused

(* What is shown is what the events drained so far say: an Agent activity  *)
(* is that of a run whose prompt has been announced and whose end has not; *)
(* any other run that has been announced has ended.                        *)
ViewFollows ==
  /\ ui \in AgentShown =>
       /\ \E j \in 1 .. drained : events[j] = PromptAccepted(shown)
       /\ ~EndedWithin(shown, drained)
  /\ \A j \in 1 .. drained : IsAccepted(events[j]) =>
       \/ \E m \in j .. drained : EndsRun(events[m], events[j].run)
       \/ ui \in AgentShown /\ shown = events[j].run

-----------------------------------------------------------------------------
(***************************************************************************)
(* The line frontends.                                                     *)
(***************************************************************************)

(* The driver has a run. *)
Accepted == stage[Line] = "idle" /\ answer[Line].kind = "Accepted"

Drives == standing \in {"driving", "cancelling"} \/ (standing = "submitting" /\ Accepted)

(* The loop and its driver are still at work. *)
AtWork == standing \notin {"absent", "closing", "left"}

LinePlaced ==
  /\ standing \in {"prompt", "command", "leaving", "driving"} => stage[Line] = "idle"
  /\ rest \in Seq(CommandRequests)
  /\ standing = "calling" => rest # <<>>
  /\ AtWork /\ standing # "submitting" => NoPromptQueued
  /\ AtWork /\ ~Drives => Free

DriveFollows ==
  /\ standing = "submitting" =>
       /\ ours = 0 /\ ~ended /\ outcome = "None" /\ ~outputFailed /\ reported = 0
       /\ Accepted => /\ answer[Line].run = runCount /\ runCount # 0
                      /\ ~EndedWithin(runCount, consumed)
  /\ standing \in {"driving", "cancelling"} => ours # 0
  /\ AtWork /\ ours # 0 =>
       /\ ours = runCount
       /\ ended <=> EndedWithin(ours, consumed)
       /\ standing \notin {"driving", "cancelling"} => ended
       /\ ended =>
            /\ \E i \in 1 .. consumed : EndsRun(events[i], ours) /\ outcome = events[i].event
            /\ reported = 1 \/ (outputFailed /\ reported = 0)
       /\ ~ended => outcome = "None" /\ reported = 0
  /\ AtWork =>
       \A k \in consumed + 1 .. Len(events) : events[k].kind = "ControllerError" =>
         Drives /\ EndedWithin(runCount, k - 1)

-----------------------------------------------------------------------------
TuiInv  == TuiTypeOK /\ TuiPlaced /\ TerminalPlaced /\ ViewFollows
LineInv == LineTypeOK /\ LinePlaced /\ DriveFollows

ProgramInv == ControllerInv /\ OneFrontend /\ TuiInv /\ LineInv

-----------------------------------------------------------------------------
(***************************************************************************)
(* The controller with one client.                                         *)
(***************************************************************************)

LEMMA OneClient == Clients = {Tui} /\ Line = Tui
  BY TuiAssumption, LineAssumption

LEMMA AskedRequests ==
  /\ \A p \in Prompts : Submission(p) \in Requests /\ Submission(p).op = "SubmitPrompt"
  /\ \A op \in CommandRequests \cup {"CancelCurrent", "Shutdown"} :
       Ask(op) \in Requests /\ Ask(op).op = op
  BY RequestsAssumption DEF FrontendRequests, Submission, Ask, CommandRequests

(* The scripts of the commands, and what is left of them. *)
LEMMA ShortScripts ==
  ASSUME NEW S, NEW a \in S, NEW b \in S, NEW c \in S
  PROVE  <<>> \in Seq(S) /\ <<a>> \in Seq(S) /\ <<a, b>> \in Seq(S) /\ <<a, b, c>> \in Seq(S)
  OBVIOUS

LEMMA Scripts == \A c \in Commands : Begun(c) \subseteq Seq(CommandRequests)
<1>1. /\ <<>> \in Seq(CommandRequests) /\ ModelScript \in Seq(CommandRequests)
      /\ ContextScript \in Seq(CommandRequests) /\ TreeScript \in Seq(CommandRequests)
      /\ SessionScript \in Seq(CommandRequests) /\ ListScript \in Seq(CommandRequests)
      /\ QuitScript \in Seq(CommandRequests)
  <2>1. {"ListModels", "Snapshot", "SwitchModel", "AddContext", "SessionTree"} \subseteq CommandRequests
    BY DEF CommandRequests
  <2> QED
    BY <2>1, ShortScripts DEF ModelScript, ContextScript, TreeScript, SessionScript, ListScript,
                              QuitScript
<1> HIDE DEF ModelScript, ContextScript, TreeScript, SessionScript, ListScript, QuitScript
<1>2. /\ Commands = {"model", "context", "tree", "session", "list", "help", "quit"}
      /\ Script["model"] = ModelScript /\ Script["context"] = ContextScript
      /\ Script["tree"] = TreeScript /\ Script["session"] = SessionScript
      /\ Script["list"] = ListScript /\ Script["help"] = <<>> /\ Script["quit"] = QuitScript
  BY DEF Commands, Script
<1>3. ASSUME NEW c \in Commands PROVE Script[c] \in Seq(CommandRequests)
  BY <1>1, <1>2
<1> QED
  BY <1>1, <1>3 DEF Begun

LEMMA Remains ==
  ASSUME NEW c, NEW s \in Seq(CommandRequests), s # <<>>, NEW a, NEW t \in Remaining(c, s, a)
  PROVE  t \in Seq(CommandRequests)
<1>1. Tail(s) \in Seq(CommandRequests) /\ <<>> \in Seq(CommandRequests)
  OBVIOUS
<1>2. t \in {<<>>, Tail(s)}
  BY DEF Remaining
<1> QED
  BY <1>1, <1>2

LEMMA HeadAsked ==
  ASSUME NEW s \in Seq(CommandRequests), s # <<>>
  PROVE  Head(s) \in CommandRequests
  OBVIOUS

(* A call of the frontend. *)
LEMMA CallFacts ==
  ASSUME TypeOK, NEW c \in Clients, NEW r \in Requests,
         Call(c, r) \/ CallShutdown(c, r) \/ SendShutdown(c, r)
  PROVE  /\ ClientStep
         /\ UNCHANGED <<channel, events, taskVars, runVars, asked>>
         /\ stage'[c] = "idle" => answer'[c].kind # "Accepted"
         /\ r.op # "SubmitPrompt" /\ NoPromptQueued => NoPromptQueued'
<1>2. ClientStep
  BY DEF ClientStep
<1>3. UNCHANGED <<channel, events, taskVars, runVars, asked>>
  BY DEF Call, CallShutdown, SendShutdown, taskVars, runVars
<1>4. /\ stage \in [Clients -> {"idle", "checked", "sent"}] /\ answer \in [Clients -> AnswerType]
      /\ requests \in Seq(Request)
  BY DEF TypeOK
<1>5. ASSUME stage'[c] = "idle" PROVE answer'[c].kind # "Accepted"
  <2>1. CASE Call(c, r)
    BY <1>4, <1>5, <2>1 DEF Call, Enqueue, Reply, Answer
  <2>2. CASE CallShutdown(c, r)
    BY <1>4, <1>5, <2>2 DEF CallShutdown, Reply, Answer
  <2>3. CASE SendShutdown(c, r)
    BY <1>4, <1>5, <2>3 DEF SendShutdown, Enqueue, Reply, Answer
  <2> QED
    BY <2>1, <2>2, <2>3
<1>6. ASSUME r.op # "SubmitPrompt", NoPromptQueued PROVE NoPromptQueued'
  <2> DEFINE m == [from |-> c, op |-> r.op, arg |-> r.arg]
  <2>1. requests' = requests \/ requests' = Append(requests, m)
    BY DEF Call, CallShutdown, SendShutdown, Enqueue
  <2>2. m \in Request /\ m.op # "SubmitPrompt"
    BY <1>6 DEF Request
  <2> HIDE DEF m
  <2>3. CASE requests' = Append(requests, m)
    <3>1. /\ Len(requests) \in Nat /\ DOMAIN requests = 1 .. Len(requests)
          /\ DOMAIN requests' = 1 .. Len(requests) + 1
          /\ \A i \in 1 .. Len(requests) : requests'[i] = requests[i]
          /\ requests'[Len(requests) + 1] = m
      BY <1>4, <2>2, <2>3, Appended
    <3> QED
      BY <1>6, <2>2, <3>1 DEF NoPromptQueued
  <2> QED
    BY <1>6, <2>1, <2>3 DEF NoPromptQueued
<1> QED
  BY <1>2, <1>3, <1>5, <1>6

(* Nothing is queued for a frontend that waits for nothing. *)
LEMMA IdleQueue ==
  ASSUME CallInv, stage[Tui] = "idle"
  PROVE  requests = <<>> /\ replies = {} /\ NoPromptQueued
<1>1. requests \in Seq(Request) /\ replies \subseteq Clients /\ Tui \notin Queued \cup replies
  BY OneClient DEF CallInv, CallsAreHeld, TypeOK
<1>2. \A i \in DOMAIN requests : requests[i].from = Tui
  BY <1>1, OneClient, Elements DEF Request
<1>3. DOMAIN requests = {}
  BY <1>1, <1>2 DEF Queued
<1>4. requests = <<>>
  BY <1>1, <1>3
<1> QED
  BY <1>1, <1>3, <1>4, OneClient DEF NoPromptQueued

(* What the task does with the caller: AcceptPrompt accepts its prompt,    *)
(* and no other step tells it that it was.                                 *)
LEMMA AcceptFacts ==
  ASSUME CallInv, AcceptPrompt
  PROVE  /\ pc = "idle" /\ pc' = "announce" /\ events' = events
         /\ runCount' = runCount + 1 /\ runCount \in Nat
         /\ stage[Tui] # "idle" /\ ~NoPromptQueued
         /\ stage'[Tui] = "idle" /\ answer'[Tui] = AnswerOf("Accepted", runCount + 1)
<1>1. /\ requests \in Seq(Request) /\ requests # <<>> /\ Head(requests).op = "SubmitPrompt"
      /\ stage \in [Clients -> {"idle", "checked", "sent"}] /\ answer \in [Clients -> AnswerType]
      /\ runCount \in Nat
  BY DEF CallInv, TypeOK, AcceptPrompt, IdleReceives, Receives
<1>2. Caller = Tui /\ Tui \in Clients
  BY <1>1, OneClient, HeadTyped DEF CallInv
<1>3. 1 \in DOMAIN requests /\ Head(requests) = requests[1]
  BY <1>1, HeadTaken
<1>4. ~NoPromptQueued
  BY <1>1, <1>3 DEF NoPromptQueued
<1>5. stage[Tui] # "idle"
  BY <1>4, IdleQueue
<1> QED
  BY <1>1, <1>2, <1>4, <1>5 DEF AcceptPrompt, IdleReceives, Receives, Reply

-----------------------------------------------------------------------------
(***************************************************************************)
(* The steps of the controller, as the frontend may meet them.             *)
(***************************************************************************)

(* The stream grows at its end, by an error only when a run settles.       *)
LEMMA StepAppends ==
  ASSUME StreamInv, [Next]_vars
  PROVE  /\ Grows
         /\ \A k \in DOMAIN events' \ DOMAIN events :
              events'[k].kind = "ControllerError" => Settle
<1>1. OwnInv /\ StreamTyped /\ Len(events) \in Nat /\ DOMAIN events = 1 .. Len(events)
  BY DEF StreamInv, StreamTyped
<1>2. CASE events' = events
  BY <1>1, <1>2 DEF StreamTyped, Grows
<1>3. CASE Quiet
  <2>1. QuietStep
    BY <1>1, <1>3, QuietSteps
  <2>2. Grows
    BY <1>1, <2>1, QuietGrows
  <2>3. CASE events' # events
    <3>1. PICK e \in Remarks : /\ events' = Append(events, e)
                               /\ e.kind \in {"StateChanged", "PromptRejected"}
      BY <2>1, <2>3 DEF QuietStep
    <3>2. e \in ControllerEvent /\ events \in Seq(ControllerEvent)
      BY <1>1, <3>1 DEF Remarks, StreamTyped
    <3>3. DOMAIN events' = 1 .. Len(events) + 1 /\ events'[Len(events) + 1] = e
      BY <3>1, <3>2, Appended
    <3>4. \A k \in DOMAIN events' \ DOMAIN events : k = Len(events) + 1
      BY <1>1, <3>3
    <3> QED
      BY <2>2, <3>1, <3>3, <3>4
  <2> QED
    BY <1>2, <2>3
<1>4. CASE ForwardEvent
  <2>1. \A x \in [run : Nat, event : AgentKind] : Agent(active, x) \in ControllerEvent
    BY <1>1, EventsTyped DEF OwnInv, TypeOK
  <2>2. Head(channel) \in [run : Nat, event : AgentKind]
    <3> DEFINE S == [run : Nat, event : AgentKind]
    <3>1. channel \in Seq(S) /\ channel # <<>>
      BY <1>1, <1>4 DEF ForwardEvent, OwnInv, TypeOK
    <3> HIDE DEF S
    <3>2. Head(channel) \in S
      BY <3>1, HeadTaken
    <3> QED
      BY <3>2 DEF S
  <2>3. PICK e \in ControllerEvent : e.kind = "Agent" /\ events' = Append(events, e)
    BY <1>4, <2>1, <2>2 DEF ForwardEvent, Agent
  <2>4. /\ Grows /\ DOMAIN events' = 1 .. Len(events) + 1
        /\ events'[Len(events) + 1] = e
    BY <1>1, <2>3, Appended DEF StreamTyped, Grows
  <2>5. \A k \in DOMAIN events' \ DOMAIN events : k = Len(events) + 1
    BY <1>1, <2>4
  <2> QED
    BY <2>3, <2>4, <2>5
<1>5. ASSUME NEW e \in ControllerEvent, NEW f \in ControllerEvent, events' = events \o <<e, f>>,
             e.kind # "ControllerError", f.kind # "ControllerError"
      PROVE  /\ Grows
             /\ \A k \in DOMAIN events' \ DOMAIN events : events'[k].kind # "ControllerError"
  <2> DEFINE s == <<e, f>>
  <2>1. s \in Seq(ControllerEvent) /\ Len(s) = 2 /\ s[1] = e /\ s[2] = f
    BY <1>5
  <2>2. events' = events \o s
    BY <1>5
  <2> HIDE DEF s
  <2>3. /\ Grows /\ Len(events') = Len(events) + Len(s)
        /\ \A i \in 1 .. Len(s) : events'[Len(events) + i] = s[i]
    BY <1>1, <2>1, <2>2, StreamGrows
  <2>4. DOMAIN events' = 1 .. Len(events) + 2
    BY <1>1, <2>1, <2>3 DEF Grows
  <2>5. 1 \in 1 .. Len(s) /\ 2 \in 1 .. Len(s)
    BY <2>1
  <2>6. events'[Len(events) + 1] = e /\ events'[Len(events) + 2] = f
    BY <2>1, <2>3, <2>5
  <2>7. \A k \in DOMAIN events' \ DOMAIN events : k = Len(events) + 1 \/ k = Len(events) + 2
    BY <1>1, <2>4
  <2> QED
    BY <1>5, <2>3, <2>6, <2>7
<1>6. CASE Announce
  <2>1. /\ PromptAccepted(runCount) \in ControllerEvent /\ State(activity) \in ControllerEvent
        /\ PromptAccepted(runCount).kind # "ControllerError"
        /\ State(activity).kind # "ControllerError"
    BY <1>1, EventsTyped DEF OwnInv, TypeOK, PromptAccepted, State
  <2> QED
    BY <1>5, <1>6, <2>1 DEF Announce
<1>7. CASE Stop
  <2>1. activity' = Activity("Stopped", 0) /\ events' = events \o <<State(activity'), StoppedEvent>>
    BY <1>7 DEF Stop
  <2>2. Activity("Stopped", 0) \in [state : ActivityState, run : Nat]
    BY DEF Activity, ActivityState
  <2>3. /\ State(Activity("Stopped", 0)) \in ControllerEvent /\ StoppedEvent \in ControllerEvent
        /\ State(Activity("Stopped", 0)).kind # "ControllerError"
        /\ StoppedEvent.kind # "ControllerError"
    BY <2>2, EventsTyped DEF State, StoppedEvent, Remarks
  <2> QED
    BY <1>5, <2>1, <2>3
<1>8. CASE Settle
  <2>1. PICK m \in Nat : m = Len(channel)
    BY <1>1 DEF OwnInv, TypeOK
  <2>2. PICK n \in Nat : n = Len(events)
    BY <1>1
  <2>3. Grows
    BY <1>8, <2>1, <2>2, SettledEvents
  <2> QED
    BY <1>8, <2>3
<1>9. CASE AcceptPrompt \/ RunStep \/ AbortTask
  BY <1>2, <1>9 DEF AcceptPrompt, RunStep, RunStarts, RunProgresses, RunEnds, Emits, AbortTask
<1> QED
  BY <1>3, <1>4, <1>6, <1>7, <1>8, <1>9 DEF Next, TaskStep, Answers, Terminated, Quiet

(* What the program does to the controller keeps what is known of it.      *)
ControllerStep == ClientStep \/ TaskStep \/ RunStep \/ UNCHANGED vars

LEMMA StepController ==
  ASSUME ControllerInv, ControllerStep
  PROVE  ControllerInv' /\ Grows /\ runCount \in Nat /\ runCount' \in {runCount, runCount + 1}
<1>1. [Next]_vars
  BY DEF ControllerStep, Next
<1>2. StreamInv' /\ StreamOrder'
  BY <1>1, StepStream, StepStreamOrder DEF ControllerInv
<1>3. CallInv'
  BY <1>1, StepCalls DEF ControllerInv
<1>4. CacheInv'
  BY <1>1, StepCache DEF ControllerInv
<1>5. Grows /\ runCount \in Nat
  BY <1>1, StepAppends DEF ControllerInv, StreamInv, OwnInv, TypeOK
<1>6. pc' # "aborted" /\ runCount' \in {runCount, runCount + 1}
  <2> USE DEF taskVars, runVars, vars
  <2>1. CASE ClientStep \/ UNCHANGED vars
    BY <2>1 DEF ControllerInv, ClientStep, Call, CallShutdown, SendShutdown, DropHandle
  <2>2. CASE RunStep
    BY <2>2 DEF ControllerInv, RunStep, RunStarts, RunProgresses, RunEnds, Emits
  <2>3. CASE TaskStep
    BY <2>3 DEF ControllerInv, TaskStep, RejectPrompt, AcceptPrompt, Announce, CancelNothing,
       ReadIdle, SwitchModel, AddContext, ShutdownIdle, ClosedIdle, Stop, AnswerShutdown, RefuseBusy,
       AnswerSnapshot, CancelAgain, CancelRun, ShutdownActive, ClosedActive, ForwardEvent, PollRun,
       RunPends, Settle
  <2> QED
    BY <2>1, <2>2, <2>3 DEF ControllerStep
<1> QED
  BY <1>2, <1>3, <1>4, <1>5, <1>6 DEF ControllerInv

(* The task and its run: a frontend that waits for nothing is not          *)
(* answered, no prompt joins the queue, and no run begins but by           *)
(* AcceptPrompt.                                                           *)
LEMMA WaitsForNothing ==
  ASSUME ControllerInv, TaskStep \/ RunStep, stage[Tui] = "idle"
  PROVE  stage'[Tui] = "idle" /\ answer'[Tui] = answer[Tui] /\ ~AcceptPrompt
<1>1. /\ requests = <<>> /\ replies = {} /\ Tui \in Clients
      /\ stage \in [Clients -> {"idle", "checked", "sent"}] /\ answer \in [Clients -> AnswerType]
  BY IdleQueue, OneClient DEF ControllerInv, CallInv, TypeOK
<1>2. \A place, op : ~Receives(place, op)
  BY <1>1 DEF Receives
<1>3. ~AcceptPrompt
  BY <1>2 DEF AcceptPrompt, IdleReceives
<1>4. CASE AnswerShutdown
  <2>1. Queued = {}
    BY <1>1 DEF Queued
  <2> QED
    BY <1>1, <1>3, <1>4, <2>1 DEF AnswerShutdown
<1>5. CASE RunStep
  BY <1>3, <1>5 DEF RunStep, RunStarts, RunProgresses, RunEnds, Emits, clientVars
<1>6. CASE Announce \/ ClosedIdle \/ Stop \/ ClosedActive \/ ForwardEvent \/ PollRun \/ RunPends \/ Settle
  BY <1>3, <1>6 DEF Announce, ClosedIdle, Stop, ClosedActive, ForwardEvent, PollRun, RunPends, Settle,
     clientVars
<1> QED
  BY <1>2, <1>4, <1>5, <1>6 DEF TaskStep, RejectPrompt, AcceptPrompt, CancelNothing, ReadIdle,
     SwitchModel, AddContext, ShutdownIdle, RefuseBusy, AnswerSnapshot, CancelAgain, CancelRun,
     ShutdownActive, IdleReceives

LEMMA QueueDrains ==
  ASSUME ControllerInv, TaskStep \/ RunStep, NoPromptQueued
  PROVE  NoPromptQueued'
<1>1. requests \in Seq(Request)
  BY DEF ControllerInv, CallInv, TypeOK
<1>2. ASSUME NEW place, NEW op, Receives(place, op) PROVE NoPromptQueued'
  <2>1. requests # <<>> /\ requests' = Tail(requests)
    BY <1>2 DEF Receives
  <2>2. /\ Len(requests) \in Nat \ {0}
        /\ DOMAIN requests = 1 .. Len(requests) /\ DOMAIN requests' = 1 .. Len(requests) - 1
        /\ \A i \in 1 .. Len(requests) - 1 : requests'[i] = requests[1 + i]
    BY <1>1, <2>1, HeadTaken
  <2>3. \A i \in 1 .. Len(requests) - 1 : 1 + i \in DOMAIN requests
    BY <2>2
  <2> QED
    BY <2>2, <2>3 DEF NoPromptQueued
<1>3. CASE requests' = requests \/ requests' = <<>>
  BY <1>3 DEF NoPromptQueued
<1>4. CASE RunStep
  BY <1>3, <1>4 DEF RunStep, RunStarts, RunProgresses, RunEnds, Emits
<1>5. CASE Announce \/ ClosedIdle \/ Stop \/ ClosedActive \/ ForwardEvent \/ PollRun \/ RunPends
           \/ Settle \/ AnswerShutdown
  BY <1>3, <1>5 DEF Announce, ClosedIdle, Stop, ClosedActive, ForwardEvent, PollRun, RunPends, Settle,
     AnswerShutdown
<1> QED
  BY <1>2, <1>4, <1>5 DEF TaskStep, RejectPrompt, AcceptPrompt, CancelNothing, ReadIdle,
     SwitchModel, AddContext, ShutdownIdle, RefuseBusy, AnswerSnapshot, CancelAgain, CancelRun,
     ShutdownActive, IdleReceives

(* Without a prompt that is accepted, no run begins. *)
LEMMA NoRunBegins ==
  ASSUME ControllerInv, TaskStep \/ RunStep, ~AcceptPrompt
  PROVE  runCount' = runCount /\ (Free => Free')
<1> USE DEF taskVars, runVars, Free
<1>1. CASE RunStep
  BY <1>1 DEF RunStep, RunStarts, RunProgresses, RunEnds, Emits
<1>2. CASE Announce \/ Stop \/ AnswerShutdown \/ ForwardEvent \/ PollRun \/ RunPends \/ Settle
  BY <1>2 DEF Announce, Stop, AnswerShutdown, ForwardEvent, PollRun, RunPends, Settle
<1>3. CASE ShutdownIdle \/ ClosedIdle \/ CancelRun \/ ShutdownActive \/ ClosedActive
  BY <1>3 DEF ShutdownIdle, ClosedIdle, CancelRun, ShutdownActive, ClosedActive
<1>4. CASE RejectPrompt \/ CancelNothing \/ SwitchModel \/ AddContext \/ AnswerSnapshot \/ CancelAgain
  BY <1>4 DEF RejectPrompt, CancelNothing, SwitchModel, AddContext, AnswerSnapshot, CancelAgain
<1>5. ASSUME NEW op, ReadIdle(op) \/ RefuseBusy(op) PROVE runCount' = runCount /\ (Free => Free')
  BY <1>5 DEF ReadIdle, RefuseBusy
<1> QED
  BY <1>1, <1>2, <1>3, <1>4, <1>5 DEF TaskStep

(* A caller that is answered by any other step is not told "Accepted". *)
LEMMA NotAccepted ==
  ASSUME ControllerInv, TaskStep \/ RunStep, ~AcceptPrompt, stage[Tui] # "idle", stage'[Tui] = "idle"
  PROVE  answer'[Tui].kind # "Accepted"
<1>1. /\ Tui \in Clients /\ stage \in [Clients -> {"idle", "checked", "sent"}]
      /\ answer \in [Clients -> AnswerType]
  BY OneClient DEF ControllerInv, CallInv, TypeOK
<1>2. ASSUME NEW c, NEW a, a.kind # "Accepted", Reply(c, a)
      PROVE  answer'[Tui].kind # "Accepted"
  BY <1>1, <1>2 DEF Reply
<1>3. /\ \A k : Answer(k).kind = k
      /\ \A k, r : AnswerOf(k, r).kind = k
  BY DEF Answer, AnswerOf
<1>4. CASE AnswerShutdown
  <2>1. answer'[Tui] \in {Answer("ShutDown"), Answer("Closed")}
    BY <1>1, <1>4 DEF AnswerShutdown
  <2> QED
    BY <1>3, <2>1
<1>5. CASE UNCHANGED clientVars
  BY <1>5 DEF clientVars
<1>6. CASE RunStep
  BY <1>5, <1>6 DEF RunStep, RunStarts, RunProgresses, RunEnds, Emits
<1>7. CASE Announce \/ ShutdownIdle \/ ClosedIdle \/ Stop \/ ShutdownActive \/ ClosedActive
           \/ ForwardEvent \/ PollRun \/ RunPends \/ Settle
  BY <1>5, <1>7 DEF Announce, ShutdownIdle, ClosedIdle, Stop, ShutdownActive, ClosedActive,
     ForwardEvent, PollRun, RunPends, Settle
<1>8. CASE RejectPrompt \/ CancelNothing \/ AddContext \/ \E op : ReadIdle(op) \/ RefuseBusy(op)
  <2>1. PICK k \in {"Rejected", "NothingRunning", "Ok", "Busy"} : Reply(Caller, Answer(k))
    BY <1>8 DEF RejectPrompt, CancelNothing, AddContext, ReadIdle, RefuseBusy
  <2> QED
    BY <1>2, <1>3, <2>1
<1>9. CASE AnswerSnapshot \/ CancelAgain \/ CancelRun
  <2>1. PICK k, r : /\ k \in {"Snapshot", "AlreadyCancelling", "CancellationRequested"}
                    /\ Reply(Caller, AnswerOf(k, r))
    BY <1>9 DEF AnswerSnapshot, CancelAgain, CancelRun
  <2> QED
    BY <1>2, <1>3, <2>1
<1>10. CASE SwitchModel
  <2>1. PICK k \in {"InvalidModel", "Unchanged", "Changed"} : Reply(Caller, Answer(k))
    BY <1>10 DEF SwitchModel
  <2> QED
    BY <1>2, <1>3, <2>1
<1> QED
  BY <1>4, <1>6, <1>7, <1>8, <1>9, <1>10 DEF TaskStep

(* An error is reported of a run that had been live, and after its end.    *)
LEMMA ErrorAfterEnd ==
  ASSUME ControllerInv, TaskStep \/ RunStep, NEW k \in DOMAIN events' \ DOMAIN events,
         events'[k].kind = "ControllerError"
  PROVE  ~Free /\ runCount' = runCount /\ EndedWithin(runCount, k - 1)'
<1>1. [Next]_vars /\ ControllerStep
  BY DEF Next, ControllerStep
<1>2. Settle /\ Grows
  BY <1>1, StepAppends DEF ControllerInv
<1>3. pc = "polling" /\ runCount' = runCount
  BY <1>2 DEF Settle, runVars
<1>4. PICK j \in DOMAIN events : events[j] = PromptAccepted(runCount)
  BY <1>3 DEF ControllerInv, StreamInv, Live, PromptStands
<1>5. AllEnded(k)'
  <2>1. ControllerInv' /\ k \in DOMAIN events'
    BY <1>1, StepController
  <2>2. OrderAt(k)'
    BY <2>1 DEF ControllerInv, StreamOrder
  <2> QED
    BY <2>2 DEF OrderAt
<1>6. /\ j \in 1 .. k - 1 /\ events'[j] = PromptAccepted(runCount) /\ k \in Nat
      /\ j \in Nat \ {0}
  BY <1>2, <1>4 DEF Grows
<1>7. IsAccepted(events'[j]) /\ events'[j].run = runCount
  BY <1>6 DEF IsAccepted, PromptAccepted
<1>8. PICK m \in j .. k - 1 : EndsRun(events'[m], runCount)
  BY <1>5, <1>6, <1>7 DEF AllEnded
<1>9. m \in 1 .. k - 1
  BY <1>6
<1> QED
  BY <1>3, <1>8, <1>9 DEF Free, EndedWithin

-----------------------------------------------------------------------------
(***************************************************************************)
(* The Ratatui frontend.                                                   *)
(***************************************************************************)

(* The loop runs, in the modes it needs. *)
Working == {"key", "drain", "submitting", "cancelling", "command", "commandCall", "leaving",
            "closing", "unwinding"}

(* What is shown is as true of a longer stream. *)
LEMMA ViewGrows ==
  ASSUME ViewFollows, Grows, drained \in 0 .. Len(events), UNCHANGED <<shown, drained>>,
         ui' \in AgentShown <=> ui \in AgentShown
  PROVE  ViewFollows'
<1>1. /\ drained \in Nat /\ \A i \in 1 .. drained : i \in 1 .. Len(events) /\ events'[i] = events[i]
  BY DEF Grows
<1>2. ASSUME NEW j \in 1 .. drained, NEW i \in j .. drained PROVE events'[i] = events[i]
  BY <1>1
<1>3. ASSUME ui' \in AgentShown
      PROVE  /\ \E j \in 1 .. drained' : events'[j] = PromptAccepted(shown)
             /\ ~EndedWithin(shown, drained)'
  BY <1>1, <1>3 DEF ViewFollows, EndedWithin
<1>4. ASSUME NEW j \in 1 .. drained, IsAccepted(events'[j])
      PROVE  \/ \E m \in j .. drained : EndsRun(events'[m], events'[j].run)
             \/ ui' \in AgentShown /\ shown' = events'[j].run
  <2>1. events'[j] = events[j] /\ IsAccepted(events[j])
    BY <1>1, <1>4
  <2>2. CASE ui \in AgentShown /\ shown = events[j].run
    BY <2>1, <2>2
  <2>3. CASE \E m \in j .. drained : EndsRun(events[m], events[j].run)
    BY <1>2, <2>1, <2>3
  <2> QED
    BY <2>1, <2>2, <2>3 DEF ViewFollows
<1> QED
  BY <1>3, <1>4 DEF ViewFollows

LEMMA TuiStays ==
  ASSUME ControllerInv, ControllerStep, TuiInv, UNCHANGED <<shown, drained, guardVars>>,
         at \in Working, at' \in Working,
         ui' \in AgentShown <=> ui \in AgentShown, ui' \in {"Idle"} \cup AgentShown \cup CommandShown,
         command' \in {"none"} \cup Commands,
         draft' \in BOOLEAN, commandCancelled' \in BOOLEAN, broken' \in BOOLEAN,
         TuiPlaced'
  PROVE  TuiInv'
<1>1. /\ TypeOK' /\ Grows /\ runCount \in Nat /\ runCount' \in {runCount, runCount + 1}
  BY StepController DEF ControllerInv, CallInv
<1>2. CommandRequests \subseteq Operations
  BY DEF CommandRequests, Operations
<1>3. script' \in Seq(Operations)
  <2>1. script' \in Seq(CommandRequests)
    BY DEF TuiPlaced
  <2> QED
    BY <1>2, <2>1
<1>4. shown' \in 0 .. runCount' /\ drained' \in 0 .. Len(events')
  BY <1>1 DEF TuiInv, TuiTypeOK, Grows
<1>5. GuardTypeOK'
  BY DEF TuiInv, TuiTypeOK, GuardTypeOK, guardVars
<1>6. TuiTypeOK'
  BY <1>1, <1>3, <1>4, <1>5 DEF TuiTypeOK, Working
<1>7. ViewFollows'
  BY <1>1, ViewGrows DEF TuiInv, TuiTypeOK
<1>8. TerminalPlaced'
  BY DEF TuiInv, TerminalPlaced, Working, guardVars
<1> QED
  BY <1>6, <1>7, <1>8 DEF TuiInv

(* The frontend does nothing, or is another. *)
LEMMA TuiIdles ==
  ASSUME ControllerInv, ControllerStep, TuiInv, UNCHANGED tuiVars,
         at = "absent" \/ (stage[Tui] = "idle" => stage'[Tui] = "idle")
  PROVE  TuiInv'
<1> USE DEF tuiVars, loopVars, view, driven
<1>1. /\ TypeOK' /\ Grows /\ runCount \in Nat /\ runCount' \in {runCount, runCount + 1}
  BY StepController DEF ControllerInv, CallInv
<1>2. shown' \in 0 .. runCount' /\ drained' \in 0 .. Len(events')
  BY <1>1 DEF TuiInv, TuiTypeOK, Grows
<1>3. TuiTypeOK'
  BY <1>1, <1>2 DEF TuiInv, TuiTypeOK, GuardTypeOK, guardVars
<1>4. ViewFollows'
  BY <1>1, ViewGrows DEF TuiInv, TuiTypeOK
<1>5. TerminalPlaced'
  BY DEF TuiInv, TerminalPlaced, guardVars
<1>6. TuiPlaced'
  BY DEF TuiInv, TuiPlaced
<1> QED
  BY <1>3, <1>4, <1>5, <1>6 DEF TuiInv

(* A step of the frontend that leaves the controller alone. *)
LEMMA KeyTui ==
  ASSUME ControllerInv, TuiInv, Key \/ TerminalFails \/ Panics
  PROVE  ControllerStep /\ TuiInv'
<1> USE DEF view, driven
<1>1. /\ at \in Working \cup {"absent", "starting", "left"}
      /\ ui \in {"Idle"} \cup AgentShown \cup CommandShown /\ command \in {"none"} \cup Commands
      /\ draft \in BOOLEAN /\ commandCancelled \in BOOLEAN /\ broken \in BOOLEAN
      /\ TuiPlaced /\ TypeOK /\ Tui \in Clients
  BY OneClient DEF TuiInv, TuiTypeOK, Working, ControllerInv, CallInv
<1>2. ASSUME UNCHANGED vars PROVE ControllerStep /\ UNCHANGED stage
  BY <1>2 DEF ControllerStep, vars
<1>3. ASSUME NEW text \in BOOLEAN, Edit(text) PROVE ControllerStep /\ TuiInv'
  <2>1. /\ UNCHANGED <<ui, shown, drained, guardVars, command, script, commandCancelled, broken>>
        /\ draft' \in BOOLEAN /\ at \in {"key", "command", "commandCall"}
        /\ at' = IF at = "key" THEN "drain" ELSE at
        /\ UNCHANGED vars
    BY <1>3 DEF Edit, ReadsKeys, AfterKey
  <2>2. at \in Working /\ at' \in Working
    BY <2>1 DEF Working
  <2>3. TuiPlaced'
    BY <1>1, <1>2, <2>1 DEF TuiPlaced
  <2> QED
    BY <1>1, <1>2, <2>1, <2>2, <2>3, TuiStays
<1>4. ASSUME NEW p \in Prompts, EnterPrompt(p) PROVE ControllerStep /\ TuiInv'
  <2>1. /\ UNCHANGED <<ui, shown, drained, guardVars, command, script, commandCancelled, broken>>
        /\ draft' = FALSE /\ at = "key" /\ at' = "submitting" /\ ui = "Idle"
        /\ Call(Tui, Submission(p))
    BY <1>4 DEF EnterPrompt, Enter, EnterAvailable
  <2>2. at \in Working /\ at' \in Working
    BY <2>1 DEF Working
  <2>3. TuiPlaced'
    BY <1>1, <2>1 DEF TuiPlaced
  <2>4. ControllerStep
    BY <1>1, <2>1, AskedRequests, CallFacts DEF ControllerStep
  <2> QED
    BY <1>1, <2>1, <2>2, <2>3, <2>4, TuiStays
<1>5. ASSUME NEW c \in Commands, EnterCommand(c) PROVE ControllerStep /\ TuiInv'
  <2>1. /\ UNCHANGED <<shown, drained, guardVars, broken>> /\ command' = c /\ script' \in Begun(c)
        /\ commandCancelled' = FALSE /\ draft' = FALSE /\ at = "key" /\ at' = "command"
        /\ ui = "Idle" /\ ui' = "CommandRunning" /\ UNCHANGED vars
    BY <1>5 DEF EnterCommand, Enter, EnterAvailable
  <2>2. at \in Working /\ at' \in Working
    BY <2>1 DEF Working
  <2>3. script' \in Seq(CommandRequests)
    BY <2>1, Scripts
  <2>4. ui \notin AgentShown /\ ui' \notin AgentShown /\ ui' \in CommandShown
    BY <2>1 DEF AgentShown, CommandShown
  <2>5. TuiPlaced'
    BY <1>1, <1>2, <2>1, <2>3, <2>4 DEF TuiPlaced
  <2> QED
    BY <1>1, <1>2, <2>1, <2>2, <2>4, <2>5, TuiStays
<1>6. CASE CtrlCAgent
  <2>1. /\ UNCHANGED <<shown, drained, guardVars, draft, command, script, commandCancelled, broken>>
        /\ at = "key" /\ at' = "cancelling" /\ ui = "AgentRunning" /\ ui' = "AgentCancelling"
        /\ Call(Tui, Ask("CancelCurrent"))
    BY <1>6 DEF CtrlCAgent, CancelAgent
  <2>2. at \in Working /\ at' \in Working
    BY <2>1 DEF Working
  <2>3. ui \in AgentShown /\ ui' \in AgentShown /\ ui' \notin CommandShown
    BY <2>1 DEF AgentShown, CommandShown
  <2>4. TuiPlaced'
    BY <1>1, <2>1, <2>3 DEF TuiPlaced
  <2>5. ControllerStep
    BY <1>1, <2>1, AskedRequests, CallFacts DEF ControllerStep
  <2> QED
    BY <1>1, <2>1, <2>2, <2>3, <2>4, <2>5, TuiStays
<1>7. CASE CtrlCCommand
  <2>1. /\ UNCHANGED <<at, shown, drained, guardVars, draft, command, script, broken>>
        /\ commandCancelled' = TRUE /\ at \in {"key", "command", "commandCall"}
        /\ ui = "CommandRunning" /\ ui' = "CommandCancelling" /\ UNCHANGED vars
    BY <1>7 DEF CtrlCCommand, ReadsKeys
  <2>2. ui \in CommandShown /\ ui' \in CommandShown /\ ui \notin AgentShown /\ ui' \notin AgentShown
    BY <2>1 DEF AgentShown, CommandShown
  <2>3. at \in {"command", "commandCall"}
    BY <1>1, <2>1, <2>2 DEF TuiPlaced
  <2>4. at \in Working /\ at' \in Working
    BY <2>1 DEF Working
  <2>5. TuiPlaced'
    BY <1>1, <1>2, <2>1, <2>2, <2>3 DEF TuiPlaced
  <2> QED
    BY <1>1, <1>2, <2>1, <2>2, <2>4, <2>5, TuiStays
<1>8. CASE CtrlCDraft \/ Panics
  <2>1. /\ UNCHANGED <<ui, shown, drained, guardVars, command, script, commandCancelled, broken>>
        /\ draft' \in BOOLEAN /\ at = "key" /\ at' \in {"drain", "unwinding"}
        /\ UNCHANGED vars
    BY <1>1, <1>8 DEF CtrlCDraft, AfterKey, Panics
  <2>2. at \in Working /\ at' \in Working
    BY <2>1 DEF Working
  <2>3. TuiPlaced'
    BY <1>1, <1>2, <2>1 DEF TuiPlaced
  <2> QED
    BY <1>1, <1>2, <2>1, <2>2, <2>3, TuiStays
<1>9. CASE TerminalFails
  <2>1. /\ UNCHANGED <<ui, shown, drained, guardVars, draft, command, script>>
        /\ broken' = TRUE /\ commandCancelled' \in BOOLEAN
        /\ at \in {"key", "command", "commandCall"}
        /\ at' = IF at = "key" THEN "leaving" ELSE at
        /\ UNCHANGED vars
    BY <1>1, <1>9 DEF TerminalFails, ReadsKeys
  <2>2. at \in Working /\ at' \in Working
    BY <2>1 DEF Working
  <2>3. TuiPlaced'
    BY <1>1, <1>2, <2>1 DEF TuiPlaced
  <2> QED
    BY <1>1, <1>2, <2>1, <2>2, <2>3, TuiStays
<1> QED
  BY <1>3, <1>4, <1>5, <1>6, <1>7, <1>8, <1>9 DEF Key

(* The next event is drained.  The event itself is the last of those that  *)
(* ViewFollows looks at afterwards.                                        *)
LEMMA DrainView ==
  ASSUME StreamInv, StreamOrder, ViewFollows, ui \in {"Idle"} \cup AgentShown,
         drained \in 0 .. Len(events), Drain
  PROVE  ViewFollows' /\ shown' \in {shown} \cup 1 .. runCount /\ ui' \in {"Idle"} \cup AgentShown
<1> PICK q \in Nat : q = drained + 1
  OBVIOUS
<1>1. /\ q \in DOMAIN events /\ q = drained + 1 /\ drained = q - 1 /\ q - 1 \in Nat /\ drained' = q
      /\ drained \in Nat /\ events' = events
      /\ DOMAIN events = 1 .. Len(events) /\ Len(events) \in Nat
  BY DEF Drain, StreamInv, StreamTyped, vars
<1> PICK e : e = events[q]
  OBVIOUS
<1> DEFINE s == Reduce([ui |-> ui, run |-> shown], e)
<1>2. ui' = s.ui /\ shown' = s.run
  BY <1>1 DEF Drain
<1>3. /\ e \in ControllerEvent /\ AgentAt(q) /\ OrderAt(q)
      /\ OfRun(e) => e.run \in 1 .. runCount
  BY <1>1, Elements DEF StreamInv, StreamTyped, StreamOrder, Numbered
<1>4. {"AgentRunning", "AgentCancelling"} = AgentShown /\ "Idle" \notin AgentShown
  BY DEF AgentShown
<1>5. ASSUME NEW j \in 1 .. q - 1 PROVE j \in 1 .. q /\ j \in 1 .. drained /\ j \in DOMAIN events
  BY <1>1
(* What there is to show: the old runs, and perhaps this event's. *)
<1>6. ASSUME ui' \in AgentShown =>
               /\ \E j \in 1 .. q : events[j] = PromptAccepted(shown')
               /\ \A i \in 1 .. q : ~EndsRun(events[i], shown'),
             \A j \in 1 .. q : IsAccepted(events[j]) =>
               \/ \E m \in j .. q : EndsRun(events[m], events[j].run)
               \/ ui' \in AgentShown /\ shown' = events[j].run
      PROVE  ViewFollows'
  <2>1. ui' \in AgentShown => ~EndedWithin(shown, drained)'
    BY <1>1, <1>6 DEF EndedWithin
  <2> QED
    BY <1>1, <1>6, <2>1 DEF ViewFollows
<1>7. ASSUME NEW j \in 1 .. q - 1, IsAccepted(events[j])
      PROVE  \/ \E m \in j .. q - 1 : EndsRun(events[m], events[j].run)
             \/ ui \in AgentShown /\ shown = events[j].run
  BY <1>1, <1>5, <1>7 DEF ViewFollows
<1>8. ASSUME NEW j \in 1 .. q - 1, NEW m \in j .. q - 1 PROVE m \in j .. q /\ m \in 1 .. q - 1
  BY <1>1
<1>9. CASE e.kind = "PromptAccepted"
  <2>1. ui' = "AgentRunning" /\ shown' = e.run
    BY <1>2, <1>9 DEF Reduce
  <2>2. e = PromptAccepted(e.run) /\ IsAccepted(e) /\ ~IsAgent(e) /\ e.run \in 1 .. runCount
    BY <1>3, <1>9 DEF ControllerEvent, PromptAccepted, IsAccepted, IsAgent, OfRun
  <2>3. ASSUME NEW i \in 1 .. q, EndsRun(events[i], e.run) PROVE FALSE
    <3>1. i \in DOMAIN events
      BY <1>1
    <3>2. q <= i
      BY <1>1, <2>2, <2>3, <3>1, EndAfterPrompt
    <3>3. i = q
      BY <1>1, <3>2
    <3> QED
      BY <1>9, <2>3, <3>3 DEF EndsRun
  <2>4. AllEnded(q)
    BY <1>3, <1>9 DEF OrderAt
  <2>5. ASSUME NEW j \in 1 .. q, IsAccepted(events[j])
        PROVE  \/ \E m \in j .. q : EndsRun(events[m], events[j].run)
               \/ ui' \in AgentShown /\ shown' = events[j].run
    <3>1. CASE j = q
      BY <1>4, <2>1, <3>1
    <3>2. CASE j # q
      <4>1. j \in 1 .. q - 1
        BY <3>2
      <4> QED
        BY <1>8, <2>4, <2>5, <4>1 DEF AllEnded
    <3> QED
      BY <3>1, <3>2
  <2>6. q \in 1 .. q
    BY <1>1
  <2> QED
    BY <1>4, <1>6, <2>1, <2>2, <2>3, <2>5, <2>6
<1>10. CASE e.kind \in {"PromptRejected", "ControllerError"}
  <2>1. ui' = "Idle" /\ shown' = shown
    BY <1>2, <1>10 DEF Reduce
  <2>2. AllEnded(q)
    BY <1>3, <1>10 DEF OrderAt
  <2>3. ASSUME NEW j \in 1 .. q, IsAccepted(events[j])
        PROVE  \E m \in j .. q : EndsRun(events[m], events[j].run)
    <3>1. j \in 1 .. q - 1
      BY <1>10, <2>3 DEF IsAccepted
    <3> QED
      BY <1>8, <2>2, <2>3, <3>1 DEF AllEnded
  <2> QED
    BY <1>4, <1>6, <2>1, <2>3
<1>11. CASE e.kind = "Agent" /\ e.event = "RunStarted"
  <2>1. ui' = "AgentRunning" /\ shown' = e.run
    BY <1>2, <1>11 DEF Reduce, Stops, Run!TerminalKinds
  <2>2. IsAgent(e) /\ ~IsAccepted(e) /\ e.run \in 1 .. runCount
    BY <1>3, <1>11 DEF IsAgent, IsAccepted, OfRun
  <2>3. PICK j \in 1 .. q - 1 : events[j] = PromptAccepted(e.run)
    BY <1>3, <2>2 DEF AgentAt
  <2>4. \A i \in 1 .. q - 1 : ~EndsRun(events[i], e.run)
    BY <1>3, <2>2 DEF OrderAt
  <2>5. ~EndsRun(e, e.run)
    BY <1>11 DEF EndsRun, Run!TerminalKinds
  <2>6. \A i \in 1 .. q : ~EndsRun(events[i], e.run)
    <3>1. \A i \in 1 .. q : i = q \/ i \in 1 .. q - 1
      OBVIOUS
    <3> QED
      BY <2>4, <2>5, <3>1
  <2>7. ASSUME NEW k \in 1 .. q - 1, IsAccepted(events[k]),
               ui \in AgentShown, shown = events[k].run
        PROVE  shown' = events[k].run
    <3>1. \A i \in 1 .. q - 1 : ~EndsRun(events[i], events[k].run)
      BY <1>5, <2>7 DEF ViewFollows, EndedWithin
    <3>2. CASE k < j
      <4>1. OrderAt(j) /\ IsAccepted(events[j]) /\ events[j].kind = "PromptAccepted" /\ k \in 1 .. j - 1
        BY <1>5, <2>3, <3>2 DEF StreamOrder, IsAccepted, PromptAccepted
      <4>2. AllEnded(j)
        BY <4>1 DEF OrderAt
      <4>3. PICK m \in k .. j - 1 : EndsRun(events[m], events[k].run)
        BY <2>7, <4>1, <4>2 DEF AllEnded
      <4>4. m \in 1 .. q - 1
        OBVIOUS
      <4> QED
        BY <3>1, <4>3, <4>4
    <3>3. CASE j < k
      <4>1. OrderAt(k) /\ events[k].kind = "PromptAccepted" /\ j \in 1 .. k - 1
        BY <1>5, <2>7, <3>3 DEF StreamOrder, IsAccepted
      <4>2. AllEnded(k)
        BY <4>1 DEF OrderAt
      <4>3. IsAccepted(events[j]) /\ events[j].run = e.run
        BY <2>3 DEF IsAccepted, PromptAccepted
      <4>4. PICK m \in j .. k - 1 : EndsRun(events[m], e.run)
        BY <4>1, <4>2, <4>3 DEF AllEnded
      <4>5. m \in 1 .. q - 1
        OBVIOUS
      <4> QED
        BY <2>4, <4>4, <4>5
    <3>4. CASE j = k
      BY <2>1, <2>3, <3>4 DEF PromptAccepted
    <3> QED
      BY <3>2, <3>3, <3>4
  <2>8. ASSUME NEW k \in 1 .. q, IsAccepted(events[k])
        PROVE  \/ \E m \in k .. q : EndsRun(events[m], events[k].run)
               \/ ui' \in AgentShown /\ shown' = events[k].run
    <3>1. k \in 1 .. q - 1
      <4>1. k # q
        BY <2>2, <2>8
      <4> QED
        BY <4>1
    <3> QED
      BY <1>4, <1>7, <1>8, <2>1, <2>7, <2>8, <3>1
  <2>9. j \in 1 .. q
    BY <1>5
  <2> QED
    BY <1>4, <1>6, <2>1, <2>2, <2>3, <2>6, <2>8, <2>9
<1>12. CASE e.kind = "Agent" /\ e.event # "RunStarted" /\ e.run = shown /\ Stops(e)
  <2>1. ui' = "Idle" /\ shown' = shown
    BY <1>2, <1>12 DEF Reduce
  <2>2. EndsRun(events[q], shown) /\ ~IsAccepted(e)
    BY <1>12 DEF EndsRun, Stops, IsAccepted
  <2>3. ASSUME NEW j \in 1 .. q, IsAccepted(events[j])
        PROVE  \E m \in j .. q : EndsRun(events[m], events[j].run)
    <3>1. j # q
      BY <2>2, <2>3
    <3>2. j \in 1 .. q - 1 /\ q \in j .. q
      BY <3>1
    <3> QED
      BY <1>7, <1>8, <2>2, <2>3, <3>2
  <2> QED
    BY <1>4, <1>6, <2>1, <2>3
<1>13. CASE /\ e.kind \notin {"PromptAccepted", "PromptRejected", "ControllerError"}
            /\ e.kind = "Agent" => e.event # "RunStarted" /\ ~(e.run = shown /\ Stops(e))
  <2>1. ui' = ui /\ shown' = shown
    BY <1>2, <1>13 DEF Reduce
  <2>2. ~IsAccepted(e) /\ ~EndsRun(e, shown)
    BY <1>13 DEF EndsRun, Stops, IsAccepted
  <2>3. ASSUME ui \in AgentShown
        PROVE  /\ \E j \in 1 .. q : events[j] = PromptAccepted(shown)
               /\ \A i \in 1 .. q : ~EndsRun(events[i], shown)
    <3>1. \A i \in 1 .. q : i = q \/ i \in 1 .. q - 1
      OBVIOUS
    <3>2. /\ \E j \in 1 .. q - 1 : events[j] = PromptAccepted(shown)
          /\ \A i \in 1 .. q - 1 : ~EndsRun(events[i], shown)
      BY <1>1, <2>3 DEF ViewFollows, EndedWithin
    <3> QED
      BY <1>5, <2>2, <3>1, <3>2
  <2>4. ASSUME NEW j \in 1 .. q, IsAccepted(events[j])
        PROVE  \/ \E m \in j .. q : EndsRun(events[m], events[j].run)
               \/ ui \in AgentShown /\ shown = events[j].run
    <3>1. j # q
      BY <2>2, <2>4
    <3>2. j \in 1 .. q - 1
      BY <3>1
    <3> QED
      BY <1>7, <1>8, <2>4, <3>2
  <2> QED
    BY <1>6, <2>1, <2>3, <2>4
<1> QED
  BY <1>9, <1>10, <1>11, <1>12, <1>13

(* Whichever way the modes are left, those that stay are the refused ones. *)
LEMMA GuardLeaves ==
  ASSUME GuardTypeOK, NEW modes \in SUBSET Modes, terminal \subseteq modes, Leaves(modes)
  PROVE  GuardTypeOK' /\ terminal' \subseteq refused'
<1>1. PICK failing \in Failures(modes) :
        /\ terminal' = (terminal \cup modes) \ (modes \ failing)
        /\ refused' = failing /\ owned' = {} /\ restored' = TRUE
  BY DEF Leaves, Undone
<1>2. failing \subseteq modes
  BY DEF Failures
<1> QED
  BY <1>1, <1>2 DEF GuardTypeOK

(* A step in which the guard changes and the controller does not. *)
LEMMA GuardSteps ==
  ASSUME ControllerInv, TuiInv, UNCHANGED vars,
         UNCHANGED <<ui, shown, drained, draft, command, script, commandCancelled, broken>>,
         GuardTypeOK', TerminalPlaced', ui \notin CommandShown,
         \/ at' \in {"key", "unwinding"} /\ stage[Tui] = "idle" /\ script = <<>>
         \/ at' = "left" /\ script = <<>>
  PROVE  TuiInv'
<1>1. /\ ControllerStep /\ stage' = stage
  BY DEF ControllerStep, vars
<1>2. /\ TypeOK' /\ Grows /\ runCount' = runCount /\ events' = events
  BY <1>1, StepController DEF ControllerInv, CallInv, vars
<1>3. TuiTypeOK'
  BY <1>2 DEF TuiInv, TuiTypeOK
<1>4. ViewFollows'
  BY <1>2, ViewGrows DEF TuiInv, TuiTypeOK
<1>5. TuiPlaced'
  BY <1>1 DEF TuiInv, TuiPlaced
<1> QED
  BY <1>3, <1>4, <1>5 DEF TuiInv

LEMMA StepTui ==
  ASSUME ControllerInv, TuiInv, TuiStep
  PROVE  ControllerStep /\ TuiInv'
<1> USE DEF view, driven
<1>1. /\ at \in Working \cup {"absent", "starting", "left"}
      /\ ui \in {"Idle"} \cup AgentShown \cup CommandShown /\ command \in {"none"} \cup Commands
      /\ draft \in BOOLEAN /\ commandCancelled \in BOOLEAN /\ broken \in BOOLEAN
      /\ TuiPlaced /\ TerminalPlaced /\ GuardTypeOK /\ TypeOK /\ Tui \in Clients
      /\ drained \in 0 .. Len(events)
  BY OneClient DEF TuiInv, TuiTypeOK, Working, ControllerInv, CallInv
<1>2. ASSUME UNCHANGED vars PROVE ControllerStep /\ UNCHANGED <<stage, events, runCount>>
  BY <1>2 DEF ControllerStep, vars
<1>3. "Idle" \notin AgentShown /\ "Idle" \notin CommandShown /\ AgentShown \cap CommandShown = {}
  BY DEF AgentShown, CommandShown
<1>4. CASE Start
  <2>1. /\ UNCHANGED vars /\ at = "starting"
        /\ UNCHANGED <<ui, shown, drained, draft, command, script, commandCancelled, broken>>
        /\ terminal = {} /\ owned = {} /\ ~restored
        /\ stage[Tui] = "idle" /\ script = <<>> /\ ui \notin CommandShown
    BY <1>1, <1>4 DEF Start, TerminalPlaced, TuiPlaced
  <2>2. CASE Entered /\ at' \in {"key", "unwinding"}
    <3>1. terminal' = Modes /\ owned' = Modes /\ UNCHANGED <<restored, refused>>
      BY <2>2 DEF Entered
    <3>2. GuardTypeOK' /\ TerminalPlaced'
      BY <1>1, <2>1, <2>2, <3>1 DEF GuardTypeOK, TerminalPlaced
    <3> QED
      BY <1>2, <2>1, <2>2, <3>2, GuardSteps
  <2>3. CASE NotEntered /\ at' = "left"
    <3>1. GuardTypeOK' /\ terminal' \subseteq refused'
      <4>1. CASE UNCHANGED guardVars
        BY <1>1, <2>1, <4>1 DEF guardVars, GuardTypeOK
      <4>2. CASE ~UNCHANGED guardVars
        <5>1. PICK modes \in SUBSET Modes : Leaves(modes)
          BY <2>3, <4>2 DEF NotEntered
        <5> QED
          BY <1>1, <2>1, <5>1, GuardLeaves
      <4> QED
        BY <4>1, <4>2
    <3>2. TerminalPlaced'
      BY <2>3, <3>1 DEF TerminalPlaced
    <3> QED
      BY <1>2, <2>1, <2>3, <3>1, <3>2, GuardSteps
  <2> QED
    BY <1>4, <2>2, <2>3 DEF Start
<1>5. CASE Unwind \/ Join
  <2>1. /\ UNCHANGED vars /\ at \in {"unwinding", "closing"} /\ at' = "left" /\ Restore
        /\ UNCHANGED <<ui, shown, drained, draft, command, script, commandCancelled, broken>>
    BY <1>5 DEF Unwind, Join
  <2>2. terminal = Modes /\ owned = Modes /\ ~restored /\ script = <<>>
    BY <1>1, <2>1 DEF TerminalPlaced, TuiPlaced
  <2>3. Leaves(Modes)
    BY <2>1, <2>2 DEF Restore
  <2>4. GuardTypeOK' /\ terminal' \subseteq refused'
    BY <1>1, <2>2, <2>3, GuardLeaves
  <2>5. TerminalPlaced'
    BY <2>1, <2>4 DEF TerminalPlaced
  <2>6. TypeOK' /\ Grows /\ ControllerStep
    BY <1>2, <2>1, StepController DEF ControllerInv, CallInv
  <2>7. TuiTypeOK'
    BY <1>2, <2>1, <2>4, <2>6 DEF TuiInv, TuiTypeOK
  <2>8. ViewFollows'
    BY <2>1, <2>6, ViewGrows DEF TuiInv, TuiTypeOK
  <2>9. TuiPlaced'
    BY <1>1, <2>1, <2>2 DEF TuiPlaced
  <2> QED
    BY <2>5, <2>6, <2>7, <2>8, <2>9 DEF TuiInv
<1>6. CASE Answered
  <2>1. /\ UNCHANGED vars /\ at \in {"submitting", "cancelling"} /\ at' = "drain" /\ stage[Tui] = "idle"
        /\ UNCHANGED <<shown, drained, guardVars, draft, command, script, commandCancelled, broken>>
        /\ ui' = ui \/ (at = "submitting" /\ ui' = "Idle")
    BY <1>6 DEF Answered
  <2>2. ui' = ui /\ ui \notin CommandShown
    BY <1>1, <2>1 DEF TuiPlaced
  <2>3. at \in Working /\ at' \in Working
    BY <2>1 DEF Working
  <2>4. TuiPlaced'
    BY <1>1, <1>2, <2>1, <2>2 DEF TuiPlaced
  <2> QED
    BY <1>1, <1>2, <2>1, <2>2, <2>3, <2>4, TuiStays
<1>7. CASE Drain
  <2>1. /\ UNCHANGED vars /\ at \in {"key", "drain"} /\ at' \in {"key", "drain"}
        /\ UNCHANGED <<guardVars, draft, command, script, commandCancelled, broken>>
        /\ drained' = drained + 1 /\ drained < Len(events)
    BY <1>7 DEF Drain
  <2>2. ui \in {"Idle"} \cup AgentShown
    BY <1>1, <2>1 DEF TuiPlaced
  <2>3. ViewFollows' /\ shown' \in {shown} \cup 1 .. runCount /\ ui' \in {"Idle"} \cup AgentShown
    BY <1>1, <1>7, <2>2, DrainView DEF ControllerInv, TuiInv
  <2>4. at \in Working /\ at' \in Working
    BY <2>1 DEF Working
  <2>5. TypeOK' /\ ControllerStep /\ runCount \in Nat /\ Len(events) \in Nat
    BY <1>2, <2>1, StepController DEF ControllerInv, CallInv, Grows
  <2>6. shown' \in 0 .. runCount' /\ drained' \in 0 .. Len(events') /\ script' \in Seq(Operations)
    BY <1>1, <1>2, <2>1, <2>3, <2>5 DEF TuiInv, TuiTypeOK
  <2>7. GuardTypeOK' /\ TerminalPlaced'
    BY <1>1, <2>1, <2>4 DEF GuardTypeOK, TerminalPlaced, Working, guardVars
  <2>8. TuiTypeOK'
    BY <1>1, <2>1, <2>3, <2>5, <2>6, <2>7 DEF TuiTypeOK
  <2>9. TuiPlaced'
    BY <1>1, <1>2, <1>3, <2>1, <2>3 DEF TuiPlaced
  <2> QED
    BY <2>3, <2>5, <2>7, <2>8, <2>9 DEF TuiInv
<1>8. CASE NothingToDrain
  <2>1. /\ UNCHANGED vars /\ at = "drain" /\ at' = "key"
        /\ UNCHANGED <<ui, shown, drained, guardVars, draft, command, script, commandCancelled, broken>>
    BY <1>8 DEF NothingToDrain
  <2>2. at \in Working /\ at' \in Working
    BY <2>1 DEF Working
  <2>3. TuiPlaced'
    BY <1>1, <1>2, <2>1 DEF TuiPlaced
  <2> QED
    BY <1>1, <1>2, <2>1, <2>2, <2>3, TuiStays
<1>9. CASE CommandCalls
  <2>1. /\ at = "command" /\ at' = "commandCall" /\ script # <<>> /\ Call(Tui, Ask(Head(script)))
        /\ UNCHANGED <<ui, shown, drained, guardVars, draft, command, script, commandCancelled, broken>>
    BY <1>9 DEF CommandCalls, Returns
  <2>2. Head(script) \in CommandRequests
    BY <1>1, <2>1, HeadAsked DEF TuiPlaced
  <2>3. ControllerStep
    BY <1>1, <2>1, <2>2, AskedRequests, CallFacts DEF ControllerStep
  <2>4. at \in Working /\ at' \in Working
    BY <2>1 DEF Working
  <2>5. TuiPlaced'
    BY <1>1, <2>1 DEF TuiPlaced
  <2> QED
    BY <1>1, <2>1, <2>3, <2>4, <2>5, TuiStays
<1>10. CASE CommandAnswered
  <2>1. /\ UNCHANGED vars /\ at = "commandCall" /\ at' = "command" /\ stage[Tui] = "idle"
        /\ script' \in Remaining(command, script, answer[Tui])
        /\ UNCHANGED <<ui, shown, drained, guardVars, draft, command, commandCancelled, broken>>
    BY <1>10 DEF CommandAnswered
  <2>2. script' \in Seq(CommandRequests)
    BY <1>1, <2>1, Remains DEF TuiPlaced
  <2>3. at \in Working /\ at' \in Working
    BY <2>1 DEF Working
  <2>4. TuiPlaced'
    BY <1>1, <1>2, <2>1, <2>2 DEF TuiPlaced
  <2> QED
    BY <1>1, <1>2, <2>1, <2>3, <2>4, TuiStays
<1>11. CASE CommandEnds
  <2>1. /\ UNCHANGED vars /\ at = "command" /\ at' \in {"leaving", "drain"}
        /\ ui' \in {ui, "Idle"}
        /\ at' = "drain" => ui' = "Idle"
        /\ command' = "none" /\ script' = <<>> /\ commandCancelled' = FALSE
        /\ UNCHANGED <<shown, drained, guardVars, draft, broken>>
    BY <1>11 DEF CommandEnds, Settled
  <2>2. ui \in CommandShown /\ stage[Tui] = "idle"
    BY <1>1, <2>1 DEF TuiPlaced
  <2>3. at \in Working /\ at' \in Working
    BY <2>1 DEF Working
  <2>4. script' \in Seq(CommandRequests)
    BY <2>1
  <2>5. TuiPlaced'
    BY <1>1, <1>2, <1>3, <2>1, <2>2, <2>4 DEF TuiPlaced
  <2> QED
    BY <1>1, <1>2, <1>3, <2>1, <2>2, <2>3, <2>5, TuiStays
<1>12. CASE Leave
  <2>1. /\ at = "leaving" /\ at' = "closing" /\ CallShutdown(Tui, Ask("Shutdown"))
        /\ UNCHANGED <<ui, shown, drained, guardVars, draft, command, script, commandCancelled, broken>>
    BY <1>12 DEF Leave
  <2>2. ControllerStep
    BY <1>1, <2>1, AskedRequests, CallFacts DEF ControllerStep
  <2>3. at \in Working /\ at' \in Working
    BY <2>1 DEF Working
  <2>4. TuiPlaced'
    BY <1>1, <2>1 DEF TuiPlaced
  <2> QED
    BY <1>1, <2>1, <2>2, <2>3, <2>4, TuiStays
<1> QED
  BY <1>4, <1>5, <1>6, <1>7, <1>8, <1>9, <1>10, <1>11, <1>12 DEF TuiStep

-----------------------------------------------------------------------------
(***************************************************************************)
(* The line frontends.                                                     *)
(***************************************************************************)

(* What has been received stays so when the stream grows. *)
LEMMA EndsKept ==
  ASSUME Grows, NEW n \in Nat, n <= Len(events)
  PROVE  /\ \A i \in 1 .. n : events'[i] = events[i]
         /\ \A r : EndedWithin(r, n)' <=> EndedWithin(r, n)
<1>1. \A i \in 1 .. n : events'[i] = events[i]
  BY DEF Grows
<1> QED
  BY <1>1 DEF EndedWithin

LEMMA LineSame ==
  ASSUME ControllerInv, ControllerStep, LineInv, UNCHANGED lineVars
  PROVE  LineTypeOK'
<1>1. /\ Grows /\ runCount \in Nat /\ runCount' \in {runCount, runCount + 1}
  BY StepController
<1>2. consumed' \in 0 .. Len(events') /\ ours' \in 0 .. runCount'
  BY <1>1 DEF LineInv, LineTypeOK, Grows, lineVars, drive
<1> QED
  BY <1>2 DEF LineInv, LineTypeOK, lineVars, drive

(* It is another frontend, or about to leave. *)
LEMMA LineAway ==
  ASSUME ControllerInv, ControllerStep, LineInv, UNCHANGED lineVars,
         standing \in {"absent", "closing", "left"}
  PROVE  LineInv'
<1>1. LineTypeOK'
  BY LineSame
<1>2. LinePlaced' /\ DriveFollows'
  BY DEF LineInv, LinePlaced, DriveFollows, AtWork, lineVars, drive
<1> QED
  BY <1>1, <1>2 DEF LineInv

(* While it waits, the task accepts its prompt at most, and what has run   *)
(* since is its own.                                                       *)
LEMMA LineWaits ==
  ASSUME ControllerInv, LineInv, TaskStep \/ RunStep, UNCHANGED lineVars
  PROVE  LineInv'
<1>1. ControllerStep /\ Line = Tui
  BY OneClient DEF ControllerStep
<1>2. /\ ControllerInv' /\ Grows /\ runCount \in Nat /\ runCount' \in {runCount, runCount + 1}
  BY <1>1, StepController
<1>3. LineTypeOK'
  BY <1>1, LineSame
<1>4. CASE ~AtWork
  BY <1>1, <1>4, LineAway DEF AtWork
<1>5. CASE AtWork
  <2>1. /\ LineTypeOK /\ LinePlaced /\ DriveFollows
        /\ UNCHANGED <<standing, consumed, ours, ended, outcome, outputFailed, reported, rest>>
        /\ AtWork'
    BY <1>5 DEF LineInv, lineVars, drive, AtWork
  <2>2. /\ consumed \in Nat /\ consumed <= Len(events) /\ Len(events) \in Nat
    BY <1>2, <2>1 DEF LineTypeOK, Grows
  <2>3. stage[Line] = "idle" => stage'[Line] = "idle" /\ answer'[Line] = answer[Line] /\ ~AcceptPrompt
    BY <1>1, WaitsForNothing
  <2>4. standing # "submitting" => NoPromptQueued /\ NoPromptQueued' /\ ~AcceptPrompt
    BY <1>5, <2>1, QueueDrains, AcceptFacts DEF LinePlaced, ControllerInv
  <2>5. Drives => Drives' /\ ~AcceptPrompt
    BY <2>1, <2>3, <2>4 DEF Drives, Accepted
  <2>6. ~AcceptPrompt => runCount' = runCount /\ (Free => Free')
    BY NoRunBegins
  <2>7. /\ Drives' /\ ~Drives => AcceptPrompt /\ standing = "submitting"
    <3> SUFFICES ASSUME Drives', ~Drives, ~AcceptPrompt PROVE FALSE
      BY <2>1 DEF Drives
    <3>1. standing = "submitting" /\ Accepted' /\ ~Accepted
      BY <2>1 DEF Drives
    <3>2. stage'[Tui] = "idle" /\ answer'[Tui].kind = "Accepted"
      BY <1>1, <3>1 DEF Accepted
    <3>3. stage[Tui] # "idle"
      BY <1>1, <2>3, <3>1, <3>2 DEF Accepted
    <3> QED
      BY <3>2, <3>3, NotAccepted
  <2>8. LinePlaced'
    <3>1. ~Drives' => Free'
      <4>1. AcceptPrompt => Drives'
        <5> SUFFICES ASSUME AcceptPrompt PROVE Drives'
          OBVIOUS
        <5>1. standing = "submitting" /\ stage'[Line] = "idle" /\ answer'[Line] = AnswerOf("Accepted", runCount + 1)
          BY <1>1, <2>4, AcceptFacts DEF ControllerInv
        <5> QED
          BY <2>1, <5>1 DEF Drives, Accepted, AnswerOf
      <4> QED
        BY <1>5, <2>1, <2>5, <2>6, <4>1 DEF LinePlaced
    <3> QED
      BY <2>1, <2>3, <2>4, <3>1 DEF LinePlaced
  <2>9. ASSUME standing = "submitting", Accepted'
        PROVE  /\ answer'[Line].run = runCount' /\ runCount' # 0
               /\ ~EndedWithin(runCount, consumed)'
    <3>1. CASE AcceptPrompt
      <4>1. /\ events' = events /\ runCount' = runCount + 1
            /\ answer'[Line] = AnswerOf("Accepted", runCount + 1)
        BY <1>1, <3>1, AcceptFacts DEF ControllerInv
      <4>2. ASSUME NEW i \in 1 .. consumed, EndsRun(events'[i], runCount') PROVE FALSE
        <5>1. i \in DOMAIN events /\ EndsRun(events[i], runCount + 1)
          BY <1>2, <2>2, <4>1, <4>2 DEF Grows
        <5>2. events[i].run \in 1 .. runCount /\ events[i].run = runCount + 1
          BY <5>1 DEF ControllerInv, StreamInv, Numbered, OfRun, EndsRun
        <5> QED
          BY <1>2, <5>2
      <4>3. ~EndedWithin(runCount, consumed)'
        BY <2>1, <4>2 DEF EndedWithin
      <4> QED
        BY <1>2, <4>1, <4>3 DEF AnswerOf
    <3>2. CASE ~AcceptPrompt
      <4>1. Accepted
        BY <2>1, <2>7, <2>9, <3>2 DEF Drives
      <4>2. /\ answer'[Line] = answer[Line] /\ runCount' = runCount
            /\ answer[Line].run = runCount /\ runCount # 0 /\ ~EndedWithin(runCount, consumed)
        BY <2>1, <2>3, <2>6, <2>9, <3>2, <4>1 DEF Accepted, DriveFollows
      <4>3. \A i \in 1 .. consumed : events'[i] = events[i]
        BY <1>2, <2>2, EndsKept
      <4>4. ~EndedWithin(runCount, consumed)'
        BY <2>1, <4>2, <4>3 DEF EndedWithin
      <4> QED
        BY <4>2, <4>4
    <3> QED
      BY <3>1, <3>2
  <2>10. ASSUME ours # 0
         PROVE  /\ ours = runCount'
                /\ ended <=> EndedWithin(ours, consumed)'
                /\ ended => \E i \in 1 .. consumed : EndsRun(events'[i], ours) /\ outcome = events'[i].event
    <3>1. standing # "submitting"
      BY <2>1, <2>10 DEF DriveFollows
    <3>2. runCount' = runCount /\ ours = runCount /\ (ended <=> EndedWithin(ours, consumed))
      BY <1>5, <2>1, <2>4, <2>6, <2>10, <3>1 DEF DriveFollows
    <3>3. \A i \in 1 .. consumed : events'[i] = events[i]
      BY <1>2, <2>2, EndsKept
    <3>4. EndedWithin(ours, consumed)' <=> EndedWithin(ours, consumed)
      BY <2>1, <3>3 DEF EndedWithin
    <3>5. ended => \E i \in 1 .. consumed : EndsRun(events[i], ours) /\ outcome = events[i].event
      BY <1>5, <2>1, <2>10 DEF DriveFollows
    <3> QED
      BY <3>2, <3>3, <3>4, <3>5
  <2>11. ASSUME NEW k \in consumed + 1 .. Len(events'), events'[k].kind = "ControllerError"
         PROVE  Drives' /\ EndedWithin(runCount, k - 1)'
    <3>1. k \in DOMAIN events' /\ k \in Nat /\ k - 1 \in Nat
      BY <1>2, <2>2 DEF Grows
    <3>2. CASE k \in DOMAIN events
      <4>1. events'[k] = events[k] /\ k \in consumed + 1 .. Len(events) /\ k - 1 <= Len(events)
        BY <1>2, <2>2, <3>1, <3>2 DEF Grows
      <4>2. Drives /\ EndedWithin(runCount, k - 1)
        BY <1>5, <2>1, <2>11, <4>1 DEF DriveFollows
      <4>3. runCount' = runCount /\ Drives'
        BY <2>5, <2>6, <4>2
      <4>4. \A i \in 1 .. k - 1 : events'[i] = events[i]
        BY <1>2, <3>1, <4>1, EndsKept
      <4> QED
        BY <4>2, <4>3, <4>4 DEF EndedWithin
    <3>3. CASE k \notin DOMAIN events
      <4>1. ~Free /\ runCount' = runCount /\ EndedWithin(runCount, k - 1)'
        BY <2>11, <3>1, <3>3, ErrorAfterEnd
      <4> QED
        BY <1>5, <2>1, <2>5, <4>1 DEF LinePlaced
    <3> QED
      BY <3>2, <3>3
  <2>12. DriveFollows'
    <3>1. standing' = "submitting" =>
            /\ ours' = 0 /\ ~ended' /\ outcome' = "None" /\ ~outputFailed' /\ reported' = 0
            /\ Accepted' => /\ answer'[Line].run = runCount' /\ runCount' # 0
                            /\ ~EndedWithin(runCount, consumed)'
      BY <2>1, <2>9 DEF DriveFollows
    <3>2. standing' \in {"driving", "cancelling"} => ours' # 0
      BY <2>1 DEF DriveFollows
    <3>3. ours' # 0 =>
            /\ ours' = runCount'
            /\ ended' <=> EndedWithin(ours, consumed)'
            /\ standing' \notin {"driving", "cancelling"} => ended'
            /\ ended' =>
                 /\ \E i \in 1 .. consumed' : EndsRun(events'[i], ours') /\ outcome' = events'[i].event
                 /\ reported' = 1 \/ (outputFailed' /\ reported' = 0)
            /\ ~ended' => outcome' = "None" /\ reported' = 0
      BY <1>5, <2>1, <2>10 DEF DriveFollows
    <3>4. \A k \in consumed' + 1 .. Len(events') : events'[k].kind = "ControllerError" =>
            Drives' /\ EndedWithin(runCount, k - 1)'
      BY <2>1, <2>11
    <3> QED
      BY <3>1, <3>2, <3>3, <3>4 DEF DriveFollows
  <2> QED
    BY <1>3, <2>8, <2>12 DEF LineInv
<1> QED
  BY <1>4, <1>5

(* The shutdown that it has begun to ask for is sent. *)
LEMMA LineSends ==
  ASSUME ControllerInv, LineInv, ShutdownSent, UNCHANGED lineVars
  PROVE  ControllerStep /\ LineInv'
<1>1. Line = Tui /\ Tui \in Clients /\ Ask("Shutdown") \in Requests /\ Ask("Shutdown").op = "Shutdown"
  BY OneClient, AskedRequests
<1>2. /\ ClientStep /\ UNCHANGED <<events, taskVars, runVars>>
      /\ stage'[Line] = "idle" => answer'[Line].kind # "Accepted"
      /\ NoPromptQueued => NoPromptQueued'
  BY <1>1, CallFacts DEF ShutdownSent, ControllerInv, CallInv
<1>3. stage[Line] = "checked" /\ ControllerStep
  BY <1>1, <1>2 DEF ShutdownSent, SendShutdown, ControllerStep
<1>4. LineTypeOK'
  BY <1>3, LineSame
<1>5. /\ UNCHANGED <<standing, consumed, ours, ended, outcome, outputFailed, reported, rest>>
      /\ UNCHANGED <<events, pc, runCount>>
  BY <1>2 DEF lineVars, drive, taskVars, runVars
<1>6. ~Accepted /\ ~Accepted'
  BY <1>2, <1>3 DEF Accepted
<1>7. LinePlaced'
  BY <1>2, <1>3, <1>5, <1>6 DEF LineInv, LinePlaced, AtWork, Drives, Free
<1>8. DriveFollows'
  BY <1>5, <1>6 DEF LineInv, DriveFollows, AtWork, Drives, EndedWithin
<1> QED
  BY <1>3, <1>4, <1>7, <1>8 DEF LineInv

(* The loop and its commands: no run is driven, and the last is over.      *)
Between == {"prompt", "command", "calling", "leaving"}

LEMMA LineBetween ==
  ASSUME ControllerInv, LineInv, ControllerStep, standing \in Between, standing' \in Between,
         UNCHANGED <<single, consumed, drive, events, taskVars, runVars>>,
         typed' \in {"none"} \cup Commands, rest' \in Seq(CommandRequests),
         standing' = "calling" => rest' # <<>>,
         standing' # "calling" => stage'[Line] = "idle",
         NoPromptQueued'
  PROVE  LineInv'
<1>1. /\ AtWork /\ AtWork' /\ ~Drives /\ ~Drives' /\ standing' # "submitting" /\ standing # "submitting"
      /\ standing' \notin {"driving", "cancelling"} /\ standing \notin {"driving", "cancelling"}
  BY DEF Between, AtWork, Drives
<1>2. UNCHANGED <<pc, runCount, ours, ended, outcome, outputFailed, reported, interrupted>>
  BY DEF taskVars, runVars, drive
<1>3. LinePlaced'
  BY <1>1, <1>2 DEF LineInv, LinePlaced, Free
<1>4. DriveFollows'
  BY <1>1, <1>2 DEF LineInv, DriveFollows, EndedWithin
<1>5. rest' \in Seq(Operations)
  <2>1. CommandRequests \subseteq Operations
    BY DEF CommandRequests, Operations
  <2> QED
    BY <2>1
<1>6. LineTypeOK'
  BY <1>2, <1>5 DEF LineInv, LineTypeOK, Between
<1> QED
  BY <1>3, <1>4, <1>6 DEF LineInv

LEMMA LoopLine ==
  ASSUME ControllerInv, LineInv,
         \/ \E c \in Commands : TypeCommand(c)
         \/ EndOfInput \/ LineCommandCalls \/ LineCommandAnswered \/ LineCommandEnds
  PROVE  ControllerStep /\ LineInv'
<1>1. /\ Line = Tui /\ Line \in Clients /\ TypeOK
      /\ rest \in Seq(CommandRequests) /\ typed \in {"none"} \cup Commands
      /\ standing \in Between => NoPromptQueued
      /\ standing \in {"prompt", "command"} => stage[Line] = "idle"
      /\ standing = "calling" => rest # <<>>
  BY OneClient DEF ControllerInv, CallInv, LineInv, LinePlaced, LineTypeOK, Between, AtWork
<1>2. ASSUME UNCHANGED vars
      PROVE  ControllerStep /\ UNCHANGED <<events, taskVars, runVars, stage>> /\ (NoPromptQueued => NoPromptQueued')
  BY <1>2 DEF ControllerStep, vars, taskVars, runVars, NoPromptQueued
<1>3. ASSUME NEW c \in Commands, TypeCommand(c) PROVE ControllerStep /\ LineInv'
  <2>1. /\ standing = "prompt" /\ standing' = "command" /\ typed' = c /\ rest' \in Begun(c)
        /\ UNCHANGED <<vars, single, consumed, drive>>
    BY <1>3 DEF TypeCommand
  <2>2. standing \in Between /\ standing' \in Between /\ standing' # "calling"
    BY <2>1 DEF Between
  <2>3. rest' \in Seq(CommandRequests)
    BY <2>1, Scripts
  <2> QED
    BY <1>1, <1>2, <2>1, <2>2, <2>3, LineBetween
<1>4. CASE EndOfInput
  <2>1. /\ standing = "prompt" /\ standing' = "leaving"
        /\ UNCHANGED <<vars, single, consumed, drive, typed, rest>>
    BY <1>4 DEF EndOfInput
  <2>2. standing \in Between /\ standing' \in Between /\ standing' # "calling"
    BY <2>1 DEF Between
  <2> QED
    BY <1>1, <1>2, <2>1, <2>2, LineBetween
<1>5. CASE LineCommandCalls
  <2>1. /\ standing = "command" /\ standing' = "calling" /\ rest # <<>> /\ Call(Line, Ask(Head(rest)))
        /\ UNCHANGED <<single, consumed, drive, typed, rest>>
    BY <1>5 DEF LineCommandCalls
  <2>2. standing \in Between /\ standing' \in Between
    BY <2>1 DEF Between
  <2>3. Head(rest) \in CommandRequests
    BY <1>1, <2>1, HeadAsked
  <2>4. Ask(Head(rest)) \in Requests /\ Ask(Head(rest)).op # "SubmitPrompt"
    BY <2>3, AskedRequests DEF CommandRequests
  <2>5. /\ ClientStep /\ UNCHANGED <<events, taskVars, runVars>> /\ NoPromptQueued'
    BY <1>1, <2>1, <2>2, <2>4, CallFacts
  <2>6. ControllerStep
    BY <2>5 DEF ControllerStep
  <2> QED
    BY <1>1, <2>1, <2>2, <2>5, <2>6, LineBetween
<1>6. CASE LineCommandAnswered
  <2>1. /\ standing = "calling" /\ standing' = "command" /\ stage[Line] = "idle"
        /\ rest' \in Remaining(typed, rest, answer[Line])
        /\ UNCHANGED <<vars, single, consumed, drive, typed>>
    BY <1>6 DEF LineCommandAnswered
  <2>2. standing \in Between /\ standing' \in Between /\ standing' # "calling"
    BY <2>1 DEF Between
  <2>3. rest' \in Seq(CommandRequests)
    BY <1>1, <2>1, Remains
  <2> QED
    BY <1>1, <1>2, <2>1, <2>2, <2>3, LineBetween
<1>7. CASE LineCommandEnds
  <2>1. /\ standing = "command" /\ standing' \in {"prompt", "leaving"} /\ typed' = "none"
        /\ UNCHANGED <<vars, single, consumed, drive, rest>>
    BY <1>7 DEF LineCommandEnds
  <2>2. standing \in Between /\ standing' \in Between /\ standing' # "calling"
    BY <2>1 DEF Between
  <2> QED
    BY <1>1, <1>2, <2>1, <2>2, LineBetween
<1> QED
  BY <1>3, <1>4, <1>5, <1>6, <1>7

(* A prompt is submitted: there is no run, and no error is left to read.   *)
LEMMA SubmitLineKeeps ==
  ASSUME ControllerInv, LineInv, NEW p \in Prompts, SubmitLine(p)
  PROVE  ControllerStep /\ LineInv'
<1>1. /\ standing = "prompt" /\ standing' = "submitting" /\ Call(Line, Submission(p))
      /\ ours' = 0 /\ ended' = FALSE /\ outcome' = "None" /\ interrupted' = FALSE
      /\ outputFailed' = FALSE /\ reported' = 0
      /\ UNCHANGED <<single, consumed, typed, rest>>
  BY DEF SubmitLine
<1>2. /\ ClientStep /\ UNCHANGED <<events, taskVars, runVars>>
      /\ stage'[Line] = "idle" => answer'[Line].kind # "Accepted"
  <2>1. Line \in Clients /\ TypeOK /\ Submission(p) \in Requests
    BY OneClient, AskedRequests DEF ControllerInv, CallInv
  <2> QED
    BY <1>1, <2>1, CallFacts
<1>3. AtWork /\ ~Drives /\ ~Drives' /\ ~Accepted' /\ Free /\ Free'
  <2>1. AtWork /\ ~Drives
    BY <1>1 DEF AtWork, Drives
  <2>2. ~Accepted' /\ ~Drives'
    BY <1>1, <1>2 DEF Accepted, Drives
  <2> QED
    BY <1>2, <2>1, <2>2 DEF LineInv, LinePlaced, Free, taskVars
<1>4. LinePlaced'
  BY <1>1, <1>3 DEF LineInv, LinePlaced
<1>5. DriveFollows'
  BY <1>1, <1>2, <1>3 DEF LineInv, DriveFollows
<1>6. LineTypeOK'
  <2>1. runCount \in Nat /\ UNCHANGED <<events, runCount>>
    BY <1>2 DEF ControllerInv, CallInv, TypeOK, runVars
  <2>2. ours' \in 0 .. runCount' /\ consumed' \in 0 .. Len(events') /\ reported' \in Nat
    BY <1>1, <2>1 DEF LineInv, LineTypeOK
  <2>3. ended' \in BOOLEAN /\ interrupted' \in BOOLEAN /\ outputFailed' \in BOOLEAN
    BY <1>1
  <2> QED
    BY <1>1, <2>1, <2>2, <2>3 DEF LineInv, LineTypeOK
<1> QED
  BY <1>2, <1>4, <1>5, <1>6 DEF LineInv, ControllerStep

(* The answer: the run is driven from here on, or there is none. *)
LEMMA SubmittedKeeps ==
  ASSUME ControllerInv, LineInv, Submitted
  PROVE  ControllerStep /\ LineInv'
<1> PICK a : a = answer[Line]
  OBVIOUS
<1>1. /\ standing = "submitting" /\ stage[Line] = "idle"
      /\ ours' = IF a.kind = "Accepted" THEN a.run ELSE 0
      /\ outcome' = IF a.kind = "Rejected" THEN "Rejected" ELSE outcome
      /\ a.kind = "Accepted" => standing' = "driving"
      /\ a.kind # "Accepted" => standing' \in {"prompt", "leaving"}
      /\ UNCHANGED <<vars, single, consumed, ended, interrupted, outputFailed, reported, typed, rest>>
  BY DEF Submitted, AfterDrive
<1>2. UNCHANGED <<events, stage, answer, requests, pc, runCount>>
  BY <1>1 DEF vars
<1>3. NoPromptQueued /\ NoPromptQueued'
  <2>1. NoPromptQueued
    BY <1>1, OneClient, IdleQueue DEF ControllerInv
  <2> QED
    BY <1>2, <2>1 DEF NoPromptQueued
<1>4. /\ ours = 0 /\ ~ended /\ outcome = "None" /\ ~outputFailed /\ reported = 0
      /\ Accepted <=> a.kind = "Accepted"
      /\ Accepted => a.run = runCount /\ runCount # 0 /\ ~EndedWithin(runCount, consumed)
  BY <1>1 DEF LineInv, DriveFollows, Accepted
<1>5. AtWork /\ AtWork' /\ (Drives <=> Accepted) /\ (Drives' <=> Accepted)
  BY <1>1, <1>4 DEF AtWork, Drives
<1>6. LinePlaced'
  BY <1>1, <1>2, <1>3, <1>5 DEF LineInv, LinePlaced, Free
<1>7. DriveFollows'
  <2>1. standing' # "submitting"
    BY <1>1
  <2>2. standing' \in {"driving", "cancelling"} => ours' # 0
    BY <1>1, <1>4
  <2>3. ours' # 0 => /\ Accepted /\ ours' = runCount' /\ ~ended'
                    /\ standing' \in {"driving", "cancelling"}
                    /\ outcome' = "None" /\ reported' = 0
                    /\ ~EndedWithin(ours, consumed)'
    BY <1>1, <1>2, <1>4 DEF EndedWithin
  <2>4. \A k \in consumed' + 1 .. Len(events') : events'[k].kind = "ControllerError" =>
          Drives' /\ EndedWithin(runCount, k - 1)'
    BY <1>1, <1>2, <1>5 DEF LineInv, DriveFollows, EndedWithin
  <2> QED
    BY <2>1, <2>2, <2>3, <2>4 DEF DriveFollows
<1>8. LineTypeOK'
  <2>1. runCount \in Nat
    BY DEF ControllerInv, CallInv, TypeOK
  <2> QED
    BY <1>1, <1>2, <1>4, <2>1 DEF LineInv, LineTypeOK
<1> QED
  BY <1>1, <1>6, <1>7, <1>8 DEF LineInv, ControllerStep

(* The run is cancelled, and the answer awaited. *)
LEMMA CancelKeeps ==
  ASSUME ControllerInv, LineInv, Interrupt \/ CancelAnswered
  PROVE  ControllerStep /\ LineInv'
<1>1. /\ standing \in {"driving", "cancelling"} /\ standing' \in {"driving", "cancelling"}
      /\ UNCHANGED <<single, consumed, ours, ended, outcome, reported, typed, rest>>
      /\ interrupted' \in BOOLEAN /\ outputFailed' \in {outputFailed, TRUE}
  BY DEF Interrupt, CancelAnswered, LineInv, LineTypeOK, drive
<1>2. AtWork /\ AtWork' /\ Drives /\ Drives' /\ standing # "submitting" /\ standing' # "submitting"
  BY <1>1 DEF AtWork, Drives
<1>3. NoPromptQueued
  BY <1>2 DEF LineInv, LinePlaced
<1>4. /\ ControllerStep /\ UNCHANGED <<events, taskVars, runVars>> /\ NoPromptQueued'
      /\ standing' = "driving" => stage'[Line] = "idle"
  <2>1. CASE Interrupt
    <3>1. Call(Line, Ask("CancelCurrent")) /\ standing' = "cancelling"
      BY <2>1 DEF Interrupt
    <3>2. Line \in Clients /\ TypeOK /\ Ask("CancelCurrent") \in Requests
          /\ Ask("CancelCurrent").op # "SubmitPrompt"
      BY OneClient, AskedRequests DEF ControllerInv, CallInv
    <3> QED
      BY <1>3, <3>1, <3>2, CallFacts DEF ControllerStep
  <2>2. CASE CancelAnswered
    BY <1>3, <2>2 DEF CancelAnswered, ControllerStep, vars, taskVars, runVars, NoPromptQueued
  <2> QED
    BY <2>1, <2>2
<1>5. UNCHANGED <<pc, runCount>>
  BY <1>4 DEF taskVars, runVars
<1>6. LinePlaced'
  BY <1>1, <1>2, <1>4 DEF LineInv, LinePlaced
<1>7. DriveFollows'
  <2>1. DriveFollows /\ UNCHANGED events
    BY <1>4 DEF LineInv
  <2>2. ours' # 0 /\ ours' = runCount' /\ (ended' <=> EndedWithin(ours, consumed)')
    BY <1>1, <1>2, <1>5, <2>1 DEF DriveFollows, EndedWithin
  <2>3. /\ ended' =>
             /\ \E i \in 1 .. consumed' : EndsRun(events'[i], ours') /\ outcome' = events'[i].event
             /\ reported' = 1 \/ (outputFailed' /\ reported' = 0)
        /\ ~ended' => outcome' = "None" /\ reported' = 0
    BY <1>1, <1>2, <1>5, <2>1 DEF DriveFollows
  <2>4. \A k \in consumed' + 1 .. Len(events') : events'[k].kind = "ControllerError" =>
          Drives' /\ EndedWithin(runCount, k - 1)'
    BY <1>1, <1>2, <1>5, <2>1 DEF DriveFollows, EndedWithin
  <2> QED
    BY <1>1, <1>2, <2>2, <2>3, <2>4 DEF DriveFollows
<1>8. LineTypeOK'
  BY <1>1, <1>4, <1>5 DEF LineInv, LineTypeOK
<1> QED
  BY <1>4, <1>6, <1>7, <1>8 DEF LineInv

(* The driver takes the next event. *)
LEMMA Received ==
  ASSUME ControllerInv, LineInv, NEW e, Receive(e), NEW q, q = consumed + 1
  PROVE  /\ q \in DOMAIN events /\ q \in Nat /\ consumed = q - 1 /\ consumed' = q /\ consumed \in Nat
         /\ e = events[q] /\ e \in ControllerEvent /\ AgentAt(q) /\ OrderAt(q)
         /\ DOMAIN events = 1 .. Len(events) /\ Len(events) \in Nat
         /\ standing = "driving" /\ AtWork /\ Drives /\ NoPromptQueued /\ stage[Line] = "idle"
         /\ ours # 0 /\ ours = runCount /\ (ended <=> EndedWithin(ours, consumed))
<1>1. /\ standing = "driving" /\ consumed < Len(events) /\ e = events[q] /\ consumed' = q
      /\ consumed \in Nat
  BY DEF Receive, LineInv, LineTypeOK
<1>2. /\ Len(events) \in Nat /\ DOMAIN events = 1 .. Len(events) /\ events \in Seq(ControllerEvent)
  BY DEF ControllerInv, StreamInv, StreamTyped
<1>3. q \in DOMAIN events /\ q \in Nat /\ consumed = q - 1
  BY <1>1, <1>2
<1>4. AgentAt(q) /\ OrderAt(q) /\ e \in ControllerEvent
  BY <1>1, <1>2, <1>3 DEF ControllerInv, StreamInv, StreamOrder
<1>5. AtWork /\ Drives /\ standing # "submitting"
  BY <1>1 DEF AtWork, Drives
<1> QED
  BY <1>1, <1>2, <1>3, <1>4, <1>5 DEF LineInv, LinePlaced, DriveFollows

(* An event of the run: it has not ended before it, and ends with it if it *)
(* is an end.                                                              *)
LEMMA PrintKeeps ==
  ASSUME ControllerInv, LineInv, PrintEvent \/ PrintFails
  PROVE  ControllerStep /\ LineInv'
<1>0. /\ Line \in Clients /\ TypeOK /\ Ask("CancelCurrent") \in Requests
      /\ Ask("CancelCurrent").op # "SubmitPrompt"
  BY OneClient, AskedRequests DEF ControllerInv, CallInv
<1>1. PICK e : /\ Receive(e) /\ IsOurs(e) /\ Notes(e)
               /\ UNCHANGED <<single, ours, interrupted, typed, rest>>
               /\ \/ UNCHANGED <<vars, standing, outputFailed>>
                  \/ /\ Call(Line, Ask("CancelCurrent")) /\ standing' = "cancelling"
                     /\ outputFailed' = TRUE
  BY DEF PrintEvent, PrintFails
<1> PICK q : q = consumed + 1
  OBVIOUS
<1>2. /\ q \in DOMAIN events /\ q \in Nat /\ consumed = q - 1 /\ consumed' = q /\ consumed \in Nat
      /\ e = events[q] /\ e \in ControllerEvent /\ AgentAt(q) /\ OrderAt(q)
      /\ DOMAIN events = 1 .. Len(events) /\ Len(events) \in Nat
      /\ standing = "driving" /\ AtWork /\ Drives /\ NoPromptQueued /\ stage[Line] = "idle"
      /\ ours # 0 /\ ours = runCount /\ (ended <=> EndedWithin(ours, consumed))
  BY <1>1, Received
<1>3. /\ ControllerStep /\ UNCHANGED <<events, taskVars, runVars>> /\ NoPromptQueued'
      /\ standing' \in {"driving", "cancelling"}
      /\ standing' = "driving" => stage'[Line] = "idle"
      /\ outputFailed' \in {outputFailed, TRUE}
  <2>1. CASE UNCHANGED <<vars, standing, outputFailed>>
    BY <1>2, <2>1 DEF ControllerStep, vars, taskVars, runVars, NoPromptQueued
  <2>2. CASE Call(Line, Ask("CancelCurrent")) /\ standing' = "cancelling" /\ outputFailed' = TRUE
    BY <1>0, <1>2, <2>2, CallFacts DEF ControllerStep
  <2> QED
    BY <1>1, <2>1, <2>2
<1>4. UNCHANGED <<events, pc, runCount>>
  BY <1>3 DEF taskVars, runVars
<1>5. IsAgent(e) /\ e.kind = "Agent" /\ e.run = ours
  <2>1. IsAgent(e) /\ e.kind = "Agent" /\ e.request = ours
    BY <1>1 DEF IsOurs, IsAgent
  <2> QED
    BY <1>2, <2>1 DEF AgentAt
<1>6. ~ended /\ ~EndedWithin(ours, consumed)
  <2>1. \A i \in 1 .. q - 1 : ~EndsRun(events[i], ours)
    BY <1>2, <1>5 DEF OrderAt
  <2> QED
    BY <1>2, <2>1 DEF EndedWithin
<1>7. outcome = "None" /\ reported = 0
  BY <1>2, <1>6 DEF LineInv, DriveFollows
<1>8. EndsRun(events[q], ours) <=> e.event \in Run!TerminalKinds
  BY <1>2, <1>5 DEF EndsRun
<1>9. /\ ended' <=> e.event \in Run!TerminalKinds
      /\ outcome' = IF e.event \in Run!TerminalKinds THEN e.event ELSE "None"
      /\ reported' = IF e.event \in Run!TerminalKinds /\ ~outputFailed' THEN 1 ELSE 0
  <2>1. ended' = (e.event \in Run!TerminalKinds)
    BY <1>1, <1>6 DEF Notes, LineInv, LineTypeOK
  <2>2. outcome' = IF e.event \in Run!TerminalKinds THEN e.event ELSE "None"
    BY <1>1, <1>7 DEF Notes
  <2>3. reported' = IF e.event \in Run!TerminalKinds /\ ~outputFailed' THEN 1 ELSE 0
    <3>1. reported' = IF e.event \in Run!TerminalKinds /\ ~outputFailed' THEN reported + 1 ELSE reported
      BY <1>1 DEF Notes
    <3> QED
      BY <1>7, <3>1
  <2> QED
    BY Zenon, <2>1, <2>2, <2>3
<1>10. EndedWithin(ours, consumed)' <=> ended'
  <2>1. \A i \in 1 .. q : i = q \/ i \in 1 .. consumed
    BY <1>2
  <2>2. q \in 1 .. q
    BY <1>2
  <2>3. (\E i \in 1 .. q : EndsRun(events[i], ours)) <=> EndsRun(events[q], ours)
    BY <1>6, <2>1, <2>2 DEF EndedWithin
  <2> QED
    BY <1>1, <1>2, <1>4, <1>8, <1>9, <2>3 DEF EndedWithin
<1>11. AtWork' /\ Drives' /\ standing' # "submitting"
  BY <1>3 DEF AtWork, Drives
<1>12. LinePlaced'
  BY <1>1, <1>3, <1>11 DEF LineInv, LinePlaced
<1>13. DriveFollows'
  <2>1. ours' # 0 /\ ours' = runCount'
    BY <1>1, <1>2, <1>4
  <2>2. ASSUME ended'
        PROVE  /\ \E i \in 1 .. consumed' : EndsRun(events'[i], ours') /\ outcome' = events'[i].event
               /\ reported' = 1 \/ (outputFailed' /\ reported' = 0)
    <3>1. q \in 1 .. consumed' /\ EndsRun(events'[q], ours') /\ outcome' = events'[q].event
      <4>1. e.event \in Run!TerminalKinds /\ outcome' = e.event /\ EndsRun(events[q], ours)
        BY <1>8, <1>9, <2>2
      <4>2. ours' = ours /\ events' = events /\ consumed' = q
        BY <1>1, <1>2, <1>4
      <4>3. q \in 1 .. q
        BY <1>2
      <4> QED
        BY <1>2, <4>1, <4>2, <4>3
    <3> QED
      BY <1>9, <2>2, <3>1
  <2>3. ~ended' => outcome' = "None" /\ reported' = 0
    BY <1>9
  <2>4. \A k \in consumed' + 1 .. Len(events') : events'[k].kind = "ControllerError" =>
          Drives' /\ EndedWithin(runCount, k - 1)'
    <3>1. \A k \in q + 1 .. Len(events) : k \in consumed + 1 .. Len(events)
      BY <1>2
    <3> QED
      BY <1>2, <1>4, <1>11, <3>1 DEF LineInv, DriveFollows, EndedWithin
  <2> QED
    BY <1>3, <1>10, <1>11, <2>1, <2>2, <2>3, <2>4 DEF DriveFollows
<1>14. LineTypeOK'
  <2>1. consumed' \in 0 .. Len(events') /\ ours' \in 0 .. runCount' /\ reported' \in Nat
    BY <1>1, <1>2, <1>4, <1>9 DEF LineInv, LineTypeOK
  <2>2. ended' \in BOOLEAN /\ outputFailed' \in BOOLEAN
    BY <1>1, <1>3 DEF Notes, LineInv, LineTypeOK
  <2>3. outcome' \in {"None", "Rejected", "ControllerError"} \cup Run!TerminalKinds
    BY <1>9
  <2> QED
    BY <1>1, <1>3, <2>1, <2>2, <2>3 DEF LineInv, LineTypeOK
<1> QED
  BY <1>3, <1>12, <1>13, <1>14 DEF LineInv

(* Idle after the end of the run: it has settled, and no other has begun.  *)
LEMMA DriveEndsKeeps ==
  ASSUME ControllerInv, LineInv, DriveEnds
  PROVE  ControllerStep /\ LineInv'
<1>1. PICK e : /\ Receive(e) /\ Settles(e)
               /\ standing' \in {"prompt", "leaving"}
               /\ UNCHANGED <<vars, single, drive, typed, rest>>
  BY DEF DriveEnds, AfterDrive
<1> PICK q : q = consumed + 1
  OBVIOUS
<1>2. /\ q \in DOMAIN events /\ q \in Nat /\ consumed = q - 1 /\ consumed' = q /\ consumed \in Nat
      /\ e = events[q] /\ e \in ControllerEvent
      /\ DOMAIN events = 1 .. Len(events) /\ Len(events) \in Nat
      /\ standing = "driving" /\ AtWork /\ NoPromptQueued /\ stage[Line] = "idle"
      /\ ours # 0 /\ ours = runCount /\ (ended <=> EndedWithin(ours, consumed))
  BY <1>1, Received
<1>3. ended /\ Separates(e) /\ e.kind = "StateChanged" /\ ~IsAccepted(e)
  BY <1>1 DEF Settles, State, Activity, Separates, IsQuiet, IsAccepted
<1>4. PICK i \in 1 .. q - 1 : EndsRun(events[i], runCount)
  BY <1>2, <1>3 DEF EndedWithin
<1>5. /\ i \in DOMAIN events /\ i \in Nat /\ i < q /\ StreamInv /\ StreamOrder
      /\ events[i].kind = "Agent" /\ events[i].run = runCount /\ IsAgent(events[i])
      /\ AgentAt(i)
  BY <1>2, <1>4 DEF EndsRun, IsAgent, ControllerInv, StreamInv
<1>6. Free
  <2>1. pc # "announce"
    <3>1. OfRun(events[i])
      BY <1>5 DEF OfRun
    <3> QED
      BY <1>5, <3>1 DEF StreamInv, Numbered
  <2>2. ~Live
    <3> SUFFICES ASSUME Live PROVE FALSE
      OBVIOUS
    <3>1. PICK j \in DOMAIN events :
            /\ events[j] = PromptAccepted(runCount)
            /\ \A k \in DOMAIN events : k > j => ~Separates(events[k])
      BY <1>5 DEF StreamInv, PromptStands
    <3>2. IsAccepted(events[j]) /\ events[j].run = runCount
      BY <3>1 DEF IsAccepted, PromptAccepted
    <3>3. j <= i
      BY <1>4, <1>5, <3>2, EndAfterPrompt
    <3>4. q > j
      BY <1>2, <1>5, <3>3
    <3> QED
      BY <1>2, <1>3, <3>1, <3>4
  <2> QED
    BY <2>1, <2>2 DEF Free, Live
<1>7. ASSUME NEW k \in q + 1 .. Len(events), events[k].kind = "ControllerError" PROVE FALSE
  <2>1. OrderAt(k) /\ k \in Nat /\ k > q /\ k \in DOMAIN events
    BY <1>2, <1>5, <1>7 DEF StreamOrder
  <2>2. PICK j \in 1 .. k - 1 :
          IsAccepted(events[j]) /\ \A m \in j + 1 .. k - 1 : ~Separates(events[m])
    BY <1>7, <2>1 DEF OrderAt
  <2>3. j > q
    <3>1. j # q
      BY <1>2, <1>3, <2>2
    <3>2. ~(q \in j + 1 .. k - 1)
      BY <1>2, <1>3, <2>2
    <3> QED
      BY <1>2, <2>1, <3>1, <3>2
  <2>4. PICK m \in 1 .. i - 1 : events[m] = PromptAccepted(runCount)
    BY <1>5 DEF AgentAt
  <2>5. IsAccepted(events[m]) /\ events[m].run = runCount
    BY <2>4 DEF IsAccepted, PromptAccepted
  <2>6. j \in DOMAIN events /\ m \in 1 .. j - 1 /\ OrderAt(j)
    BY <1>2, <1>5, <2>1, <2>3 DEF StreamOrder
  <2>7. runCount < events[j].run
    BY <2>2, <2>5, <2>6 DEF OrderAt
  <2>8. events[j].run \in 1 .. runCount
    BY <1>5, <2>2, <2>6 DEF StreamInv, Numbered, OfRun, IsAccepted
  <2>9. runCount \in Nat
    BY DEF ControllerInv, CallInv, TypeOK
  <2> QED
    BY <2>7, <2>8, <2>9
<1>8. /\ UNCHANGED <<events, pc, runCount, requests, stage, ours, ended, outcome, outputFailed, reported,
                     interrupted>>
  BY <1>1 DEF vars, drive
<1>9. AtWork' /\ ~Drives' /\ standing' # "submitting" /\ standing' \notin {"driving", "cancelling"}
  BY <1>1 DEF AtWork, Drives
<1>10. LinePlaced'
  BY <1>1, <1>2, <1>6, <1>8, <1>9 DEF LineInv, LinePlaced, NoPromptQueued, Free
<1>11. EndedWithin(ours, consumed)'
  <2>1. i \in 1 .. q
    BY <1>2
  <2> QED
    BY <1>2, <1>4, <1>8, <2>1 DEF EndedWithin
<1>12. DriveFollows'
  <2>1. ended' /\ ours' = runCount'
    BY <1>2, <1>3, <1>8
  <2>2. /\ \E m \in 1 .. consumed' : EndsRun(events'[m], ours') /\ outcome' = events'[m].event
        /\ reported' = 1 \/ (outputFailed' /\ reported' = 0)
    <3>1. /\ \E m \in 1 .. q - 1 : EndsRun(events[m], ours) /\ outcome = events[m].event
          /\ reported = 1 \/ (outputFailed /\ reported = 0)
      BY <1>2, <1>3 DEF LineInv, DriveFollows
    <3>2. \A m \in 1 .. q - 1 : m \in 1 .. q
      BY <1>2
    <3> QED
      BY <1>2, <1>8, <3>1, <3>2
  <2>3. \A k \in consumed' + 1 .. Len(events') : events'[k].kind # "ControllerError"
    BY <1>2, <1>7, <1>8
  <2> QED
    BY <1>9, <1>11, <2>1, <2>2, <2>3 DEF DriveFollows
<1>13. LineTypeOK'
  BY <1>1, <1>2, <1>8 DEF LineInv, LineTypeOK
<1> QED
  BY <1>1, <1>10, <1>12, <1>13 DEF LineInv, ControllerStep

(* Whatever else comes is not of the run, and no error is news.            *)
LEMMA IgnoreKeeps ==
  ASSUME ControllerInv, LineInv, IgnoreOrReport
  PROVE  ControllerStep /\ LineInv'
<1>1. PICK e : /\ Receive(e) /\ ~IsOurs(e)
               /\ outcome' = IF Reports(e) THEN "ControllerError" ELSE outcome
               /\ outputFailed' \in {outputFailed, outputFailed \/ Reports(e)}
               /\ reported' = IF Reports(e) /\ ~outputFailed' THEN reported + 1 ELSE reported
               /\ UNCHANGED <<vars, standing, single, ours, ended, interrupted, typed, rest>>
  BY DEF IgnoreOrReport
<1> PICK q : q = consumed + 1
  OBVIOUS
<1>2. /\ q \in DOMAIN events /\ q \in Nat /\ consumed = q - 1 /\ consumed' = q /\ consumed \in Nat
      /\ e = events[q] /\ e \in ControllerEvent /\ AgentAt(q)
      /\ DOMAIN events = 1 .. Len(events) /\ Len(events) \in Nat
      /\ standing = "driving" /\ AtWork /\ Drives /\ NoPromptQueued /\ stage[Line] = "idle"
      /\ ours # 0 /\ ours = runCount /\ (ended <=> EndedWithin(ours, consumed))
  BY <1>1, Received
<1>3. ~Reports(e)
  <2>1. ASSUME e.kind = "ControllerError" PROVE ended
    <3>1. q \in consumed + 1 .. Len(events)
      BY <1>2
    <3> QED
      BY <1>2, <2>1, <3>1 DEF LineInv, DriveFollows
  <2> QED
    BY <2>1 DEF Reports
<1>4. outputFailed \in BOOLEAN /\ outcome' = outcome /\ outputFailed' = outputFailed /\ reported' = reported
  BY <1>1, <1>3 DEF LineInv, LineTypeOK
<1>5. ~EndsRun(e, ours)
  <2> SUFFICES ASSUME EndsRun(e, ours) PROVE FALSE
    OBVIOUS
  <2>1. IsAgent(e) /\ e.kind = "Agent" /\ e.run = ours
    BY DEF EndsRun, IsAgent
  <2>2. e.request = ours
    BY <1>2, <2>1 DEF AgentAt
  <2> QED
    BY <1>1, <2>1, <2>2 DEF IsOurs
<1>6. UNCHANGED <<events, pc, runCount, requests, stage>> /\ AtWork' /\ Drives'
  BY <1>1, <1>2 DEF vars, AtWork, Drives
<1>7. EndedWithin(ours, consumed)' <=> EndedWithin(ours, consumed)
  <2>1. \A i \in 1 .. q : i = q \/ i \in 1 .. consumed
    BY <1>2
  <2>2. \A i \in 1 .. consumed : i \in 1 .. q
    BY <1>2
  <2>3. (\E i \in 1 .. q : EndsRun(events[i], ours)) <=> \E i \in 1 .. consumed : EndsRun(events[i], ours)
    BY <1>2, <1>5, <2>1, <2>2
  <2> QED
    BY <1>1, <1>2, <1>6, <2>3 DEF EndedWithin
<1>8. LinePlaced'
  BY <1>1, <1>2, <1>6 DEF LineInv, LinePlaced, NoPromptQueued
<1>9. DriveFollows'
  <2>1. standing' = "driving" /\ ours' # 0 /\ ours' = runCount' /\ (ended' <=> EndedWithin(ours, consumed)')
    BY <1>1, <1>2, <1>6, <1>7
  <2>2. ended' => /\ \E m \in 1 .. consumed' : EndsRun(events'[m], ours') /\ outcome' = events'[m].event
                  /\ reported' = 1 \/ (outputFailed' /\ reported' = 0)
    <3> SUFFICES ASSUME ended'
                 PROVE  /\ \E m \in 1 .. q : EndsRun(events[m], ours) /\ outcome = events[m].event
                        /\ reported = 1 \/ (outputFailed /\ reported = 0)
      BY <1>1, <1>2, <1>4, <1>6
    <3>1. /\ \E m \in 1 .. consumed : EndsRun(events[m], ours) /\ outcome = events[m].event
          /\ reported = 1 \/ (outputFailed /\ reported = 0)
      BY <1>1, <1>2 DEF LineInv, DriveFollows
    <3>2. \A m \in 1 .. consumed : m \in 1 .. q
      BY <1>2
    <3> QED
      BY <3>1, <3>2
  <2>3. ~ended' => outcome' = "None" /\ reported' = 0
    BY <1>1, <1>2, <1>4 DEF LineInv, DriveFollows
  <2>4. \A k \in consumed' + 1 .. Len(events') : events'[k].kind = "ControllerError" =>
          Drives' /\ EndedWithin(runCount, k - 1)'
    <3>1. \A k \in q + 1 .. Len(events) : k \in consumed + 1 .. Len(events)
      BY <1>2
    <3> QED
      BY <1>2, <1>6, <3>1 DEF LineInv, DriveFollows, EndedWithin
  <2> QED
    BY <2>1, <2>2, <2>3, <2>4 DEF DriveFollows
<1>10. LineTypeOK'
  BY <1>1, <1>2, <1>4, <1>6 DEF LineInv, LineTypeOK
<1> QED
  BY <1>1, <1>8, <1>9, <1>10 DEF LineInv, ControllerStep

(* The end of run. *)
LEMMA LineLeaves ==
  ASSUME ControllerInv, LineInv, LineLeave \/ LineJoin
  PROVE  ControllerStep /\ LineInv'
<1>1. /\ standing' \in {"closing", "left"} /\ UNCHANGED <<single, consumed, drive, typed, rest>>
      /\ CallShutdown(Line, Ask("Shutdown")) \/ UNCHANGED vars
  BY DEF LineLeave, LineJoin
<1>2. ControllerStep
  <2>1. Line \in Clients /\ TypeOK /\ Ask("Shutdown") \in Requests
    BY OneClient, AskedRequests DEF ControllerInv, CallInv
  <2> QED
    BY <1>1, <2>1, CallFacts DEF ControllerStep
<1>3. /\ Grows /\ runCount \in Nat /\ runCount' \in {runCount, runCount + 1}
  BY <1>2, StepController
<1>4. consumed' \in 0 .. Len(events') /\ ours' \in 0 .. runCount'
  BY <1>1, <1>3 DEF LineInv, LineTypeOK, Grows, drive
<1>5. LineTypeOK'
  BY <1>1, <1>4 DEF LineInv, LineTypeOK, drive
<1>6. LinePlaced' /\ DriveFollows'
  BY <1>1 DEF LineInv, LinePlaced, DriveFollows, AtWork, drive
<1> QED
  BY <1>2, <1>5, <1>6 DEF LineInv

-----------------------------------------------------------------------------
(***************************************************************************)
(* The program.                                                            *)
(***************************************************************************)

LEMMA TuiActs ==
  ASSUME Key \/ TerminalFails \/ Panics \/ TuiStep
  PROVE  at # "absent" /\ at' # "absent"
  BY DEF Key, Edit, EnterPrompt, EnterCommand, Enter, CtrlCAgent, CtrlCCommand, CtrlCDraft,
         TerminalFails, Panics, ReadsKeys, AfterKey, TuiStep, Start, Unwind, Answered, Drain,
         NothingToDrain, CommandCalls, CommandAnswered, CommandEnds, Settled, Leave, Join

LEMMA LineActs ==
  ASSUME LineTypeOK, User \/ PrintFails \/ LineStep
  PROVE  standing # "absent" /\ standing' # "absent"
  BY DEF LineTypeOK, User, SubmitLine, TypeCommand, EndOfInput, Interrupt, PrintFails, LineStep,
         LineCommandCalls, LineCommandAnswered, LineCommandEnds, Submitted, PrintEvent, DriveEnds,
         IgnoreOrReport, CancelAnswered, LineLeave, LineJoin, Receive, AfterDrive

LEMMA LineKeeps ==
  ASSUME ControllerInv, LineInv, User \/ PrintFails \/ LineStep
  PROVE  ControllerStep /\ LineInv'
  BY LoopLine, SubmitLineKeeps, SubmittedKeeps, CancelKeeps, PrintKeeps, DriveEndsKeeps, IgnoreKeeps,
     LineLeaves DEF User, LineStep

LEMMA InitProgram == ProgramInit => ProgramInv
<1> SUFFICES ASSUME ProgramInit PROVE ProgramInv
  OBVIOUS
<1>1. Init /\ TuiInit /\ LineInit /\ GuardInit /\ OneFrontend
  BY DEF ProgramInit, TuiInit, OneFrontend
<1>2. /\ Tui \in Clients /\ Line = Tui
      /\ events = <<State(Activity("Idle", 0))>> /\ pc = "idle" /\ requests = <<>> /\ runCount = 0
      /\ stage[Tui] = "idle" /\ answer[Tui].kind = "None"
  BY <1>1, OneClient DEF Init, Answer
<1>3. ControllerInv
  <2>1. OwnInv /\ CacheInv
    BY <1>1, InitOwn DEF Init, CacheInv, CacheFresh
  <2> QED
    BY <1>1, <1>2, <2>1, InitStream, InitStreamOrder, InitCalls DEF ControllerInv
<1>4. Len(events) = 1 /\ events[1].kind = "StateChanged"
  BY <1>2 DEF State
<1>5. NoPromptQueued /\ Free
  BY <1>2 DEF NoPromptQueued, Free
<1>6. TuiInv
  <2>1. TypeOK
    BY <1>3 DEF ControllerInv, CallInv
  <2>2. TuiTypeOK
    <3>1. GuardTypeOK
      BY <1>1 DEF GuardInit, GuardTypeOK
    <3>2. shown \in 0 .. runCount /\ drained \in 0 .. Len(events) /\ script \in Seq(Operations)
      BY <1>1, <1>2, <1>4 DEF TuiInit
    <3>3. draft \in BOOLEAN /\ commandCancelled \in BOOLEAN /\ broken \in BOOLEAN
      BY <1>1 DEF TuiInit
    <3> QED
      BY <1>1, <2>1, <3>1, <3>2, <3>3 DEF TuiInit, TuiTypeOK
  <2>3. TuiPlaced
    BY <1>1, <1>2 DEF TuiInit, TuiPlaced, CommandShown
  <2>4. TerminalPlaced
    BY <1>1 DEF TuiInit, GuardInit, TerminalPlaced
  <2>5. ViewFollows
    BY <1>1 DEF TuiInit, ViewFollows, AgentShown
  <2> QED
    BY <2>2, <2>3, <2>4, <2>5 DEF TuiInv
<1>7. LineInv
  <2>1. LineTypeOK
    <3>1. consumed \in 0 .. Len(events) /\ ours \in 0 .. runCount /\ reported \in Nat
          /\ rest \in Seq(Operations)
      BY <1>1, <1>2, <1>4 DEF LineInit
    <3>2. /\ ended \in BOOLEAN /\ interrupted \in BOOLEAN /\ outputFailed \in BOOLEAN
          /\ single \in BOOLEAN
      BY <1>1 DEF LineInit
    <3> QED
      BY <1>1, <3>1, <3>2 DEF LineInit, LineTypeOK
  <2>2. LinePlaced
    BY <1>1, <1>2, <1>5 DEF LineInit, LinePlaced
  <2>3. DriveFollows
    BY <1>1, <1>4 DEF LineInit, DriveFollows
  <2> QED
    BY <2>1, <2>2, <2>3 DEF LineInv
<1> QED
  BY <1>1, <1>3, <1>6, <1>7 DEF ProgramInv

LEMMA StepProgram == ProgramInv /\ [ProgramNext]_allVars => ProgramInv'
<1> SUFFICES ASSUME ProgramInv, [ProgramNext]_allVars PROVE ProgramInv'
  OBVIOUS
<1>1. ControllerInv /\ OneFrontend /\ TuiInv /\ LineInv /\ LineTypeOK
  BY DEF ProgramInv, LineInv
<1>2. CASE (Key \/ TerminalFails \/ Panics \/ TuiStep) /\ UNCHANGED lineVars
  <2>1. ControllerStep /\ TuiInv'
    BY <1>1, <1>2, KeyTui, StepTui
  <2>2. standing = "absent" /\ standing' = "absent" /\ at' # "absent"
    BY <1>1, <1>2, TuiActs DEF OneFrontend, lineVars
  <2>3. LineInv'
    BY <1>1, <1>2, <2>1, <2>2, LineAway
  <2>4. ControllerInv'
    BY <1>1, <2>1, StepController
  <2> QED
    BY <2>1, <2>2, <2>3, <2>4 DEF ProgramInv, OneFrontend
<1>3. CASE (User \/ PrintFails \/ LineStep) /\ UNCHANGED tuiVars
  <2>1. ControllerStep /\ LineInv'
    BY <1>1, <1>3, LineKeeps
  <2>2. at = "absent" /\ at' = "absent" /\ standing' # "absent"
    BY <1>1, <1>3, LineActs DEF OneFrontend, tuiVars, loopVars
  <2>3. TuiInv'
    BY <1>1, <1>3, <2>1, <2>2, TuiIdles
  <2>4. ControllerInv'
    BY <1>1, <2>1, StepController
  <2> QED
    BY <2>1, <2>2, <2>3, <2>4 DEF ProgramInv, OneFrontend
<1>4. ASSUME UNCHANGED <<tuiVars, lineVars>> PROVE OneFrontend'
  BY <1>1, <1>4 DEF OneFrontend, tuiVars, loopVars, lineVars
<1>5. CASE ShutdownSent /\ UNCHANGED <<tuiVars, lineVars>>
  <2>1. ControllerStep /\ LineInv'
    BY <1>1, <1>5, LineSends
  <2>2. stage[Tui] # "idle"
    BY <1>5 DEF ShutdownSent, SendShutdown
  <2>3. TuiInv'
    BY <1>1, <1>5, <2>1, <2>2, TuiIdles
  <2>4. ControllerInv'
    BY <1>1, <2>1, StepController
  <2> QED
    BY <1>4, <1>5, <2>1, <2>3, <2>4 DEF ProgramInv
<1>6. CASE (TaskStep \/ RunStep) /\ UNCHANGED <<tuiVars, lineVars>>
  <2>1. ControllerStep
    BY <1>6 DEF ControllerStep
  <2>2. LineInv'
    BY <1>1, <1>6, LineWaits
  <2>3. TuiInv'
    BY <1>1, <1>6, <2>1, WaitsForNothing, TuiIdles
  <2>4. ControllerInv'
    BY <1>1, <2>1, StepController
  <2> QED
    BY <1>4, <1>6, <2>2, <2>3, <2>4 DEF ProgramInv
<1>7. CASE UNCHANGED allVars
  <2>1. UNCHANGED vars /\ UNCHANGED <<tuiVars, lineVars>>
    BY <1>7 DEF allVars
  <2>2. ControllerStep /\ stage' = stage
    BY <2>1 DEF ControllerStep, vars
  <2>3. TuiInv'
    BY <1>1, <2>1, <2>2, TuiIdles
  <2>4. LineInv'
    <3>1. /\ UNCHANGED <<events, pc, runCount, requests, stage, answer>>
          /\ UNCHANGED <<standing, single, consumed, ours, ended, outcome, interrupted, outputFailed,
                         reported, typed, rest>>
      BY <2>1 DEF vars, lineVars, drive
    <3>2. LineTypeOK'
      BY <1>1, <2>1, <2>2, LineSame
    <3>3. LinePlaced'
      BY <1>1, <3>1 DEF LineInv, LinePlaced, NoPromptQueued, AtWork, Drives, Accepted, Free
    <3>4. DriveFollows'
      BY <1>1, <3>1 DEF LineInv, DriveFollows, AtWork, Drives, Accepted, EndedWithin
    <3> QED
      BY <3>2, <3>3, <3>4 DEF LineInv
  <2>5. ControllerInv'
    BY <1>1, <2>2, StepController
  <2> QED
    BY <1>4, <2>1, <2>3, <2>4, <2>5 DEF ProgramInv
<1> QED
  BY <1>2, <1>3, <1>5, <1>6, <1>7 DEF ProgramNext, FrontendStep, AsTui, AsLine, Meanwhile

LEMMA ProgramHolds == ProgramSpec => []ProgramInv
  BY InitProgram, StepProgram, PTL DEF ProgramSpec

(* The variables of the program keep their types: the terminal's modes,    *)
(* the events drained and consumed, the runs shown and driven.             *)
THEOREM FrontendsTypes == ProgramSpec => []ProgramTypeOK
<1>1. ProgramInv => ProgramTypeOK
  BY DEF ProgramInv, TuiInv, LineInv, ProgramTypeOK
<1> QED
  BY <1>1, ProgramHolds, PTL

(* What a snapshot reports is what the session holds, in the program too.  *)
THEOREM FrontendsCacheFresh == ProgramSpec => []CacheFresh
<1>1. ProgramInv => CacheFresh
  BY DEF ProgramInv, ControllerInv, CacheInv
<1> QED
  BY <1>1, ProgramHolds, PTL

(* What the Ratatui frontend shows agrees with the controller, but for     *)
(* events it has yet to drain: it never hangs in a state in which Enter is *)
(* refused, and shows Idle only when no run is active or the active one    *)
(* has only to return.                                                     *)
THEOREM FrontendsShownTruthfully == ProgramSpec => []ShownTruthfully
<1>1. ProgramInv => ShownTruthfully
  <2> SUFFICES ASSUME ProgramInv PROVE ShownTruthfully
    OBVIOUS
  <2>1. /\ StreamInv /\ StreamOrder /\ OwnInv /\ pc # "aborted" /\ ViewFollows
        /\ drained \in 0 .. Len(events) /\ runCount \in Nat
        /\ DOMAIN events = 1 .. Len(events) /\ Len(events) \in Nat
    BY DEF ProgramInv, ControllerInv, TuiInv, TuiTypeOK, StreamInv, StreamTyped, OwnInv, TypeOK
  <2>2. ASSUME ui \in AgentShown, shown # active
        PROVE  \E i \in drained + 1 .. Len(events) : EndsRun(events[i], shown)
    <3>1. PICK j \in 1 .. drained : events[j] = PromptAccepted(shown)
      BY <2>1, <2>2 DEF ViewFollows
    <3>2. j \in DOMAIN events /\ OfRun(events[j]) /\ events[j].run = shown
      BY <2>1, <3>1 DEF OfRun, PromptAccepted
    <3>3. shown \in 1 .. runCount /\ (pc = "announce" => shown # runCount)
      BY <2>1, <3>2 DEF StreamInv, Numbered
    <3>4. shown # runCount \/ pc \in {"idle", "stopping", "stopped"}
      <4>1. Live => active = runCount
        BY <2>1 DEF Live, OwnInv, PlaceOfRun
      <4>2. pc \in {"idle", "announce", "select", "polling", "stopping", "stopped"}
        BY <2>1 DEF OwnInv, TypeOK
      <4> QED
        BY <2>2, <3>3, <4>1, <4>2 DEF Live
    <3>5. PICK i \in DOMAIN events : EndsRun(events[i], shown)
      BY <2>1, <3>3, <3>4 DEF StreamInv, EndsOnce, EndForwarded
    <3>6. i \notin 1 .. drained
      BY <2>1, <2>2, <3>5 DEF ViewFollows, EndedWithin
    <3>7. i \in drained + 1 .. Len(events)
      BY <2>1, <3>5, <3>6
    <3> QED
      BY <3>5, <3>7
  <2>3. ASSUME ui = "Idle", drained = Len(events), active # 0 PROVE terminalSeen
    <3>1. Live
      BY <2>1, <2>3 DEF Live, OwnInv, TypeOK, PlaceOfRun
    <3>2. PICK j \in DOMAIN events : events[j] = PromptAccepted(runCount)
      BY <2>1, <3>1 DEF StreamInv, PromptStands
    <3>3. IsAccepted(events[j]) /\ events[j].run = runCount /\ j \in 1 .. drained
      BY <2>1, <2>3, <3>2 DEF IsAccepted, PromptAccepted
    <3>4. PICK m \in j .. drained : EndsRun(events[m], runCount)
      BY <2>1, <2>3, <3>3 DEF ViewFollows, AgentShown
    <3>5. m \in DOMAIN events
      BY <2>1, <2>3, <3>3
    <3> QED
      BY <2>1, <3>1, <3>4, <3>5 DEF StreamOrder, EndForwarded
  <2> QED
    BY <2>2, <2>3 DEF ShownTruthfully
<1> QED
  BY <1>1, ProgramHolds, PTL

(* What was begun for the user is over when control goes back: a driven    *)
(* command has no request under way, a driven run has settled with the     *)
(* outcome that it had, printed once, and the program leaves the terminal  *)
(* in no mode but those it refused to leave.                               *)
THEOREM FrontendsSettled == ProgramSpec => []SettledOnReturn
<1>1. ProgramInv => SettledOnReturn
  <2> SUFFICES ASSUME ProgramInv PROVE SettledOnReturn
    OBVIOUS
  <2>1. CommandsSettle
    BY DEF ProgramInv, TuiInv, TuiPlaced, CommandsSettle
  <2>2. TerminalRestored
    BY DEF ProgramInv, TuiInv, TerminalPlaced, TerminalRestored
  <2>3. ASSUME standing \in {"prompt", "leaving"}
        PROVE  /\ active = 0 /\ pc # "announce"
               /\ ours # 0 =>
                    /\ ours = runCount /\ outcome = runLog[Len(runLog)].kind
                    /\ reported = 1 \/ (outputFailed /\ reported <= 1)
    <3>1. AtWork /\ ~Drives /\ standing \notin {"driving", "cancelling"}
      BY <2>3 DEF AtWork, Drives
    <3>2. Free
      BY <3>1 DEF ProgramInv, LineInv, LinePlaced
    <3>3. active = 0 /\ pc # "announce"
      BY <3>2 DEF Free, ProgramInv, ControllerInv, StreamInv, OwnInv, TypeOK, PlaceOfRun
    <3>4. ASSUME ours # 0
          PROVE  /\ ours = runCount /\ outcome = runLog[Len(runLog)].kind
                 /\ reported = 1 \/ (outputFailed /\ reported = 0)
      <4>1. /\ ours = runCount /\ ended
            /\ reported = 1 \/ (outputFailed /\ reported = 0)
        BY <3>1, <3>4 DEF ProgramInv, LineInv, DriveFollows
      <4>2. PICK i \in 1 .. consumed : EndsRun(events[i], ours) /\ outcome = events[i].event
        BY <3>1, <3>4, <4>1 DEF ProgramInv, LineInv, DriveFollows
      <4>3. i \in DOMAIN events
        BY DEF ProgramInv, LineInv, LineTypeOK, ControllerInv, StreamInv, StreamTyped
      <4>4. events[i].event = runLog[Len(runLog)].kind
        BY <4>1, <4>2, <4>3, EndIsLast DEF ProgramInv, ControllerInv, StreamOrder
      <4> QED
        BY <4>1, <4>2, <4>4
    <3> QED
      BY <3>3, <3>4
  <2>4. DriveEndsSettled
    BY <2>3 DEF DriveEndsSettled
  <2> QED
    BY <2>1, <2>2, <2>4 DEF SettledOnReturn
<1> QED
  BY <1>1, ProgramHolds, PTL

=============================================================================
