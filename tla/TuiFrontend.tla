----------------------------- MODULE TuiFrontend -----------------------------
(***************************************************************************)
(* The Ratatui frontend over the controller: the event loop of run_tui     *)
(* (main.rs), the part of the reducer that decides what the user may do    *)
(* (tui/app.rs), and the driver of slash commands (tui/command_driver.rs,  *)
(* coding_agent/command.rs).                                               *)
(*                                                                         *)
(* The frontend is the controller's only client.  Its loop handles one key *)
(* at a time and then drains the controller's events; while it awaits an   *)
(* answer, or drives a command, events pile up.  So what it shows, and the *)
(* keys it honours, follow the controller with a delay, which is what the  *)
(* properties are about.                                                   *)
(***************************************************************************)
EXTENDS CommandSystem, TerminalGuard

CONSTANT Tui          (* the frontend, as a client of the controller *)

ASSUME TuiAssumption == Clients = {Tui}

VARIABLES
  at,               (* where run_tui stands; "absent" if it is not run      *)
  ui,               (* AppState.activity                                   *)
  shown,            (* AppState.current_run_id, 0 for None                 *)
  drained,          (* events received so far                              *)
  draft,            (* AppState.input has something that Enter would submit*)
  command,          (* the command being driven                            *)
  script,           (* the requests it has still to make                   *)
  commandCancelled, (* its CancellationToken                               *)
  broken            (* the terminal failed                                 *)

view     == <<ui, shown, drained>>
driven   == <<command, script, commandCancelled>>
loopVars == <<at, view, draft, driven, broken>>
tuiVars  == <<loopVars, guardVars>>

AgentShown   == {"AgentRunning", "AgentCancelling"}
CommandShown == {"CommandRunning", "CommandCancelling"}

TuiTypeOK ==
  /\ TypeOK /\ GuardTypeOK
  /\ at \in {"absent", "starting", "key", "drain", "submitting", "cancelling", "command",
             "commandCall", "leaving", "closing", "unwinding", "left"}
  /\ ui \in {"Idle"} \cup AgentShown \cup CommandShown
  /\ shown \in 0 .. runCount
  /\ drained \in 0 .. Len(events)
  /\ command \in {"none"} \cup Commands
  /\ script \in Seq(Operations)
  /\ draft \in BOOLEAN /\ commandCancelled \in BOOLEAN /\ broken \in BOOLEAN

TuiInit ==
  /\ Init /\ GuardInit
  /\ at \in {"starting", "absent"}
  /\ ui = "Idle" /\ shown = 0 /\ drained = 0
  /\ draft = FALSE
  /\ command = "none" /\ script = <<>> /\ commandCancelled = FALSE
  /\ broken = FALSE

-----------------------------------------------------------------------------
(***************************************************************************)
(* The beginning of run_tui.  A failure of the terminal, there or in       *)
(* ratatui, ends the program without a shutdown of the controller, and the *)
(* guard is dropped if there is one.  The snapshot for the title is left   *)
(* out: it changes nothing.                                                *)
(***************************************************************************)

Start ==
  /\ at = "starting"
  /\ \/ Entered /\ at' = "key"
     \/ Entered /\ at' = "unwinding"
     \/ NotEntered /\ at' = "left"
  /\ UNCHANGED <<vars, view, draft, driven, broken>>

(* A panic while the loop draws or reduces.  All that the controller is    *)
(* doing ends with the program: the bound is to look at panics before it   *)
(* has announced anything.                                                 *)
Panics ==
  /\ at = "key"
  /\ Len(events) = 1 /\ ui = "Idle"
  /\ at' = "unwinding"
  /\ UNCHANGED <<vars, view, draft, driven, broken, guardVars>>

Unwind ==
  /\ at = "unwinding"
  /\ Restore
  /\ at' = "left"
  /\ UNCHANGED <<vars, view, draft, driven, broken>>

-----------------------------------------------------------------------------
(***************************************************************************)
(* Keys.  They are read at the top of the loop, and by the driver while a  *)
(* command is under way.  The focus is left out: all that the transcript   *)
(* does with these keys is to ignore them.                                 *)
(***************************************************************************)

ReadsKeys == at \in {"key", "command", "commandCall"} /\ ~broken

AfterKey == at' = IF at = "key" THEN "drain" ELSE at

(* Typing, pasting, deleting and recalling a prompt from the history.      *)
(* What the text is matters when it is submitted, and is chosen then.      *)
Edit(text) ==
  /\ ReadsKeys
  /\ draft' = text
  /\ AfterKey
  /\ UNCHANGED <<vars, view, driven, broken, guardVars>>

EnterAnytime == TRUE                \* mutant: Enter is available in any state

(* Enter is available when the frontend shows Idle. *)
EnterAvailable == ui = "Idle"

Enter ==
  /\ at = "key"
  /\ EnterAvailable
  /\ draft

(* The draft is a prompt: it is cleared, submitted, and the loop awaits    *)
(* the answer.                                                             *)
EnterPrompt(p) ==
  /\ Enter
  /\ MaySubmit(Tui)
  /\ Call(Tui, Submission(p))
  /\ draft' = FALSE
  /\ at' = "submitting"
  /\ UNCHANGED <<view, driven, broken, guardVars>>

(* The draft is a command: the loop drives it. *)
EnterCommand(c) ==
  /\ Enter
  /\ Affords(Tui, Len(Script[c]))
  /\ command' = c /\ script' \in Begun(c) /\ commandCancelled' = FALSE
  /\ ui' = "CommandRunning"
  /\ draft' = FALSE
  /\ at' = "command"
  /\ UNCHANGED <<vars, shown, drained, broken, guardVars>>

ShowsCancelling == UNCHANGED vars   \* mutant: the effect is not carried out

(* Effect::CancelAgent *)
CancelAgent == Call(Tui, Ask("CancelCurrent"))

(* Ctrl+C in the input: it cancels what is shown to be running, or clears  *)
(* the draft.                                                              *)
CtrlCAgent ==
  /\ at = "key"
  /\ ui = "AgentRunning"
  /\ Affords(Tui, 1)
  /\ CancelAgent
  /\ ui' = "AgentCancelling"
  /\ at' = "cancelling"
  /\ UNCHANGED <<shown, drained, draft, driven, broken, guardVars>>

CtrlCCommand ==
  /\ ReadsKeys
  /\ ui = "CommandRunning"
  /\ ui' = "CommandCancelling"
  /\ commandCancelled' = TRUE
  /\ UNCHANGED <<vars, at, shown, drained, draft, command, script, broken, guardVars>>

CtrlCDraft ==
  /\ at = "key"
  /\ ui = "Idle"
  /\ draft' = FALSE
  /\ AfterKey
  /\ UNCHANGED <<vars, view, driven, broken, guardVars>>

(* Drawing or polling failed: run_tui_loop returns the error, a driver     *)
(* first cancels its command and awaits it.                                *)
TerminalFails ==
  /\ ReadsKeys
  /\ broken' = TRUE
  /\ at' = IF at = "key" THEN "leaving" ELSE at
  /\ commandCancelled' = (at # "key" \/ commandCancelled)
  /\ UNCHANGED <<vars, view, draft, command, script, guardVars>>

-----------------------------------------------------------------------------
(***************************************************************************)
(* Answers and events.                                                     *)
(***************************************************************************)

(* An error of submit_prompt is shown, and the frontend is Idle.  Of a     *)
(* cancel the answer is ignored.                                           *)
Answered ==
  /\ at \in {"submitting", "cancelling"}
  /\ stage[Tui] = "idle"
  /\ ui' = IF at = "submitting" /\ answer[Tui].kind # "Accepted" THEN "Idle" ELSE ui
  /\ at' = "drain"
  /\ UNCHANGED <<vars, shown, drained, draft, driven, broken, guardVars>>

StopsOnFinish(e) == e.event = "RunFinished" \* mutant: other ends are not looked at

(* Every terminal event ends the run (RunFinished never carries ToolUse). *)
Stops(e) == e.event \in Run!TerminalKinds

(* update, for one SessionControllerEvent: what is shown, and of which run.*)
Reduce(s, e) ==
  CASE e.kind = "PromptAccepted" -> [ui |-> "AgentRunning", run |-> e.run]
    [] e.kind \in {"PromptRejected", "ControllerError"} -> [s EXCEPT !.ui = "Idle"]
    [] e.kind = "Agent" /\ e.event = "RunStarted" -> [ui |-> "AgentRunning", run |-> e.run]
    [] e.kind = "Agent" /\ e.run = s.run /\ Stops(e) -> [s EXCEPT !.ui = "Idle"]
    [] OTHER -> s

(* drain_controller_events, after a key, an answer or 50 ms of neither: as *)
(* long as try_recv gives an event, it is reduced.                         *)
Drain ==
  /\ at \in {"key", "drain"}
  /\ drained < Len(events)
  /\ drained' = drained + 1
  /\ LET s == Reduce([ui |-> ui, run |-> shown], events[drained'])
     IN  ui' = s.ui /\ shown' = s.run
  /\ at' = IF drained' < Len(events) THEN "drain" ELSE "key"
  /\ UNCHANGED <<vars, draft, driven, broken, guardVars>>

(* try_recv gives none. *)
NothingToDrain ==
  /\ at = "drain"
  /\ drained = Len(events)
  /\ at' = "key"
  /\ UNCHANGED <<vars, view, draft, driven, broken, guardVars>>

-----------------------------------------------------------------------------
(***************************************************************************)
(* The driver and its command.                                             *)
(***************************************************************************)

(* The command has returned, or returns at its next look at the token. *)
Returns == script = <<>> \/ (commandCancelled /\ GivesUp(command, script))

CommandCalls ==
  /\ at = "command"
  /\ ~Returns
  /\ Call(Tui, Ask(Head(script)))
  /\ at' = "commandCall"
  /\ UNCHANGED <<view, draft, driven, broken, guardVars>>

CommandAnswered ==
  /\ at = "commandCall"
  /\ stage[Tui] = "idle"
  /\ script' \in Remaining(command, script, answer[Tui])
  /\ at' = "command"
  /\ UNCHANGED <<vars, view, draft, command, commandCancelled, broken, guardVars>>

SettledOnCancel ==                  \* mutant: the driver does not await it
  at \in {"command", "commandCall"} /\ (script = <<>> \/ commandCancelled)

(* The driver sees the command's future return. *)
Settled == at = "command" /\ Returns

(* A cancelled command is reported as cancelled, whatever it has done. *)
CommandEnds ==
  /\ Settled
  /\ ui' = IF broken THEN ui ELSE "Idle"
  /\ at' = IF broken \/ (command = "quit" /\ ~commandCancelled) THEN "leaving" ELSE "drain"
  /\ command' = "none" /\ script' = <<>> /\ commandCancelled' = FALSE
  /\ UNCHANGED <<vars, shown, drained, draft, broken, guardVars>>

-----------------------------------------------------------------------------
(***************************************************************************)
(* The end of run_tui: shutdown, join, and the terminal is restored.       *)
(***************************************************************************)

Leave ==
  /\ at = "leaving"
  /\ CallShutdown(Tui, Ask("Shutdown"))
  /\ at' = "closing"
  /\ UNCHANGED <<view, draft, driven, broken, guardVars>>

Join ==
  /\ at = "closing"
  /\ stage[Tui] = "idle"
  /\ pc = "stopped"
  /\ Restore
  /\ at' = "left"
  /\ UNCHANGED <<vars, view, draft, driven, broken>>

-----------------------------------------------------------------------------
Key ==
  \/ \E text \in BOOLEAN : Edit(text)
  \/ \E p \in Prompts : EnterPrompt(p)
  \/ \E c \in Commands : EnterCommand(c)
  \/ CtrlCAgent \/ CtrlCCommand \/ CtrlCDraft

TuiStep ==
  \/ Start \/ Unwind
  \/ Answered \/ Drain \/ NothingToDrain \/ CommandCalls \/ CommandAnswered \/ CommandEnds
  \/ Leave \/ Join

-----------------------------------------------------------------------------
(***************************************************************************)
(* Properties.                                                             *)
(***************************************************************************)

(* What is shown agrees with the controller, but for events the loop has   *)
(* yet to drain.  An Agent activity is shown only for the active run, or   *)
(* the event that ends it is still to come: the frontend cannot hang in a  *)
(* state in which Enter is refused.  And Idle is shown only when no run is *)
(* active, or the active one has only to return: "While an Agent run is    *)
(* active, Enter is unavailable" (tui.md).                                 *)
ShownTruthfully ==
  /\ ui \in AgentShown =>
       \/ shown = active
       \/ \E i \in drained + 1 .. Len(events) : EndsRun(events[i], shown)
  /\ (ui = "Idle" /\ drained = Len(events) /\ at = "key") =>
       active = 0 \/ terminalSeen

(* "the driver waits for command settlement before the next prompt"        *)
(* (tui.md): outside the driver no request is under way and no command is  *)
(* shown, even when the command was cancelled or the terminal failed.      *)
CommandsSettle ==
  /\ at \in {"key", "drain"} => ui \notin CommandShown
  /\ at \in {"key", "drain", "leaving"} => stage[Tui] = "idle" /\ script = <<>>

(* "TerminalGuard restores terminal state on normal exit, command/Agent    *)
(* errors, and panic unwinding" (tui.md): the loop runs in the modes it    *)
(* needs, and whichever way the program ends, half-way through its start   *)
(* too, the terminal is in no mode but those it refused to leave.          *)
TerminalRestored ==
  /\ at \notin {"absent", "starting", "left"} => terminal = Modes
  /\ at \in {"absent", "starting"} => terminal = {}
  /\ at = "left" => terminal \subseteq refused

(* "While an Agent run is active, Enter is unavailable; the draft remains  *)
(* editable and is not queued concurrently" (tui.md): a prompt that is     *)
(* refused because a run is active is still in the editor.                 *)
BusyKeepsDraft ==
  [][(at = "submitting" /\ at' = "drain" /\ answer[Tui].kind = "Busy") =>
       draft]_<<vars, tuiVars>>
=============================================================================
