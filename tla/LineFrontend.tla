----------------------------- MODULE LineFrontend -----------------------------
(***************************************************************************)
(* The line-oriented frontends over the controller: the REPL and the       *)
(* single-shot run (coding_agent/repl.rs), and the driver of one prompt    *)
(* that both use (drive_print_run_with_interrupt, frontends/print.rs).     *)
(*                                                                         *)
(* The driver submits a prompt and prints the run's events until the       *)
(* controller is Idle again; Ctrl+C and a failing output make it cancel    *)
(* the run and go on.  The receiver is shared by all drives of a REPL, so  *)
(* a drive starts with whatever events earlier ones and commands left.     *)
(***************************************************************************)
EXTENDS CommandSystem

CONSTANT Line         (* the frontend, as a client of the controller *)

ASSUME LineAssumption == Clients = {Line}

VARIABLES
  standing,           (* where run, or its loop or its driver, stands;     *)
                      (* "absent" if it is not run                         *)
  single,             (* RunConfig.prompt was given                        *)
  consumed,           (* events received so far                            *)
  (* one drive *)
  ours,               (* the run of the accepted prompt, 0 before          *)
  ended,              (* terminal_seen                                     *)
  outcome,            (* PrintRunOutcome, by the kind of event that set it *)
  interrupted,        (* interrupt_seen                                    *)
  outputFailed,       (* output_error is set                               *)
  reported,           (* ends of the run printed, by handle_event or       *)
                      (* report_run_error                                  *)
  (* one command *)
  typed, rest         (* the command, and its requests still to make       *)

drive    == <<ours, ended, outcome, interrupted, outputFailed, reported>>
lineVars == <<standing, single, consumed, drive, typed, rest>>

LineTypeOK ==
  /\ standing \in {"absent", "prompt", "submitting", "driving", "cancelling",
                   "command", "calling", "leaving", "closing", "left"}
  /\ single \in BOOLEAN /\ ended \in BOOLEAN
  /\ interrupted \in BOOLEAN /\ outputFailed \in BOOLEAN
  /\ consumed \in 0 .. Len(events)
  /\ ours \in 0 .. runCount /\ reported \in Nat
  /\ outcome \in {"None", "Rejected", "ControllerError"} \cup Run!TerminalKinds
  /\ typed \in {"none"} \cup Commands
  /\ rest \in Seq(Operations)

LineInit ==
  /\ standing \in {"prompt", "absent"}
  /\ single \in BOOLEAN
  /\ consumed = 0
  /\ ours = 0 /\ ended = FALSE /\ outcome = "None"
  /\ interrupted = FALSE /\ outputFailed = FALSE /\ reported = 0
  /\ typed = "none" /\ rest = <<>>

-----------------------------------------------------------------------------
(***************************************************************************)
(* The loop.                                                               *)
(***************************************************************************)

(* A line, or the prompt of the command line, is submitted. *)
SubmitLine(p) ==
  /\ standing = "prompt"
  /\ MaySubmit(Line)
  /\ Call(Line, Submission(p))
  /\ standing' = "submitting"
  /\ ours' = 0 /\ ended' = FALSE /\ outcome' = "None"
  /\ interrupted' = FALSE /\ outputFailed' = FALSE /\ reported' = 0
  /\ UNCHANGED <<single, consumed, typed, rest>>

(* The REPL dispatches a command, with a token that nobody cancels. *)
TypeCommand(c) ==
  /\ standing = "prompt" /\ ~single
  /\ Affords(Line, Len(Script[c]))
  /\ typed' = c /\ rest' \in Begun(c)
  /\ standing' = "command"
  /\ UNCHANGED <<vars, single, consumed, drive>>

(* End of input, or Ctrl+C at the prompt. *)
EndOfInput ==
  /\ standing = "prompt" /\ ~single
  /\ standing' = "leaving"
  /\ UNCHANGED <<vars, single, consumed, drive, typed, rest>>

LineCommandCalls ==
  /\ standing = "command"
  /\ rest # <<>>
  /\ Call(Line, Ask(Head(rest)))
  /\ standing' = "calling"
  /\ UNCHANGED <<single, consumed, drive, typed, rest>>

LineCommandAnswered ==
  /\ standing = "calling"
  /\ stage[Line] = "idle"
  /\ rest' \in Remaining(typed, rest, answer[Line])
  /\ standing' = "command"
  /\ UNCHANGED <<vars, single, consumed, drive, typed>>

(* An error, also one of writing the result, ends the REPL. *)
LineCommandEnds ==
  /\ standing = "command"
  /\ rest = <<>>
  /\ standing' \in IF typed = "quit" THEN {"leaving"} ELSE {"prompt", "leaving"}
  /\ typed' = "none"
  /\ UNCHANGED <<vars, single, consumed, drive, rest>>

-----------------------------------------------------------------------------
(***************************************************************************)
(* The driver.                                                             *)
(***************************************************************************)

(* An error of the drive ends the REPL too. *)
AfterDrive(failing) == IF single \/ failing THEN "leaving" ELSE "prompt"

Submitted ==
  /\ standing = "submitting"
  /\ stage[Line] = "idle"
  /\ LET a == answer[Line] IN
       /\ ours' = IF a.kind = "Accepted" THEN a.run ELSE 0
       /\ outcome' = IF a.kind = "Rejected" THEN "Rejected" ELSE outcome
       /\ standing' = CASE a.kind = "Accepted" -> "driving"
                        [] a.kind = "Rejected" -> AfterDrive(FALSE)
                        [] OTHER               -> AfterDrive(TRUE)
  /\ UNCHANGED <<vars, single, consumed, ended, interrupted, outputFailed,
                 reported, typed, rest>>

(* recv() gives the next event.  It gives None only after Stopped, which   *)
(* no drive lives to see.                                                  *)
Receive(e) ==
  /\ standing = "driving"
  /\ consumed < Len(events)
  /\ e = events[consumed + 1]
  /\ consumed' = consumed + 1

IsOurs(e) == e.kind = "Agent" /\ e.request = ours

(* What an event of the run does to the driver, whether it could be        *)
(* printed or not.  Printing is over after an output error.                *)
Notes(e) ==
  /\ ended' = (ended \/ e.event \in Run!TerminalKinds)
  /\ outcome' = IF e.event \in Run!TerminalKinds THEN e.event ELSE outcome
  /\ reported' = IF e.event \in Run!TerminalKinds /\ ~outputFailed'
                 THEN reported + 1 ELSE reported

PrintEvent ==
  \E e \in {events[i] : i \in DOMAIN events} :
    /\ Receive(e) /\ IsOurs(e)
    /\ UNCHANGED <<vars, standing, single, ours, interrupted, outputFailed, typed, rest>>
    /\ Notes(e)

(* handle_event cannot write: the run is cancelled, and the error kept. *)
PrintFails ==
  \E e \in {events[i] : i \in DOMAIN events} :
    /\ Receive(e) /\ IsOurs(e)
    /\ ~outputFailed
    /\ Affords(Line, 1)
    /\ Call(Line, Ask("CancelCurrent"))
    /\ outputFailed' = TRUE
    /\ Notes(e)
    /\ standing' = "cancelling"
    /\ UNCHANGED <<single, ours, interrupted, typed, rest>>

(* The future of the interrupt is polled until it has fired.  Its own      *)
(* failure counts as an interrupt, and as an output error.                 *)
Interrupt ==
  /\ standing = "driving"
  /\ ~interrupted
  /\ Affords(Line, 1)
  /\ Call(Line, Ask("CancelCurrent"))
  /\ interrupted' = TRUE
  /\ outputFailed' \in {outputFailed, TRUE}
  /\ standing' = "cancelling"
  /\ UNCHANGED <<single, consumed, ours, ended, outcome, reported, typed, rest>>

CancelAnswered ==
  /\ standing = "cancelling"
  /\ stage[Line] = "idle"
  /\ standing' = "driving"
  /\ UNCHANGED <<vars, single, consumed, drive, typed, rest>>

SettlesOnAnyIdle(e) == IsQuiet(e)   \* mutant: the run's end is not waited for

(* StateChanged(Idle) counts once the run's terminal event was seen. *)
Settles(e) == ended /\ e = State(Activity("Idle", 0))

DriveEnds ==
  \E e \in {events[i] : i \in DOMAIN events} :
    /\ Receive(e) /\ ~IsOurs(e)
    /\ Settles(e)
    /\ standing' = AfterDrive(outputFailed)
    /\ UNCHANGED <<vars, single, drive, typed, rest>>

ReportsAgain(e) == e.kind = "ControllerError" \* mutant: whatever was seen

(* A ControllerError is reported, or cannot be, unless the run's end was.  *)
Reports(e) == e.kind = "ControllerError" /\ ~ended

IgnoreOrReport ==
  \E e \in {events[i] : i \in DOMAIN events} :
    /\ Receive(e) /\ ~IsOurs(e)
    /\ ~Settles(e)
    /\ outcome' = IF Reports(e) THEN "ControllerError" ELSE outcome
    /\ outputFailed' \in {outputFailed, outputFailed \/ Reports(e)}
    /\ reported' = IF Reports(e) /\ ~outputFailed' THEN reported + 1 ELSE reported
    /\ UNCHANGED <<vars, standing, single, ours, ended, interrupted, typed, rest>>

-----------------------------------------------------------------------------
(* The end of run: shutdown, then join. *)
LineLeave ==
  /\ standing = "leaving"
  /\ CallShutdown(Line, Ask("Shutdown"))
  /\ standing' = "closing"
  /\ UNCHANGED <<single, consumed, drive, typed, rest>>

LineJoin ==
  /\ standing = "closing"
  /\ stage[Line] = "idle"
  /\ pc = "stopped"
  /\ standing' = "left"
  /\ UNCHANGED <<vars, single, consumed, drive, typed, rest>>

User ==
  \/ \E p \in Prompts : SubmitLine(p)
  \/ \E c \in Commands : TypeCommand(c)
  \/ EndOfInput \/ Interrupt

LineStep ==
  \/ LineCommandCalls \/ LineCommandAnswered \/ LineCommandEnds
  \/ Submitted \/ PrintEvent \/ DriveEnds \/ IgnoreOrReport \/ CancelAnswered
  \/ LineLeave \/ LineJoin

-----------------------------------------------------------------------------
(***************************************************************************)
(* The property of this part.                                              *)
(***************************************************************************)

(* A drive ends only when its run has settled: at the next prompt of the   *)
(* REPL no run is active, so no prompt and no command is refused as busy,  *)
(* which would end the REPL; and the outcome, on which the exit code       *)
(* depends, is the end that the run had, printed exactly once.             *)
DriveEndsSettled ==
  standing \in {"prompt", "leaving"} =>
    /\ active = 0 /\ pc # "announce"
    /\ ours # 0 =>
         /\ ours = runCount /\ outcome = runLog[Len(runLog)].kind
         /\ reported = 1 \/ (outputFailed /\ reported <= 1)
=============================================================================
