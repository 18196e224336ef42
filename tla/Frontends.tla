------------------------------ MODULE Frontends ------------------------------
(***************************************************************************)
(* The program: main.rs spawns the controller and hands its connection to  *)
(* the frontend that the command line asks for, which is its only client   *)
(* until the program ends.                                                 *)
(***************************************************************************)
EXTENDS TuiFrontend, LineFrontend

allVars == <<vars, tuiVars, lineVars>>

(* --tui starts one frontend, anything else the other. *)
ProgramInit ==
  /\ TuiInit /\ LineInit
  /\ (at = "absent") # (standing = "absent")

AsTui(A)  == A /\ UNCHANGED lineVars
AsLine(A) == A /\ UNCHANGED tuiVars

Done == at = "left" \/ standing = "left"

(* The controller goes on while the frontend does something else, and ends *)
(* with the program.                                                       *)
Meanwhile(A) == ~Done /\ A /\ UNCHANGED <<tuiVars, lineVars>>

ShutdownSent == SendShutdown(Tui, Ask("Shutdown"))

(* What the frontend does without the user. *)
FrontendStep == AsTui(TuiStep) \/ AsLine(LineStep) \/ Meanwhile(ShutdownSent)

ProgramNext ==
  \/ AsTui(Key \/ TerminalFails \/ Panics)
  \/ AsLine(User \/ PrintFails)
  \/ FrontendStep
  \/ Meanwhile(TaskStep \/ RunStep)
  \/ Done /\ UNCHANGED allVars

(***************************************************************************)
(* The TUI polls with a timeout, so its loop goes round without any key;   *)
(* the driver's select takes what is ready.  Nothing is assumed of the     *)
(* user or of the output.  Controller and run as in SessionController.     *)
(***************************************************************************)
ProgramFairness ==
  /\ WF_allVars(FrontendStep)
  /\ WF_allVars(Meanwhile(TaskStep))
  /\ SF_allVars(Meanwhile(token /\ (RunStarts \/ RunEnds)))

ProgramSpec == ProgramInit /\ [][ProgramNext]_allVars /\ ProgramFairness

(* One type invariant for the composition. *)
ProgramTypeOK == TuiTypeOK /\ LineTypeOK

(* What was begun for the user is over when control goes back: a driven    *)
(* command or run leaves no call under way and no run unsettled behind it, *)
(* and the program leaves the terminal as it found it.                     *)
SettledOnReturn == CommandsSettle /\ DriveEndsSettled /\ TerminalRestored

(* What the user is waiting for: the TUI shows "Cancelling", the driver    *)
(* was interrupted or cannot write, or the program is on its way out.      *)
Awaited ==
  /\ ~Done
  /\ \/ ui = "AgentCancelling"
     \/ standing \in {"driving", "cancelling"} /\ (interrupted \/ outputFailed)
     \/ {at, standing} \cap {"leaving", "closing", "unwinding"} # {}

(* A cancelled run ends for the frontend too, wherever the cancel crosses  *)
(* the run: before it has started, and after it has ended ("the driver     *)
(* continues consuming events until RunAborted and StateChanged(Idle) are  *)
(* observed", print.rs).  And the program ends, even if a run has stalled  *)
(* that the frontend has not heard of: shutdown cancels it, join returns.  *)
AwaitedHappens == Awaited ~> ~Awaited
=============================================================================
