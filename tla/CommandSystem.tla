---------------------------- MODULE CommandSystem ----------------------------
(***************************************************************************)
(* The slash commands (coding_agent/command.rs).  A command is the         *)
(* sequence of its requests to the controller, made one at a time through  *)
(* the handle of the frontend that runs it; what it reads and shows        *)
(* besides is left out.                                                    *)
(***************************************************************************)
EXTENDS SessionController

CONSTANTS
  Target,         (* the argument of /model                                *)
  MaxPrompts      (* bound on the runs                                     *)

ASSUME CommandAssumption == MaxPrompts \in Nat

ModelScript   == <<"ListModels", "Snapshot", "SwitchModel">>
ContextScript == <<"Snapshot", "AddContext">>
TreeScript    == <<"SessionTree">>
SessionScript == <<"Snapshot">>
ListScript    == <<"Snapshot">>     \* and the files of the directory it names
QuitScript    == <<>>

Script == [model |-> ModelScript, context |-> ContextScript, tree |-> TreeScript,
           session |-> SessionScript, list |-> ListScript, help |-> <<>>,
           quit |-> QuitScript]

(* builtin_registry, with list for /list-sessions, and quit for /exit too. *)
Commands == DOMAIN Script

(* What a command is about to do when it begins: /context without a path   *)
(* asks for one first, and the TUI has no picker to ask with.              *)
Begun(c) == {Script[c]} \cup (IF c = "context" THEN {<<>>} ELSE {})

(* resolve_input knows the commands; everything else is for the controller *)
(* to accept, or to reject as an unknown slash command.                    *)
Prompts == {"prompt", "unknown"}

Submission(p) == [op |-> "SubmitPrompt", arg |-> p]

Ask(op) == [op |-> op, arg |-> IF op = "SwitchModel" THEN Target ELSE "none"]

FrontendRequests ==
  {Submission(p) : p \in Prompts}
    \cup {Ask(op) : op \in {"CancelCurrent", "Shutdown", "ListModels", "Snapshot",
                            "SwitchModel", "AddContext", "SessionTree"}}

ASSUME RequestsAssumption == FrontendRequests \subseteq Requests

(* The bounds: a call is kept for the shutdown.                            *)
Affords(c, n) == left[c] > n
MaySubmit(c)  == Affords(c, 1) /\ runCount < MaxPrompts

(* Where a cancelled command looks at its token: dispatch before it        *)
(* begins, and all but /model before each request and while they read      *)
(* files.                                                                  *)
GivesUp(command, script) == command # "model" \/ script = Script["model"]

Refusals == {"Busy", "Closed", "InvalidModel"}

(* What is left of a command once its request was answered with a.  A      *)
(* refusal ends it.  After its snapshot, /context may fail to read its     *)
(* file and /model may find no model to switch to: the one it was given    *)
(* or has asked for is unknown or current, or the user gave none.          *)
Remaining(command, script, a) ==
  IF a.kind \in Refusals THEN {<<>>}
  ELSE IF Head(script) # "Snapshot" THEN {Tail(script)}
  ELSE IF command = "model" /\ Target \notin Models \ {cache.model} THEN {<<>>}
  ELSE {<<>>, Tail(script)}
=============================================================================
