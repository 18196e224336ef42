----------------------------- MODULE RunContract -----------------------------
(***************************************************************************)
(* What one agent run promises to whoever consumes its events: the strict  *)
(* order stated on AgentEvent (agent/events.rs) and on Agent::run          *)
(* (agent/engine.rs).  A run starts once, reports progress and tools, and  *)
(* ends with exactly one terminal event, which fixes the API result.       *)
(*                                                                         *)
(* The contract says nothing of providers, tools, sessions or channels:    *)
(* AgentLoop implements it, and SessionController relies on it for the run *)
(* future that it owns.                                                    *)
(***************************************************************************)
EXTENDS Naturals, Sequences

CONSTANT Calls        (* identifiers of tool calls *)

VARIABLES
  phase,              (* "Ready", "Allocated", "Running" or "Ended"        *)
  open,               (* the tool call being executed: {} or {c}           *)
  cancelled,          (* the run's cancellation token                      *)
  log,                (* events the run has emitted, oldest first          *)
  result              (* what the run's future returns: "None", "Ok", "Err"*)

vars == <<phase, open, cancelled, log, result>>

(* The variants of AgentEvent (ThinkingDelta is never produced). *)
TerminalKinds == {"RunFinished", "RunAborted", "RunFailed"}
PlainKinds    == {"RunStarted", "TextDelta", "ProviderError"} \cup TerminalKinds
ToolKinds     == {"ToolStarted", "ToolOutput", "ToolFinished"}
Event         == [kind : PlainKinds] \cup [kind : ToolKinds, call : Calls]

Plain(k)       == [kind |-> k]
Nameless(k, c) == [kind |-> k]       \* mutant: events without tool_call_id
Tool(k, c)     == [kind |-> k, call |-> c]
IsTerminal(e)  == e.kind \in TerminalKinds

TypeOK ==
  /\ phase \in {"Ready", "Allocated", "Running", "Ended"}
  /\ open \in SUBSET Calls
  /\ cancelled \in BOOLEAN
  /\ log \in Seq(Event)
  /\ result \in {"None", "Ok", "Err"}

Init ==
  /\ phase = "Ready"
  /\ open = {}
  /\ cancelled = FALSE
  /\ log = <<>>
  /\ result = "None"

(***************************************************************************)
(* Actions.                                                                *)
(***************************************************************************)

(* A run is allocated, with a fresh token, only once the last has ended. *)
Allocate ==
  /\ phase \in {"Ready", "Ended"}
  /\ phase' = "Allocated"
  /\ cancelled' = FALSE
  /\ log' = <<>>
  /\ result' = "None"
  /\ UNCHANGED open

Cancel ==
  /\ phase \in {"Allocated", "Running"}
  /\ cancelled' = TRUE
  /\ UNCHANGED <<phase, open, log, result>>

NotReady == phase # "Ready"          \* mutant: nobody looks whether it runs

(* Between RunStarted and the terminal event. *)
Running == phase = "Running"

EmitRunStarted ==
  /\ phase = "Allocated"
  /\ phase' = "Running"
  /\ log' = Append(log, Plain("RunStarted"))
  /\ UNCHANGED <<open, cancelled, result>>

(* Model output, outside any tool. *)
EmitProgress(k) ==
  /\ Running
  /\ open = {}
  /\ log' = Append(log, Plain(k))
  /\ UNCHANGED <<phase, open, cancelled, result>>

EmitToolStarted(c) ==
  /\ Running
  /\ open = {}
  /\ open' = {c}
  /\ log' = Append(log, Tool("ToolStarted", c))
  /\ UNCHANGED <<phase, cancelled, result>>

AnyCall(c) == TRUE                   \* mutant: output of no call in particular

(* The call c is being executed. *)
InCall(c) == open = {c}

EmitToolOutput(c) ==
  /\ Running
  /\ InCall(c)
  /\ log' = Append(log, Tool("ToolOutput", c))
  /\ UNCHANGED <<phase, open, cancelled, result>>

EmitToolFinished(c) ==
  /\ Running
  /\ InCall(c)
  /\ open' = {}
  /\ log' = Append(log, Tool("ToolFinished", c))
  /\ UNCHANGED <<phase, cancelled, result>>

(* Every terminal event fixes the result that the run's future returns. *)
End(kind, res) ==
  /\ Running
  /\ phase' = "Ended"
  /\ open' = {}
  /\ log' = Append(log, Plain(kind))
  /\ result' = res
  /\ UNCHANGED cancelled

(* Finished and aborted runs have no tool in flight; only a cancelled run  *)
(* is aborted; a failure may interrupt a tool, whose end is then unseen.   *)
EmitRunFinished == open = {} /\ End("RunFinished", "Ok")
EmitRunAborted  == open = {} /\ cancelled /\ End("RunAborted", "Ok")
EmitRunFailed   == End("RunFailed", "Err")

Next ==
  \/ Allocate
  \/ Cancel
  \/ EmitRunStarted
  \/ \E k \in {"TextDelta", "ProviderError"} : EmitProgress(k)
  \/ \E c \in Calls :
       EmitToolStarted(c) \/ EmitToolOutput(c) \/ EmitToolFinished(c)
  \/ EmitRunFinished
  \/ EmitRunAborted
  \/ EmitRunFailed

Spec == Init /\ [][Next]_vars

-----------------------------------------------------------------------------
(***************************************************************************)
(* What a consumer may conclude from the events alone.                     *)
(***************************************************************************)

(* A run has at most one terminal event, nothing follows it, and the run   *)
(* is over exactly when it has been emitted ("Every RunStarted produces    *)
(* exactly one terminal event", Agent::run).                               *)
OneTerminal ==
  /\ \A i \in DOMAIN log : IsTerminal(log[i]) => i = Len(log)
  /\ phase = "Ended" <=> (log # <<>> /\ IsTerminal(log[Len(log)]))

(* The future returns Err exactly for a failed run, so a caller that saw   *)
(* RunFailed learns nothing more from the returned error.                  *)
ErrIffFailed ==
  phase = "Ended" => ((result = "Err") <=> (log[Len(log)].kind = "RunFailed"))

(* Nothing precedes RunStarted and it is not repeated. *)
StartedFirst ==
  \A i \in DOMAIN log : (log[i].kind = "RunStarted") <=> (i = 1)

(* Output of a tool call lies inside that call: between its ToolStarted    *)
(* and its ToolFinished there is only its own output, so a consumer can    *)
(* attribute chunks by position as well as by tool_call_id.                *)
OutputInsideTool ==
  \A i \in DOMAIN log :
    log[i].kind \in {"ToolOutput", "ToolFinished"} =>
      /\ i > 1
      /\ log[i-1].kind \in {"ToolStarted", "ToolOutput"}
      /\ log[i-1].call = log[i].call

(* "The strict ordering of events for a run" (agent/events.rs), with the   *)
(* result that goes with it and the tools inside it.                       *)
StrictOrder == StartedFirst /\ OneTerminal /\ ErrIffFailed /\ OutputInsideTool
=============================================================================
