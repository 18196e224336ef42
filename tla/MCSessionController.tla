------------------------ MODULE MCSessionController ------------------------
(***************************************************************************)
(* SessionController for TLC: two clients, of which the first makes the    *)
(* requests that decide the life of a run, and the second any request.     *)
(* Sequences of requests about the session's data, one depending on the    *)
(* other, are the commands of MCFrontends.                                 *)
(***************************************************************************)
EXTENDS SessionController, TLC

CONSTANTS c1, c2, m1

LifeRequests ==
  {[op |-> "SubmitPrompt", arg |-> "prompt"], [op |-> "CancelCurrent", arg |-> "none"],
   [op |-> "Shutdown", arg |-> "none"]}

OtherRequests ==
  {[op |-> "SubmitPrompt", arg |-> "unknown"], [op |-> "Snapshot", arg |-> "none"],
   [op |-> "AddContext", arg |-> "none"], [op |-> "SwitchModel", arg |-> m1],
   [op |-> "ListModels", arg |-> "none"]}

AllRequests == LifeRequests \cup OtherRequests

(* One client asks only for what decides the life of a run. *)
FirstAsksForRuns ==
  \A i \in DOMAIN requests :
    requests[i].from = c1 =>
      [op |-> requests[i].op, arg |-> requests[i].arg] \in LifeRequests

TwoAndOne == (c1 :> 2) @@ (c2 :> 1)
=============================================================================
