---------------------------- MODULE ProviderStream ----------------------------
(***************************************************************************)
(* One streaming response of a provider (ai/providers): the producer task  *)
(* that turns an HTTP body into stream events, the bounded channel between *)
(* it and the agent, and the request token that stops it.                  *)
(*                                                                         *)
(* The two real producers, do_stream (DeepSeek) and do_codex_stream        *)
(* (Codex), have the same shape: text deltas and tool calls, then Done;    *)
(* or an Error event; or, when the transport itself fails, an early return *)
(* through `?` that sends nothing; or a return because the request token   *)
(* was cancelled.  Message text is abstracted to the fact of a delta, and  *)
(* the calls of one response are numbered in the order it lists them.      *)
(***************************************************************************)
EXTENDS Naturals, Sequences

CONSTANTS
  MaxDeltas,     (* bound on the text deltas of one response               *)
  MaxCalls,      (* bound on the tool calls of one response                *)
  DoneReasons,   (* stop reasons a provider reports in Done                *)
  StreamCap      (* STREAM_CHANNEL_SIZE                                    *)

VARIABLES
  producer,      (* the task behind producer_handle:                       *)
                 (*   "none", "running", "finished", "failed" or "stopped" *)
  inbox,         (* events sent and not yet received                       *)
  deltas,        (* deltas sent for this response                          *)
  calls,         (* tool calls sent for this response                      *)
  requestToken   (* this request's own token, a child of the run's         *)

streamVars == <<producer, inbox, deltas, calls, requestToken>>

StreamEvent ==
  [kind : {"TextDelta"}] \cup [kind : {"ToolCall"}, call : 1 .. MaxCalls]
    \cup [kind : {"Done"}, stop : DoneReasons] \cup [kind : {"Error"}]

StreamTypeOK ==
  /\ producer \in {"none", "running", "finished", "failed", "stopped"}
  /\ inbox \in Seq(StreamEvent)
  /\ deltas \in 0 .. MaxDeltas
  /\ calls \in 0 .. MaxCalls
  /\ requestToken \in BOOLEAN

StreamInit ==
  /\ producer = "none"
  /\ inbox = <<>>
  /\ deltas = 0
  /\ calls = 0
  /\ requestToken = FALSE

NotAwaited == TRUE    \* mutant: the join handle is dropped, not awaited

(* The task has returned: awaiting producer_handle completes. *)
ProducerSettled == producer # "running"

(* recv() would return None: the sender is gone and the channel drained. *)
ChannelClosed == ProducerSettled /\ inbox = <<>>

-----------------------------------------------------------------------------
(* The agent's side. *)

(* ProviderApi::stream returned Ok: the producer has been spawned. *)
Open ==
  /\ producer' = "running"
  /\ inbox' = <<>>
  /\ deltas' = 0
  /\ calls' = 0
  /\ requestToken' = FALSE

Receive ==
  /\ inbox # <<>>
  /\ inbox' = Tail(inbox)
  /\ UNCHANGED <<producer, deltas, calls, requestToken>>

(* shutdown and cancel_and_shutdown both begin by cancelling the request;  *)
(* the await of the producer is the caller's next step.                    *)
CancelRequest ==
  /\ requestToken' = TRUE
  /\ UNCHANGED <<producer, inbox, deltas, calls>>

(* The awaited producer has returned; the stream is dropped with whatever  *)
(* is left in its channel.  (A task that was not awaited would run on.)    *)
Close ==
  /\ ProducerSettled
  /\ producer' = IF producer = "running" THEN producer ELSE "none"
  /\ inbox' = <<>>
  /\ deltas' = 0
  /\ calls' = 0
  /\ requestToken' = FALSE

-----------------------------------------------------------------------------
(* The producer task. *)

Push(e) ==
  /\ producer = "running"
  /\ Len(inbox) < StreamCap
  /\ inbox' = Append(inbox, e)
  /\ UNCHANGED requestToken

SendDelta ==
  /\ deltas < MaxDeltas
  /\ Push([kind |-> "TextDelta"])
  /\ deltas' = deltas + 1
  /\ UNCHANGED <<producer, calls>>

SendToolCall ==
  /\ calls < MaxCalls
  /\ Push([kind |-> "ToolCall", call |-> calls + 1])
  /\ calls' = calls + 1
  /\ UNCHANGED <<producer, deltas>>

SendDone(stop) ==
  /\ Push([kind |-> "Done", stop |-> stop])
  /\ producer' = "finished"
  /\ UNCHANGED <<deltas, calls>>

(* An HTTP error status, an SSE error event or unparsable data. *)
SendError ==
  /\ Push([kind |-> "Error"])
  /\ producer' = "finished"
  /\ UNCHANGED <<deltas, calls>>

(* `response?` and `chunk_result?`: the connection failed or was cut.  The *)
(* task returns the error and nobody reads it.                             *)
TransportFails ==
  /\ producer = "running"
  /\ producer' = "failed"
  /\ UNCHANGED <<inbox, deltas, calls, requestToken>>

(* Every await of the producer also waits for the request token, which is  *)
(* cancelled with the run's token.                                         *)
StopOnCancel(runToken) ==
  /\ producer = "running"
  /\ runToken \/ requestToken
  /\ producer' = "stopped"
  /\ UNCHANGED <<inbox, deltas, calls, requestToken>>

Produce ==
  \/ SendDelta
  \/ SendToolCall
  \/ \E stop \in DoneReasons : SendDone(stop)
  \/ SendError
  \/ TransportFails

(* One response on its own, from the moment it has been opened. *)
StreamSpec ==
  /\ producer = "running" /\ inbox = <<>> /\ deltas = 0 /\ calls = 0 /\ ~requestToken
  /\ [][Receive \/ CancelRequest \/ Produce \/ StopOnCancel(FALSE)]_streamVars
=============================================================================
