--------------------------- MODULE ResponseDecoder ---------------------------
(***************************************************************************)
(* do_stream (ai/providers/deepseek.rs) and do_codex_stream                *)
(* (ai/providers/openai_codex.rs): how the producer task of a response     *)
(* turns the bytes of the body into the events that ProviderStream counts. *)
(*                                                                         *)
(* The server says frames; each goes over the wire as data and a           *)
(* separator, and the connection hands them on in chunks that may          *)
(* end anywhere, in the middle of a character too.  The server is external *)
(* to the code: it opens calls, sends their arguments in pieces, closes    *)
(* them and finishes in the order the two protocols prescribe, or the      *)
(* connection ends early.  Arguments parse as JSON when all their pieces   *)
(* have come.  Codex opens a call with a field for its arguments: empty,   *)
(* with all of them, or missing.                                           *)
(***************************************************************************)
EXTENDS Naturals, Sequences, FiniteSets, SequencesExt

CONSTANTS
  MaxDeltas,    (* bound on the text deltas of the response                 *)
  MaxCalls,     (* bound on its tool calls                                  *)
  Pieces,       (* pieces the arguments of a call are sent in               *)
  InFlight,     (* bound on the bytes on the wire and not yet delivered     *)
  StreamCap,    (* STREAM_CHANNEL_SIZE                                      *)
  DoneReasons   (* stop reasons                                             *)

ASSUME DecoderAssumption ==
  /\ MaxDeltas \in Nat /\ MaxCalls \in Nat
  /\ Pieces \in Nat \ {0} /\ InFlight \in Nat \ {0} /\ StreamCap \in Nat \ {0}
  /\ DoneReasons = {"Stop", "Length", "ToolUse", "Error"}

VARIABLES
  provider,     (* "deepseek" or "codex"                                    *)
  (* the server and the connection *)
  said,         (* frames said so far                                       *)
  line,         (* "open", "closed" (end of body) or "cut"                  *)
  wire,         (* bytes on their way                                       *)
  (* the producer task *)
  pc,           (* "requesting", "reading", "sending", "finished",          *)
                (*   "failed" or "stopped"                                  *)
  buffer,       (* bytes received and not yet decoded                       *)
  decoded,      (* frames decoded                                           *)
  partial,      (* arguments received for each call not yet emitted         *)
  hasCalls,     (* has_tool_calls                                           *)
  stop,         (* MessageAccumulator.stop_reason (DeepSeek)                *)
  pending,      (* events this frame still has to send                      *)
  returns,      (* the task returns once they are sent                      *)
  (* what the agent gets *)
  inbox,        (* the channel                                              *)
  requestToken, (* the request's token                                      *)
  sent          (* all events sent                                          *)

serverVars == <<said, line, wire>>
taskVars   == <<pc, buffer, decoded, partial, hasCalls, stop, pending, returns>>
vars == <<provider, said, line, wire, pc, buffer, decoded, partial, hasCalls, stop,
          pending, returns, inbox, requestToken, sent>>

Calls == 1 .. MaxCalls
Frame ==
  [kind : {"text"}, nr : 1 .. MaxDeltas] \cup [kind : {"close"}, call : Calls]
    \cup [kind : {"open"}, call : Calls, field : {"empty", "whole", "missing"}]
    \cup [kind : {"args"}, call : Calls, piece : 1 .. Pieces]
    \cup [kind : {"finish"}, stop : DoneReasons]
    \cup [kind : {"error", "other"}]

Init ==
  /\ provider \in {"deepseek", "codex"}
  /\ said = <<>> /\ line = "open" /\ wire = <<>>
  /\ pc = "requesting" /\ buffer = <<>> /\ decoded = <<>> /\ partial = <<>>
  /\ hasCalls = FALSE /\ stop = "Stop" /\ pending = <<>> /\ returns = FALSE
  /\ inbox = <<>> /\ requestToken = FALSE /\ sent = <<>>

-----------------------------------------------------------------------------
(* The server (external). *)

Of(frames, kind) == SelectSeq(frames, LAMBDA f : f.kind = kind)
Opened(frames)   == Len(Of(frames, "open"))
Received(frames, c) == Len(SelectSeq(frames, LAMBDA f : f.kind = "args" /\ f.call = c))
Closed(frames, c)   == \E i \in DOMAIN frames : frames[i].kind = "close" /\ frames[i].call = c
FieldOf(frames, c)  == Of(frames, "open")[c].field
Ended == Of(said, "finish") # <<>> \/ Of(said, "error") # <<>>

(* The pieces of a call that the server has said, in its field or after it. *)
Supplied(c) == IF FieldOf(said, c) = "whole" THEN Pieces ELSE Received(said, c)

(* A call without arguments: DeepSeek sends no piece, Codex no field.       *)
Bare(c) == Supplied(c) = 0 /\ (provider = "codex" => FieldOf(said, c) = "missing")

(* What may be said next.  Calls are closed one by one (Codex) or all at    *)
(* once by the finish (DeepSeek); only a response cut at its length limit   *)
(* leaves arguments incomplete.  "Error" is Codex's status `cancelled`.     *)
MayFollow(f) ==
  CASE f.kind = "text"   -> f.nr = Len(Of(said, "text")) + 1
    [] f.kind = "open"   -> /\ f.call = Opened(said) + 1
                            /\ provider = "deepseek" => f.field = "empty"
    [] f.kind = "args"   -> /\ f.call <= Opened(said) /\ ~Closed(said, f.call)
                            /\ f.piece = Supplied(f.call) + 1
    [] f.kind = "close"  -> /\ provider = "codex"
                            /\ f.call <= Opened(said) /\ ~Closed(said, f.call)
    [] f.kind = "finish" -> \/ f.stop = "Length"
                            \/ f.stop = "Error" /\ provider = "codex"
                            \/ /\ f.stop = IF Opened(said) = 0 THEN "Stop" ELSE "ToolUse"
                               /\ \A c \in 1 .. Opened(said) :
                                    /\ Supplied(c) = Pieces \/ Bare(c)
                                    /\ provider = "codex" => Closed(said, c)
    [] f.kind = "error"  -> TRUE
    [] f.kind = "other"  -> said = <<>>

CR == [eol |-> "CR"]
LF == [eol |-> "LF"]

(* Text and arguments hold a character of two bytes. *)
Worded(f) == f.kind \in {"text", "args"}

(* Codex separates its frames by CR LF CR LF here, DeepSeek by LF LF. *)
Bytes(f) ==
  [i \in 1 .. IF Worded(f) THEN 2 ELSE 1 |-> [of |-> f, half |-> i, torn |-> FALSE]]
    \o IF provider = "codex" THEN <<CR, LF, CR, LF>> ELSE <<LF, LF>>

(* Every await of the task is a biased select that looks at the request's   *)
(* token first: once it is cancelled no await completes.  A task that has   *)
(* returned has dropped the connection.                                     *)
Running   == pc \in {"requesting", "reading", "sending"}
Listening == Running /\ ~requestToken

Say(f) ==
  /\ Listening /\ pc # "requesting" /\ line = "open" /\ ~Ended
  /\ Len(wire) <= InFlight
  /\ MayFollow(f)
  /\ said' = Append(said, f)
  /\ wire' = wire \o Bytes(f)
  /\ UNCHANGED <<provider, line, taskVars, inbox, requestToken, sent>>

(* The body ends - before its time, too - or the connection breaks. *)
HangUp(how) ==
  /\ Listening /\ line = "open"
  /\ line' = how
  /\ wire' = IF how = "cut" THEN <<>> ELSE wire
  /\ UNCHANGED <<provider, said, taskVars, inbox, requestToken, sent>>

-----------------------------------------------------------------------------
(* The request. *)

Accepted ==
  /\ Listening /\ pc = "requesting" /\ line # "cut"
  /\ pc' = "reading"
  /\ UNCHANGED <<provider, serverVars, buffer, decoded, partial, hasCalls, stop, pending,
                 returns, inbox, requestToken, sent>>

(* An error status.  The body of a Codex error must be JSON (`body?`), or   *)
(* the task fails without an event.                                         *)
Refused ==
  /\ Listening /\ pc = "requesting" /\ line # "cut"
  /\ \/ pc' = "sending" /\ pending' = <<[kind |-> "Error"]>> /\ returns' = TRUE
     \/ provider = "codex" /\ pc' = "failed" /\ UNCHANGED <<pending, returns>>
  /\ UNCHANGED <<provider, serverVars, buffer, decoded, partial, hasCalls, stop, inbox,
                 requestToken, sent>>

-----------------------------------------------------------------------------
(* Framing. *)

IsData(b)  == b \notin {CR, LF}
LfAt(b, i) == i <= Len(b) /\ b[i] = LF
CrAt(b, i) == i <= Len(b) /\ b[i] = CR
CrLfCrLf(b, i) == CrAt(b, i) /\ LfAt(b, i + 1) /\ CrAt(b, i + 2) /\ LfAt(b, i + 3)

(* Codex: find_double_newline; DeepSeek: every line feed ends a line. *)
SeparatorAt(b, i) ==
  IF provider = "codex" THEN (LfAt(b, i) /\ LfAt(b, i + 1)) \/ CrLfCrLf(b, i) ELSE LfAt(b, i)

Separators == { i \in DOMAIN buffer : SeparatorAt(buffer, i) }
SepLen(i)  == IF provider = "deepseek" THEN 1 ELSE IF CrLfCrLf(buffer, i) THEN 4 ELSE 2

(* The bytes before the first separator, and those behind it. *)
First == LET all == Separators IN CHOOSE i \in all : \A j \in all : i <= j
Raw   == SelectSeq(SubSeq(buffer, 1, First - 1), IsData)
Rest  == LET at == First IN SubSeq(buffer, at + SepLen(at), Len(buffer))

(* DeepSeek decodes each chunk by itself: a character that straddles its    *)
(* end is replaced on both sides.                                           *)
Damaged(chunk) ==    \* mutant: Codex decodes each chunk by itself, too
  [i \in DOMAIN chunk |->
     IF IsData(chunk[i]) /\ Worded(chunk[i].of)
          /\ \/ i = Len(chunk) /\ chunk[i].half = 1
             \/ i = 1 /\ chunk[i].half = 2
     THEN [chunk[i] EXCEPT !.torn = TRUE] ELSE chunk[i]]

Torn(chunk) == IF provider = "deepseek" THEN Damaged(chunk) ELSE chunk

Fresh(chunk) == Torn(chunk)    \* mutant: an incomplete frame is thrown away

Buffered(chunk) == buffer \o Torn(chunk)

(* stream.next(): the complete frames of a chunk are handled before it.     *)
Deliver ==
  /\ Listening /\ pc = "reading" /\ Separators = {}
  /\ \E k \in 1 .. Len(wire) :
       /\ buffer' = Buffered(SubSeq(wire, 1, k))
       /\ wire' = SubSeq(wire, k + 1, Len(wire))
  /\ UNCHANGED <<provider, said, line, pc, decoded, partial, hasCalls, stop, pending,
                 returns, inbox, requestToken, sent>>

(* Blank lines, comments and events without data. *)
SkipBlank ==
  /\ pc = "reading" /\ Separators # {} /\ Raw = <<>>
  /\ buffer' = Rest
  /\ UNCHANGED <<provider, serverVars, pc, decoded, partial, hasCalls, stop, pending,
                 returns, inbox, requestToken, sent>>

-----------------------------------------------------------------------------
(* Handling one frame. *)

Current == Raw[1].of
WasTorn == \E i \in DOMAIN Raw : Raw[i].torn

(* Take the frame at hand, of this kind, and send these events for it.      *)
Take(kind, events, done) ==
  /\ pc = "reading" /\ Separators # {} /\ Raw # <<>> /\ Current.kind = kind
  /\ buffer' = Rest
  /\ decoded' = Append(decoded, Current)
  /\ pending' = events
  /\ returns' = done
  /\ pc' = IF events = <<>> THEN "reading" ELSE "sending"
  /\ UNCHANGED <<provider, serverVars, inbox, requestToken, sent>>

TextDelta(f)   == [kind |-> "TextDelta", nr |-> f.nr, torn |-> WasTorn]
ToolCall(c, a) == [kind |-> "ToolCall", of |-> c, args |-> a]
Done(s)        == [kind |-> "Done", stop |-> s]
Error          == [kind |-> "Error"]

HandleText ==
  /\ Take("text", <<TextDelta(Current)>>, FALSE)
  /\ UNCHANGED <<partial, hasCalls, stop>>

Put(c, args) == [d \in DOMAIN partial \cup {c} |-> IF d = c THEN args ELSE partial[d]]
ArgsOf(c)    == IF c \in DOMAIN partial THEN partial[c] ELSE <<>>

(* Arguments as text: the pieces appended so far, 0 for a torn one.  Braces *)
(* is the "{}" that Codex puts in the place of a missing field, to which    *)
(* the pieces that still come are appended.                                 *)
Braces      == Pieces + 1
EmptyObject == <<Braces>>
AllPieces   == [k \in 1 .. Pieces |-> k]

FieldIgnored(field) == <<>>    \* mutant: arguments in the field are lost

Initial(field) ==
  CASE field = "empty" -> <<>> [] field = "whole" -> AllPieces [] field = "missing" -> EmptyObject

(* output_item.added; for DeepSeek the first delta of an index. *)
HandleOpen ==
  /\ Take("open", <<>>, FALSE)
  /\ partial' = Put(Current.call, Initial(Current.field))
  /\ hasCalls' = (hasCalls \/ provider = "deepseek")
  /\ UNCHANGED stop

(* function_call_arguments.delta; push_delta. *)
HandleArgs ==
  /\ Take("args", <<>>, FALSE)
  /\ partial' = IF provider = "codex" /\ Current.call \notin DOMAIN partial THEN partial
                ELSE Put(Current.call, Append(ArgsOf(Current.call),
                                              IF WasTorn THEN 0 ELSE Current.piece))
  /\ UNCHANGED <<hasCalls, stop>>

Unchecked(args) == TRUE    \* mutant: arguments are passed on as they are

Parses(args) == args = EmptyObject \/ (Len(args) = Pieces /\ Braces \notin ToSet(args))

(* output_item.done: a call whose arguments do not parse is not emitted.    *)
HandleClose ==
  /\ Take("close", IF Parses(ArgsOf(Current.call))
                     THEN <<ToolCall(Current.call, ArgsOf(Current.call))>> ELSE <<>>, FALSE)
  /\ partial' = [d \in DOMAIN partial \ {Current.call} |-> partial[d]]
  /\ hasCalls' = (hasCalls \/ Current.call \in DOMAIN partial)
  /\ UNCHANGED stop

(* The reason the server gives; Codex looks at whether there were calls.    *)
Reason(f) ==
  IF provider = "codex" /\ f.stop \notin {"Length", "Error"}
    THEN IF hasCalls THEN "ToolUse" ELSE "Stop"
    ELSE f.stop

(* response.completed and response.incomplete: the task returns. *)
HandleCompleted ==
  /\ provider = "codex"
  /\ Take("finish", <<Done(Reason(Current))>>, TRUE)
  /\ UNCHANGED <<partial, hasCalls, stop>>

(* finalize: the calls of a HashMap, in any order; arguments that do not    *)
(* parse become the empty object.                                           *)
Finalized(order) ==
  [i \in DOMAIN order |->
     ToolCall(order[i], IF Parses(partial[order[i]]) THEN partial[order[i]] ELSE EmptyObject)]

(* finish_reason: the accumulated calls are sent, the stop reason is kept.  *)
HandleFinishReason ==
  /\ provider = "deepseek"
  /\ \E order \in SetToSeqs(DOMAIN partial) : Take("finish", Finalized(order), FALSE)
  /\ partial' = <<>>
  /\ stop' = Reason(Current)
  /\ UNCHANGED hasCalls

(* `error`, `response.failed`, or data that is not JSON (DeepSeek). *)
HandleError ==
  /\ Take("error", <<Error>>, TRUE)
  /\ UNCHANGED <<partial, hasCalls, stop>>

HandleOther ==
  /\ Take("other", <<>>, FALSE)
  /\ UNCHANGED <<partial, hasCalls, stop>>

ReadsOn == "reading"    \* mutant: Done is sent and the task reads on

AfterReturn == "finished"

(* send_event, for one event. *)
Send ==
  /\ Listening /\ pc = "sending" /\ Len(inbox) < StreamCap
  /\ inbox' = Append(inbox, Head(pending))
  /\ sent' = Append(sent, Head(pending))
  /\ pending' = Tail(pending)
  /\ pc' = IF Len(pending) > 1 THEN "sending" ELSE IF returns THEN AfterReturn ELSE "reading"
  /\ UNCHANGED <<provider, serverVars, buffer, decoded, partial, hasCalls, stop, returns,
                 requestToken>>

(* The end of the body.  DeepSeek sends its Done now, with what is left of  *)
(* the calls only if it has not seen any; Codex returns without a word.     *)
BodyEnds ==
  /\ Listening /\ pc = "reading" /\ Separators = {} /\ wire = <<>> /\ line = "closed"
  /\ IF provider = "codex"
       THEN pc' = "failed" /\ UNCHANGED <<pending, returns, partial>>
       ELSE /\ pc' = "sending" /\ returns' = TRUE /\ partial' = <<>>
            /\ \E order \in SetToSeqs(DOMAIN partial) :
                 pending' = (IF hasCalls THEN <<>> ELSE Finalized(order)) \o <<Done(stop)>>
  /\ UNCHANGED <<provider, serverVars, buffer, decoded, hasCalls, stop, inbox,
                 requestToken, sent>>

(* `response?` and `chunk_result?` *)
TransportFails ==
  /\ pc = "requesting" \/ (pc = "reading" /\ Separators = {})
  /\ Listening /\ line = "cut"
  /\ pc' = "failed"
  /\ UNCHANGED <<provider, serverVars, buffer, decoded, partial, hasCalls, stop, pending,
                 returns, inbox, requestToken, sent>>

StopOnCancel ==
  /\ Running /\ requestToken
  /\ pc' = "stopped"
  /\ UNCHANGED <<provider, serverVars, buffer, decoded, partial, hasCalls, stop, pending,
                 returns, inbox, requestToken, sent>>

-----------------------------------------------------------------------------
(* The agent's side of the channel. *)

Receive ==
  /\ inbox # <<>>
  /\ inbox' = Tail(inbox)
  /\ UNCHANGED <<provider, serverVars, taskVars, requestToken, sent>>

CancelRequest ==
  /\ Listening
  /\ requestToken' = TRUE
  /\ UNCHANGED <<provider, serverVars, taskVars, inbox, sent>>

Task ==
  \/ Accepted \/ Refused \/ Deliver \/ SkipBlank
  \/ HandleText \/ HandleOpen \/ HandleArgs \/ HandleClose \/ HandleCompleted
  \/ HandleFinishReason \/ HandleError \/ HandleOther
  \/ Send \/ BodyEnds \/ TransportFails \/ StopOnCancel

Next ==
  \/ \E f \in Frame : Say(f)
  \/ \E how \in {"closed", "cut"} : HangUp(how)
  \/ Task \/ Receive \/ CancelRequest

Spec == Init /\ [][Next]_vars

-----------------------------------------------------------------------------
(* Properties. *)

(* The task does what ProviderStream says a producer does: deltas and       *)
(* calls, then one Done or one Error with which it ends, or an end without  *)
(* either; whatever the server says, the chunks cut or the token stops.     *)
Numbered(e, i, events) ==
  CASE e.kind = "TextDelta" -> [kind |-> "TextDelta"]
    [] e.kind = "ToolCall"  -> [kind |-> "ToolCall", call |-> Len(Of(SubSeq(events, 1, i), "ToolCall"))]
    [] OTHER                -> e

Stream == INSTANCE ProviderStream WITH
  producer <- IF Running THEN "running" ELSE pc,
  deltas   <- Len(Of(sent, "TextDelta")),
  calls    <- Len(Of(sent, "ToolCall")),
  inbox    <- LET gone == Len(sent) - Len(inbox)
              IN  [i \in DOMAIN inbox |-> Numbered(inbox[i], gone + i, sent)]

KeepsStreamContract == Stream!StreamSpec

(* The frames decoded are the frames said, in order and without a gap,      *)
(* wherever the chunks were cut and whichever line ends separate them.      *)
DecodedInOrder == IsPrefix(decoded, said)

(* The text the agent is given is the text that was said, in order; only    *)
(* DeepSeek's may be damaged, where a chunk ends within a character.  With  *)
(* Done all of it has been given.                                           *)
TextFaithful ==
  LET texts == Of(sent, "TextDelta")
  IN  /\ \A i \in DOMAIN texts : texts[i].nr = i /\ (texts[i].torn => provider = "deepseek")
      /\ Of(sent, "Done") # <<>> => Len(texts) = Len(Of(said, "text"))

(* Codex: pieces came for a call whose field was missing, so that they are  *)
(* appended to the braces and the whole does not parse.                     *)
Spoilt == { c \in 1 .. Opened(said) :
              FieldOf(said, c) = "missing" /\ Received(said, c) > 0 }

(* No call is made up, emitted twice or emitted with part of its arguments: *)
(* they are all the pieces in their order (DeepSeek: up to torn             *)
(* characters), the empty object of a call without any, or - DeepSeek, cut  *)
(* at the length limit - dropped for the empty object.  A response that     *)
(* ends in ToolUse has emitted all the calls that were opened except the    *)
(* spoilt ones, which are dropped; one that ends in Stop has not emitted    *)
(* any.                                                                     *)
CallsFaithful ==
  LET calls   == Of(sent, "ToolCall")
      ends    == Of(sent, "Done")
      emitted == { calls[i].of : i \in DOMAIN calls }
  IN  /\ emitted \subseteq 1 .. Opened(said)
      /\ Cardinality(emitted) = Len(calls)
      /\ \A i \in DOMAIN calls :
           \/ calls[i].args = IF Bare(calls[i].of) THEN EmptyObject ELSE AllPieces
           \/ /\ provider = "deepseek"
              /\ \/ /\ Len(calls[i].args) = Pieces
                    /\ \A k \in 1 .. Pieces : calls[i].args[k] \in {0, k}
                 \/ calls[i].args = EmptyObject /\ Last(Of(said, "finish")).stop = "Length"
      /\ ends # <<>> =>
           /\ Last(ends).stop = "ToolUse" => emitted = (1 .. Opened(said)) \ Spoilt
           /\ Last(ends).stop = "Stop" => calls = <<>>

(* Frames, text and calls reach the engine as the provider said them.       *)
ContentFaithful == DecodedInOrder /\ TextFaithful /\ CallsFaithful

(* deepseek.rs, at the end of the body: "Stream ended - emit any remaining  *)
(* tool calls that weren't emitted (edge case: tool_calls arrived without a *)
(* finish_reason)".                                                         *)
RemainingCallsEmitted ==
  Of(sent, "Done") # <<>> /\ provider = "deepseek" =>
    Len(Of(sent, "ToolCall")) = Opened(decoded)
=============================================================================
