------------------------------ MODULE Transcript ------------------------------
(***************************************************************************)
(* The transcript that the Ratatui frontend builds from a run's events     *)
(* (handle_agent_event and its helpers in tui/app.rs): blocks of text,     *)
(* tools and messages, an index from tool calls to their blocks, and the   *)
(* user's selection.  The oldest blocks are dropped at a limit, and then   *)
(* every position that is kept anywhere has to move.                       *)
(*                                                                         *)
(* The events are those of RunContract, run after run.  They reach the     *)
(* reducer in order and complete (SessionController!EventsDelivered),      *)
(* so each is reduced in the step that emits it.                           *)
(***************************************************************************)
EXTENDS RunContract

CONSTANT MaxBlocks    (* MAX_TRANSCRIPT_BLOCKS *)

ASSUME TranscriptAssumption == MaxBlocks \in Nat \ {0}

VARIABLES
  transcript,         (* [blocks, index, selected]: the transcript, the    *)
                      (* tool_index, and the selected block, 0 for None    *)
  runs,               (* runs accepted so far                              *)
  pushed,             (* blocks pushed so far, which numbers the blocks    *)
  failed              (* runs that ended in RunFailed: for properties only *)

transcriptVars == <<transcript, runs, pushed, failed>>

NoCall     == "none"
ToolStates == {"running", "finished"}
Outputs    == {"none", "streamed", "final"}
Kinds      == {"User", "Assistant", "Tool", "Error", "System"}

(* TranscriptBlock without Thinking, which no provider produces; `from'    *)
(* holds the runs whose text it contains.                                  *)
Block == [kind : Kinds, number : Nat, from : SUBSET Nat, call : Calls \cup {NoCall},
          state : ToolStates \cup {"none"}, output : Outputs]

Plainly(k)  == [kind |-> k, number |-> pushed + 1, from |-> {runs}, call |-> NoCall,
                state |-> "none", output |-> "none"]
ToolBlock(c, state, out) ==
  [Plainly("Tool") EXCEPT !.call = c, !.state = state, !.output = out]

IsExpandable(b) == b.kind = "Tool"

TranscriptTypeOK ==
  /\ TypeOK
  /\ transcript.blocks \in Seq(Block)
  /\ DOMAIN transcript.index \subseteq Calls
  /\ \A c \in DOMAIN transcript.index : transcript.index[c] \in DOMAIN transcript.blocks
  /\ transcript.selected \in {0} \cup DOMAIN transcript.blocks
  /\ runs \in Nat /\ pushed \in Nat /\ failed \subseteq 1 .. runs

TranscriptInit ==
  /\ Init
  /\ transcript = [blocks |-> <<>>, index |-> [c \in {} |-> 0], selected |-> 0]
  /\ runs = 0 /\ pushed = 0 /\ failed = {}

-----------------------------------------------------------------------------
(***************************************************************************)
(* The limit.                                                              *)
(***************************************************************************)

(* saturating_sub: a position that falls off the front becomes the first,  *)
(* whichever block that is.                                                *)
Shifted(i, n) == IF i > n THEN i - n ELSE 1

Clamped(i, n) == IF i > MaxBlocks THEN MaxBlocks ELSE i \* mutant: not moved

SelectionShifted(i, n) == IF i > n THEN i - n ELSE 0

IndexKept(index, n) == index        \* mutant: the index is not moved

IndexShifted(index, n) ==
  [c \in {d \in DOMAIN index : Shifted(index[d], n) <= MaxBlocks} |-> Shifted(index[c], n)]

OneTooMany(t) == Len(t.blocks) - MaxBlocks - 1 \* mutant: off by one

(* How many blocks have to go. *)
Excess(t) == Len(t.blocks) - MaxBlocks

(* enforce_block_limit *)
Enforce(t) ==
  LET n == Excess(t)
  IN  IF n <= 0 THEN t
      ELSE [blocks   |-> SubSeq(t.blocks, n + 1, Len(t.blocks)),
            index    |-> IndexShifted(t.index, n),
            selected |-> SelectionShifted(t.selected, n)]

Add(t, b)       == [t EXCEPT !.blocks = Append(@, b)]
Push(t, b)      == Enforce(Add(t, b))
Indexed(t, c)   == [t EXCEPT !.index =
                     [d \in DOMAIN t.index \cup {c} |->
                        IF d = c THEN Len(t.blocks) ELSE t.index[d]]]

-----------------------------------------------------------------------------
(***************************************************************************)
(* The reducer.                                                            *)
(***************************************************************************)

Unannounced(t) == t                 \* mutant: the prompt is not shown

(* controller_prompt_accepted *)
Accepted(t) == Push(t, [Plainly("User") EXCEPT !.from = {runs'}])

LastIs(t, k) == t.blocks # <<>> /\ t.blocks[Len(t.blocks)].kind = k

(* A delta goes on the last block if that is of its kind. *)
AddText(t) ==
  IF LastIs(t, "Assistant")
  THEN [t EXCEPT !.blocks[Len(t.blocks)].from = @ \cup {runs}]
  ELSE Push(t, Plainly("Assistant"))

StartTool(t, c) ==
  Enforce(Indexed(Add(t, ToolBlock(c, "running", "none")), c))

(* reduce_tool_output: output of a call that is not indexed, or no longer, *)
(* makes a block of its own.                                               *)
AddOutput(t, c) ==
  IF c \in DOMAIN t.index
  THEN [t EXCEPT !.blocks[t.index[c]].output =
          IF t.blocks[t.index[c]].kind = "Tool" THEN "streamed" ELSE @]
  ELSE Enforce(Indexed(Add(t, ToolBlock(c, "running", "streamed")), c))

StillRunning(b) == [b EXCEPT !.output = "final"] \* mutant: the state is not set

(* The result's text is kept only if nothing was streamed. *)
Finished(b) ==
  [b EXCEPT !.state = "finished", !.output = IF @ = "none" THEN "final" ELSE @]

(* Here a call that is not indexed is added without a look at the limit. *)
FinishTool(t, c) ==
  IF c \in DOMAIN t.index
  THEN [t EXCEPT !.blocks[t.index[c]] = IF @.kind = "Tool" THEN Finished(@) ELSE @]
  ELSE Indexed(Add(t, ToolBlock(c, "finished", "final")), c)

(* RunStarted forgets the calls of earlier runs; RunFinished adds nothing. *)
Reduce(t, e) ==
  CASE e.kind = "RunStarted"    -> [t EXCEPT !.index = [c \in {} |-> 0]]
    [] e.kind = "TextDelta"     -> AddText(t)
    [] e.kind = "ProviderError" -> Push(t, Plainly("Error"))
    [] e.kind = "ToolStarted"   -> StartTool(t, e.call)
    [] e.kind = "ToolOutput"    -> AddOutput(t, e.call)
    [] e.kind = "ToolFinished"  -> FinishTool(t, e.call)
    [] e.kind = "RunAborted"    -> Push(t, Plainly("System"))
    [] e.kind = "RunFailed"     -> Push(t, Plainly("Error"))
    [] OTHER                    -> t

(* Blocks are numbered in the order of their creation; a step makes one at *)
(* most.                                                                   *)
Newest(t)  == t.blocks[Len(t.blocks)]
Counted(t) ==
  pushed' = IF t.blocks # <<>> /\ Newest(t).number > pushed THEN pushed + 1 ELSE pushed

(* A step of the run, and what the frontend makes of it. *)
RunStep ==
  /\ Next
  /\ runs' = IF phase' = "Allocated" /\ phase # "Allocated" THEN runs + 1 ELSE runs
  /\ transcript' = IF runs' # runs THEN Accepted(transcript)
                   ELSE IF log' # log THEN Reduce(transcript, log'[Len(log')])
                   ELSE transcript
  /\ Counted(transcript')
  /\ failed' = IF result' = "Err" THEN failed \cup {runs'} ELSE failed

-----------------------------------------------------------------------------
(***************************************************************************)
(* The user, between the events of two runs.                               *)
(***************************************************************************)

NotRunning == phase \in {"Ready", "Ended"}

(* A command's result or error, and the error of a prompt. *)
ShowMessage(k) ==
  /\ NotRunning
  /\ transcript' = Push(transcript, Plainly(k))
  /\ Counted(transcript')
  /\ UNCHANGED <<vars, runs, failed>>

(* command_cancelled does not enforce the limit. *)
ShowCancelled ==
  /\ NotRunning
  /\ transcript' = Add(transcript, Plainly("System"))
  /\ Counted(transcript')
  /\ UNCHANGED <<vars, runs, failed>>

Selectable == {i \in DOMAIN transcript.blocks : IsExpandable(transcript.blocks[i])}

FirstOf(S) == CHOOSE i \in S : \A j \in S : i <= j
LastOf(S)  == CHOOSE i \in S : \A j \in S : j <= i

(* Tab, End and Up without a selection take the last, Home and Down the    *)
(* first; Up and Down go to the neighbour, if there is one.                *)
NextChoices ==
  LET current == transcript.selected
      above   == {i \in Selectable : i < current}
      below   == {i \in Selectable : i > current}
  IN  {FirstOf(Selectable), LastOf(Selectable)}
        \cup (IF current \in Selectable /\ above # {} THEN {LastOf(above)} ELSE {})
        \cup (IF current \in Selectable /\ below # {} THEN {FirstOf(below)} ELSE {})

Select ==
  /\ transcript' \in {[transcript EXCEPT !.selected = i] :
                        i \in IF Selectable = {} THEN {0} ELSE NextChoices}
  /\ UNCHANGED <<vars, runs, pushed, failed>>

(* Esc *)
Deselect ==
  /\ transcript' = [transcript EXCEPT !.selected = 0]
  /\ UNCHANGED <<vars, runs, pushed, failed>>

TranscriptNext ==
  \/ RunStep
  \/ \E k \in {"System", "Error"} : ShowMessage(k)
  \/ ShowCancelled \/ Select \/ Deselect

TranscriptSpec == TranscriptInit /\ [][TranscriptNext]_<<vars, transcriptVars>>

-----------------------------------------------------------------------------
(***************************************************************************)
(* Properties.                                                             *)
(***************************************************************************)

(* The call that is being executed has its block, wherever the limit has   *)
(* moved it, so its output is shown with it and with no other call.        *)
(* Conversely a tool is shown as running only while it is, except that a   *)
(* run that fails in a tool never says how the tool ended.                 *)
OpenCallShown ==
  /\ \A c \in open :
       /\ c \in DOMAIN transcript.index
       /\ LET b == transcript.blocks[transcript.index[c]]
          IN  b.kind = "Tool" /\ b.call = c /\ b.from = {runs} /\ b.state = "running"
  /\ \A i \in DOMAIN transcript.blocks :
       LET b == transcript.blocks[i]
       IN  b.state = "running" => \/ b.call \in open /\ b.from = {runs}
                                  \/ b.from \subseteq failed

(* Text of two runs is never merged into one block, although a delta just  *)
(* goes on the last block (handle_agent_event, "never appended to a new    *)
(* run's blocks").                                                         *)
TextNotMixed ==
  \A i \in DOMAIN transcript.blocks :
    \A r, s \in transcript.blocks[i].from : r = s

(* What is on the screen is what the runs have done.                       *)
BlocksFaithful == OpenCallShown /\ TextNotMixed

(* "the transcript [has] bounded memory" (tui.md): the limit is exceeded   *)
(* only by messages of cancelled commands, and only until the next prompt  *)
(* or message.                                                             *)
BlocksBounded ==
  Len(transcript.blocks) > MaxBlocks => NotRunning /\ LastIs(transcript, "System")

(* The number of the selected block, 0 for none. *)
Chosen(t) == IF t.selected = 0 THEN 0 ELSE t.blocks[t.selected].number

Shows(t, number) == \E i \in DOMAIN t.blocks : t.blocks[i].number = number

(* Whatever is added, the selection stays on the block the user chose, and *)
(* is given up only with that block: it never moves to another one, which  *)
(* Enter would then expand.                                                *)
SelectionStays ==
  [][pushed' # pushed =>
       Chosen(transcript') = IF Shows(transcript', Chosen(transcript))
                             THEN Chosen(transcript) ELSE 0]_<<vars, transcriptVars>>
=============================================================================
