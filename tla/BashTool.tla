------------------------------ MODULE BashTool ------------------------------
(***************************************************************************)
(* The bash tool (coding_agent/tools/bash.rs): one call of                 *)
(* BashTool::execute after another, with everything it owns.               *)
(*                                                                         *)
(* Six parties interleave: the execution future (a select over the output  *)
(* channel, the exit of the shell, the cancellation token and the timeout),*)
(* one reader thread per pipe, the thread that reaps the shell, the shell, *)
(* a descendant the shell leaves in the background, and the forwarder that *)
(* takes the output on to the frontend.  A step of the future ends where   *)
(* the code awaits.  The text of a line is abstracted to its kind:         *)
(*   "text"    a line of the command's output                              *)
(*   "bad"     a line that is not UTF-8, on which BufRead::lines fails     *)
(*   "marker"  the line with which the appended `echo` reports $(pwd)      *)
(*   "glued"   the same report behind output that did not end in a newline *)
(* and the lines of the command are numbered.                              *)
(***************************************************************************)
EXTENDS Naturals, Sequences, SequencesExt

CONSTANTS
  MaxCalls,     (* bound on the calls of execute                            *)
  MaxLines,     (* bound on the lines the command of one call prints        *)
  ChannelCap,   (* 256 in the code                                          *)
  EmitCap,      (* capacity of ToolExecutionContext::output_tx              *)
  Dirs, Home    (* directories, and the one the session starts in           *)

ASSUME BashAssumption ==
  /\ MaxCalls \in Nat /\ MaxLines \in Nat
  /\ ChannelCap \in Nat \ {0} /\ EmitCap \in Nat \ {0}
  /\ Home \in Dirs

VARIABLES
  (* the tool and the future of the current call *)
  cwd,          (* shared_cwd                                               *)
  pc,           (* "idle", "loop", "emitting", "dropping" or "over"         *)
  flags,        (* those of outputDone, reapDone, aborted, timedOut set     *)
  held,         (* the chunk whose ToolOutput is being sent, as a sequence  *)
  output,       (* full_output, as a sequence of chunks                     *)
  exitCode,     (* the code the reap thread reported, "none" for None       *)
  pgid,         (* ChildLifecycle.pgid is still Some                        *)
  outcome,      (* what execute returned                                    *)
  cancelled,    (* the run's token                                          *)
  (* what the call owns *)
  chan,         (* the output channel                                       *)
  open,         (* its receiver exists                                      *)
  reader,       (* per pipe: "none", "reading" or "done"                    *)
  reaper,       (* "none", "waiting" or "done"                              *)
  reapq,        (* the channel of the exit code                             *)
  (* the processes *)
  shell,        (* "none", "running", "zombie" or "reaped"                  *)
  status,       (* how it ended: "zero", "nonzero" or "signal"              *)
  shellDir,     (* its working directory                                    *)
  child,        (* "none", "group", "escaped" or "dead"                     *)
  holds,        (* the descendant still holds the pipes                     *)
  pipe,         (* lines written to each pipe and not yet read              *)
  (* the forwarder *)
  emitq,        (* ToolOutput on its way to the frontend                    *)
  (* history, read by the properties only *)
  calls,        (* calls started                                            *)
  startDir,     (* cwd when the call started                                *)
  written,      (* lines written to each pipe                               *)
  shown         (* chunks the frontend has been sent                        *)

futureVars  == <<cwd, pc, flags, held, output, exitCode, outcome>>
threadVars  == <<reader, reaper, reapq>>
processVars == <<shell, status, shellDir, child, holds>>
history     == <<calls, startDir, written, shown>>
vars == <<cwd, pc, flags, held, output, exitCode, pgid, outcome, cancelled,
          chan, open, reader, reaper, reapq, shell, status, shellDir, child,
          holds, pipe, emitq, calls, startDir, written, shown>>

Streams == {"Stdout", "Stderr"}
Line    == [kind : {"text"}, nr : 0 .. MaxLines] \cup [kind : {"bad"}]
             \cup [kind : {"marker", "glued"}, dir : Dirs]
Chunk   == [stream : Streams, line : Line]
Flags   == {"outputDone", "reapDone", "aborted", "timedOut"}

Text(n)   == [kind |-> "text", nr |-> n]
Bad       == [kind |-> "bad"]
Report(k) == [kind |-> k, dir |-> shellDir]

Stopped == flags \cap {"aborted", "timedOut"} # {}
Busy    == pc \in {"loop", "emitting", "dropping"}

Init ==
  /\ cwd = Home /\ pc = "idle" /\ flags = {} /\ held = <<>> /\ output = <<>>
  /\ exitCode = "none" /\ pgid = FALSE /\ outcome = "none" /\ cancelled = FALSE
  /\ chan = <<>> /\ open = FALSE
  /\ reader = [s \in Streams |-> "none"] /\ reaper = "none" /\ reapq = <<>>
  /\ shell = "none" /\ status = "zero" /\ shellDir = Home
  /\ child = "none" /\ holds = FALSE /\ pipe = [s \in Streams |-> <<>>]
  /\ emitq = <<>> /\ calls = 0 /\ startDir = Home
  /\ written = [s \in Streams |-> <<>>] /\ shown = <<>>

-----------------------------------------------------------------------------
(* Starting a call. *)

(* The token of the run: whoever holds it may cancel at any moment. *)
Cancel ==
  /\ ~cancelled
  /\ cancelled' = TRUE
  /\ UNCHANGED <<futureVars, pgid, chan, open, threadVars, processVars, pipe,
                 emitq, history>>

(* The agent asks for the next call; the run may be a new one. *)
NextCall ==
  /\ pc = "over"
  /\ calls < MaxCalls
  /\ pc' = "idle"
  /\ cancelled' = FALSE
  /\ flags' = {} /\ held' = <<>> /\ output' = <<>> /\ exitCode' = "none"
  /\ outcome' = "none" /\ pgid' = FALSE /\ chan' = <<>> /\ open' = FALSE
  /\ reader' = [s \in Streams |-> "none"] /\ reaper' = "none" /\ reapq' = <<>>
  /\ shell' = "none" /\ status' = "zero" /\ child' = "none" /\ holds' = FALSE
  /\ pipe' = [s \in Streams |-> <<>>] /\ emitq' = <<>>
  /\ written' = [s \in Streams |-> <<>>] /\ shown' = <<>>
  /\ UNCHANGED <<cwd, shellDir, calls, startDir>>

Spawn ==
  /\ pc = "idle"
  /\ calls < MaxCalls
  /\ calls' = calls + 1
  /\ shellDir' = cwd
  /\ startDir' = cwd

(* Child, readers and reaper are started without an await in between. *)
Start ==
  /\ Spawn
  /\ ~cancelled
  /\ pc' = "loop"
  /\ pgid' = TRUE /\ open' = TRUE
  /\ reader' = [s \in Streams |-> "reading"] /\ reaper' = "waiting"
  /\ shell' = "running"
  /\ UNCHANGED <<cwd, flags, held, output, exitCode, outcome, cancelled, chan,
                 reapq, status, child, holds, pipe, emitq, written, shown>>

(* Already cancelled: the group is killed and reaped before anything reads. *)
StartAborted ==
  /\ Spawn
  /\ cancelled
  /\ pc' = "over" /\ outcome' = "aborted"
  /\ shell' = "reaped" /\ status' = "signal"
  /\ UNCHANGED <<cwd, flags, held, output, exitCode, pgid, cancelled, chan, open,
                 threadVars, child, holds, pipe, emitq, written, shown>>

(* `spawn()?`: for one, when the working directory no longer exists. *)
SpawnFails ==
  /\ Spawn
  /\ pc' = "over" /\ outcome' = "error"
  /\ UNCHANGED <<cwd, flags, held, output, exitCode, pgid, cancelled, chan, open,
                 threadVars, shell, status, child, holds, pipe, emitq, written,
                 shown>>

-----------------------------------------------------------------------------
(* ChildLifecycle. *)

(* kill: SIGKILL to the process group, once; a descendant that has left the *)
(* group is not reached.                                                    *)
Killed(yes) ==
  LET hit == yes /\ pgid
  IN  /\ pgid'   = (pgid /\ ~yes)
      /\ shell'  = IF hit /\ shell = "running" THEN "zombie" ELSE shell
      /\ status' = IF hit /\ shell = "running" THEN "signal" ELSE status
      /\ child'  = IF hit /\ child = "group" THEN "dead" ELSE child
      /\ UNCHANGED <<shellDir, holds>>

NotJoined == TRUE    \* mutant: the threads are detached

(* join_threads has returned. *)
Joined == (\A s \in Streams : reader[s] = "done") /\ reaper = "done"

-----------------------------------------------------------------------------
(* The select loop of execute. *)

NeverKilled == FALSE    \* mutant: a reaped shell leaves its group alone

(* The exit of the shell closes the group only while a pipe is still open. *)
GroupOutlivesShell == "outputDone" \notin flags

UntilReaped == "reapDone" \in flags    \* mutant: what is in the channel is lost

LoopDone == {"outputDone", "reapDone"} \subseteq flags

InLoop == pc = "loop" /\ ~LoopDone

(* A chunk arrives: it is shown unless the call has been stopped. *)
Receive ==
  /\ InLoop /\ chan # <<>>
  /\ chan' = Tail(chan)
  /\ IF Stopped
       THEN /\ output' = Append(output, Head(chan))
            /\ UNCHANGED <<pc, held>>
       ELSE /\ pc' = "emitting"
            /\ held' = <<Head(chan)>>
            /\ UNCHANGED output
  /\ UNCHANGED <<cwd, flags, exitCode, pgid, outcome, cancelled, open, threadVars,
                 processVars, pipe, emitq, history>>

(* output_tx.send(..).await has found room.  Nothing else of the call moves *)
(* while it waits, the token and the timeout included.                      *)
Emit ==
  /\ pc = "emitting" /\ Len(emitq) < EmitCap
  /\ emitq' = emitq \o held
  /\ output' = output \o held
  /\ held' = <<>>
  /\ pc' = "loop"
  /\ UNCHANGED <<cwd, flags, exitCode, pgid, outcome, cancelled, chan, open,
                 threadVars, processVars, pipe, history>>

(* Both readers are gone and the channel is drained. *)
OutputClosed ==
  /\ InLoop /\ "outputDone" \notin flags
  /\ chan = <<>> /\ \A s \in Streams : reader[s] = "done"
  /\ flags' = flags \cup {"outputDone"}
  /\ UNCHANGED <<cwd, pc, held, output, exitCode, pgid, outcome, cancelled, chan,
                 open, threadVars, processVars, pipe, emitq, history>>

SeeExit ==
  /\ InLoop /\ reapq # <<>>
  /\ exitCode' = Head(reapq)
  /\ reapq' = <<>>
  /\ flags' = flags \cup {"reapDone"}
  /\ Killed(GroupOutlivesShell)
  /\ UNCHANGED <<cwd, pc, held, output, outcome, cancelled, chan, open, reader,
                 reaper, pipe, emitq, history>>

SeeCancel ==
  /\ InLoop /\ cancelled /\ ~Stopped
  /\ flags' = flags \cup {"aborted"}
  /\ Killed(TRUE)
  /\ UNCHANGED <<cwd, pc, held, output, exitCode, outcome, cancelled, chan, open,
                 threadVars, pipe, emitq, history>>

(* The deadline of a call that was given a timeout. *)
SeeTimeout ==
  /\ InLoop /\ ~Stopped
  /\ flags' = flags \cup {"timedOut"}
  /\ Killed(TRUE)
  /\ UNCHANGED <<cwd, pc, held, output, exitCode, outcome, cancelled, chan, open,
                 threadVars, pipe, emitq, history>>

Reports(k) == { i \in 1 .. Len(output) : output[i].line.kind = k }

(* extract_cwd_and_clean_output: the last line that begins with the marker. *)
CwdAfter ==
  IF Reports("marker") = {} THEN cwd
  ELSE output[Max(Reports("marker"))].line.dir

TimeoutForgotten ==    \* mutant
  IF "aborted" \in flags THEN "aborted"
  ELSE IF exitCode = "nonzero" THEN "failed" ELSE "ok"

(* Abort first, then timeout, then the exit code; None is not an error. *)
Outcome ==
  IF "aborted" \in flags THEN "aborted"
  ELSE IF "timedOut" \in flags THEN "timedOut"
  ELSE IF exitCode = "nonzero" THEN "failed" ELSE "ok"

Return ==
  /\ pc = "loop" /\ LoopDone /\ Joined
  /\ pc' = "over"
  /\ pgid' = FALSE
  /\ cwd' = CwdAfter
  /\ outcome' = Outcome
  /\ open' = FALSE
  /\ UNCHANGED <<flags, held, output, exitCode, cancelled, chan, threadVars,
                 processVars, pipe, emitq, history>>

(* The future is dropped at an await: the receivers go first, then the      *)
(* lifecycle kills the group and blocks until its threads have ended.       *)
DropFuture ==
  /\ pc \in {"loop", "emitting"}
  /\ pc' = "dropping"
  /\ open' = FALSE /\ chan' = <<>> /\ reapq' = <<>> /\ held' = <<>>
  /\ Killed(TRUE)
  /\ UNCHANGED <<cwd, flags, output, exitCode, outcome, cancelled, reader, reaper,
                 pipe, emitq, history>>

DropDone ==
  /\ pc = "dropping" /\ Joined
  /\ pc' = "over" /\ outcome' = "dropped"
  /\ UNCHANGED <<cwd, flags, held, output, exitCode, pgid, cancelled, chan, open,
                 threadVars, processVars, pipe, emitq, history>>

-----------------------------------------------------------------------------
(* The reader threads and the reap thread. *)

Writers == shell = "running" \/ (child \in {"group", "escaped"} /\ holds)

(* A line is sent when the channel has room; a reader stops at a line that  *)
(* is not UTF-8 and when the receiver is gone.                              *)
ReadLine(s) ==
  /\ reader[s] = "reading" /\ pipe[s] # <<>>
  /\ pipe' = [pipe EXCEPT ![s] = Tail(@)]
  /\ IF Head(pipe[s]) = Bad \/ ~open
       THEN /\ reader' = [reader EXCEPT ![s] = "done"]
            /\ UNCHANGED chan
       ELSE /\ Len(chan) < ChannelCap
            /\ chan' = Append(chan, [stream |-> s, line |-> Head(pipe[s])])
            /\ UNCHANGED reader
  /\ UNCHANGED <<futureVars, pgid, cancelled, open, reaper, reapq, processVars,
                 emitq, history>>

ReadEnd(s) ==
  /\ reader[s] = "reading" /\ pipe[s] = <<>> /\ ~Writers
  /\ reader' = [reader EXCEPT ![s] = "done"]
  /\ UNCHANGED <<futureVars, pgid, cancelled, chan, open, reaper, reapq,
                 processVars, pipe, emitq, history>>

(* WIFEXITED: a shell that died of a signal has no exit code. *)
Code == IF status = "signal" THEN "none" ELSE status

(* waitpid returns, and its result is sent if anybody is left to read it. *)
Reap ==
  /\ reaper = "waiting" /\ shell = "zombie"
  /\ shell' = "reaped"
  /\ reaper' = "done"
  /\ reapq' = IF open THEN <<Code>> ELSE <<>>
  /\ UNCHANGED <<futureVars, pgid, cancelled, chan, open, reader, status, shellDir,
                 child, holds, pipe, emitq, history>>

-----------------------------------------------------------------------------
(* The shell, what it leaves in the background, and the forwarder. *)

Put(s, line) ==
  /\ pipe' = [pipe EXCEPT ![s] = Append(@, line)]
  /\ written' = [written EXCEPT ![s] = Append(@, line)]

ProcessStep ==
  UNCHANGED <<futureVars, pgid, cancelled, chan, open, threadVars, emitq, calls,
              startDir, shown>>

Printed == Len(written["Stdout"]) + Len(written["Stderr"])

(* A pipe nobody reads any more raises SIGPIPE in whoever writes to it. *)
ShellPrints(s, line) ==
  /\ shell = "running" /\ Printed < MaxLines
  /\ IF reader[s] = "reading"
       THEN Put(s, line) /\ UNCHANGED <<shell, status>>
       ELSE /\ shell' = "zombie" /\ status' = "signal"
            /\ UNCHANGED <<pipe, written>>
  /\ UNCHANGED <<shellDir, child, holds>>
  /\ ProcessStep

ChangeDir(d) ==
  /\ shell = "running" /\ d # shellDir
  /\ shellDir' = d
  /\ UNCHANGED <<shell, status, child, holds, pipe, written>>
  /\ ProcessStep

(* `cmd &`, with or without its output redirected. *)
Fork(keeps) ==
  /\ shell = "running" /\ child = "none"
  /\ child' = "group" /\ holds' = keeps
  /\ UNCHANGED <<shell, status, shellDir, pipe, written>>
  /\ ProcessStep

(* The command has ended and the appended `; echo MARKER:$(pwd)` runs: the  *)
(* shell exits with the status of the echo, whatever the command's was.     *)
FinishCommand(kind) ==
  /\ shell = "running"
  /\ shell' = "zombie"
  /\ IF reader["Stdout"] = "reading"
       THEN status' = "zero" /\ Put("Stdout", Report(kind))
       ELSE status' = "signal" /\ UNCHANGED <<pipe, written>>
  /\ UNCHANGED <<shellDir, child, holds>>
  /\ ProcessStep

(* `exit n` or a signal: the echo is never reached. *)
ShellEnds(how) ==
  /\ shell = "running"
  /\ shell' = "zombie" /\ status' = how
  /\ UNCHANGED <<shellDir, child, holds, pipe, written>>
  /\ ProcessStep

ChildPrints(s) ==
  /\ child \in {"group", "escaped"} /\ holds
  /\ reader[s] = "reading" /\ Printed < MaxLines
  /\ Put(s, Text(Printed))
  /\ UNCHANGED processVars
  /\ ProcessStep

ChildEnds ==
  /\ child \in {"group", "escaped"}
  /\ child' = "dead"
  /\ UNCHANGED <<shell, status, shellDir, holds, pipe, written>>
  /\ ProcessStep

(* setsid: the descendant is no longer a member of the group. *)
ChildEscapes ==
  /\ child = "group"
  /\ child' = "escaped"
  /\ UNCHANGED <<shell, status, shellDir, holds, pipe, written>>
  /\ ProcessStep

(* The engine's forwarder passes one chunk on. *)
Forward ==
  /\ emitq # <<>>
  /\ emitq' = Tail(emitq)
  /\ shown' = Append(shown, Head(emitq))
  /\ UNCHANGED <<futureVars, pgid, cancelled, chan, open, threadVars, processVars,
                 pipe, calls, startDir, written>>

-----------------------------------------------------------------------------
Future ==
  \/ Start \/ StartAborted \/ SpawnFails
  \/ Receive \/ Emit \/ OutputClosed \/ SeeExit \/ SeeCancel \/ SeeTimeout
  \/ Return \/ DropFuture \/ DropDone

Threads == Reap \/ \E s \in Streams : ReadLine(s) \/ ReadEnd(s)

Processes ==
  \/ \E s \in Streams : ShellPrints(s, Text(Printed)) \/ ShellPrints(s, Bad) \/ ChildPrints(s)
  \/ \E d \in Dirs : ChangeDir(d)
  \/ \E keeps \in BOOLEAN : Fork(keeps)
  \/ \E kind \in {"marker", "glued"} : FinishCommand(kind)
  \/ \E how \in {"zero", "nonzero", "signal"} : ShellEnds(how)
  \/ ChildEnds
  \/ ChildEscapes

Next == NextCall \/ Cancel \/ Future \/ Threads \/ Processes \/ Forward

(* The runtime polls a future that can move, and select picks its branches  *)
(* at random, so that a branch that is ready again and again is taken in    *)
(* the end; the operating system runs the threads; the forwarder drains.    *)
(* Nothing obliges the shell or its descendant to end, or a timeout to be   *)
(* set.                                                                     *)
Fairness ==
  /\ WF_vars(Receive) /\ WF_vars(Emit) /\ WF_vars(OutputClosed)
  /\ WF_vars(SeeExit) /\ SF_vars(SeeCancel)
  /\ WF_vars(Return) /\ WF_vars(DropDone) /\ WF_vars(Reap) /\ WF_vars(Forward)
  /\ \A s \in Streams : WF_vars(ReadLine(s)) /\ WF_vars(ReadEnd(s))

Spec == Init /\ [][Next]_vars /\ Fairness

-----------------------------------------------------------------------------
(* Properties. *)

TypeOK ==
  /\ cwd \in Dirs /\ shellDir \in Dirs /\ startDir \in Dirs
  /\ pc \in {"idle", "loop", "emitting", "dropping", "over"}
  /\ flags \subseteq Flags
  /\ held \in Seq(Chunk) /\ output \in Seq(Chunk) /\ shown \in Seq(Chunk)
  /\ chan \in Seq(Chunk) /\ emitq \in Seq(Chunk)
  /\ exitCode \in {"none", "zero", "nonzero"}
  /\ outcome \in {"none", "ok", "failed", "aborted", "timedOut", "error", "dropped"}
  /\ pgid \in BOOLEAN /\ cancelled \in BOOLEAN /\ open \in BOOLEAN /\ holds \in BOOLEAN
  /\ reader \in [Streams -> {"none", "reading", "done"}]
  /\ reaper \in {"none", "waiting", "done"}
  /\ reapq \in Seq({"none", "zero", "nonzero"})
  /\ shell \in {"none", "running", "zombie", "reaped"}
  /\ status \in {"zero", "nonzero", "signal"}
  /\ child \in {"none", "group", "escaped", "dead"}
  /\ pipe \in [Streams -> Seq(Line)] /\ written \in [Streams -> Seq(Line)]
  /\ calls \in 0 .. MaxCalls

(* However a call ends - normally, aborted, timed out or because its future *)
(* was dropped in the middle - no reader or reap thread is left behind, the *)
(* shell has been waited for (no zombie), and once the call was stopped by  *)
(* force the descendants in its group are dead too.                         *)
NothingLeftBehind ==
  pc = "over" /\ outcome # "error" =>
    /\ \A s \in Streams : reader[s] # "reading"
    /\ reaper # "waiting"
    /\ shell = "reaped"
    /\ outcome \in {"aborted", "timedOut", "dropped"} => child # "group"

(* The lines a reader passes on: those before the first that is not UTF-8. *)
Readable(lines) ==
  [k \in {n \in DOMAIN lines : \A m \in 1 .. n : lines[m] # Bad} |-> lines[k]]

(* The chunks of one pipe are these lines, each once and in this order.    *)
Carries(chunks, s, lines) ==
  \E at \in [DOMAIN lines -> DOMAIN chunks] :
    /\ \A j, k \in DOMAIN lines : j < k => at[j] < at[k]
    /\ \A k \in DOMAIN lines : chunks[at[k]] = [stream |-> s, line |-> lines[k]]
    /\ \A i \in DOMAIN chunks : chunks[i].stream = s => \E k \in DOMAIN lines : at[k] = i

(* A call that was not cut short reports every line its processes wrote, in *)
(* the order of each pipe, and the frontend is shown the same lines in the  *)
(* same order: nothing is lost between the pipe, the channel and the two    *)
(* ways out, whichever of them is slow, and nothing is shown twice.         *)
OutputComplete ==
  /\ IsPrefix(shown \o emitq, output)
  /\ outcome \in {"ok", "failed"} =>
       /\ shown \o emitq = output
       /\ \A s \in Streams : Carries(output, s, Readable(written[s]))

(* What the agent is told is what happened: a failure code is the shell's   *)
(* own, a call the tool itself killed is never reported as a result, and    *)
(* shared_cwd is where the shell stood when its command ended - or where it *)
(* was before, when the shell never came to say so on a line of its own.    *)
OutcomeTruthful ==
  /\ outcome = "failed" => status = "nonzero"
  /\ outcome = "ok" => status \in {"zero", "signal"} /\ ~Stopped
  /\ outcome \in {"ok", "failed"} =>
       cwd = IF Reports("marker") # {} THEN shellDir ELSE startDir
  /\ outcome \in {"error", "dropped"} => cwd = startDir

(* What the agent reads of a call is what its processes wrote and did.      *)
ResultTruthful == OutputComplete /\ OutcomeTruthful

(* A call ends once its shell is gone, for whatever reason: also when a     *)
(* descendant would hold the pipes open for ever, because the group is      *)
(* killed with it.  Cancelling a call, a timeout that fires and dropping    *)
(* the future all come to that.  Only a descendant outside the group that   *)
(* keeps a pipe can hold it up.                                             *)
CallEnds ==
  Busy /\ (cancelled \/ Stopped \/ shell \in {"zombie", "reaped"})
    ~> ~Busy \/ (child = "escaped" /\ holds)

(* bash.rs, on Drop: "The process group is killed before joins so blocked   *)
(* pipe reads and waitpid both become finite."                              *)
DropIsFinite == pc = "dropping" ~> pc = "over"
=============================================================================
