---------------------------- MODULE BashToolProofs ----------------------------
(***************************************************************************)
(* Proofs about BashTool, for any number of calls and lines and channels   *)
(* of any capacity: whichever way a call ends nothing is left running, and *)
(* what it reports is what its processes wrote and did.                    *)
(***************************************************************************)
EXTENDS BashTool, SequenceTheorems, WellFoundedInduction, TLAPS

-----------------------------------------------------------------------------
(* The greatest of a set of numbers below a bound. *)

LEMMA Greatest ==
  ASSUME NEW n \in Nat, NEW S, S \subseteq 1 .. n, S # {}
  PROVE  Max(S) \in S /\ \A i \in S : i <= Max(S)
<1> DEFINE T == {n - i : i \in S}
<1>1. T \subseteq Nat /\ T # {}
  <2>1. \A i \in S : i \in Nat /\ i <= n
    OBVIOUS
  <2>2. \A i \in S : n - i \in Nat
    BY <2>1
  <2>3. PICK i \in S : TRUE
    OBVIOUS
  <2> QED
    BY <2>2, <2>3
<1>2. PICK x \in T : \A y \in T : <<y, x>> \notin OpToRel(<, Nat)
  <2> HIDE DEF T
  <2> QED
    BY <1>1, NatLessThanWellFounded, WFMin
<1>3. \A y \in T : ~(y < x)
  BY <1>1, <1>2 DEF OpToRel
<1>4. PICK i \in S : x = n - i
  OBVIOUS
<1>5. \A j \in S : i >= j
  BY <1>3, <1>4
<1> QED
  BY <1>5 DEF Max

-----------------------------------------------------------------------------
(* Types. *)

ScalarsTyped ==
  /\ cwd \in Dirs /\ shellDir \in Dirs /\ startDir \in Dirs
  /\ pc \in {"idle", "loop", "emitting", "dropping", "over"}
  /\ flags \subseteq Flags
  /\ exitCode \in {"none", "zero", "nonzero"}
  /\ outcome \in {"none", "ok", "failed", "aborted", "timedOut", "error", "dropped"}
  /\ pgid \in BOOLEAN /\ cancelled \in BOOLEAN /\ open \in BOOLEAN /\ holds \in BOOLEAN
  /\ reader \in [Streams -> {"none", "reading", "done"}]
  /\ reaper \in {"none", "waiting", "done"}
  /\ reapq \in Seq({"none", "zero", "nonzero"})
  /\ shell \in {"none", "running", "zombie", "reaped"}
  /\ status \in {"zero", "nonzero", "signal"}
  /\ child \in {"none", "group", "escaped", "dead"}
  /\ calls \in 0 .. MaxCalls

QueuesTyped ==
  /\ held \in Seq(Chunk) /\ output \in Seq(Chunk) /\ shown \in Seq(Chunk)
  /\ chan \in Seq(Chunk) /\ emitq \in Seq(Chunk)
  /\ pipe \in [Streams -> Seq(Line)] /\ written \in [Streams -> Seq(Line)]

LEMMA TypesApart == TypeOK <=> ScalarsTyped /\ QueuesTyped
  BY DEF TypeOK, ScalarsTyped, QueuesTyped

LEMMA InitTyped == Init => TypeOK
<1>1. Init => ScalarsTyped
  <2> SUFFICES ASSUME Init PROVE ScalarsTyped
    OBVIOUS
  <2>1. calls \in 0 .. MaxCalls /\ flags \subseteq Flags /\ Home \in Dirs
    BY BashAssumption DEF Init
  <2>2. reapq \in Seq({"none", "zero", "nonzero"})
    BY DEF Init
  <2> QED
    BY <2>1, <2>2 DEF Init, ScalarsTyped
<1>2. Init => QueuesTyped
  BY DEF Init, QueuesTyped
<1> QED
  BY <1>1, <1>2, TypesApart

LEMMA LinesTyped ==
  ASSUME TypeOK
  PROVE  /\ Bad \in Line
         /\ \A kind \in {"marker", "glued"} : Report(kind) \in Line
         /\ Printed \in Nat
         /\ Printed < MaxLines => Text(Printed) \in Line
<1>1. Bad \in Line /\ \A kind \in {"marker", "glued"} : Report(kind) \in Line
  BY DEF TypeOK, Line, Bad, Report
<1>2. Printed \in Nat
  <2>1. PICK a \in Seq(Line), b \in Seq(Line) :
          a = written["Stdout"] /\ b = written["Stderr"]
    BY DEF TypeOK, Streams
  <2>2. Len(a) \in Nat /\ Len(b) \in Nat
    BY <2>1
  <2>3. Printed = Len(a) + Len(b)
    BY <2>1 DEF Printed
  <2> QED
    BY <2>2, <2>3
<1>3. Printed < MaxLines => Text(Printed) \in Line
  BY <1>2, BashAssumption DEF Text, Line
<1> QED
  BY <1>1, <1>2, <1>3

LEMMA PutTyped ==
  ASSUME TypeOK, NEW s \in Streams, NEW line \in Line, Put(s, line)
  PROVE  pipe' \in [Streams -> Seq(Line)] /\ written' \in [Streams -> Seq(Line)]
  BY DEF TypeOK, Put

(* The last report among the chunks that have come out.                    *)
LEMMA LastReport ==
  ASSUME output \in Seq(Chunk), NEW k \in {"marker", "glued"}, Reports(k) # {}
  PROVE  /\ Max(Reports(k)) \in DOMAIN output
         /\ output[Max(Reports(k))].line.kind = k
         /\ output[Max(Reports(k))].line.dir \in Dirs
<1>1. Reports(k) \subseteq 1 .. Len(output) /\ Len(output) \in Nat
  BY DEF Reports
<1>2. Max(Reports(k)) \in Reports(k)
  BY <1>1, Greatest
<1>3. Max(Reports(k)) \in 1 .. Len(output) /\ output[Max(Reports(k))].line.kind = k
  BY <1>2 DEF Reports
<1>4. output[Max(Reports(k))] \in Chunk
  BY <1>3
<1>5. \A c \in Chunk : c.line.kind = k => c.line.dir \in Dirs
  BY DEF Chunk, Line
<1> QED
  BY <1>3, <1>4, <1>5

(* What the future does. *)
LEMMA FutureTyped == TypeOK /\ Future => TypeOK'
<1> SUFFICES ASSUME TypeOK, Future PROVE TypeOK'
  OBVIOUS
<1>t. ScalarsTyped /\ QueuesTyped
  BY TypesApart
<1> USE DEF futureVars, threadVars, processVars, history
<1>1. CASE Start
  <2>1. ScalarsTyped'
    BY <1>1, <1>t, BashAssumption DEF Start, Spawn, ScalarsTyped
  <2>2. QueuesTyped'
    BY <1>1, <1>t DEF Start, QueuesTyped
  <2> QED
    BY <2>1, <2>2 DEF TypeOK, ScalarsTyped, QueuesTyped
<1>2. CASE StartAborted
  <2>1. ScalarsTyped'
    BY <1>2, <1>t, BashAssumption DEF StartAborted, Spawn, ScalarsTyped
  <2>2. QueuesTyped'
    BY <1>2, <1>t DEF StartAborted, QueuesTyped
  <2> QED
    BY <2>1, <2>2 DEF TypeOK, ScalarsTyped, QueuesTyped
<1>3. CASE SpawnFails
  <2>1. ScalarsTyped'
    BY <1>3, <1>t, BashAssumption DEF SpawnFails, Spawn, ScalarsTyped
  <2>2. QueuesTyped'
    BY <1>3, <1>t DEF SpawnFails, QueuesTyped
  <2> QED
    BY <2>1, <2>2 DEF TypeOK, ScalarsTyped, QueuesTyped
<1>4. CASE Receive
  <2>1. ScalarsTyped'
    BY <1>4, <1>t DEF Receive, InLoop, ScalarsTyped
  <2>2. Head(chan) \in Chunk /\ Tail(chan) \in Seq(Chunk)
    BY <1>4, <1>t DEF Receive, QueuesTyped
  <2>4. chan' \in Seq(Chunk) /\ output' \in Seq(Chunk) /\ held' \in Seq(Chunk)
    <3>1. Append(output, Head(chan)) \in Seq(Chunk) /\ <<Head(chan)>> \in Seq(Chunk)
      BY <1>t, <2>2 DEF QueuesTyped
    <3>2. chan' = Tail(chan) /\ output' \in {output, Append(output, Head(chan))}
             /\ held' \in {held, <<Head(chan)>>}
      BY <1>4 DEF Receive
    <3> QED
      BY <1>t, <2>2, <3>1, <3>2 DEF QueuesTyped
  <2>3. QueuesTyped'
    BY <1>4, <1>t, <2>4 DEF Receive, QueuesTyped
  <2> QED
    BY <2>1, <2>3 DEF TypeOK, ScalarsTyped, QueuesTyped
<1>5. CASE Emit
  <2>1. ScalarsTyped'
    BY <1>5, <1>t DEF Emit, ScalarsTyped
  <2>2. emitq \o held \in Seq(Chunk) /\ output \o held \in Seq(Chunk)
    BY <1>t DEF QueuesTyped
  <2>3. QueuesTyped'
    BY <1>5, <1>t, <2>2 DEF Emit, QueuesTyped
  <2> QED
    BY <2>1, <2>3 DEF TypeOK, ScalarsTyped, QueuesTyped
<1>6. CASE OutputClosed
  <2>1. ScalarsTyped'
    BY <1>6, <1>t DEF OutputClosed, ScalarsTyped, Flags
  <2>2. QueuesTyped'
    BY <1>6, <1>t DEF OutputClosed, QueuesTyped
  <2> QED
    BY <2>1, <2>2 DEF TypeOK, ScalarsTyped, QueuesTyped
<1>7. CASE SeeExit
  <2>1. ScalarsTyped'
    <3>1. Head(reapq) \in {"none", "zero", "nonzero"}
      BY <1>7, <1>t DEF SeeExit, ScalarsTyped
    <3> QED
      BY <1>7, <1>t, <3>1 DEF SeeExit, Killed, ScalarsTyped, Flags
  <2>2. QueuesTyped'
    BY <1>7, <1>t DEF SeeExit, QueuesTyped
  <2> QED
    BY <2>1, <2>2 DEF TypeOK, ScalarsTyped, QueuesTyped
<1>8. CASE SeeCancel
  <2>1. ScalarsTyped'
    BY <1>8, <1>t DEF SeeCancel, Killed, ScalarsTyped, Flags
  <2>2. QueuesTyped'
    BY <1>8, <1>t DEF SeeCancel, QueuesTyped
  <2> QED
    BY <2>1, <2>2 DEF TypeOK, ScalarsTyped, QueuesTyped
<1>9. CASE SeeTimeout
  <2>1. ScalarsTyped'
    BY <1>9, <1>t DEF SeeTimeout, Killed, ScalarsTyped, Flags
  <2>2. QueuesTyped'
    BY <1>9, <1>t DEF SeeTimeout, QueuesTyped
  <2> QED
    BY <2>1, <2>2 DEF TypeOK, ScalarsTyped, QueuesTyped
<1>10. CASE Return
  <2>1. CwdAfter \in Dirs
    BY <1>t, LastReport DEF CwdAfter, ScalarsTyped, QueuesTyped
  <2>2. ScalarsTyped'
    BY <1>10, <1>t, <2>1 DEF Return, Outcome, ScalarsTyped
  <2>3. QueuesTyped'
    BY <1>10, <1>t DEF Return, QueuesTyped
  <2> QED
    BY <2>2, <2>3 DEF TypeOK, ScalarsTyped, QueuesTyped
<1>11. CASE DropFuture
  <2>1. ScalarsTyped'
    <3>1. /\ pgid' \in BOOLEAN /\ shell' \in {"none", "running", "zombie", "reaped"}
          /\ status' \in {"zero", "nonzero", "signal"}
          /\ child' \in {"none", "group", "escaped", "dead"}
          /\ UNCHANGED <<shellDir, holds>>
      BY <1>11, <1>t DEF DropFuture, Killed, ScalarsTyped
    <3>2. reapq' \in Seq({"none", "zero", "nonzero"})
      BY <1>11 DEF DropFuture
    <3> QED
      BY <1>11, <1>t, <3>1, <3>2 DEF DropFuture, ScalarsTyped
  <2>2. QueuesTyped'
    BY <1>11, <1>t DEF DropFuture, QueuesTyped
  <2> QED
    BY <2>1, <2>2 DEF TypeOK, ScalarsTyped, QueuesTyped
<1>12. CASE DropDone
  <2>1. ScalarsTyped'
    BY <1>12, <1>t DEF DropDone, ScalarsTyped
  <2>2. QueuesTyped'
    BY <1>12, <1>t DEF DropDone, QueuesTyped
  <2> QED
    BY <2>1, <2>2 DEF TypeOK, ScalarsTyped, QueuesTyped
<1> QED
  BY <1>1, <1>2, <1>3, <1>4, <1>5, <1>6, <1>7, <1>8, <1>9, <1>10, <1>11, <1>12 DEF Future

(* What the threads of the call do. *)
LEMMA ThreadsTyped == TypeOK /\ Threads => TypeOK'
<1> SUFFICES ASSUME TypeOK, Threads PROVE TypeOK'
  OBVIOUS
<1>t. ScalarsTyped /\ QueuesTyped
  BY TypesApart
<1> USE DEF futureVars, threadVars, processVars, history
<1>1. CASE Reap
  <2>1. reapq' \in Seq({"none", "zero", "nonzero"})
    <3>1. Code \in {"none", "zero", "nonzero"}
      BY <1>t DEF Code, ScalarsTyped
    <3>2. <<Code>> \in Seq({"none", "zero", "nonzero"})
      BY <3>1
    <3> QED
      BY <1>1, <3>2 DEF Reap
  <2>2. ScalarsTyped'
    BY <1>1, <1>t, <2>1 DEF Reap, ScalarsTyped
  <2>3. QueuesTyped'
    BY <1>1, <1>t DEF Reap, QueuesTyped
  <2> QED
    BY <2>2, <2>3 DEF TypeOK, ScalarsTyped, QueuesTyped
<1>2. ASSUME NEW s \in Streams, ReadLine(s) PROVE TypeOK'
  <2>1. ScalarsTyped'
    BY <1>2, <1>t DEF ReadLine, ScalarsTyped
  <2>2. Head(pipe[s]) \in Line /\ Tail(pipe[s]) \in Seq(Line)
    BY <1>2, <1>t DEF ReadLine, QueuesTyped
  <2>3. [stream |-> s, line |-> Head(pipe[s])] \in Chunk
    BY <2>2 DEF Chunk
  <2>4. chan' \in Seq(Chunk)
    <3>1. chan' = chan \/ chan' = Append(chan, [stream |-> s, line |-> Head(pipe[s])])
      BY <1>2 DEF ReadLine
    <3>2. \A c \in Chunk : Append(chan, c) \in Seq(Chunk)
      BY <1>t DEF QueuesTyped
    <3> QED
      BY <1>t, <2>3, <3>1, <3>2 DEF QueuesTyped
  <2>5. pipe' \in [Streams -> Seq(Line)]
    BY <1>2, <1>t, <2>2 DEF ReadLine, QueuesTyped
  <2>6. QueuesTyped'
    BY <1>2, <1>t, <2>4, <2>5 DEF ReadLine, QueuesTyped
  <2> QED
    BY <2>1, <2>6 DEF TypeOK, ScalarsTyped, QueuesTyped
<1>3. ASSUME NEW s \in Streams, ReadEnd(s) PROVE TypeOK'
  <2>1. ScalarsTyped'
    BY <1>3, <1>t DEF ReadEnd, ScalarsTyped
  <2>2. QueuesTyped'
    BY <1>3, <1>t DEF ReadEnd, QueuesTyped
  <2> QED
    BY <2>1, <2>2 DEF TypeOK, ScalarsTyped, QueuesTyped
<1> QED
  BY <1>1, <1>2, <1>3 DEF Threads

(* What the processes do: at most one line is written, and nothing of the  *)
(* call moves.                                                             *)
LEMMA ProcessesShape ==
  ASSUME TypeOK, Processes
  PROVE  /\ UNCHANGED <<futureVars, pgid, cancelled, chan, open, threadVars, emitq, calls,
                        startDir, shown>>
         /\ \/ UNCHANGED <<pipe, written>>
            \/ \E s \in Streams, line \in Line : reader[s] = "reading" /\ Put(s, line)
<1> USE DEF ProcessStep
<1>1. ASSUME NEW s \in Streams, NEW line \in Line, ShellPrints(s, line)
      PROVE  /\ UNCHANGED <<futureVars, pgid, cancelled, chan, open, threadVars, emitq, calls,
                            startDir, shown>>
             /\ \/ UNCHANGED <<pipe, written>>
                \/ reader[s] = "reading" /\ Put(s, line)
  BY <1>1 DEF ShellPrints
<1>2. ASSUME NEW s \in Streams, ShellPrints(s, Text(Printed)) \/ ChildPrints(s)
      PROVE  Text(Printed) \in Line
  BY <1>2, LinesTyped DEF ShellPrints, ChildPrints
<1>3. ASSUME NEW s \in Streams, ChildPrints(s)
      PROVE  /\ UNCHANGED <<futureVars, pgid, cancelled, chan, open, threadVars, emitq, calls,
                            startDir, shown>>
             /\ reader[s] = "reading" /\ Put(s, Text(Printed))
  BY <1>3 DEF ChildPrints
<1>4. ASSUME NEW kind \in {"marker", "glued"}, FinishCommand(kind)
      PROVE  /\ UNCHANGED <<futureVars, pgid, cancelled, chan, open, threadVars, emitq, calls,
                            startDir, shown>>
             /\ \/ UNCHANGED <<pipe, written>>
                \/ "Stdout" \in Streams /\ Report(kind) \in Line
                   /\ reader["Stdout"] = "reading" /\ Put("Stdout", Report(kind))
  BY <1>4, LinesTyped DEF FinishCommand, Streams
<1>5. ASSUME \/ \E d \in Dirs : ChangeDir(d)
             \/ \E keeps \in BOOLEAN : Fork(keeps)
             \/ \E how \in {"zero", "nonzero", "signal"} : ShellEnds(how)
             \/ ChildEnds
             \/ ChildEscapes
      PROVE  UNCHANGED <<futureVars, pgid, cancelled, chan, open, threadVars, emitq, calls,
                         startDir, shown, pipe, written>>
  BY <1>5 DEF ChangeDir, Fork, ShellEnds, ChildEnds, ChildEscapes
<1> QED
  BY <1>1, <1>2, <1>3, <1>4, <1>5, LinesTyped DEF Processes

LEMMA ProcessesTyped == TypeOK /\ Processes => TypeOK'
<1> SUFFICES ASSUME TypeOK, Processes PROVE TypeOK'
  OBVIOUS
<1>t. ScalarsTyped /\ QueuesTyped
  BY TypesApart
<1>1. /\ shell' \in {"none", "running", "zombie", "reaped"}
      /\ status' \in {"zero", "nonzero", "signal"}
      /\ child' \in {"none", "group", "escaped", "dead"}
      /\ shellDir' \in Dirs /\ holds' \in BOOLEAN
  BY <1>t DEF ScalarsTyped, Processes, ShellPrints, ChildPrints, FinishCommand, ChangeDir, Fork,
              ShellEnds, ChildEnds, ChildEscapes, processVars
<1>2. UNCHANGED <<futureVars, pgid, cancelled, chan, open, threadVars, emitq, calls,
                  startDir, shown>>
  BY ProcessesShape
<1>3. pipe' \in [Streams -> Seq(Line)] /\ written' \in [Streams -> Seq(Line)]
  BY <1>t, ProcessesShape, PutTyped DEF QueuesTyped
<1>4. ScalarsTyped'
  BY <1>t, <1>1, <1>2 DEF ScalarsTyped, futureVars, threadVars
<1>5. QueuesTyped'
  BY <1>t, <1>2, <1>3 DEF QueuesTyped, futureVars
<1> QED
  BY <1>4, <1>5 DEF TypeOK, ScalarsTyped, QueuesTyped

LEMMA StepTyped == TypeOK /\ [Next]_vars => TypeOK'
<1> SUFFICES ASSUME TypeOK, [Next]_vars PROVE TypeOK'
  OBVIOUS
<1>t. ScalarsTyped /\ QueuesTyped
  BY TypesApart
<1> USE DEF futureVars, threadVars, processVars, history
<1>1. CASE NextCall
  <2>1. ScalarsTyped'
    <3>1. flags' \subseteq Flags /\ reapq' \in Seq({"none", "zero", "nonzero"})
      BY <1>1 DEF NextCall
    <3> QED
      BY <1>1, <1>t, <3>1 DEF NextCall, ScalarsTyped
  <2>2. QueuesTyped'
    BY <1>1, <1>t DEF NextCall, QueuesTyped
  <2> QED
    BY <2>1, <2>2 DEF TypeOK, ScalarsTyped, QueuesTyped
<1>2. CASE Cancel
  BY <1>2 DEF Cancel, TypeOK
<1>3. CASE Forward
  <2>1. ScalarsTyped'
    BY <1>3, <1>t DEF Forward, ScalarsTyped
  <2>2. emitq' \in Seq(Chunk) /\ shown' \in Seq(Chunk)
    BY <1>3, <1>t DEF Forward, QueuesTyped
  <2>3. QueuesTyped'
    BY <1>3, <1>t, <2>2 DEF Forward, QueuesTyped
  <2> QED
    BY <2>1, <2>3 DEF TypeOK, ScalarsTyped, QueuesTyped
<1>4. CASE UNCHANGED vars
  BY <1>4 DEF vars, TypeOK
<1> QED
  BY <1>1, <1>2, <1>3, <1>4, FutureTyped, ThreadsTyped, ProcessesTyped DEF Next

(* Type correctness, for any number of calls and lines.                    *)
THEOREM BashTypes == Spec => []TypeOK
  BY InitTyped, StepTyped, PTL DEF Spec

-----------------------------------------------------------------------------
(***************************************************************************)
(* What a call owns.                                                       *)
(***************************************************************************)

(* Nothing belongs to a call that has not started a process.               *)
NothingOwned ==
  /\ reader = [s \in Streams |-> "none"] /\ reaper = "none" /\ shell = "none"
  /\ child = "none"

(* The shell of a call that is under way is waited for by its reaper, and  *)
(* once the group has been killed nobody in it is alive.                   *)
Owned ==
  /\ \A s \in Streams : reader[s] # "none"
  /\ \/ reaper = "waiting" /\ shell \in {"running", "zombie"}
     \/ reaper = "done" /\ shell = "reaped"
  /\ Stopped \/ pc = "dropping" => ~pgid
  /\ ~pgid => shell # "running" /\ child # "group"

LeftInv ==
  /\ pc = "idle" \/ (pc = "over" /\ outcome = "error") => NothingOwned
  /\ Busy => Owned /\ outcome = "none"
  /\ pc = "idle" => flags = {} /\ outcome = "none"
  /\ NothingLeftBehind

LEMMA InitLeft == Init => LeftInv
  BY DEF Init, LeftInv, NothingOwned, Busy, NothingLeftBehind

LEMMA StepLeft == TypeOK /\ LeftInv /\ [Next]_vars => LeftInv'
<1> SUFFICES ASSUME TypeOK, LeftInv, [Next]_vars PROVE LeftInv'
  OBVIOUS
<1>t. ScalarsTyped
  BY TypesApart
<1> USE DEF futureVars, threadVars, processVars, history
<1>1. CASE NextCall
  BY <1>1 DEF NextCall, LeftInv, NothingOwned, Busy, NothingLeftBehind
<1>2. CASE Cancel \/ Forward \/ UNCHANGED vars
  BY <1>2 DEF Cancel, Forward, vars, LeftInv, NothingOwned, Owned, Stopped, Busy, NothingLeftBehind
<1>3. CASE Start
  BY <1>3, <1>t DEF Start, Spawn, LeftInv, NothingOwned, Owned, Stopped, Busy, NothingLeftBehind,
                    ScalarsTyped
<1>4. CASE StartAborted \/ SpawnFails
  BY <1>4, <1>t DEF StartAborted, SpawnFails, Spawn, LeftInv, NothingOwned, Busy, NothingLeftBehind,
                    ScalarsTyped
<1>5. CASE Receive \/ Emit
  BY <1>5, <1>t DEF Receive, Emit, InLoop, LeftInv, Owned, Stopped, Busy, NothingLeftBehind,
                    ScalarsTyped
<1>6. CASE OutputClosed
  BY <1>6, <1>t DEF OutputClosed, InLoop, LeftInv, Owned, Stopped, Busy, NothingLeftBehind,
                    ScalarsTyped
<1>7. CASE SeeExit
  BY <1>7, <1>t DEF SeeExit, Killed, InLoop, LeftInv, Owned, Stopped, Busy, NothingLeftBehind,
                    ScalarsTyped
<1>8. CASE SeeCancel \/ SeeTimeout
  BY <1>8, <1>t DEF SeeCancel, SeeTimeout, Killed, InLoop, LeftInv, Owned, Stopped, Busy,
                    NothingLeftBehind, ScalarsTyped
<1>9. CASE Return
  BY <1>9, <1>t DEF Return, Joined, Outcome, LeftInv, Owned, Stopped, Busy, NothingLeftBehind,
                    ScalarsTyped
<1>10. CASE DropFuture
  BY <1>10, <1>t DEF DropFuture, Killed, LeftInv, Owned, Stopped, Busy, NothingLeftBehind,
                    ScalarsTyped
<1>11. CASE DropDone
  BY <1>11, <1>t DEF DropDone, Joined, LeftInv, Owned, Stopped, Busy, NothingLeftBehind,
                    ScalarsTyped
<1>12. CASE Reap
  BY <1>12, <1>t DEF Reap, LeftInv, NothingOwned, Owned, Stopped, Busy, NothingLeftBehind,
                    ScalarsTyped
<1>13. ASSUME NEW s \in Streams, ReadLine(s) \/ ReadEnd(s) PROVE LeftInv'
  BY <1>13, <1>t DEF ReadLine, ReadEnd, LeftInv, NothingOwned, Owned, Stopped, Busy,
                    NothingLeftBehind, ScalarsTyped
<1>14. CASE Processes
  <2>1. /\ UNCHANGED <<pc, flags, outcome, pgid, reader, reaper>>
    BY <1>14, ProcessesShape
  <2>2. /\ shell' = shell \/ (shell = "running" /\ shell' = "zombie")
        /\ \/ child' = child
           \/ child = "none" /\ shell = "running" /\ child' = "group"
           \/ child \in {"group", "escaped"} /\ child' \in {"dead", "escaped"}
    BY <1>14 DEF Processes, ShellPrints, ChildPrints, FinishCommand, ChangeDir, Fork,
              ShellEnds, ChildEnds, ChildEscapes
  <2> QED
    BY <1>t, <2>1, <2>2 DEF LeftInv, NothingOwned, Owned, Stopped, Busy, NothingLeftBehind,
                    ScalarsTyped
<1> QED
  BY <1>1, <1>2, <1>3, <1>4, <1>5, <1>6, <1>7, <1>8, <1>9, <1>10, <1>11, <1>12, <1>13, <1>14
  DEF Next, Future, Threads

(* However a call ends - normally, aborted, timed out or dropped - no      *)
(* thread is left behind, the shell has been waited for, and after a call  *)
(* stopped by force the descendants in its group are dead.                 *)
THEOREM BashNothingLeftBehind == Spec => []NothingLeftBehind
<1>1. LeftInv => NothingLeftBehind
  BY DEF LeftInv
<1> QED
  BY <1>1, InitLeft, BashTypes, StepLeft, PTL DEF Spec

-----------------------------------------------------------------------------
(***************************************************************************)
(* The way of a line: from a pipe through the channel and the hands of the *)
(* future to the output, and from there to the frontend.                   *)
(***************************************************************************)

(* The chunks of the call, those still under way included.                 *)
flow == (output \o held) \o chan

LEMMA HeadMoves ==
  ASSUME NEW S, NEW o \in Seq(S), NEW c \in Seq(S), c # <<>>
  PROVE  /\ (o \o <<Head(c)>>) \o Tail(c) = o \o c
         /\ Append(o, Head(c)) \o Tail(c) = o \o c
<1>1. Head(c) \in S /\ Tail(c) \in Seq(S) /\ <<Head(c)>> \in Seq(S)
  BY HeadTailProperties
<1>2. <<Head(c)>> \o Tail(c) = c
  <2>1. Len(c) \in Nat \ {0}
    BY EmptySeq
  <2>2. SubSeq(c, 1, Len(c)) = <<c[1]>> \o SubSeq(c, 2, Len(c))
    BY <2>1, SubSeqRecursiveFirst
  <2>3. Head(c) = c[1]
    BY <2>1
  <2> QED
    BY <2>2, <2>3, SubSeqFull, TailIsSubSeq
<1>3. (o \o <<Head(c)>>) \o Tail(c) = o \o c
  BY <1>1, <1>2, ConcatAssociative
<1>4. Append(o, Head(c)) = o \o <<Head(c)>>
  BY <1>1, AppendIsConcat
<1> QED
  BY <1>3, <1>4

(* A chunk moves on: what has come out and what is under way stay.         *)
LEMMA FlowStays ==
  ASSUME TypeOK, (pc = "loop" => held = <<>>), Receive \/ Emit
  PROVE  flow' = flow
<1>t. /\ output \in Seq(Chunk) /\ held \in Seq(Chunk) /\ chan \in Seq(Chunk)
      /\ output \o held \in Seq(Chunk)
  BY DEF TypeOK
<1>1. CASE Receive /\ Stopped
  <2>1. /\ held = <<>> /\ held' = <<>> /\ chan # <<>> /\ chan' = Tail(chan)
        /\ output' = Append(output, Head(chan))
    BY <1>1 DEF Receive, InLoop
  <2>2. output' \o <<>> = output' /\ output \o <<>> = output
    <3>1. output' \in Seq(Chunk)
      BY <1>t, <2>1, HeadTailProperties, AppendProperties
    <3> QED
      BY <1>t, <3>1, ConcatEmptySeq
  <2> QED
    BY <1>t, <2>1, <2>2, HeadMoves DEF flow
<1>2. CASE Receive /\ ~Stopped
  <2>1. /\ held = <<>> /\ held' = <<Head(chan)>> /\ chan # <<>> /\ chan' = Tail(chan)
        /\ output' = output
    BY <1>2 DEF Receive, InLoop
  <2>2. output \o <<>> = output
    BY <1>t, ConcatEmptySeq
  <2> QED
    BY <1>t, <2>1, <2>2, HeadMoves DEF flow
<1>3. CASE Emit
  <2>1. output' = output \o held /\ held' = <<>> /\ chan' = chan
    BY <1>3 DEF Emit
  <2>2. (output \o held) \o <<>> = output \o held
    BY <1>t, ConcatEmptySeq
  <2> QED
    BY <2>1, <2>2 DEF flow
<1> QED
  BY <1>1, <1>2, <1>3

LEMMA FlowGrows ==
  ASSUME TypeOK, NEW c \in Chunk, chan' = Append(chan, c), UNCHANGED <<output, held>>
  PROVE  flow' = Append(flow, c)
<1>t. output \o held \in Seq(Chunk) /\ chan \in Seq(Chunk) /\ <<c>> \in Seq(Chunk)
  BY DEF TypeOK
<1>1. flow \in Seq(Chunk)
  BY <1>t, ConcatProperties DEF flow
<1>2. chan' = chan \o <<c>> /\ Append(flow, c) = flow \o <<c>>
  BY <1>t, <1>1, AppendIsConcat
<1>3. \A x, y, z \in Seq(Chunk) : (x \o y) \o z = x \o (y \o z)
  BY ConcatAssociative
<1>4. PICK p \in Seq(Chunk) : p = output \o held
  BY <1>t
<1>5. flow = p \o chan /\ flow' = p \o (chan \o <<c>>)
  BY <1>2, <1>4 DEF flow
<1>6. (p \o chan) \o <<c>> = p \o (chan \o <<c>>)
  BY <1>t, <1>3
<1> QED
  BY <1>2, <1>5, <1>6

-----------------------------------------------------------------------------
(* What the frontend is shown. *)

ShownInv ==
  /\ pc = "idle" => output = <<>> /\ shown = <<>> /\ emitq = <<>>
  /\ pc = "emitting" => ~Stopped
  /\ ~Stopped => shown \o emitq = output
  /\ \E u \in Seq(Chunk) : output = (shown \o emitq) \o u

LEMMA NothingShown == <<>> \in Seq(Chunk) /\ <<>> \o <<>> = <<>> /\ (<<>> \o <<>>) \o <<>> = <<>>
  BY EmptySeq, ConcatEmptySeq

LEMMA InitShown == Init => ShownInv
  BY NothingShown DEF Init, ShownInv

LEMMA StepShown == TypeOK /\ ShownInv /\ [Next]_vars => ShownInv'
<1> SUFFICES ASSUME TypeOK, ShownInv, [Next]_vars PROVE ShownInv'
  OBVIOUS
<1>t. /\ output \in Seq(Chunk) /\ shown \in Seq(Chunk) /\ emitq \in Seq(Chunk)
      /\ held \in Seq(Chunk) /\ chan \in Seq(Chunk) /\ shown \o emitq \in Seq(Chunk)
  BY DEF TypeOK
<1> USE DEF futureVars, threadVars, processVars, history
<1>1. CASE NextCall
  BY <1>1, NothingShown DEF NextCall, ShownInv
<1>2. CASE Receive
  <2>1. CASE Stopped
    <3>1. /\ output' = Append(output, Head(chan)) /\ Head(chan) \in Chunk /\ pc' = "loop"
          /\ UNCHANGED <<flags, shown, emitq>>
      BY <1>2, <1>t, <2>1, HeadTailProperties DEF Receive, InLoop
    <3>2. PICK u \in Seq(Chunk) : output = (shown \o emitq) \o u
      BY DEF ShownInv
    <3>3. u \o <<Head(chan)>> \in Seq(Chunk)
      BY <3>1, ConcatProperties
    <3>4. output' = (shown \o emitq) \o (u \o <<Head(chan)>>)
      <4>1. output' = output \o <<Head(chan)>>
        BY <1>t, <3>1, AppendIsConcat
      <4>2. <<Head(chan)>> \in Seq(Chunk)
        BY <3>1
      <4>3. PICK x, y \in Seq(Chunk) : x = shown \o emitq /\ y = <<Head(chan)>>
        BY <1>t, <4>2
      <4>4. (x \o u) \o y = x \o (u \o y)
        <5>1. \A r, v, z \in Seq(Chunk) : (r \o v) \o z = r \o (v \o z)
          BY ConcatAssociative
        <5> QED
          BY <5>1
      <4>5. output = x \o u
        BY <3>2, <4>3
      <4>6. output' = (x \o u) \o y
        BY <4>1, <4>3, <4>5
      <4>7. output' = x \o (u \o y)
        BY <4>4, <4>6
      <4> QED
        BY <4>3, <4>7
    <3>5. Stopped'
      BY <2>1, <3>1 DEF Stopped
    <3> QED
      BY <3>1, <3>3, <3>4, <3>5 DEF ShownInv
  <2>2. CASE ~Stopped
    <3>1. UNCHANGED <<output, flags, shown, emitq>> /\ pc' = "emitting"
      BY <1>2, <2>2 DEF Receive
    <3> QED
      BY <2>2, <3>1 DEF ShownInv, Stopped
  <2> QED
    BY <2>1, <2>2
<1>3. CASE Emit
  <2>1. /\ emitq' = emitq \o held /\ output' = output \o held /\ pc' = "loop"
        /\ UNCHANGED <<flags, shown>> /\ ~Stopped
    BY <1>3 DEF Emit, ShownInv
  <2>2. shown' \o emitq' = (shown \o emitq) \o held
    <3>1. (shown \o emitq) \o held = shown \o (emitq \o held)
      BY <1>t, ConcatAssociative
    <3> QED
      BY <2>1, <3>1
  <2>3. shown' \o emitq' = output' /\ output' \in Seq(Chunk)
    BY <1>t, <2>1, <2>2, ConcatProperties DEF ShownInv
  <2>4. output' = (shown' \o emitq') \o <<>>
    BY <2>3, ConcatEmptySeq
  <2> QED
    BY <2>1, <2>3, <2>4, NothingShown DEF ShownInv, Stopped
<1>4. CASE Forward
  <2>1. shown' \o emitq' = shown \o emitq
    BY <1>4, <1>t, HeadMoves DEF Forward
  <2>2. UNCHANGED <<output, pc, flags>> /\ pc # "idle"
    BY <1>4 DEF Forward, ShownInv
  <2> QED
    BY <2>1, <2>2 DEF ShownInv, Stopped
<1>5. CASE OutputClosed \/ SeeExit
  BY <1>5 DEF OutputClosed, SeeExit, InLoop, ShownInv, Stopped
<1>6. CASE SeeCancel \/ SeeTimeout
  BY <1>6 DEF SeeCancel, SeeTimeout, InLoop, ShownInv, Stopped
<1>7. CASE Start \/ StartAborted \/ SpawnFails \/ Return \/ DropFuture \/ DropDone
  BY <1>7 DEF Start, StartAborted, SpawnFails, Return, DropFuture, DropDone, ShownInv, Stopped
<1>8. CASE Threads \/ Cancel
  BY <1>8 DEF Threads, Reap, ReadLine, ReadEnd, Cancel, ShownInv, Stopped
<1>9. CASE Processes
  <2>1. UNCHANGED <<pc, flags, output, shown, emitq>>
    BY <1>9, ProcessesShape
  <2> QED
    BY <2>1 DEF ShownInv, Stopped
<1>10. CASE UNCHANGED vars
  BY <1>10 DEF vars, ShownInv, Stopped
<1> QED
  BY <1>1, <1>2, <1>3, <1>4, <1>5, <1>6, <1>7, <1>8, <1>9, <1>10 DEF Next, Future

-----------------------------------------------------------------------------
(* No line is lost, repeated or overtaken on its way. *)

First(w, n) == [k \in 1 .. n |-> w[k]]

(* Just the first n lines of pipe s have been passed on; the reader that   *)
(* is still at work has the others before it, and one that is done has     *)
(* found the end or a line it cannot read.                                 *)
Passed(s, n) ==
  /\ n \in 0 .. Len(written[s])
  /\ Carries(flow, s, First(written[s], n))
  /\ \A k \in 1 .. n : written[s][k] # Bad
  /\ reader[s] = "reading" =>
       /\ Len(written[s]) = n + Len(pipe[s])
       /\ \A k \in 1 .. Len(pipe[s]) : pipe[s][k] = written[s][n + k]
  /\ reader[s] = "done" => n = Len(written[s]) \/ written[s][n + 1] = Bad

Working == pc \in {"loop", "emitting"}

FlowInv ==
  /\ pc = "idle" => /\ output = <<>> /\ held = <<>> /\ chan = <<>>
                    /\ \A s \in Streams : pipe[s] = <<>> /\ written[s] = <<>>
  /\ pc = "loop" => held = <<>>
  /\ Working =>
       /\ open
       /\ "outputDone" \in flags => chan = <<>> /\ \A s \in Streams : reader[s] = "done"
       /\ \A s \in Streams : \E n \in Nat : Passed(s, n)

LEMMA CarriesMeans ==
  ASSUME NEW chunks, NEW s, NEW w, NEW n \in Nat
  PROVE  Carries(chunks, s, First(w, n)) <=>
           \E at \in [1 .. n -> DOMAIN chunks] :
             /\ \A j, k \in 1 .. n : j < k => at[j] < at[k]
             /\ \A k \in 1 .. n : chunks[at[k]] = [stream |-> s, line |-> w[k]]
             /\ \A i \in DOMAIN chunks : chunks[i].stream = s => \E k \in 1 .. n : at[k] = i
<1>1. PICK f : f = First(w, n)
  OBVIOUS
<1>2. DOMAIN f = 1 .. n /\ \A k \in 1 .. n : f[k] = w[k]
  BY <1>1 DEF First
<1>3. ASSUME NEW at
      PROVE  (\A k \in DOMAIN f : chunks[at[k]] = [stream |-> s, line |-> f[k]]) <=>
             (\A k \in 1 .. n : chunks[at[k]] = [stream |-> s, line |-> w[k]])
  BY <1>2
<1>4. Carries(chunks, s, f) <=>
        \E at \in [DOMAIN f -> DOMAIN chunks] :
          /\ \A j, k \in DOMAIN f : j < k => at[j] < at[k]
          /\ \A k \in 1 .. n : chunks[at[k]] = [stream |-> s, line |-> w[k]]
          /\ \A i \in DOMAIN chunks : chunks[i].stream = s => \E k \in DOMAIN f : at[k] = i
  BY <1>3, Zenon DEF Carries
<1> QED
  BY <1>1, <1>2, <1>4

LEMMA CarriesNothing ==
  ASSUME NEW s, NEW w
  PROVE  Carries(<<>>, s, First(w, 0))
<1>1. DOMAIN First(w, 0) = {} /\ DOMAIN <<>> = {}
  BY DEF First
<1>2. [i \in {} |-> i] \in [DOMAIN First(w, 0) -> DOMAIN <<>>]
  BY <1>1
<1> QED
  BY <1>1, <1>2 DEF Carries

LEMMA CarriesOther ==
  ASSUME NEW chunks \in Seq(Chunk), NEW s, NEW w, NEW n \in Nat, NEW c \in Chunk, c.stream # s,
         Carries(chunks, s, First(w, n))
  PROVE  Carries(Append(chunks, c), s, First(w, n))
<1> DEFINE more == Append(chunks, c)
<1>1. /\ DOMAIN chunks = 1 .. Len(chunks) /\ DOMAIN more = 1 .. Len(chunks) + 1
      /\ Len(chunks) \in Nat
      /\ \A i \in DOMAIN chunks : i \in DOMAIN more /\ more[i] = chunks[i]
      /\ more[Len(chunks) + 1] = c
  OBVIOUS
<1> HIDE DEF more
<1>2. PICK at \in [DOMAIN First(w, n) -> DOMAIN chunks] :
        /\ \A j, k \in DOMAIN First(w, n) : j < k => at[j] < at[k]
        /\ \A k \in DOMAIN First(w, n) : chunks[at[k]] = [stream |-> s, line |-> First(w, n)[k]]
        /\ \A i \in DOMAIN chunks : chunks[i].stream = s => \E k \in DOMAIN First(w, n) : at[k] = i
  BY DEF Carries
<1>3. at \in [DOMAIN First(w, n) -> DOMAIN more]
  BY <1>1, <1>2
<1>4. \A k \in DOMAIN First(w, n) : more[at[k]] = [stream |-> s, line |-> First(w, n)[k]]
  BY <1>1, <1>2
<1>5. \A i \in DOMAIN more : more[i].stream = s => i \in DOMAIN chunks /\ chunks[i].stream = s
  BY <1>1
<1>6. \A i \in DOMAIN more : more[i].stream = s => \E k \in DOMAIN First(w, n) : at[k] = i
  BY <1>2, <1>5
<1> QED
  BY <1>2, <1>3, <1>4, <1>6 DEF Carries, more

LEMMA CarriesNext ==
  ASSUME NEW chunks \in Seq(Chunk), NEW s, NEW w, NEW n \in Nat, NEW c \in Chunk,
         c = [stream |-> s, line |-> w[n + 1]],
         Carries(chunks, s, First(w, n))
  PROVE  Carries(Append(chunks, c), s, First(w, n + 1))
<1> DEFINE more == Append(chunks, c)
           m    == Len(chunks) + 1
<1>1. /\ DOMAIN chunks = 1 .. Len(chunks) /\ DOMAIN more = 1 .. m
      /\ Len(chunks) \in Nat /\ m \in Nat /\ m \in DOMAIN more
      /\ \A i \in DOMAIN chunks : i \in DOMAIN more /\ more[i] = chunks[i]
      /\ \A i \in DOMAIN chunks : i \in Nat /\ i < m
      /\ \A i \in DOMAIN more : i \in DOMAIN chunks \/ i = m
      /\ more[m] = c
  OBVIOUS
<1> HIDE DEF more, m
<1>2. PICK at \in [1 .. n -> DOMAIN chunks] :
        /\ \A j, k \in 1 .. n : j < k => at[j] < at[k]
        /\ \A k \in 1 .. n : chunks[at[k]] = [stream |-> s, line |-> w[k]]
        /\ \A i \in DOMAIN chunks : chunks[i].stream = s => \E k \in 1 .. n : at[k] = i
  BY CarriesMeans
<1> DEFINE now == [k \in 1 .. n + 1 |-> IF k = n + 1 THEN m ELSE at[k]]
<1>3. /\ \A k \in 1 .. n : k # n + 1 /\ k \in 1 .. n + 1 /\ k < n + 1
      /\ \A k \in 1 .. n + 1 : k \in 1 .. n \/ k = n + 1
      /\ n + 1 \in 1 .. n + 1
  OBVIOUS
<1>4. now[n + 1] = m /\ \A k \in 1 .. n : now[k] = at[k]
  BY <1>3
<1>5. now \in [1 .. n + 1 -> DOMAIN more]
  BY <1>1, <1>2, <1>3
<1> HIDE DEF now
<1>6. ASSUME NEW j \in 1 .. n + 1, NEW k \in 1 .. n + 1, j < k PROVE now[j] < now[k]
  <2>1. j \in 1 .. n
    BY <1>6, <1>3
  <2>2. CASE k \in 1 .. n
    BY <1>2, <1>4, <1>6, <2>1, <2>2
  <2>3. CASE k = n + 1
    BY <1>1, <1>2, <1>4, <2>1, <2>3
  <2> QED
    BY <1>3, <2>2, <2>3
<1>7. \A k \in 1 .. n + 1 : more[now[k]] = [stream |-> s, line |-> w[k]]
  BY <1>1, <1>2, <1>3, <1>4
<1>8. ASSUME NEW i \in DOMAIN more, more[i].stream = s PROVE \E k \in 1 .. n + 1 : now[k] = i
  <2>1. CASE i = m
    BY <1>3, <1>4, <2>1
  <2>2. CASE i \in DOMAIN chunks
    <3>1. PICK k \in 1 .. n : at[k] = i
      BY <1>1, <1>2, <1>8, <2>2
    <3> QED
      BY <1>3, <1>4, <3>1
  <2> QED
    BY <1>1, <2>1, <2>2
<1>9. Carries(more, s, First(w, n + 1))
  <2>1. PICK q \in Nat : q = n + 1
    OBVIOUS
  <2>2. \E a \in [1 .. q -> DOMAIN more] :
             /\ \A j, k \in 1 .. q : j < k => a[j] < a[k]
             /\ \A k \in 1 .. q : more[a[k]] = [stream |-> s, line |-> w[k]]
             /\ \A i \in DOMAIN more : more[i].stream = s => \E k \in 1 .. q : a[k] = i
    BY <1>5, <1>6, <1>7, <1>8, <2>1, Zenon
  <2>3. Carries(more, s, First(w, q))
    BY <2>2, CarriesMeans
  <2> QED
    BY <2>1, <2>3
<1> QED
  BY <1>9 DEF more

LEMMA FirstStays ==
  ASSUME NEW w \in Seq(Line), NEW line \in Line, NEW n \in 0 .. Len(w)
  PROVE  /\ Len(Append(w, line)) = Len(w) + 1 /\ n \in 0 .. Len(Append(w, line))
         /\ First(Append(w, line), n) = First(w, n)
         /\ \A k \in 1 .. Len(w) : Append(w, line)[k] = w[k]
         /\ Append(w, line)[Len(w) + 1] = line
<1>1. /\ Len(Append(w, line)) = Len(w) + 1 /\ n \in 0 .. Len(Append(w, line))
      /\ \A k \in 1 .. Len(w) : Append(w, line)[k] = w[k]
      /\ Append(w, line)[Len(w) + 1] = line
  OBVIOUS
<1>2. \A k \in 1 .. n : k \in 1 .. Len(w)
  OBVIOUS
<1>3. \A k \in 1 .. n : Append(w, line)[k] = w[k]
  BY <1>1, <1>2
<1> QED
  BY <1>1, <1>3 DEF First

(* A line is written to a pipe that is still being read.                   *)
LEMMA PutPassed ==
  ASSUME TypeOK, NEW s \in Streams, NEW line \in Line, reader[s] = "reading", Put(s, line),
         UNCHANGED <<flow, reader>>, NEW q \in Streams, NEW n \in Nat, Passed(q, n)
  PROVE  Passed(q, n)'
<1>t. /\ written[q] \in Seq(Line) /\ pipe[q] \in Seq(Line)
      /\ written' = [written EXCEPT ![s] = Append(@, line)]
      /\ pipe' = [pipe EXCEPT ![s] = Append(@, line)]
      /\ written \in [Streams -> Seq(Line)] /\ pipe \in [Streams -> Seq(Line)]
  BY DEF TypeOK, Put
<1>1. CASE q # s
  <2>1. written'[q] = written[q] /\ pipe'[q] = pipe[q]
    BY <1>1, <1>t
  <2> QED
    BY <2>1 DEF Passed
<1>2. CASE q = s
  <2>1. written'[q] = Append(written[q], line) /\ pipe'[q] = Append(pipe[q], line)
    BY <1>2, <1>t
  <2>2. /\ n \in 0 .. Len(written[q]) /\ Carries(flow, q, First(written[q], n))
        /\ \A k \in 1 .. n : written[q][k] # Bad
        /\ Len(written[q]) = n + Len(pipe[q])
        /\ \A k \in 1 .. Len(pipe[q]) : pipe[q][k] = written[q][n + k]
        /\ reader[q] = "reading"
    BY <1>2 DEF Passed
  <2>3. PICK w \in Seq(Line), p \in Seq(Line) : w = written[q] /\ p = pipe[q]
    BY <1>t
  <2>4. PICK v, r : v = Append(w, line) /\ r = Append(p, line)
    OBVIOUS
  <2>5. /\ Len(v) = Len(w) + 1 /\ n \in 0 .. Len(v) /\ First(v, n) = First(w, n)
        /\ \A k \in 1 .. Len(w) : v[k] = w[k]
        /\ v[Len(w) + 1] = line
    BY <2>2, <2>3, <2>4, FirstStays
  <2>6. /\ Len(r) = Len(p) + 1 /\ r[Len(p) + 1] = line
        /\ \A k \in 1 .. Len(p) : r[k] = p[k]
    BY <2>3, <2>4
  <2>7. Len(w) = n + Len(p) /\ Len(p) \in Nat
    BY <2>2, <2>3
  <2>8. \A k \in 1 .. n : v[k] # Bad
    <3>1. \A k \in 1 .. n : k \in 1 .. Len(w)
      BY <2>7
    <3> QED
      BY <2>2, <2>3, <2>5, <3>1
  <2>9. ASSUME NEW k \in 1 .. Len(r) PROVE r[k] = v[n + k]
    <3>1. CASE k = Len(p) + 1
      BY <2>5, <2>6, <2>7, <3>1
    <3>2. CASE k \in 1 .. Len(p)
      <4>1. n + k \in 1 .. Len(w)
        BY <2>7, <3>2
      <4>2. p[k] = w[n + k]
        BY <2>2, <2>3, <3>2
      <4> QED
        BY <2>5, <2>6, <3>2, <4>1, <4>2
    <3> QED
      BY <2>6, <2>7, <3>1, <3>2
  <2>10. Len(v) = n + Len(r)
    BY <2>5, <2>6, <2>7
  <2>11. written'[q] = v /\ pipe'[q] = r
    BY <2>1, <2>3, <2>4
  <2>12. Carries(flow, q, First(v, n))
    BY <2>2, <2>3, <2>5
  <2> QED
    BY <2>2, <2>5, <2>8, <2>9, <2>10, <2>11, <2>12 DEF Passed
<1> QED
  BY <1>1, <1>2

(* The reader takes a line.                                                *)
LEMMA ReadPassed ==
  ASSUME TypeOK, open, NEW s \in Streams, ReadLine(s), NEW q \in Streams, NEW n \in Nat, Passed(q, n)
  PROVE  \E m \in Nat : Passed(q, m)'
<1>t. /\ pipe[s] \in Seq(Line) /\ written[s] \in Seq(Line) /\ pipe[s] # <<>>
      /\ pipe' = [pipe EXCEPT ![s] = Tail(@)] /\ pipe \in [Streams -> Seq(Line)]
      /\ reader[s] = "reading" /\ reader \in [Streams -> {"none", "reading", "done"}]
      /\ UNCHANGED <<output, held, written>> /\ flow \in Seq(Chunk)
  <2>1. flow \in Seq(Chunk)
    BY ConcatProperties DEF flow, TypeOK
  <2> QED
    BY <2>1 DEF TypeOK, ReadLine, futureVars, history
<1>h. Head(pipe[s]) \in Line /\ Head(pipe[s]) = pipe[s][1] /\ Len(pipe[s]) \in Nat \ {0}
  BY <1>t
<1>1. CASE Head(pipe[s]) = Bad
  <2>1. reader' = [reader EXCEPT ![s] = "done"] /\ UNCHANGED <<chan, flow>>
    BY <1>1, <1>t DEF ReadLine, flow
  <2>2. CASE q # s
    <3>1. reader'[q] = reader[q] /\ pipe'[q] = pipe[q] /\ written' = written
      BY <1>t, <2>1, <2>2
    <3> QED
      BY <2>1, <3>1 DEF Passed
  <2>3. CASE q = s
    <3>1. reader'[q] = "done" /\ written' = written
      BY <1>t, <2>1, <2>3
    <3>2. written[q][n + 1] = Bad
      BY <1>1, <1>t, <1>h, <2>3 DEF Passed
    <3> QED
      BY <2>1, <3>1, <3>2 DEF Passed
  <2> QED
    BY <2>2, <2>3
<1>2. CASE Head(pipe[s]) # Bad
  <2> DEFINE c == [stream |-> s, line |-> Head(pipe[s])]
  <2>1. c \in Chunk /\ chan' = Append(chan, c) /\ reader' = reader
    BY <1>2, <1>h DEF ReadLine, Chunk
  <2>2. flow' = Append(flow, c)
    BY <1>t, <2>1, FlowGrows
  <2>s. c.stream = s /\ c.line = Head(pipe[s])
    OBVIOUS
  <2>3. CASE q # s
    <3>1. pipe'[q] = pipe[q] /\ written' = written
      BY <1>t, <2>3
    <3>2. Carries(flow', q, First(written[q], n))
      <4> HIDE DEF c
      <4> QED
        BY <1>t, <2>1, <2>2, <2>s, <2>3, CarriesOther DEF Passed
    <3> QED
      BY <2>1, <3>1, <3>2 DEF Passed
  <2>4. CASE q = s
    <3>1. PICK w \in Seq(Line), p \in Seq(Line) : w = written[s] /\ p = pipe[s]
      BY <1>t
    <3>2. /\ n \in 0 .. Len(w) /\ Len(w) = n + Len(p) /\ Len(p) \in Nat \ {0}
          /\ \A k \in 1 .. Len(p) : p[k] = w[n + k]
          /\ \A k \in 1 .. n : w[k] # Bad
          /\ Carries(flow, s, First(w, n))
      BY <1>t, <1>h, <2>4, <3>1 DEF Passed
    <3>3. w[n + 1] = Head(pipe[s])
      <4>1. 1 \in 1 .. Len(p)
        BY <3>2
      <4>2. p[1] = w[n + 1]
        BY <3>2, <4>1
      <4>3. Head(pipe[s]) = p[1]
        BY <1>h, <3>1
      <4> QED
        BY <4>2, <4>3
    <3>4. c = [stream |-> s, line |-> w[n + 1]]
      BY <3>3
    <3>5. Carries(flow', s, First(w, n + 1))
      <4> HIDE DEF c
      <4> QED
        BY <1>t, <2>1, <2>2, <3>2, <3>4, CarriesNext
    <3>6. /\ Len(Tail(p)) = Len(p) - 1
          /\ \A k \in 1 .. Len(Tail(p)) : Tail(p)[k] = p[k + 1]
      BY <3>2, HeadTailProperties
    <3>7. n + 1 \in 0 .. Len(w) /\ Len(w) = (n + 1) + Len(Tail(p)) /\ n + 1 \in Nat
      BY <3>2, <3>6
    <3>8. ASSUME NEW k \in 1 .. Len(Tail(p)) PROVE Tail(p)[k] = w[(n + 1) + k]
      <4>1. k + 1 \in 1 .. Len(p) /\ n + (k + 1) = (n + 1) + k
        BY <3>2, <3>6
      <4> QED
        BY <3>2, <3>6, <4>1
    <3>9. \A k \in 1 .. n + 1 : w[k] # Bad
      <4>1. \A k \in 1 .. n + 1 : k \in 1 .. n \/ k = n + 1
        OBVIOUS
      <4> QED
        BY <1>2, <3>2, <3>3, <4>1
    <3>10. written'[q] = w /\ pipe'[q] = Tail(p) /\ reader'[q] = "reading"
      BY <1>t, <2>1, <2>4, <3>1
    <3>11. PICK m \in Nat : m = n + 1
      OBVIOUS
    <3>12. Passed(q, m)'
      BY <2>4, <3>5, <3>7, <3>8, <3>9, <3>10, <3>11 DEF Passed
    <3> QED
      BY <3>12
  <2> QED
    BY <2>3, <2>4
<1> QED
  BY <1>1, <1>2

LEMMA NothingPassed ==
  ASSUME NEW s \in Streams, flow' = <<>>, written'[s] = <<>>, pipe'[s] = <<>>,
         reader'[s] = "reading"
  PROVE  Passed(s, 0)'
<1>1. Carries(<<>>, s, First(<<>>, 0))
  BY CarriesNothing
<1>2. Len(<<>>) = 0 /\ 0 \in 0 .. 0 /\ 0 = 0 + 0
  OBVIOUS
<1>3. \A k \in 1 .. 0 : FALSE
  OBVIOUS
<1> QED
  BY <1>1, <1>2, <1>3 DEF Passed

LEMMA InitFlow == Init => FlowInv
  BY DEF Init, FlowInv, Working

LEMMA StepFlow == TypeOK /\ LeftInv /\ FlowInv /\ [Next]_vars => FlowInv'
<1> SUFFICES ASSUME TypeOK, LeftInv, FlowInv, [Next]_vars PROVE FlowInv'
  OBVIOUS
<1>t. /\ reader \in [Streams -> {"none", "reading", "done"}]
      /\ written \in [Streams -> Seq(Line)] /\ pipe \in [Streams -> Seq(Line)]
  BY DEF TypeOK
<1> USE DEF futureVars, threadVars, processVars, history
<1>p. ASSUME UNCHANGED <<flow, reader, pipe, written>>
      PROVE  \A s \in Streams, n \in Nat : Passed(s, n) => Passed(s, n)'
  BY <1>p DEF Passed
<1>s. ASSUME UNCHANGED <<pc, flags, output, held, chan, open, reader, pipe, written>>
      PROVE  FlowInv'
  <2>1. UNCHANGED flow
    BY <1>s DEF flow
  <2>2. \A s \in Streams, n \in Nat : Passed(s, n) => Passed(s, n)'
    BY <1>p, <1>s, <2>1
  <2>3. Working' = Working
    BY <1>s DEF Working
  <2> QED
    BY <1>s, <2>2, <2>3 DEF FlowInv
<1>1. CASE NextCall
  BY <1>1 DEF NextCall, FlowInv, Working
<1>2. CASE Start
  <2>1. /\ output' = <<>> /\ held' = <<>> /\ chan' = <<>> /\ pc' = "loop" /\ open' /\ flags' = {}
        /\ \A s \in Streams : reader'[s] = "reading" /\ pipe'[s] = <<>> /\ written'[s] = <<>>
    BY <1>2 DEF Start, Spawn, FlowInv, LeftInv
  <2>2. flow' = <<>>
    BY <2>1, NothingShown DEF flow
  <2>3. \A s \in Streams : Passed(s, 0)'
    BY <2>1, <2>2, NothingPassed
  <2>4. 0 \in Nat
    OBVIOUS
  <2> QED
    BY <2>1, <2>3, <2>4 DEF FlowInv, Working
<1>3. CASE StartAborted \/ SpawnFails \/ Return \/ DropFuture \/ DropDone
  BY <1>3 DEF StartAborted, SpawnFails, Return, DropFuture, DropDone, FlowInv, Working
<1>4. CASE Receive \/ Emit
  <2>1. flow' = flow
    BY <1>4, FlowStays DEF FlowInv
  <2>2. /\ Working /\ Working' /\ pc' # "idle"
        /\ pc' = "loop" => held' = <<>>
        /\ UNCHANGED <<flags, open, reader, pipe, written>>
    <3>1. CASE Receive
      BY <3>1 DEF Receive, InLoop, Working, FlowInv
    <3>2. CASE Emit
      BY <3>2 DEF Emit, Working
    <3> QED
      BY <1>4, <3>1, <3>2
  <2>3. "outputDone" \in flags => chan' = <<>> /\ \A s \in Streams : reader[s] = "done"
    <3>1. CASE Receive
      <4>1. chan # <<>>
        BY <3>1 DEF Receive
      <4> QED
        BY <2>2, <4>1 DEF FlowInv
    <3>2. CASE Emit
      BY <2>2, <3>2 DEF Emit, FlowInv
    <3> QED
      BY <1>4, <3>1, <3>2
  <2>4. \A s \in Streams, n \in Nat : Passed(s, n) => Passed(s, n)'
    BY <1>p, <2>1, <2>2
  <2> QED
    BY <2>2, <2>3, <2>4 DEF FlowInv
<1>5. CASE OutputClosed
  <2>1. /\ Working /\ Working' /\ pc' = "loop" /\ chan = <<>>
        /\ \A s \in Streams : reader[s] = "done"
        /\ UNCHANGED <<output, held, chan, pc, open, reader, pipe, written>>
    BY <1>5 DEF OutputClosed, InLoop, Working
  <2>2. UNCHANGED flow
    BY <2>1 DEF flow
  <2>3. \A s \in Streams, n \in Nat : Passed(s, n) => Passed(s, n)'
    BY <1>p, <2>1, <2>2
  <2> QED
    BY <2>1, <2>3 DEF FlowInv
<1>6. CASE SeeExit \/ SeeCancel \/ SeeTimeout
  <2>1. /\ Working /\ Working' /\ pc' = "loop" /\ pc = "loop"
        /\ "outputDone" \in flags' => "outputDone" \in flags
        /\ UNCHANGED <<output, held, chan, open, reader, pipe, written>>
    BY <1>6 DEF SeeExit, SeeCancel, SeeTimeout, InLoop, Working
  <2>2. UNCHANGED flow
    BY <2>1 DEF flow
  <2>3. \A s \in Streams, n \in Nat : Passed(s, n) => Passed(s, n)'
    BY <1>p, <2>1, <2>2
  <2> QED
    BY <2>1, <2>3 DEF FlowInv
<1>7. CASE Reap \/ Cancel \/ Forward \/ UNCHANGED vars
  BY <1>7, <1>s DEF Reap, Cancel, Forward, vars
<1>8. ASSUME NEW s \in Streams, ReadLine(s) PROVE FlowInv'
  <2>1. /\ UNCHANGED <<pc, flags, output, held, open, written>>
        /\ reader[s] = "reading" /\ pipe[s] # <<>>
    BY <1>8 DEF ReadLine
  <2>2. Working' = Working /\ pc # "idle"
    BY <2>1 DEF Working, FlowInv
  <2>3. Working => "outputDone" \notin flags
    BY <2>1 DEF FlowInv
  <2>4. Working => \A q \in Streams : \E n \in Nat : Passed(q, n)'
    <3> SUFFICES ASSUME Working, NEW q \in Streams PROVE \E m \in Nat : Passed(q, m)'
      OBVIOUS
    <3>1. PICK n \in Nat : Passed(q, n)
      BY DEF FlowInv
    <3>2. open
      BY DEF FlowInv
    <3> QED
      BY <1>8, <3>1, <3>2, ReadPassed
  <2> QED
    BY <2>1, <2>2, <2>3, <2>4 DEF FlowInv
<1>9. ASSUME NEW s \in Streams, ReadEnd(s) PROVE FlowInv'
  <2>1. /\ UNCHANGED <<pc, flags, output, held, chan, open, pipe, written>>
        /\ reader[s] = "reading" /\ pipe[s] = <<>>
        /\ reader' = [reader EXCEPT ![s] = "done"]
    BY <1>9 DEF ReadEnd
  <2>2. Working' = Working /\ UNCHANGED flow
    BY <2>1 DEF Working, flow
  <2>3. Working => "outputDone" \notin flags
    BY <2>1 DEF FlowInv
  <2>4. \A q \in Streams, n \in Nat : Passed(q, n) => Passed(q, n)'
    <3> SUFFICES ASSUME NEW q \in Streams, NEW n \in Nat, Passed(q, n) PROVE Passed(q, n)'
      OBVIOUS
    <3>1. CASE q # s
      <4>1. reader'[q] = reader[q]
        BY <1>t, <2>1, <3>1
      <4> QED
        BY <2>1, <2>2, <4>1 DEF Passed
    <3>2. CASE q = s
      <4>1. reader'[q] = "done"
        BY <1>t, <2>1, <3>2
      <4>2. n = Len(written[q])
        <5>1. Len(written[q]) = n + Len(<<>>)
          BY <2>1, <3>2 DEF Passed
        <5> QED
          BY <5>1
      <4> QED
        BY <2>1, <2>2, <4>1, <4>2 DEF Passed
    <3> QED
      BY <3>1, <3>2
  <2> QED
    BY <2>1, <2>2, <2>3, <2>4 DEF FlowInv
<1>10. CASE Processes
  <2>1. UNCHANGED <<pc, flags, output, held, chan, open, reader>>
    BY <1>10, ProcessesShape
  <2>2. CASE UNCHANGED <<pipe, written>>
    BY <1>s, <2>1, <2>2
  <2>3. ASSUME NEW s \in Streams, NEW line \in Line, reader[s] = "reading", Put(s, line)
        PROVE  FlowInv'
    <3>1. UNCHANGED flow
      BY <2>1 DEF flow
    <3>2. \A q \in Streams, n \in Nat : Passed(q, n) => Passed(q, n)'
      BY <2>1, <2>3, <3>1, PutPassed
    <3>3. pc # "idle"
      BY <2>3 DEF LeftInv, NothingOwned
    <3>4. Working' = Working
      BY <2>1 DEF Working
    <3> QED
      BY <2>1, <3>2, <3>3, <3>4 DEF FlowInv
  <2> QED
    BY <1>10, <2>2, <2>3, ProcessesShape
<1> QED
  BY <1>1, <1>2, <1>3, <1>4, <1>5, <1>6, <1>7, <1>8, <1>9, <1>10 DEF Next, Future, Threads

-----------------------------------------------------------------------------
(***************************************************************************)
(* What the agent is told.                                                 *)
(***************************************************************************)

(* The shell has named only the directory it stands in, and only at its    *)
(* end.                                                                    *)
Reported ==
  \A s \in Streams : \A k \in 1 .. Len(written[s]) :
    written[s][k].kind \in {"marker", "glued"} =>
      written[s][k].dir = shellDir /\ shell \in {"zombie", "reaped"}

LEMMA ProcessesTell ==
  ASSUME TypeOK, Processes
  PROVE  /\ shell # "running" => UNCHANGED <<shell, status, shellDir>>
         /\ shell = "running" => shell' \in {"running", "zombie"}
         /\ \/ UNCHANGED written
            \/ /\ UNCHANGED <<shell, shellDir>>
               /\ \E s \in Streams, line \in Line :
                    reader[s] = "reading" /\ line.kind \in {"text", "bad"} /\ Put(s, line)
            \/ /\ shell = "running" /\ shell' = "zombie" /\ UNCHANGED shellDir
               /\ \E s \in Streams, line \in Line :
                    reader[s] = "reading" /\ line.dir = shellDir /\ Put(s, line)
<1>1. ASSUME NEW s \in Streams, NEW line \in {Text(Printed), Bad}, ShellPrints(s, line)
      PROVE  /\ shell = "running" /\ shell' \in {"running", "zombie"}
             /\ \/ UNCHANGED written
                \/ /\ UNCHANGED <<shell, shellDir>> /\ line \in Line
                   /\ reader[s] = "reading" /\ line.kind \in {"text", "bad"} /\ Put(s, line)
  <2>1. line \in Line /\ line.kind \in {"text", "bad"}
    BY <1>1, LinesTyped DEF ShellPrints, Text, Bad
  <2> QED
    BY <1>1, <2>1 DEF ShellPrints
<1>2. ASSUME NEW s \in Streams, ChildPrints(s)
      PROVE  /\ UNCHANGED <<shell, status, shellDir>> /\ Text(Printed) \in Line
             /\ reader[s] = "reading" /\ Text(Printed).kind \in {"text", "bad"}
             /\ Put(s, Text(Printed))
  BY <1>2, LinesTyped DEF ChildPrints, Text, processVars
<1>3. ASSUME NEW kind \in {"marker", "glued"}, FinishCommand(kind)
      PROVE  /\ shell = "running" /\ shell' = "zombie" /\ UNCHANGED shellDir
             /\ \/ UNCHANGED written
                \/ /\ "Stdout" \in Streams /\ Report(kind) \in Line
                   /\ reader["Stdout"] = "reading" /\ Report(kind).dir = shellDir
                   /\ Put("Stdout", Report(kind))
  <2>1. "Stdout" \in Streams /\ Report(kind) \in Line /\ Report(kind).dir = shellDir
    BY LinesTyped DEF Streams, Report
  <2> QED
    BY <1>3, <2>1 DEF FinishCommand
<1>4. ASSUME \/ \E d \in Dirs : ChangeDir(d)
             \/ \E keeps \in BOOLEAN : Fork(keeps)
             \/ \E how \in {"zero", "nonzero", "signal"} : ShellEnds(how)
             \/ ChildEnds
             \/ ChildEscapes
      PROVE  /\ shell # "running" => UNCHANGED <<shell, status, shellDir>>
             /\ shell = "running" => shell' \in {"running", "zombie"}
             /\ UNCHANGED written
  BY <1>4 DEF ChangeDir, Fork, ShellEnds, ChildEnds, ChildEscapes
<1>5. CASE \E s \in Streams : ShellPrints(s, Text(Printed)) \/ ShellPrints(s, Bad)
  BY <1>1, <1>5
<1>6. CASE \E s \in Streams : ChildPrints(s)
  BY <1>2, <1>6
<1>7. CASE \E kind \in {"marker", "glued"} : FinishCommand(kind)
  BY <1>3, <1>7
<1> QED
  BY <1>4, <1>5, <1>6, <1>7 DEF Processes

LEMMA InitReported == Init => Reported
  BY DEF Init, Reported

LEMMA StepReported == TypeOK /\ FlowInv /\ Reported /\ [Next]_vars => Reported'
<1> SUFFICES ASSUME TypeOK, FlowInv, Reported, [Next]_vars PROVE Reported'
  OBVIOUS
<1>t. written \in [Streams -> Seq(Line)] /\ shell \in {"none", "running", "zombie", "reaped"}
  BY DEF TypeOK
<1> USE DEF futureVars, threadVars, processVars, history
<1>1. CASE NextCall
  BY <1>1 DEF NextCall, Reported
<1>2. CASE Start \/ StartAborted \/ SpawnFails
  <2>1. UNCHANGED written /\ \A s \in Streams : written[s] = <<>>
    BY <1>2 DEF Start, StartAborted, SpawnFails, Spawn, FlowInv
  <2> QED
    BY <2>1 DEF Reported
<1>3. CASE Receive \/ Emit \/ OutputClosed \/ Return \/ DropDone \/ Cancel \/ Forward \/ UNCHANGED vars
  BY <1>3 DEF Receive, Emit, OutputClosed, Return, DropDone, Cancel, Forward, vars, Reported
<1>4. CASE SeeExit \/ SeeCancel \/ SeeTimeout \/ DropFuture
  <2>1. /\ UNCHANGED <<written, shellDir>>
        /\ shell' = shell \/ (shell = "running" /\ shell' = "zombie")
    BY <1>4 DEF SeeExit, SeeCancel, SeeTimeout, DropFuture, Killed
  <2> QED
    BY <2>1 DEF Reported
<1>5. CASE Threads
  <2>1. /\ UNCHANGED <<written, shellDir>>
        /\ shell' = shell \/ shell' = "reaped"
    BY <1>5 DEF Threads, Reap, ReadLine, ReadEnd
  <2> QED
    BY <2>1 DEF Reported
<1>6. CASE Processes
  <2>1. CASE UNCHANGED written
    BY <1>6, <1>t, <2>1, ProcessesTell DEF Reported
  <2>2. ASSUME NEW s \in Streams, NEW line \in Line, Put(s, line), UNCHANGED shellDir,
               \/ UNCHANGED shell /\ line.kind \in {"text", "bad"}
               \/ shell = "running" /\ shell' = "zombie" /\ line.dir = shellDir
        PROVE  Reported'
    <3> SUFFICES ASSUME NEW q \in Streams, NEW k \in 1 .. Len(written'[q]),
                        written'[q][k].kind \in {"marker", "glued"}
                 PROVE  written'[q][k].dir = shellDir /\ shell' \in {"zombie", "reaped"}
      BY <2>2 DEF Reported
    <3>1. /\ written' = [written EXCEPT ![s] = Append(@, line)]
          /\ written[s] \in Seq(Line) /\ Len(written[s]) \in Nat
      BY <1>t, <2>2 DEF Put
    <3>2. CASE q # s
      <4>1. written'[q] = written[q]
        BY <1>t, <3>1, <3>2
      <4> QED
        BY <2>2, <4>1 DEF Reported
    <3>3. CASE q = s /\ k \in 1 .. Len(written[s])
      <4>1. written'[q][k] = written[q][k]
        BY <1>t, <3>1, <3>3
      <4> QED
        BY <2>2, <3>3, <4>1 DEF Reported
    <3>4. CASE q = s /\ k \notin 1 .. Len(written[s])
      <4>1. written'[q] = Append(written[s], line)
        BY <1>t, <3>1, <3>4
      <4>2. k = Len(written[s]) + 1
        BY <3>1, <3>4, <4>1
      <4>3. written'[q][k] = line
        BY <3>1, <4>1, <4>2
      <4> QED
        BY <2>2, <4>3
    <3> QED
      BY <3>2, <3>3, <3>4
  <2> QED
    BY <1>6, <2>1, <2>2, ProcessesTell
<1> QED
  BY <1>1, <1>2, <1>3, <1>4, <1>5, <1>6 DEF Next, Future

-----------------------------------------------------------------------------
(* The result of a call. *)

(* The code on its way is that of a shell that has been waited for, and    *)
(* shared_cwd stays until the call returns.                                *)
TellInv ==
  /\ \A i \in 1 .. Len(reapq) : reapq[i] = Code
  /\ reapq # <<>> => shell = "reaped"
  /\ "reapDone" \in flags => exitCode = Code /\ shell = "reaped"
  /\ pc = "idle" => reapq = <<>>
  /\ Busy => cwd = startDir
  /\ outcome \in {"ok", "failed"} =>
       ~Stopped /\ \A s \in Streams : Carries(output, s, Readable(written[s]))
  /\ OutcomeTruthful

LEMMA Below ==
  ASSUME NEW n \in Nat
  PROVE  /\ \A k \in 1 .. n : \A m \in 1 .. k : m \in 1 .. n
         /\ \A l \in Nat : \A k \in 1 .. l : k \notin 1 .. n => n + 1 \in 1 .. k /\ n # l
         /\ \A l \in Nat : n <= l => \A k \in 1 .. n : k \in 1 .. l
  OBVIOUS

LEMMA ReadableIsFirst ==
  ASSUME NEW w \in Seq(Line), NEW n \in 0 .. Len(w),
         /\ \A k \in 1 .. n : w[k] # Bad
         /\ n = Len(w) \/ w[n + 1] = Bad
  PROVE  Readable(w) = First(w, n)
<1>1. DOMAIN w = 1 .. Len(w) /\ Len(w) \in Nat /\ n \in Nat /\ n <= Len(w)
  OBVIOUS
<1>2. PICK D : D = {i \in DOMAIN w : \A m \in 1 .. i : w[m] # Bad}
  OBVIOUS
<1>3. ASSUME NEW k \in 1 .. n PROVE k \in D
  <2>1. k \in 1 .. Len(w) /\ \A m \in 1 .. k : m \in 1 .. n
    BY <1>1, Below
  <2> QED
    BY <1>1, <1>2, <2>1
<1>4. ASSUME NEW k \in D PROVE k \in 1 .. n
  <2>1. k \in 1 .. Len(w) /\ \A m \in 1 .. k : w[m] # Bad
    BY <1>1, <1>2
  <2>2. k \notin 1 .. n => n + 1 \in 1 .. k /\ n # Len(w)
    BY <1>1, <2>1, Below
  <2> QED
    BY <2>1, <2>2
<1>5. D = 1 .. n
  BY <1>3, <1>4
<1>6. Readable(w) = [k \in D |-> w[k]]
  BY <1>2 DEF Readable
<1> QED
  BY <1>5, <1>6 DEF First

LEMMA InitTell == Init => TellInv
  BY DEF Init, TellInv, Busy, OutcomeTruthful

(* When a call returns by itself, all that its readers passed on has come  *)
(* out, and its last report is where the shell stood.                      *)
LEMMA ReturnTells ==
  ASSUME TypeOK, FlowInv, Reported, Return
  PROVE  /\ \A s \in Streams : Carries(output, s, Readable(written[s]))
         /\ Reports("marker") # {} => output[Max(Reports("marker"))].line.dir = shellDir
<1>1. /\ pc = "loop" /\ LoopDone /\ Working /\ held = <<>> /\ chan = <<>>
      /\ \A s \in Streams : reader[s] = "done"
  BY DEF Return, LoopDone, FlowInv, Working
<1>2. output \in Seq(Chunk) /\ flow = output
  <2>1. output \in Seq(Chunk) /\ output \o <<>> = output
    BY ConcatEmptySeq DEF TypeOK
  <2> QED
    BY <1>1, <2>1 DEF flow
<1>3. ASSUME NEW s \in Streams
      PROVE  /\ Carries(output, s, Readable(written[s]))
             /\ \E n \in 0 .. Len(written[s]) : Carries(output, s, First(written[s], n))
  <2>1. PICK n \in Nat : Passed(s, n)
    BY <1>1 DEF FlowInv
  <2>2. PICK w \in Seq(Line) : w = written[s]
    BY DEF TypeOK
  <2>3. /\ n \in 0 .. Len(w) /\ \A k \in 1 .. n : w[k] # Bad
        /\ n = Len(w) \/ w[n + 1] = Bad
        /\ Carries(output, s, First(w, n))
    BY <1>1, <1>2, <2>1, <2>2 DEF Passed
  <2>4. Readable(w) = First(w, n)
    BY <2>3, ReadableIsFirst
  <2> QED
    BY <2>2, <2>3, <2>4
<1>4. ASSUME Reports("marker") # {}
      PROVE  output[Max(Reports("marker"))].line.dir = shellDir
  <2>1. PICK i : i = Max(Reports("marker"))
    OBVIOUS
  <2>2. i \in DOMAIN output /\ output[i].line.kind = "marker"
    BY <1>2, <1>4, <2>1, LastReport
  <2>3. PICK s \in Streams : s = output[i].stream
    <3>1. output[i] \in Chunk
      BY <1>2, <2>2
    <3>2. \A c \in Chunk : c.stream \in Streams
      BY DEF Chunk
    <3> QED
      BY <3>1, <3>2
  <2>4. PICK n \in 0 .. Len(written[s]) : Carries(output, s, First(written[s], n))
    BY <1>3
  <2>5. PICK w \in Seq(Line) : w = written[s]
    BY DEF TypeOK
  <2>6. n \in Nat /\ n <= Len(w) /\ Len(w) \in Nat
    BY <2>4, <2>5
  <2>7. PICK at \in [1 .. n -> DOMAIN output] :
          /\ \A j, k \in 1 .. n : j < k => at[j] < at[k]
          /\ \A k \in 1 .. n : output[at[k]] = [stream |-> s, line |-> w[k]]
          /\ \A l \in DOMAIN output : output[l].stream = s => \E k \in 1 .. n : at[k] = l
    <3>1. Carries(output, s, First(w, n))
      BY <2>4, <2>5
    <3> QED
      BY <2>6, <3>1, CarriesMeans
  <2>8. PICK k \in 1 .. n : at[k] = i
    BY <2>2, <2>3, <2>7
  <2>9. output[i].line = w[k] /\ k \in 1 .. Len(w)
    <3>1. output[at[k]] = [stream |-> s, line |-> w[k]]
      BY <2>7
    <3>2. k \in 1 .. Len(w)
      BY <2>6, Below
    <3> QED
      BY <2>8, <3>1, <3>2
  <2>10. w[k].kind = "marker" => w[k].dir = shellDir
    BY <2>5, <2>9 DEF Reported
  <2> QED
    BY <2>1, <2>2, <2>9, <2>10
<1> QED
  BY <1>3, <1>4

LEMMA StepTell ==
  TypeOK /\ LeftInv /\ FlowInv /\ Reported /\ TellInv /\ [Next]_vars => TellInv'
<1> SUFFICES ASSUME TypeOK, LeftInv, FlowInv, Reported, TellInv, [Next]_vars PROVE TellInv'
  OBVIOUS
<1>t. ScalarsTyped
  BY TypesApart
<1> USE DEF futureVars, threadVars, processVars, history
<1>o. /\ pc \in {"loop", "emitting", "dropping"} => outcome = "none"
      /\ pc = "idle" => outcome = "none" /\ flags = {}
  BY DEF LeftInv, Busy
<1>s. ASSUME UNCHANGED <<reapq, status, shell, flags, exitCode, pc, cwd, startDir, outcome, output,
                         written, shellDir>>
      PROVE  TellInv'
  BY <1>s DEF TellInv, OutcomeTruthful, Code, Busy, Stopped, Reports
<1>b. ASSUME outcome' = "none", pc' # "idle", UNCHANGED <<cwd, startDir>>, Busy,
             \A i \in 1 .. Len(reapq') : reapq'[i] = Code',
             reapq' # <<>> => shell' = "reaped",
             "reapDone" \in flags' => exitCode' = Code' /\ shell' = "reaped"
      PROVE  TellInv'
  BY <1>b DEF TellInv, OutcomeTruthful
<1>1. CASE NextCall
  BY <1>1 DEF NextCall, TellInv, OutcomeTruthful, Busy
<1>2. CASE Cancel \/ Forward \/ UNCHANGED vars
  BY <1>2, <1>s DEF Cancel, Forward, vars
<1>3. CASE Start \/ StartAborted \/ SpawnFails
  <2>1. /\ UNCHANGED <<cwd, flags, reapq>> /\ startDir' = cwd /\ flags = {} /\ reapq = <<>>
        /\ outcome' \in {"none", "aborted", "error"} /\ pc' # "idle"
    BY <1>3, <1>o DEF Start, StartAborted, SpawnFails, Spawn, TellInv
  <2> QED
    BY <2>1 DEF TellInv, OutcomeTruthful, Busy
<1>4. CASE Receive \/ Emit \/ OutputClosed
  <2>1. /\ UNCHANGED <<outcome, cwd, startDir, reapq, status, shell, exitCode>> /\ Busy
        /\ pc' # "idle" /\ "reapDone" \in flags' => "reapDone" \in flags
    BY <1>4 DEF Receive, Emit, OutputClosed, InLoop, Busy
  <2>2. Code' = Code
    BY <2>1 DEF Code
  <2>3. outcome' = "none" /\ pc' # "idle"
    BY <1>4, <1>o, <2>1 DEF Busy, Receive, Emit, OutputClosed, InLoop
  <2>4. "reapDone" \in flags' => "reapDone" \in flags
    BY <1>4 DEF Receive, Emit, OutputClosed
  <2> QED
    BY <1>b, <2>1, <2>2, <2>3, <2>4 DEF TellInv
<1>5. CASE SeeExit
  <2>1. /\ reapq # <<>> /\ reapq' = <<>> /\ exitCode' = Head(reapq)
        /\ UNCHANGED <<outcome, cwd, startDir, pc>> /\ Busy /\ pc = "loop"
    BY <1>5 DEF SeeExit, InLoop, Busy
  <2>2. shell = "reaped"
    BY <2>1 DEF TellInv
  <2>3. UNCHANGED <<shell, status>>
    BY <1>5, <2>2 DEF SeeExit, Killed
  <2>4. Head(reapq) = Code
    <3>1. 1 \in 1 .. Len(reapq) /\ Head(reapq) = reapq[1]
      BY <1>t, <2>1 DEF ScalarsTyped
    <3> QED
      BY <3>1 DEF TellInv
  <2>5. Code' = Code /\ outcome' = "none"
    BY <1>o, <2>1, <2>3 DEF Code
  <2>6. 1 .. Len(reapq') = {}
    BY <2>1
  <2> QED
    BY <1>b, <2>1, <2>2, <2>3, <2>4, <2>5, <2>6
<1>6. CASE SeeCancel \/ SeeTimeout
  <2>1. /\ UNCHANGED <<outcome, cwd, startDir, reapq, exitCode, pc>> /\ Busy /\ pc = "loop"
    BY <1>6 DEF SeeCancel, SeeTimeout, InLoop, Busy
  <2>2. "reapDone" \in flags' => "reapDone" \in flags
    <3>1. flags' = flags \cup {"aborted"} \/ flags' = flags \cup {"timedOut"}
      BY <1>6 DEF SeeCancel, SeeTimeout
    <3> QED
      BY <3>1
  <2>3. shell = "reaped" => UNCHANGED <<shell, status, Code>>
    BY <1>6 DEF SeeCancel, SeeTimeout, Killed, Code
  <2>4. outcome' = "none"
    BY <1>o, <2>1
  <2>5. reapq # <<>> \/ reapq = <<>>
    OBVIOUS
  <2>6. \A i \in 1 .. Len(reapq') : reapq'[i] = Code'
    <3>1. CASE reapq = <<>>
      <4>1. 1 .. Len(reapq') = {}
        BY <2>1, <3>1
      <4> QED
        BY <4>1
    <3>2. CASE reapq # <<>>
      BY <2>1, <2>3, <3>2 DEF TellInv
    <3> QED
      BY <3>1, <3>2
  <2> QED
    BY <1>b, <2>1, <2>2, <2>3, <2>4, <2>6 DEF TellInv
<1>7. CASE Return
  <2>1. /\ pc' = "over" /\ cwd' = CwdAfter /\ outcome' = Outcome /\ LoopDone
        /\ UNCHANGED <<reapq, flags, exitCode, output, written, status, shell, shellDir, startDir>>
        /\ pc = "loop" /\ Busy
    BY <1>7 DEF Return, Busy
  <2>2. exitCode = Code /\ cwd = startDir
    BY <2>1 DEF LoopDone, TellInv
  <2>3. Outcome \in {"ok", "failed"} => ~Stopped
    <3>1. Stopped => "aborted" \in flags \/ "timedOut" \in flags
      BY DEF Stopped
    <3>2. CASE "aborted" \in flags
      BY <3>2 DEF Outcome
    <3>3. CASE "aborted" \notin flags /\ "timedOut" \in flags
      BY <3>3 DEF Outcome
    <3> QED
      BY <3>1, <3>2, <3>3
  <2>4. /\ outcome' = "failed" => status' = "nonzero"
        /\ outcome' = "ok" => status' \in {"zero", "signal"}
    BY <1>t, <2>1, <2>2 DEF Outcome, Code, ScalarsTyped
  <2>5. cwd' = IF Reports("marker") # {} THEN shellDir ELSE startDir
    BY <1>7, <2>1, <2>2, ReturnTells DEF CwdAfter
  <2>6. Reports("marker")' = Reports("marker") /\ Stopped' = Stopped /\ Code' = Code
    BY <2>1 DEF Reports, Stopped, Code
  <2>7. OutcomeTruthful'
    <3>1. outcome' \notin {"error", "dropped"}
      BY <2>1 DEF Outcome
    <3> QED
      BY <2>1, <2>3, <2>4, <2>5, <2>6, <3>1 DEF OutcomeTruthful
  <2>8. \A s \in Streams : Carries(output', s, Readable(written'[s]))
    BY <1>7, <2>1, ReturnTells
  <2>9. ~Busy'
    BY <2>1 DEF Busy
  <2> QED
    BY <2>1, <2>3, <2>6, <2>7, <2>8, <2>9 DEF TellInv
<1>8. CASE DropFuture
  <2>1. /\ UNCHANGED <<outcome, cwd, startDir, exitCode, flags>> /\ Busy /\ reapq' = <<>>
        /\ pc' = "dropping" /\ pc \in {"loop", "emitting"}
    BY <1>8 DEF DropFuture, Busy
  <2>2. shell = "reaped" => UNCHANGED <<shell, status, Code>>
    BY <1>8 DEF DropFuture, Killed, Code
  <2>3. 1 .. Len(reapq') = {}
    BY <2>1
  <2> QED
    BY <1>b, <1>o, <2>1, <2>2, <2>3 DEF TellInv
<1>9. CASE DropDone
  <2>1. /\ pc' = "over" /\ outcome' = "dropped" /\ Busy
        /\ UNCHANGED <<cwd, startDir, reapq, flags, exitCode, status, shell>>
    BY <1>9 DEF DropDone, Busy
  <2>2. Code' = Code /\ ~Busy'
    BY <2>1 DEF Code, Busy
  <2> QED
    BY <2>1, <2>2 DEF TellInv, OutcomeTruthful
<1>10. CASE Reap
  <2>1. /\ shell = "zombie" /\ shell' = "reaped" /\ "reapDone" \notin flags
        /\ UNCHANGED <<flags, exitCode, pc, cwd, startDir, outcome, output, written, shellDir,
                       status>>
    BY <1>10 DEF Reap, TellInv
  <2>2. Code' = Code /\ Busy' = Busy /\ Stopped' = Stopped
        /\ Reports("marker")' = Reports("marker")
    BY <2>1 DEF Code, Busy, Stopped, Reports
  <2>3. \A i \in 1 .. Len(reapq') : reapq'[i] = Code'
    <3>1. CASE reapq' = <<Code>>
      BY <2>2, <3>1
    <3>2. CASE reapq' = <<>>
      <4>1. 1 .. Len(reapq') = {}
        BY <3>2
      <4> QED
        BY <4>1
    <3> QED
      BY <1>10, <3>1, <3>2 DEF Reap
  <2>4. pc # "idle"
    BY <1>10 DEF Reap, LeftInv, NothingOwned
  <2>5. OutcomeTruthful'
    BY <2>1, <2>2 DEF TellInv, OutcomeTruthful
  <2> QED
    BY <2>1, <2>2, <2>3, <2>4, <2>5 DEF TellInv
<1>11. ASSUME NEW s \in Streams, ReadLine(s) \/ ReadEnd(s) PROVE TellInv'
  BY <1>11, <1>s DEF ReadLine, ReadEnd
<1>12. CASE Processes
  <2>1. UNCHANGED <<reapq, flags, exitCode, pc, cwd, startDir, outcome, output>>
    BY <1>12, ProcessesShape
  <2>2. shell # "running" => UNCHANGED <<shell, status, shellDir>>
    BY <1>12, ProcessesTell
  <2>3. shell = "running" => shell' # "reaped"
    BY <1>12, ProcessesTell
  <2>4. CASE outcome = "none"
    <3>1. shell = "reaped" => UNCHANGED <<shell, status, Code>>
      BY <2>2 DEF Code
    <3>2. \A i \in 1 .. Len(reapq') : reapq'[i] = Code'
      <4>1. CASE reapq = <<>>
        <5>1. 1 .. Len(reapq') = {}
          BY <2>1, <4>1
        <5> QED
          BY <5>1
      <4>2. CASE reapq # <<>>
        BY <2>1, <3>1, <4>2 DEF TellInv
      <4> QED
        BY <4>1, <4>2
    <3>3. Busy' = Busy
      BY <2>1 DEF Busy
    <3> QED
      BY <2>1, <2>4, <3>1, <3>2, <3>3 DEF TellInv, OutcomeTruthful
  <2>5. CASE outcome # "none"
    <3>1. pc = "over"
      BY <1>o, <1>t, <2>5 DEF ScalarsTyped
    <3>2. shell # "running" /\ \A s \in Streams : reader[s] # "reading"
      BY <3>1 DEF LeftInv, NothingOwned, NothingLeftBehind
    <3>3. UNCHANGED written
      BY <1>12, <3>2, ProcessesTell
    <3> QED
      BY <1>s, <2>1, <2>2, <3>2, <3>3
  <2> QED
    BY <2>4, <2>5
<1> QED
  BY <1>1, <1>2, <1>3, <1>4, <1>5, <1>6, <1>7, <1>8, <1>9, <1>10, <1>11, <1>12
  DEF Next, Future, Threads

LEMMA ShownIsPrefix ==
  ASSUME TypeOK, ShownInv
  PROVE  IsPrefix(shown \o emitq, output)
<1>1. PICK g \in Seq(Chunk) : g = shown \o emitq
  BY ConcatProperties DEF TypeOK
<1>2. PICK u \in Seq(Chunk) : output = g \o u
  BY <1>1 DEF ShownInv
<1>3. /\ Len(g) \in Nat /\ Len(u) \in Nat /\ Len(output) = Len(g) + Len(u)
      /\ output \in Seq(Chunk)
  BY <1>1, <1>2, ConcatProperties
<1>4. SubSeq(output, 1, Len(g)) = g
  BY <1>2, SubSeqOfConcat1, SubSeqFull
<1> QED
  BY <1>1, <1>3, <1>4 DEF IsPrefix

(* What the agent reads of a call is what its processes wrote and did: no  *)
(* line is lost, repeated or overtaken within its pipe, the frontend is    *)
(* shown the same, and the code and the directory are the shell's own.     *)
THEOREM BashResultTruthful == Spec => []ResultTruthful
<1>1. ASSUME TypeOK, ShownInv, TellInv PROVE ResultTruthful
  <2>1. OutputComplete
    <3>1. outcome \in {"ok", "failed"} => shown \o emitq = output
      BY <1>1 DEF ShownInv, TellInv
    <3> QED
      BY <1>1, <3>1, ShownIsPrefix DEF OutputComplete, TellInv
  <2> QED
    BY <1>1, <2>1 DEF ResultTruthful, TellInv
<1>2. Init => LeftInv /\ ShownInv /\ FlowInv /\ Reported /\ TellInv
  BY InitLeft, InitShown, InitFlow, InitReported, InitTell
<1>3. TypeOK /\ LeftInv /\ ShownInv /\ FlowInv /\ Reported /\ TellInv /\ [Next]_vars
        => (LeftInv /\ ShownInv /\ FlowInv /\ Reported /\ TellInv)'
  BY StepLeft, StepShown, StepFlow, StepReported, StepTell
<1> QED
  BY <1>1, <1>2, <1>3, BashTypes, PTL DEF Spec
=============================================================================
