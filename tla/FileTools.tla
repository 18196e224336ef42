------------------------------ MODULE FileTools ------------------------------
(***************************************************************************)
(* The write, edit and read tools working on files at the same time        *)
(* (coding_agent/tools/write.rs, edit.rs, read.rs).                        *)
(*                                                                         *)
(* Write and edit take the mutation lock of their path and then run        *)
(* through awaits at which other calls move: creating directories or       *)
(* reading the file, checking the token, and std::fs::write, which         *)
(* truncates the file before it fills it.  Read takes no lock; an agent    *)
(* that reads a long file calls it again and again, with the offset it was *)
(* told.  One token stands for the cancellation of all the calls.          *)
(***************************************************************************)
EXTENDS Naturals, Sequences, FiniteSets

CONSTANTS
  Calls,       (* calls of the tools                                        *)
  Files,       (* files on disk                                             *)
  Texts,       (* contents a file may have at the start                     *)
  Requests,    (* what a call may ask for                                   *)
  Absent,      (* no file                                                   *)
  MaxLines, MaxBytes   (* DEFAULT_MAX_LINES, DEFAULT_MAX_BYTES              *)

ASSUME FileAssumption ==
  /\ MaxLines \in Nat \ {0} /\ MaxBytes \in Nat \ {0}
  /\ \A r \in Requests : r.kind \in {"write", "edit", "read"} /\ r.file \in Files

VARIABLES
  disk,        (* content of each file                                      *)
  queue,       (* MUTATION_LOCKS: the calls that hold (first) or await each *)
  wanted,      (* request of each call                                      *)
  pc,          (* "idle", "locking", "held", "ready", "writing", "paging",  *)
               (* "over"                                                    *)
  buffer,      (* the text the call is going to write, if there is one      *)
  outcome,     (* "none", "done", "aborted" or "failed"                     *)
  cancelled,   (* the token                                                 *)
  offset,      (* where the reading agent continues                         *)
  seen,        (* lines it has been shown or named, in order                *)
  (* history, read by the properties only *)
  before,      (* content of a file before the write in progress            *)
  steady       (* the reader's file has not been touched since it began     *)

vars == <<disk, queue, wanted, pc, buffer, outcome, cancelled, offset, seen,
          before, steady>>
readVars == <<offset, seen, steady>>

Text == INSTANCE EditText
Show == INSTANCE ReadPage

Idle == [kind |-> "none"]
File(c) == wanted[c].file

Init ==
  /\ disk \in [Files -> Texts \cup {Absent}]
  /\ queue = [f \in Files |-> <<>>]
  /\ wanted = [c \in Calls |-> Idle]
  /\ pc = [c \in Calls |-> "idle"]
  /\ buffer = [c \in Calls |-> Text!Rejected]
  /\ outcome = [c \in Calls |-> "none"]
  /\ cancelled = FALSE
  /\ offset = [c \in Calls |-> 1] /\ seen = [c \in Calls |-> <<>>]
  /\ before = disk
  /\ steady = [c \in Calls |-> TRUE]

To(c, where) == pc' = [pc EXCEPT ![c] = where]

Cancel ==
  /\ ~cancelled
  /\ cancelled' = TRUE
  /\ UNCHANGED <<disk, queue, wanted, pc, buffer, outcome, readVars, before>>

(* A call arrives; write and edit join the queue of their path. *)
Ask(c) ==
  /\ pc[c] = "idle"
  /\ \E r \in Requests :
       /\ wanted' = [wanted EXCEPT ![c] = r]
       /\ To(c, IF r.kind = "read" THEN "paging" ELSE "locking")
       /\ queue' = IF r.kind = "read" THEN queue
                   ELSE [queue EXCEPT ![r.file] = Append(@, c)]
  /\ UNCHANGED <<disk, buffer, outcome, cancelled, readVars, before>>

-----------------------------------------------------------------------------
(* The mutation queue. *)

AnyPlace(c) == TRUE    \* mutant: nobody waits

(* tokio's mutex is fair: the lock passes on in the order of arrival. *)
FirstInLine(c) == Head(queue[File(c)]) = c

KeepsPlace(c) == UNCHANGED queue    \* mutant: the guard is leaked

(* The guard is dropped, and the next in line holds the lock. *)
Leave(c) == queue' = [queue EXCEPT ![File(c)] = Tail(@)]

Finish(c, how) ==
  /\ To(c, "over")
  /\ outcome' = [outcome EXCEPT ![c] = how]
  /\ UNCHANGED <<wanted, cancelled, readVars>>

(* The lock is held; the first check of the token. *)
Enter(c) ==
  /\ pc[c] = "locking" /\ FirstInLine(c)
  /\ To(c, "held")
  /\ UNCHANGED <<disk, queue, wanted, buffer, outcome, cancelled, readVars, before>>

(* "Operation aborted", at either check. *)
Abort(c) ==
  /\ pc[c] \in {"held", "ready"} /\ cancelled
  /\ Leave(c)
  /\ Finish(c, "aborted")
  /\ UNCHANGED <<disk, buffer, before>>

Result(c) == IF wanted[c].kind = "write" THEN Text!Applied(wanted[c].text)
             ELSE Text!Edited(disk[File(c)], wanted[c].edits)

(* create_dir_all, or exists() and read_to_string; what will be written is  *)
(* decided by what is read now.                                             *)
Prepare(c) ==
  /\ pc[c] = "held" /\ ~cancelled
  /\ wanted[c].kind = "edit" => disk[File(c)] # Absent
  /\ To(c, "ready")
  /\ buffer' = [buffer EXCEPT ![c] = Result(c)]
  /\ UNCHANGED <<disk, queue, wanted, outcome, cancelled, readVars, before>>

(* No such file, or the file system refused. *)
PrepareFails(c) ==
  /\ pc[c] = "held" /\ ~cancelled
  /\ Leave(c)
  /\ Finish(c, "failed")
  /\ UNCHANGED <<disk, buffer, before>>

(* The replacements do not apply: nothing is written. *)
Refuse(c) ==
  /\ pc[c] = "ready" /\ ~cancelled /\ ~buffer[c].ok
  /\ Leave(c)
  /\ Finish(c, "failed")
  /\ UNCHANGED <<disk, buffer, before>>

Touched(f) == steady' = [c \in Calls |-> steady[c] /\ (pc[c] = "idle" \/ File(c) # f)]

(* std::fs::write opens the file and truncates it ... *)
BeginWrite(c) ==
  /\ pc[c] = "ready" /\ ~cancelled /\ buffer[c].ok
  /\ disk' = [disk EXCEPT ![File(c)] = <<>>]
  /\ before' = [before EXCEPT ![File(c)] = disk[File(c)]]
  /\ Touched(File(c))
  /\ To(c, "writing")
  /\ UNCHANGED <<queue, wanted, buffer, outcome, cancelled, offset, seen>>

(* ... and then fills it, or fails and leaves it as it is. *)
EndWrite(c) ==
  /\ pc[c] = "writing"
  /\ disk' = [disk EXCEPT ![File(c)] = buffer[c].text]
  /\ before' = [before EXCEPT ![File(c)] = buffer[c].text]
  /\ Touched(File(c))
  /\ Leave(c)
  /\ To(c, "over")
  /\ outcome' = [outcome EXCEPT ![c] = "done"]
  /\ UNCHANGED <<wanted, buffer, cancelled, offset, seen>>

WriteFails(c) ==
  /\ pc[c] = "writing"
  /\ before' = [before EXCEPT ![File(c)] = disk[File(c)]]
  /\ Leave(c)
  /\ Finish(c, "failed")
  /\ UNCHANGED <<disk, buffer>>

-----------------------------------------------------------------------------
(* Reading page by page. *)

PageOf(c) == Show!Page(disk[File(c)], offset[c], wanted[c].limit)

Numbers(from, to) == [i \in 1 .. (to + 1 - from) |-> from + i - 1]

(* No file, or an offset beyond the end. *)
Unreadable(c) == IF disk[File(c)] = Absent THEN TRUE ELSE ~PageOf(c).ok

(* One call of read.  The agent takes up the offset it is given; of a line  *)
(* that is only named it knows the number, and it goes on behind it.        *)
ReadOn(c) ==
  /\ pc[c] = "paging" /\ ~cancelled /\ ~Unreadable(c)
  /\ LET page == PageOf(c)
         rest == IF page.named = {} THEN page.next
                 ELSE IF Len(Show!SplitLines(disk[File(c)])) > page.from THEN page.from + 1
                 ELSE Show!Whole
     IN  /\ seen' = [seen EXCEPT ![c] = @ \o (IF page.named = {} THEN Numbers(page.from, page.to)
                                              ELSE <<page.from>>)]
         /\ offset' = [offset EXCEPT ![c] = rest]
         /\ pc' = [pc EXCEPT ![c] = IF rest = Show!Whole THEN "over" ELSE @]
         /\ outcome' = [outcome EXCEPT ![c] = IF rest = Show!Whole THEN "done" ELSE @]
  /\ UNCHANGED <<disk, queue, wanted, buffer, cancelled, before, steady>>

ReadStops(c) ==
  /\ pc[c] = "paging"
  /\ IF cancelled THEN TRUE ELSE Unreadable(c)
  /\ Finish(c, IF cancelled THEN "aborted" ELSE "failed")
  /\ UNCHANGED <<disk, queue, buffer, before>>

-----------------------------------------------------------------------------
Step(c) ==
  \/ Enter(c) \/ Abort(c) \/ Prepare(c) \/ PrepareFails(c) \/ Refuse(c)
  \/ BeginWrite(c) \/ EndWrite(c) \/ WriteFails(c) \/ ReadOn(c) \/ ReadStops(c)

(* All calls have been answered; there is nothing left to do. *)
Finished == (\A c \in Calls : pc[c] = "over") /\ UNCHANGED vars

Next == Cancel \/ Finished \/ \E c \in Calls : Ask(c) \/ Step(c)

Spec == Init /\ [][Next]_vars

-----------------------------------------------------------------------------
(* Properties. *)

TypeOK ==
  /\ queue \in [Files -> Seq(Calls)]
  /\ wanted \in [Calls -> Requests \cup {Idle}]
  /\ pc \in [Calls -> {"idle", "locking", "held", "ready", "writing", "paging", "over"}]
  /\ outcome \in [Calls -> {"none", "done", "aborted", "failed"}]
  /\ cancelled \in BOOLEAN
  /\ steady \in [Calls -> BOOLEAN]

(* The file as its writer found it, until the write is complete. *)
Settled == [f \in Files |->
              IF \E c \in Calls : pc[c] = "writing" /\ File(c) = f THEN before[f] ELSE disk[f]]

Contract == INSTANCE FileContract WITH text <- Settled

(* Each call takes effect at once or not at all: no update of another call  *)
(* is lost between the read and the write of an edit, and the text an edit  *)
(* writes is the text it found with exactly the named regions replaced.     *)
KeepsFileContract == Contract!Spec

(* Following the offsets the read tool gives, an agent is shown every line  *)
(* of a file that nobody changes once and in order, overlong lines by their *)
(* number, whatever cut the pages short: lines, bytes or its own limit.     *)
PagesCoverFile ==
  \A c \in Calls :
    wanted[c].kind = "read" /\ outcome[c] = "done" /\ steady[c] =>
      seen[c] = Numbers(1, Len(Show!SplitLines(disk[File(c)])))

(* What the bash tool shows of a file that a command prints: its last       *)
(* complete lines, as many as the limits allow, and the note below them     *)
(* names just these.                                                        *)
TailsNamed ==
  \A f \in Files : disk[f] # Absent =>
    LET all   == Show!CountedLines(disk[f])
        tail  == Show!TruncateTail(disk[f])
        start == Show!StartLine(disk[f])
        From(i) == SubSeq(all, i, Len(all))
        Fits(lines) == Len(lines) <= MaxLines /\ Len(Show!JoinLines(lines)) <= MaxBytes
    IN  /\ tail.lines = From(start)
        /\ tail.truncated => Fits(tail.lines)
        /\ start > 1 => ~Fits(From(start - 1))

(* What an edit makes of the text that is there is that text with exactly   *)
(* the named regions replaced: the algorithm of edit.rs, which searches and *)
(* replaces from the back, gives a result that the contract allows.         *)
EditsFaithful ==
  \A c \in Calls :
    (pc[c] = "held" /\ wanted[c].kind = "edit" /\ disk[File(c)] # Absent /\ Result(c).ok) =>
      Result(c).text \in Contract!RawResults(disk[File(c)], wanted[c].edits)

(* However much of a text does not fit, the agent can tell which lines it   *)
(* has been shown, and an edit of any of these texts is true to it.         *)
TextsAccountedFor == PagesCoverFile /\ TailsNamed /\ EditsFaithful

(* The lock of a path is held by a call that is at work on it, or by nobody: *)
(* no way out of a call - an abort at either check, a refusal, an error of   *)
(* the file system - leaves those behind it waiting for ever.                *)
LocksAreReleased ==
  \A f \in Files : queue[f] # <<>> =>
    /\ pc[Head(queue[f])] \in {"locking", "held", "ready", "writing"}
    /\ \A i \in 2 .. Len(queue[f]) : pc[queue[f][i]] = "locking"
=============================================================================
