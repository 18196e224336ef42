----------------------------- MODULE SessionStore -----------------------------
(***************************************************************************)
(* JsonlSessionStorage (agent/session/jsonl.rs) under the operations of    *)
(* Session: each entry is appended to a file as a JSON line and only then  *)
(* added to the entries, labels and leaf that SessionTree speaks of.       *)
(*                                                                         *)
(* The file is a sequence of pieces as they reach it.  append_json_line    *)
(* makes two writes: tokio's File answers a write once it is handed to the *)
(* blocking pool, and waits for it, with its error, at the next write.  So *)
(* the JSON has reached the file when the append is acknowledged, while    *)
(* the newline, which nobody waits for, may come later, even after the     *)
(* next append's JSON, or never.  The header's newline is no different,    *)
(* except that its file was not opened for appending: it is written where  *)
(* the header ends, over what is there by then.                            *)
(*                                                                         *)
(* Session::clear drops this storage for one in memory and is left out.    *)
(*                                                                         *)
(* After a crash, entries, labels, leaf and owed stand for what had been   *)
(* acknowledged until open reads the file and sets them anew.              *)
(***************************************************************************)
EXTENDS Naturals, Sequences, SequencesExt

CONSTANTS Ids, NoId, RootId, Names, NoName,
  MaxFaults     (* bound: failed opens and writes, lost newlines, crashes  *)


VARIABLES
  entries, labels, leaf, owed,   (* the storage's memory and move_to's     *)
  pc,           (* where append_entry is, or that the process is down      *)
  pending,      (* the entry being appended, and what move_to owes then    *)
  file,         (* the pieces of the file                                  *)
  newlines,     (* newlines of appends that have not reached the file      *)
  headerEnd,    (* whether the header's newline is still to come           *)
  faults

tree == <<entries, labels, leaf, owed>>
disk == <<file, newlines, headerEnd>>
vars == <<entries, labels, leaf, owed, pc, pending, file, newlines, headerEnd, faults>>

Tree == INSTANCE SessionTree

ASSUME StoreAssumption == MaxFaults \in Nat /\ Tree!TreeAssumption

Header      == [piece |-> "header"]
Newline     == [piece |-> "newline"]
Torn        == [piece |-> "torn"]
Json(e)     == [piece |-> "entry", entry |-> e]
Job(e, o)   == [entry |-> e, owed |-> o]
NoJob       == [owed |-> NoId]

Phases == {"ready", "opening", "writing", "written", "down"}

TypeOK ==
  /\ Tree!TypeOK
  /\ pc \in Phases
  /\ pending \in {NoJob} \cup [entry : Tree!EntryType, owed : Ids \cup {NoId, RootId}]
  /\ file \in Seq({Header, Newline, Torn} \cup {Json(e) : e \in Tree!EntryType})
  /\ newlines \in Nat
  /\ headerEnd \in BOOLEAN
  /\ faults \in 0 .. MaxFaults

(* create has been acknowledged. *)
Init ==
  /\ Tree!Init
  /\ pc = "ready"
  /\ pending = NoJob
  /\ file = <<Header>>
  /\ newlines = 0
  /\ headerEnd = TRUE
  /\ faults = 0

Fault == faults < MaxFaults /\ faults' = faults + 1

-----------------------------------------------------------------------------
(* append_entry, from serialising the entry to updating the memory. *)

Begin(e, o) ==
  /\ pc = "ready"
  /\ pc' = "opening"
  /\ pending' = Job(e, o)
  /\ UNCHANGED <<entries, labels, leaf, owed, file, newlines, headerEnd, faults>>

AppendPlain(id) == owed = NoId /\ Begin(Tree!PlainEntry(id), NoId)

AppendCompaction(id, first) == owed = NoId /\ Begin(Tree!CompactionEntry(id, first), NoId)

AppendLabel(id, t, n) ==
  owed = NoId /\ t \in Tree!Targets /\ Begin(Tree!LabelEntry(id, t, n), NoId)

MoveTo(id, t, summarised) ==
  /\ owed = NoId
  /\ t \in Tree!Targets \cup {NoId}
  /\ Begin(Tree!LeafEntry(id, t), IF summarised THEN Tree!SummaryParent(t) ELSE NoId)

AddSummary(id) == owed # NoId /\ Begin(Tree!SummaryEntry(id), NoId)

Opened ==
  /\ pc = "opening"
  /\ pc' = "writing"
  /\ UNCHANGED <<entries, labels, leaf, owed, pending, file, newlines, headerEnd, faults>>

JsonLands ==
  /\ pc = "writing"
  /\ pc' = "written"
  /\ file' = Append(file, Json(pending.entry))
  /\ UNCHANGED <<entries, labels, leaf, owed, pending, newlines, headerEnd, faults>>

WriteNotAwaited == pc \in {"writing", "written"}   \* mutant: the newline's write does not wait

(* The newline is handed over once the JSON is known to be written. *)
JsonWritten == pc = "written"

Acknowledge ==
  /\ JsonWritten
  /\ Tree!Add(pending.entry)
  /\ owed' = pending.owed
  /\ newlines' = newlines + 1
  /\ pc' = "ready"
  /\ pending' = NoJob
  /\ UNCHANGED <<file, headerEnd, faults>>

(* What a write that fails, or that a crash cuts short, leaves behind. *)
Remains == {file, Append(file, Torn)}

(* The open or the JSON's write fails: append_entry returns the error      *)
(* before it touches the memory, and a summary is given up by move_to.     *)
AppendFails ==
  /\ pc \in {"opening", "writing"}
  /\ Fault
  /\ file' \in IF pc = "opening" THEN {file} ELSE Remains
  /\ pc' = "ready"
  /\ pending' = NoJob
  /\ owed' = NoId
  /\ UNCHANGED <<entries, labels, leaf, newlines, headerEnd>>

-----------------------------------------------------------------------------
(* The newlines, on threads of the blocking pool. *)

NewlineLands ==
  /\ newlines > 0
  /\ newlines' = newlines - 1
  /\ file' = Append(file, Newline)
  /\ UNCHANGED <<entries, labels, leaf, owed, pc, pending, headerEnd, faults>>

(* Its error is never asked for. *)
NewlineFails ==
  /\ newlines > 0
  /\ newlines' = newlines - 1
  /\ Fault
  /\ UNCHANGED <<entries, labels, leaf, owed, pc, pending, file, headerEnd>>

(* At the header's end: an entry that came first loses its first byte. *)
WithHeaderEnd(f) ==
  <<Header, Newline>> \o (IF Len(f) = 1 THEN <<>> ELSE <<Torn>> \o SubSeq(f, 3, Len(f)))

HeaderEndLands ==
  /\ headerEnd
  /\ headerEnd' = FALSE
  /\ file' = WithHeaderEnd(file)
  /\ UNCHANGED <<entries, labels, leaf, owed, pc, pending, newlines, faults>>

HeaderEndFails ==
  /\ headerEnd
  /\ headerEnd' = FALSE
  /\ Fault
  /\ UNCHANGED <<entries, labels, leaf, owed, pc, pending, file, newlines>>

-----------------------------------------------------------------------------
(* The process is killed, and the session opened again. *)

Crash ==
  /\ pc # "down"
  /\ Fault
  /\ pc' = "down"
  /\ newlines' = 0
  /\ headerEnd' = FALSE
  /\ file' \in IF pc = "writing" THEN Remains \cup {Append(file, Json(pending.entry))} ELSE {file}
  /\ UNCHANGED <<entries, labels, leaf, owed, pending>>

One(S) == CHOOSE x \in S : TRUE

(* The k-th of a set of numbers, as a set. *)
Nth(S, k) == {i \in S : Cardinality({j \in S : j <= i}) = k}

Jsons(f) == {i \in DOMAIN f : f[i].piece = "entry"}

(* The entries of the lines, in the order of the lines. *)
EntriesIn(f) ==
  [k \in 1 .. Cardinality(Jsons(f)) |-> One({f[i].entry : i \in Nth(Jsons(f), k)})]

(* Every line that is not blank has to parse: one header or entry each. *)
Opens(f) ==
  \A i \in DOMAIN f :
    /\ f[i] # Torn
    /\ f[i] # Newline /\ i > 1 => f[i - 1] = Newline

(* The entries are replayed in order: of an identifier's labels the last   *)
(* counts.                                                                 *)
LabelsFor(es, id) == {i \in DOMAIN es : es[i].kind = "label" /\ es[i].target = id}

LabelsOf(es) ==
  [id \in Ids |->
     IF LabelsFor(es, id) = {} THEN NoName
     ELSE One({es[i].name : i \in {i \in LabelsFor(es, id) : \A j \in LabelsFor(es, id) : j <= i}})]

LastIsLeaf(es) == IF es = <<>> THEN NoId ELSE Last(es).id  \* mutant: targets are not replayed

LeafOf(es) == IF es = <<>> THEN NoId ELSE Tree!LeafAfter(Last(es))

(* open: a session with a line that does not parse is refused. *)
Reopen ==
  /\ pc = "down"
  /\ Opens(file)
  /\ entries' = EntriesIn(file)
  /\ labels' = LabelsOf(EntriesIn(file))
  /\ leaf' = LeafOf(EntriesIn(file))
  /\ owed' = NoId
  /\ pc' = "ready"
  /\ pending' = NoJob
  /\ UNCHANGED <<file, newlines, headerEnd, faults>>

-----------------------------------------------------------------------------
Next ==
  \/ \E id \in Tree!FreshIds :
       \/ AppendPlain(id)
       \/ \E first \in Tree!Known \cup {NoId} : AppendCompaction(id, first)
       \/ \E t \in Ids, n \in Names \cup {NoName} : AppendLabel(id, t, n)
       \/ \E t \in Ids \cup {NoId}, summarised \in BOOLEAN : MoveTo(id, t, summarised)
       \/ AddSummary(id)
  \/ Opened \/ JsonLands \/ Acknowledge \/ AppendFails
  \/ NewlineLands \/ NewlineFails \/ HeaderEndLands \/ HeaderEndFails
  \/ Crash \/ Reopen

Spec == Init /\ [][Next]_vars

-----------------------------------------------------------------------------
(***************************************************************************)
(* Properties.                                                             *)
(***************************************************************************)

(* The JSONL storage is a session tree: through failed appends, crashes    *)
(* and reopening, whatever it answers is what a storage that never fails   *)
(* could answer after the same operations, the interrupted one done or not *)
(* done.                                                                   *)
ImplementsTree == Tree!Spec

(* A file that opens holds what was acknowledged, in order, and at most    *)
(* the one entry whose append was under way: nothing acknowledged is lost  *)
(* and no failed append comes back.                                        *)
AcknowledgedKept ==
  Opens(file) =>
    \/ EntriesIn(file) = entries
    \/ /\ pc \in {"written", "down"} /\ pending # NoJob
       /\ EntriesIn(file) = Append(entries, pending.entry)

(* The session tree's own properties (see there), of the entries, labels   *)
(* and leaf that this storage keeps, through failures and reopening.       *)
TreeConsistent   == Tree!TreeConsistent
EveryEntryListed == Tree!EveryEntryListed
BranchGrows      == Tree!BranchGrows

(* No append and no write is under way. *)
Settled == pc = "ready" /\ newlines = 0 /\ ~headerEnd

(* What jsonl.rs says of its format, each line after the header is one     *)
(* entry: when nothing has failed and every write has reached the file, it *)
(* can be opened.                                                          *)
OneEntryPerLine == Settled /\ faults = 0 => Opens(file)
=============================================================================
