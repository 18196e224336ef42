----------------------------- MODULE SessionTree -----------------------------
(***************************************************************************)
(* The session tree (agent/session): what the operations of Session do to  *)
(* a storage that never fails, which is what InMemorySessionStorage is and *)
(* what JsonlSessionStorage is to implement (see SessionStore).            *)
(*                                                                         *)
(* The storage is an append-only list of entries, each naming its parent,  *)
(* with two caches beside it: the leaf, where the next entry is attached,  *)
(* and the labels.  Moving the leaf is itself an appended entry.           *)
(*                                                                         *)
(* Entries that differ only in their payload are one kind, "plain": those  *)
(* that become a message of the context (messages and custom messages).    *)
(* The ones that do not (model, thinking level and tool changes, custom    *)
(* entries, session names) are to a branch what a label is.                *)
(***************************************************************************)
EXTENDS Naturals, Sequences

CONSTANTS
  Ids,          (* entry identifiers                                       *)
  NoId,         (* None                                                    *)
  RootId,       (* the literal "root", which is no entry's identifier      *)
  Names,        (* labels that are not blank                               *)
  NoName        (* a blank or absent label                                 *)

(* What the constants must be, for whoever uses this module. *)
TreeAssumption ==
  /\ NoId \notin Ids /\ RootId \notin Ids /\ NoId # RootId
  /\ NoName \notin Names

VARIABLES
  entries,      (* every entry, in append order                            *)
  labels,       (* labels_by_id                                            *)
  leaf,         (* leaf_id                                                 *)
  owed          (* the target whose summary move_to has still to append    *)

vars == <<entries, labels, leaf, owed>>

Kinds == {"plain", "label", "leaf", "branch_summary", "compaction"}

EntryType ==
  [id : Ids, parent : Ids \cup {NoId, RootId}, kind : Kinds,
   target : Ids \cup {NoId, RootId}, name : Names \cup {NoName}]

TypeOK ==
  /\ entries \in Seq(EntryType)
  /\ labels \in [Ids -> Names \cup {NoName}]
  /\ leaf \in Ids \cup {NoId}
  /\ owed \in Ids \cup {NoId, RootId}

Init ==
  /\ entries = <<>>
  /\ labels = [id \in Ids |-> NoName]
  /\ leaf = NoId
  /\ owed = NoId

(* The keys of by_id. *)
Known == {entries[i].id : i \in DOMAIN entries}

ReuseIds == Ids                     \* mutant: by_id is not asked

(* create_entry_id avoids the identifiers in use. *)
FreshIds == Ids \ Known

(* get_leaf_id answers None for a leaf that is no entry. *)
CurrentLeaf == IF leaf \in Known THEN leaf ELSE NoId

-----------------------------------------------------------------------------
(* The entries that the operations append. *)

Entry(id, parent, kind, target, name) ==
  [id |-> id, parent |-> parent, kind |-> kind, target |-> target, name |-> name]

PlainEntry(id)       == Entry(id, CurrentLeaf, "plain", NoId, NoName)
LabelEntry(id, t, n) == Entry(id, CurrentLeaf, "label", t, n)
CompactionEntry(id, first) == Entry(id, CurrentLeaf, "compaction", first, NoName)
LeafEntry(id, t)     == Entry(id, leaf, "leaf", t, NoName)

(* The summary hangs below the entry that was moved to, whatever the leaf. *)
SummaryEntry(id)     == Entry(id, owed, "branch_summary", owed, NoName)

(* update_label_cache *)
LabelsAfter(l, e) ==
  IF e.kind = "label" THEN [l EXCEPT ![e.target] = e.name] ELSE l

LeafIsLast(e) == e.id               \* mutant: a leaf entry becomes the leaf
LeafIsRoot(e) ==                    \* mutant: the root's name becomes the leaf
  IF e.kind = "leaf" THEN (IF e.target = NoId THEN RootId ELSE e.target) ELSE e.id

(* leaf_id_after_entry *)
LeafAfter(e) == IF e.kind = "leaf" THEN e.target ELSE e.id

Add(e) ==
  /\ entries' = Append(entries, e)
  /\ labels' = LabelsAfter(labels, e)
  /\ leaf' = LeafAfter(e)

-----------------------------------------------------------------------------
(* The operations of Session. *)

(* append_message and its siblings *)
AppendPlain(id) == owed = NoId /\ Add(PlainEntry(id)) /\ UNCHANGED owed

(* append_compaction does not look up the first entry to keep: NoId stands *)
(* for an identifier that no entry has.                                    *)
AppendCompaction(id, first) ==
  owed = NoId /\ Add(CompactionEntry(id, first)) /\ UNCHANGED owed

AnyTarget == Ids                    \* mutant: targets are not looked up

(* append_label and move_to accept only entries that exist. *)
Targets == Known

AppendLabel(id, t, n) ==
  /\ owed = NoId
  /\ t \in Targets
  /\ Add(LabelEntry(id, t, n))
  /\ UNCHANGED owed

(* entry_id.unwrap_or("root") *)
SummaryParent(t) == IF t = NoId THEN RootId ELSE t

(* move_to appends a leaf entry, and then the summary if one was given. *)
MoveTo(id, t, summarised) ==
  /\ owed = NoId
  /\ t \in Targets \cup {NoId}
  /\ Add(LeafEntry(id, t))
  /\ owed' = IF summarised THEN SummaryParent(t) ELSE NoId

AddSummary(id) == owed # NoId /\ Add(SummaryEntry(id)) /\ owed' = NoId

(* The storage refuses the summary: the leaf has moved all the same. *)
SummaryFails == owed # NoId /\ owed' = NoId /\ UNCHANGED <<entries, labels, leaf>>

(* clear: the storage is replaced by an empty one, which is in memory. *)
Clear ==
  /\ owed = NoId
  /\ entries # <<>>
  /\ entries' = <<>>
  /\ labels' = [id \in Ids |-> NoName]
  /\ leaf' = NoId
  /\ UNCHANGED owed

Next ==
  \/ \E id \in FreshIds :
       \/ AppendPlain(id)
       \/ \E first \in Known \cup {NoId} : AppendCompaction(id, first)
       \/ \E t \in Ids, n \in Names \cup {NoName} : AppendLabel(id, t, n)
       \/ \E t \in Ids \cup {NoId}, summarised \in BOOLEAN : MoveTo(id, t, summarised)
       \/ AddSummary(id)
  \/ SummaryFails
  \/ Clear

Spec == Init /\ [][Next]_vars

-----------------------------------------------------------------------------
(***************************************************************************)
(* Reading: get_path_to_root and get_branch, which messages filters.       *)
(***************************************************************************)

IndexOf(id) == CHOOSE i \in DOMAIN entries : entries[i].id = id

(* Whether the walk from an entry to the root meets only entries. *)
Walks ==
  LET f[i \in DOMAIN entries] ==
        \/ entries[i].parent = NoId
        \/ entries[i].parent \in Known /\ f[IndexOf(entries[i].parent)]
  IN  f

Path ==
  LET f[i \in DOMAIN entries] ==
        IF entries[i].parent = NoId THEN <<entries[i]>>
        ELSE Append(f[IndexOf(entries[i].parent)], entries[i])
  IN  f

BranchExists == CurrentLeaf = NoId \/ Walks[IndexOf(CurrentLeaf)]

(* get_branch(None); the error of a walk that fails is the empty branch,   *)
(* as messages and build_context make it.                                  *)
Branch ==
  IF CurrentLeaf = NoId \/ ~BranchExists THEN <<>> ELSE Path[IndexOf(CurrentLeaf)]

HasMessage(e) == e.kind \in {"plain", "branch_summary", "compaction"}

Messages(es) == SelectSeq(es, HasMessage)

(* The entries of a path from the first with an identifier on. *)
From(path, id) ==
  LET at == {i \in DOMAIN path : path[i].id = id}
  IN  IF at = {} THEN <<>> ELSE SubSeq(path, CHOOSE i \in at : TRUE, Len(path))

OldestCounts(S) == CHOOSE i \in S : \A j \in S : i <= j  \* mutant: the first compaction

(* rposition *)
Latest(S) == CHOOSE i \in S : \A j \in S : j <= i

(* default_context_entry_transform: the latest compaction comes first, and *)
(* before it only what it keeps.                                           *)
Compacted(path) ==
  LET marks == {i \in DOMAIN path : path[i].kind = "compaction"}
      mark  == Latest(marks)
  IN  IF marks = {} THEN path
      ELSE <<path[mark]>> \o From(SubSeq(path, 1, mark - 1), path[mark].target)
             \o SubSeq(path, mark + 1, Len(path))

(* build_context *)
Context == Messages(Compacted(Branch))

HidesOrphans(j) ==                  \* mutant: only an entry without parent is a root
  IF entries[j].parent = NoId THEN 0
  ELSE IF entries[j].parent \in Known THEN IndexOf(entries[j].parent) ELSE j

(* /tree: the row that an entry is listed below, or 0 for a root.          *)
ParentOf(j) == IF entries[j].parent \in Known THEN IndexOf(entries[j].parent) ELSE 0

(* under[i] is what is listed below entry i so far, and under[0] the roots *)
(* with what hangs below them.                                             *)
NothingUnder == [i \in 0 .. Len(entries) |-> <<>>]

(* An entry, followed by what hangs below it, comes before the siblings    *)
(* that were appended after it.                                            *)
Hang(j, under) == [under EXCEPT ![ParentOf(j)] = <<entries[j]>> \o under[j] \o @]

(* The rows of /tree, from the last entry to the first.                    *)
Listing ==
  LET under[j \in 1 .. Len(entries) + 1] ==
        IF j > Len(entries) THEN NothingUnder ELSE Hang(j, under[j + 1])
  IN  under[1][0]

-----------------------------------------------------------------------------
(***************************************************************************)
(* Properties.                                                             *)
(***************************************************************************)

(* No identifier is used twice, and every parent was appended before its   *)
(* child, so the walk of get_path_to_root ends; the one parent that is no  *)
(* entry at all is that of a summary of a move to the root.                *)
TreeRooted ==
  \A i \in DOMAIN entries :
    /\ \A j \in DOMAIN entries : entries[i].id = entries[j].id => i = j
    /\ \/ entries[i].parent = NoId
       \/ \E j \in 1 .. i - 1 : entries[i].parent = entries[j].id
       \/ entries[i].parent = RootId /\ entries[i].kind = "branch_summary"

(* The leaf and every labelled identifier is an entry: get_leaf_id never   *)
(* hides a leaf, so a message is never attached to nothing by accident.    *)
CachesPointAtEntries ==
  /\ leaf \in Known \cup {NoId}
  /\ \A id \in Ids : labels[id] # NoName => id \in Known
  /\ owed \in Known \cup {NoId, RootId}

(* The tree is rooted, and what is cached of it is in it.                  *)
TreeConsistent == TreeRooted /\ CachesPointAtEntries

(* What the model is asked with only grows while nobody moves the leaf: an *)
(* append extends the branch by its entry and the context by its message,  *)
(* also after a compaction; a compaction replaces the context by itself    *)
(* and what it keeps of the branch; and a move changes the branch to the   *)
(* path that leads to its target.                                          *)
BranchGrows ==
  [][Len(entries') > Len(entries) =>
       LET e == entries'[Len(entries')] IN
         /\ (e.kind # "leaf" /\ e.parent # RootId /\ BranchExists) =>
              /\ Branch' = Append(Branch, e)
              /\ Context' = IF e.kind = "compaction"
                            THEN <<e>> \o Messages(From(Branch, e.target))
                            ELSE Context \o Messages(<<e>>)
         /\ e.kind = "leaf" =>
              Branch' = IF e.target = NoId \/ ~Walks[IndexOf(e.target)] THEN <<>>
                        ELSE Path[IndexOf(e.target)]]_vars

(* Whatever has been moved and branched, /tree shows every entry once.     *)
EveryEntryListed ==
  /\ Len(Listing) = Len(entries)
  /\ \A i \in DOMAIN entries : \E k \in DOMAIN Listing : Listing[k] = entries[i]

(* What the comment on get_branch says: the current branch is the path     *)
(* from the leaf to the root, so there is one.                             *)
EveryLeafHasABranch == BranchExists
=============================================================================
